SPECIFICATION Spec
CONSTANTS
    c1 = c1
    u1 = u1
    u2 = u2
    b1 = b1
    b2 = b2
    d1 = d1
    d2 = d2
    dTorn = dTorn
    Torn = Torn
    None = None
    Callers = {c1}
    Urls = {u1}
    Bodies = {b1, b2}
    Digests = {d1, d2, dTorn}
    Sha256 <- MCSha256
    Pins <- MCPins
    HeaderSets <- MCHeaderSets
    MaxAttempts = 2
    MaxTampers = 1
    MaxCrashes = 1
INVARIANT
    UnreadableMetaIsAMiss
