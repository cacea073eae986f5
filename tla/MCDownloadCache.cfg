SPECIFICATION Spec
CONSTANTS
    c1 = c1
    c2 = c2
    u1 = u1
    b1 = b1
    b2 = b2
    d1 = d1
    d2 = d2
    dTorn = dTorn
    Torn = Torn
    None = None
    Callers = {c1, c2}
    Urls = {u1}
    Bodies = {b1, b2}
    Digests = {d1, d2, dTorn}
    Sha256 <- MCSha256
    Pins <- MCPins
    HeaderSets <- MCHeaderSets
    MaxAttempts = 1
    MaxTampers = 0
    MaxCrashes = 0
SYMMETRY Symmetry
INVARIANTS
    EntriesAreWhole
    ReturnedPathHoldsBody
    FailedCallWroteNothing
    StoredEntryServesOffline
PROPERTY PromiseKept
