SPECIFICATION MCSpec
CONSTANTS
    r1 = r1
    r2 = r2
    k1 = k1
    k2 = k2
    b1 = b1
    b2 = b2
    d1 = d1
    d2 = d2
    dTorn = dTorn
    Torn = Torn
    None = None
    Readers = {r1, r2}
    Keys = {k1, k2}
    Bodies = {b1, b2}
    Digests = {d1, d2, dTorn}
    Sha256 <- MCSha256
    MaxTampers = 1
    MaxCrashes = 1
SYMMETRY Symmetry
INVARIANTS
    HitWins
    ParsedIsReported
    OnlySentTables
    CallRepairsEntry
PROPERTY PromiseKept
