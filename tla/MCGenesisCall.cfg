SPECIFICATION Spec
CONSTANTS
    Hosts = {"genesis", "regionalstatistik"}
    None = None
INVARIANTS
    OwnCredentials
    Diagnosed
PROPERTY HalfPairIsNoSource
