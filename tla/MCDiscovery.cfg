SPECIFICATION MCSpec
CONSTANTS
    d1 = d1
    d2 = d2
    d3 = d3
    d4 = d4
    None = None
    Datasets = {d1, d2, d3, d4}
    Malformed = {d4}
    PageSizes = {0, 1, 3}
    Limits <- MCLimits
    ServerRows = 2
    StaleCounts = {1, 9}
    MaxChanges = 1
    t1 = t1
    t2 = t2
    c1 = c1
    c2 = c2
    u1 = u1
    word = word
    hash = hash
    hash0 = hash0
    run = run
    userinfo = userinfo
    envName = envName
    ofToken = ofToken
    ofUser = ofUser
    token1 = token1
    user1 = user1
    plainUser = plainUser
    pin = pin
    k1 = k1
    k2 = k2
    Ill = Ill
    Blank = Blank
    Absent = Absent
    Tables = {t1, t2}
    Codes = {c1, c2, ccby, dlby}
    Hosts = {"genesis", "regionalstatistik"}
    FirstYear = 1
    LastYear = 3
    DatasetIds = {d1}
    Urls <- MCUrls
    BaseUrl <- MCBaseUrl
    Options <- MCOptions
    MaxAsks = 2
    Writers = {1, 2}
    Drafts <- MCDrafts
    Environments <- MCEnvironments
    Registries <- MCRegistries
    Results <- MCResults
    TokenRuns = {run, hash}
    Hashes = {hash, hash0}
    EnvNames = {envName, ofUser}
    UserinfoUrls = {userinfo}
    CredentialNames = {"credential_env", "token"}
    Long = {token1, user1, plainUser}
    IdentifierShaped = {user1}
    Holds <- MCHolds
    u2 = u2
    ccby = ccby
    dlby = dlby
    ubal = ubal
    genesisUrl = genesisUrl
    TableUrl = genesisUrl
    DL_DE = dlby
    DaysInYear = 4
    MaxYear = 3
    MaxDecompressed = 2
    Records <- MCRecords
    Content <- MCContent
    KindAt <- MCKindAt
    Accesses <- MCAccesses
    OptionsOf <- MCOptionsOf
    InitialBodies <- MCInitialBodies
    Schema <- MCSchema
    Wanted <- MCWanted
    CC_BY = ccby
    UBA_LICENSE = ubal
    MaxReads = 1
INVARIANTS
    NothingSkipped
    PagesJoin
    LoadedWasWritten
    NothingLostInWriting
    NoCredentialAtRest
    FrameIsTheOnlyOne
    KeysTellSelectionsApart
    LicenceOfTheResourceRead
    CellsKeepTheirPlace
    MeasuresUnderTheirNames
    SignsStayWithTheirValues
PROPERTY SearchEnds
CHECK_DEADLOCK FALSE
