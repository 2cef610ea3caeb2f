SPECIFICATION ResourcesSpec
CONSTANTS
    \* ImageBuilds
    Builders = {b1}
    BuilderAccount <- BuildersAccount
    Images = {i1, i2}
    Specs = {"s1"}
    MaxImages = 2
    MaxBuilds = 1
    CacheHours = 0
    ScanRequired = TRUE
    BuildFaults = {"configmap", "job", "read", "digest", "scan", "mark", "stop"}
    MaxHour = 1
    MaxStops = 1
    \* Volumes
    Tenants = {n1, n2}
    VolumeIds = {v1, v2}
    ClaimNames = {p1, p2}
    MaxVolumes = 2
    VolumeFaults = {"create", "lost", "read", "mark", "delete", "stop"}
    MaxOutages = 1
    \* OAuthGrants
    Grants = {g1}
    RefreshTokens = {t1, t2, t3}
    Exchanges = {q1, q2, q3, q4}
    NoToken = NoToken
    \* SidecarInterpreters
    Calls = {c1, c2}
    Drivers = {d1, d2}
    NoCall = NoCall
    NoDriver = NoDriver
    CodePrints = TRUE
    MaxLines = 1
    \* LanguageServers
    Servers = {s1, s2}
    Asks = {a1, a2}
    MaxServers = 1
    NoServer = NoServer
SYMMETRY BuildersSymmetry
INVARIANTS
    OnlyScannedRuns
    NothingLeft
    RowTellsClaim
    OneChainPerConsent
    AnswersOwn
    NothingLost
CHECK_DEADLOCK FALSE
