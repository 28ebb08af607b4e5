CONSTANTS
    Star = Star
    Blank = Blank
    None = None
    a = a
    b = b
    cds = cds
    v1 = v1
    v2 = v2
    n1 = n1
    Globs = {}
    Names = {a, b}
    Matches <- NoMatches
    Types = {cds}
    TypeOrder <- EnumOrder
    FullStateTypes = {cds}
    VersionInfos = {Blank, v1, v2}
    WithTTL = {a}
    Nodes = {n1}
    Streams = {c1}
    NodeOf <- OneNode
    Ads = TRUE
    Ordered = FALSE
    LegacyWildcard = TRUE
    Snapshots <- AllSnapshots
    Requests = {}
    Heartbeating = FALSE
    CtxMayEnd = FALSE
    Reconnects = TRUE
    MaxSets = 2
    MaxClears = 0
    MaxWatchID = 30
    Wanted <- Unused
    MaxChanges = 0
    MaxRejections = 1
    Restarts = FALSE
    MaxBreaks = 1
    MaxHeartbeats = 0
    TypeURL <- Clusters
    Pollers = {p1}
    PollerNode <- NodeOfPoller
    PollerType <- TypeOfPoller
    PollerNames <- SomeNames
SPECIFICATION ClientsSpec
INVARIANTS
    ClientsTypeOK
    ApplicationIsCurrent
    JudgesWhatWasReceived
    NotModifiedMeansCurrent
PROPERTIES
    ApplicationBecomesCurrent
    PollerBecomesCurrent
