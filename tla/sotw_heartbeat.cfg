CONSTANTS
    Globs = {}
    Star = Star
    Blank = Blank
    None = None
    a = a
    b = b
    cds = cds
    eds = eds
    v1 = v1
    v2 = v2
    v3 = v3
    n1 = n1
    Names = {a, b}
    Matches <- NoMatches
    Types = {eds}
    TypeOrder <- EnumOrder
    FullStateTypes = {}
    VersionInfos = {Blank, v1, v2, v3}
    WithTTL = {a}
    Nodes = {n1}
    Streams = {s1}
    NodeOf <- OneNode
    Ads = FALSE
    Ordered = FALSE
    LegacyWildcard = TRUE
    Snapshots <- AllSnapshots
    Requests = {}
    Heartbeating = TRUE
    CtxMayEnd = TRUE
    MaxClears = 0
    Reconnects = TRUE
    MaxSets = 3
    MaxWatchID = 4
    Wanted <- SomeNames
    MaxChanges = 2
    MaxRejections = 0
    Restarts = FALSE
    MaxBreaks = 0
    MaxHeartbeats = 2
SPECIFICATION ClientSpec
INVARIANTS
    SettledClientIsCurrent
CHECK_DEADLOCK FALSE
