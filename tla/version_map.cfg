CONSTANTS
    Globs = {}
    Star = Star
    Blank = Blank
    None = None
    a = a
    b = b
    cds = cds
    eds = eds
    v1 = v1
    v2 = v2
    rds = rds
    n1 = n1
    x = x
    y = y
    bad = bad
    Names = {a, b}
    Matches <- NoMatches
    Types = {cds, eds}
    TypeOrder <- EnumOrder
    FullStateTypes = {cds}
    VersionInfos = {Blank, v1, v2}
    WithTTL = {}
    Nodes = {n1}
    Streams = {}
    NodeOf <- OneNode
    Ads = TRUE
    Ordered = FALSE
    LegacyWildcard = TRUE
    Snapshots <- TwoSnapshots
    Requests <- OneRequest
    Heartbeating = FALSE
    CtxMayEnd = FALSE
    MaxClears = 0
    Reconnects = FALSE
    MaxSets = 3
    MaxWatchID = 1
    Values = {x, y, bad}
    Unmarshalable = {bad}
    Contents <- BrokenContents
    DeltaStreams = {d1}
    DeltaNodeOf <- OneDeltaNode
    Classified = {cds, eds}
    DeltaRequests <- WithChange
    MaxDeltaWatchID = 3
SPECIFICATION DeltaSpec
INVARIANTS
    WatchingClientIsCurrent
CHECK_DEADLOCK FALSE
