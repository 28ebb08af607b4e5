CONSTANTS
    Globs = {}
    Star = Star
    Blank = Blank
    None = None
    a = a
    b = b
    cds = cds
    eds = eds
    v1 = v1
    v2 = v2
    rds = rds
    n1 = n1
    x = x
    y = y
    bad = bad
    Names = {a, b}
    Matches <- NoMatches
    Types = {cds, eds, rds}
    TypeOrder <- EnumOrder
    FullStateTypes = {cds}
    VersionInfos = {Blank, v1, v2}
    WithTTL = {a}
    Nodes = {n1}
    Streams = {s1}
    NodeOf <- OneNode
    Ads = TRUE
    Ordered = FALSE
    LegacyWildcard = TRUE
    Snapshots <- TwoSnapshots
    Requests <- OneRequest
    Heartbeating = TRUE
    CtxMayEnd = TRUE
    MaxClears = 1
    Reconnects = FALSE
    MaxSets = 2
    MaxWatchID = 1
    Values = {x, y, bad}
    Unmarshalable = {bad}
    Contents <- SomeContents
    DeltaStreams = {d1}
    DeltaNodeOf <- OneDeltaNode
    Classified = {cds, eds}
    DeltaRequests <- WithUnclassified
    MaxDeltaWatchID = 2
SPECIFICATION DeltaSpec
INVARIANTS
    DeltaTypeOK
    NoSendOnClosedChannel
    MuxedNeverFull
    WatchingClientIsCurrent
    DeltaSentInOrder
PROPERTIES
    ImplementsWatchService
