CONSTANTS
    Globs = {}
    Star = Star
    Blank = Blank
    None = None
    a = a
    b = b
    cds = cds
    eds = eds
    v1 = v1
    v2 = v2
    v3 = v3
    n1 = n1
    Names = {a, b}
    Matches <- NoMatches
    Types = {cds, eds}
    TypeOrder <- EnumOrder
    FullStateTypes = {cds}
    VersionInfos = {Blank, v1, v2, v3}
    WithTTL = {a}
    Nodes = {n1}
    Streams = {s1}
    NodeOf <- OneNode
    Ads = TRUE
    Ordered = TRUE
    LegacyWildcard = TRUE
    Snapshots <- GrowAndShrink
    Requests = {}
    Heartbeating = TRUE
    CtxMayEnd = FALSE
    MaxClears = 0
    Reconnects = TRUE
    MaxSets = 2
    MaxWatchID = 30
    Wanted <- AllNames
    MaxChanges = 2
    MaxRejections = 1
    Restarts = TRUE
    MaxBreaks = 1
    MaxHeartbeats = 1
SPECIFICATION FairClientSpec
INVARIANTS
    SettledClientIsCurrent
    TypeOK
    SendNeverBlocks
    WatchesAreCancellable
    SnapshotSentInOrder
PROPERTIES
    ClientBecomesCurrent
CHECK_DEADLOCK FALSE
