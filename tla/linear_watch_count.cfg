CONSTANTS
    a = a
    b = b
    g = g
    x = x
    Names = {a, b}
    Globs = {g}
    Matches <- GlobOfB
    Star = Star
    Blank = Blank
    None = None
    Values = {x, y}
    Unmarshalable = {y}
    SotwStreams = {s1}
    DeltaStreams = {}
    FullState = FALSE
    LegacyWildcard = FALSE
    SotwRequests <- SomeSotwRequests
    DeltaRequests <- SomeDeltaRequests
    MaxVersion = 2
    MaxWatchID = 2
SPECIFICATION Spec
INVARIANTS
    WatchCountCoversActiveWatches
