CONSTANTS
    a = a
    b = b
    g = g
    Names = {a, b}
    Globs = {g}
    Matches <- GlobOfB
    Star = Star
    Blank = Blank
    None = None
    Values = {x, y}
    Unmarshalable = {}
    SotwStreams = {}
    DeltaStreams = {d1}
    FullState = FALSE
    LegacyWildcard = FALSE
    SotwRequests = {}
    DeltaRequests = {}
    MaxVersion = 2
    MaxWatchID = 4
    Subscriptions0 <- GlobOrWildcard
    LaterTokens = {a}
    ContentsRepeat = TRUE
    MaxChanges = 2
SPECIFICATION ClientSpec
INVARIANTS
    SettledClientIsCurrent
CHECK_DEADLOCK FALSE
