SPECIFICATION PanelSpec
CONSTANTS
    t1 = t1
    t2 = t2
    s1 = s1
    Scope = {t1, t2}
    Subscriber = {s1}
    Filter <- FilterOne
    Mine = s1
    Thread = t1
    NoFloor = NoFloor
    PageLimit = 3
    MaxEvents = 3
    MaxPerScope = 3
    BatchLimit = 2
    HistorySize = 1
    QueueSize = 2
    MaxFailures = 1
INVARIANTS TranscriptComplete
PROPERTIES CursorOnlyRewoundByRefresh
CHECK_DEADLOCK FALSE
