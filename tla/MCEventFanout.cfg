SPECIFICATION FairSpec
CONSTANTS
    t1 = t1
    t2 = t2
    s1 = s1
    Scope = {t1, t2}
    Subscriber = {s1}
    Filter <- FilterOne
    MaxEvents = 2
    MaxPerScope = 1
    BatchLimit = 2
    HistorySize = 1
    QueueSize = 1
    MaxFailures = 2
INVARIANTS NoSilentLoss OnceInOrder SnapshotNeverBehind
PROPERTIES EventuallyHandedOver
CHECK_DEADLOCK FALSE
