SPECIFICATION FairSpec
CONSTANTS
    Task = {t1, t2}
    Handler = {h1}
    MaxRuns = 2
    MaxManual = 1
    MaxTime = 2
    MaxRevision = 2
    Grace = 0
    MaxFailures = 1
    Inputs = {"user", "manual"}
INVARIANTS NoOverlap OncePerOccurrence ActiveIsAlive
PROPERTIES NeverForgotten
CHECK_DEADLOCK FALSE
