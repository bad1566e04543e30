SPECIFICATION FairSpec
CONSTANTS
    Upload = {u1, u2}
    Request = {r1, r2, r3}
    None = None
    Chunks = 2
    SessionLimit = 1
    TerminalLimit = 0
    MaxFaults = 2
    Client = {c1}
    RetryAttempts = 1
    MaxCalls = 2
    MaxUserActs = 1
INVARIANTS UploadBacked SuccessIsAttachedOnce RetriesAbsorbFaults
PROPERTIES UploadEnds
CHECK_DEADLOCK FALSE
