SPECIFICATION FairSpec
CONSTANTS
    r1 = r1
    r2 = r2
    c1 = c1
    c2 = c2
    Request = {r1, r2}
    Chat = {c1, c2}
    ChatOf <- TwoChats
    MaxQueued = 1
    MaxGeneration = 2
    Inputs = {"deadline", "account", "overflow", "steer", "interaction"}
INVARIANTS TerminalFreesCapacity OwnedHasWorker CompletionNotLost
PROPERTY EveryRunEnds
CHECK_DEADLOCK FALSE
