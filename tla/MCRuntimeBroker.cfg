SPECIFICATION Spec
CONSTANTS
    r1 = r1
    r2 = r2
    c1 = c1
    c2 = c2
    Request = {r1, r2}
    Chat = {c1, c2}
    ChatOf <- TwoChats
    MaxQueued = 1
    MaxGeneration = 1
    Inputs = {"admission", "cancel", "delete", "close", "fatal"}
INVARIANTS LeaseExact TurnOwned DeletedIsQuiet
CHECK_DEADLOCK FALSE
