SPECIFICATION FairSpec
CONSTANTS
    o1 = o1
    o2 = o2
    o3 = o3
    p1 = p1
    p2 = p2
    Op = {o1, o2, o3}
    Path = {p1, p2}
    Plain = {v1, v2}
    NoOp = NoOp
    NoDoc = NoDoc
    Writes <- WritesOverlapping
    CanRaise = FALSE
    MaxFailures = 3
PROPERTIES Implements LockReleased
CHECK_DEADLOCK FALSE
