SPECIFICATION FairSpec
CONSTANTS
    Lease = {l1, l2, l3}
    Owner = {o1, o2, o3}
    NoLease = NoLease
    NoOwner = NoOwner
    MaxActiveTurns = 1
    MaxQueuedPrompts = 2
INVARIANTS TablesExact MutationExclusive WorkConserving
PROPERTIES ActiveEndsByRelease FifoPromotion WaiterAnswered
CHECK_DEADLOCK FALSE
