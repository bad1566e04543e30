---------------------------- MODULE RuntimeGate ----------------------------
(***************************************************************************)
(* The capacity gate of the Bridge service (runtime_gate.py).  It hands    *)
(* out leases: prompt leases, of which at most MaxActiveTurns are active   *)
(* while up to MaxQueuedPrompts wait in FIFO order, and one exclusive      *)
(* "auth" or "config" lease while no prompt is active or queued.           *)
(*                                                                         *)
(* Every method runs under the gate's own condition, so it is one atomic   *)
(* step here, with two exceptions that the code makes:                     *)
(*   - RuntimeLease.cancel reads the state under the condition, drops it,  *)
(*     and takes it again to finish the lease: two steps;                  *)
(*   - wait_until_active sleeps on the condition between two looks at the  *)
(*     state, and is woken by notify_all or by its deadline.               *)
(* Prompt leases are reserved, cancelled and released by RuntimeBroker     *)
(* with its lock held, so `cancelling' also stands for that lock: while it *)
(* holds a lease no other broker call reaches the gate.  Wait timeouts,    *)
(* close and the auth and config leases do not take that lock.             *)
(***************************************************************************)
EXTENDS Naturals, Sequences, FiniteSets

CONSTANTS
    Lease,              \* the RuntimeLease objects that may be created
    Owner,              \* the client request ids that own prompt leases
    NoLease,            \* Python's None where a lease is expected
    NoOwner,            \* the owner key of an auth or config lease
    MaxActiveTurns,     \* ResourceLimits.max_active_turns
    MaxQueuedPrompts    \* ResourceLimits.max_queued_prompts

ASSUME LimitsAssumption ==
    /\ MaxActiveTurns \in Nat \ {0}
    /\ MaxQueuedPrompts \in Nat

ASSUME NoneAssumption ==
    /\ NoLease \notin Lease
    /\ NoOwner \notin Owner

VARIABLES
    leaseState,     \* _state of every lease object, "unborn" before it exists
    kind,           \* _kind of every lease object
    ownerKey,       \* _owner_key of every lease object
    activePrompts,  \* _active_prompts
    promptLeases,   \* _prompt_leases: the live lease of every owner
    queue,          \* _queue
    authLease,      \* _auth_lease
    configLease,    \* _config_lease
    closed,         \* _closed
    cancelling,     \* the lease between the two halves of cancel()
    waiter          \* where the thread in wait_until_active stands, per lease

gateVars == <<leaseState, kind, ownerKey, activePrompts, promptLeases, queue,
              authLease, configLease, closed>>
vars == <<gateVars, cancelling, waiter>>

-----------------------------------------------------------------------------
Terminal == {"released", "cancelled", "timed_out", "closed"}
LeaseStates == {"unborn", "active", "queued"} \cup Terminal
Kinds == {"none", "prompt", "auth", "config"}

\* "check": about to look at the state; "asleep": in Condition.wait;
\* "late": its deadline has passed and it is about to look once more.
WaiterStates == {"none", "check", "asleep", "late"}

TypeOK ==
    /\ leaseState \in [Lease -> LeaseStates]
    /\ kind \in [Lease -> Kinds]
    /\ ownerKey \in [Lease -> Owner \cup {NoOwner}]
    /\ activePrompts \in Nat
    /\ promptLeases \in [Owner -> Lease \cup {NoLease}]
    /\ queue \in Seq(Lease)
    /\ authLease \in Lease \cup {NoLease}
    /\ configLease \in Lease \cup {NoLease}
    /\ closed \in BOOLEAN
    /\ cancelling \in Lease \cup {NoLease}
    /\ waiter \in [Lease -> WaiterStates]

Init ==
    /\ leaseState = [l \in Lease |-> "unborn"]
    /\ kind = [l \in Lease |-> "none"]
    /\ ownerKey = [l \in Lease |-> NoOwner]
    /\ activePrompts = 0
    /\ promptLeases = [o \in Owner |-> NoLease]
    /\ queue = <<>>
    /\ authLease = NoLease
    /\ configLease = NoLease
    /\ closed = FALSE
    /\ cancelling = NoLease
    /\ waiter = [l \in Lease |-> "none"]

-----------------------------------------------------------------------------
Elements(q) == {q[i] : i \in 1 .. Len(q)}

\* deque.remove: the queue without the entry at position k.
WithoutAt(q, k) ==
    [i \in 1 .. Len(q) - 1 |-> IF i < k THEN q[i] ELSE q[i + 1]]

Without(q, l) ==
    IF \E k \in 1 .. Len(q) : q[k] = l
    THEN WithoutAt(q, CHOOSE k \in 1 .. Len(q) : q[k] = l)
    ELSE q

\* Mutant: nobody is woken.
NotifyNobody(w) == w

\* Condition.notify_all: every sleeping waiter looks at its lease again.
NotifyAll(w) ==
    [l \in Lease |-> IF w[l] = "asleep" THEN "check" ELSE w[l]]

\* Mutant: one slot is never used.
PromotionCountOffByOne(q, n) ==
    IF closed \/ n + 1 >= MaxActiveTurns \/ q = <<>> THEN 0 ELSE 1

\* How many heads of the queue q _promote_locked moves when n are active.
PromotionCount(q, n) ==
    IF closed \/ n >= MaxActiveTurns THEN 0
    ELSE IF Len(q) < MaxActiveTurns - n THEN Len(q) ELSE MaxActiveTurns - n

\* Mutant: the prompts queued last are promoted first.
PromoteLast(l, s, q, n) ==
    LET m == PromotionCount(q, n)
        promoted == {q[Len(q) + 1 - i] : i \in 1 .. m}
    IN  /\ leaseState' = [x \in Lease |->
                            IF x = l THEN s
                            ELSE IF x \in promoted THEN "active"
                            ELSE leaseState[x]]
        /\ activePrompts' = n + m
        /\ queue' = SubSeq(q, 1, Len(q) - m)

\* _promote_locked, after lease l of a prompt has reached the state s, with q
\* the queue and n the number of active prompts that l leaves behind.
Promote(l, s, q, n) ==
    LET m == IF authLease # NoLease \/ configLease # NoLease
             THEN 0 ELSE PromotionCount(q, n)
        promoted == {q[i] : i \in 1 .. m}
    IN  /\ leaseState' = [x \in Lease |->
                            IF x = l THEN s
                            ELSE IF x \in promoted THEN "active"
                            ELSE leaseState[x]]
        /\ activePrompts' = n + m
        /\ queue' = SubSeq(q, m + 1, Len(q))

\* Mutant: a queued prompt that ends gives back a slot it never had.
FinishPromptAlwaysFrees(l, s) ==
    /\ promptLeases' = [promptLeases EXCEPT ![ownerKey[l]] = NoLease]
    /\ Promote(l, s, Without(queue, l), activePrompts - 1)
    /\ UNCHANGED <<authLease, configLease>>

FinishPrompt(l, s) ==
    /\ promptLeases' = [promptLeases EXCEPT ![ownerKey[l]] = NoLease]
    /\ IF leaseState[l] = "active"
       THEN Promote(l, s, queue, activePrompts - 1)
       ELSE Promote(l, s, Without(queue, l), activePrompts)
    /\ UNCHANGED <<authLease, configLease>>

FinishMutation(l, s) ==
    /\ leaseState' = [leaseState EXCEPT ![l] = s]
    /\ authLease' = IF authLease = l THEN NoLease ELSE authLease
    /\ configLease' = IF configLease = l THEN NoLease ELSE configLease
    /\ UNCHANGED <<promptLeases, activePrompts, queue>>

\* _finish_locked; w is the waiter function its caller leaves behind.
FinishLocked(l, s, w) ==
    IF leaseState[l] \in Terminal
    THEN waiter' = w /\ UNCHANGED gateVars
    ELSE /\ IF kind[l] = "prompt" THEN FinishPrompt(l, s) ELSE FinishMutation(l, s)
         /\ waiter' = NotifyAll(w)
         /\ UNCHANGED <<kind, ownerKey, closed>>

-----------------------------------------------------------------------------
\* Mutant: cancel() is called without the broker's lock.
BrokerLockIgnored == TRUE

\* No broker thread is inside cancel(), so its lock can be taken.
BrokerLockFree == cancelling = NoLease

NoMutation == authLease = NoLease /\ configLease = NoLease

\* The object l is created with state s.
NewLease(l, k, o, s) ==
    /\ leaseState[l] = "unborn"
    /\ leaseState' = [leaseState EXCEPT ![l] = s]
    /\ kind' = [kind EXCEPT ![l] = k]
    /\ ownerKey' = [ownerKey EXCEPT ![l] = o]

\* reserve_prompt for an owner that holds no live lease.  The refusals
\* (closed, a mutation in progress, queue full) and the call that returns the
\* owner's existing lease change nothing.
ReservePrompt(o, l) ==
    /\ BrokerLockFree
    /\ ~closed
    /\ NoMutation
    /\ promptLeases[o] = NoLease
    /\ \/ /\ activePrompts < MaxActiveTurns
          /\ NewLease(l, "prompt", o, "active")
          /\ activePrompts' = activePrompts + 1
          /\ UNCHANGED queue
       \/ /\ activePrompts >= MaxActiveTurns
          /\ Len(queue) < MaxQueuedPrompts
          /\ NewLease(l, "prompt", o, "queued")
          /\ queue' = Append(queue, l)
          /\ UNCHANGED activePrompts
    /\ promptLeases' = [promptLeases EXCEPT ![o] = l]
    /\ UNCHANGED <<authLease, configLease, closed, cancelling, waiter>>

\* Mutant: a mutation only looks at the queue.
MutationAllowedBesidePrompts == ~closed /\ NoMutation /\ queue = <<>>

MutationAllowed ==
    /\ ~closed
    /\ NoMutation
    /\ activePrompts = 0
    /\ queue = <<>>

\* acquire_auth_mutation
AcquireAuthMutation(l) ==
    /\ MutationAllowed
    /\ NewLease(l, "auth", NoOwner, "active")
    /\ authLease' = l
    /\ UNCHANGED <<activePrompts, promptLeases, queue, configLease, closed,
                   cancelling, waiter>>

\* acquire_config_mutation
AcquireConfigMutation(l) ==
    /\ MutationAllowed
    /\ NewLease(l, "config", NoOwner, "active")
    /\ configLease' = l
    /\ UNCHANGED <<activePrompts, promptLeases, queue, authLease, closed,
                   cancelling, waiter>>

\* RuntimeLease.release, by any holder of the object, as often as it likes.
Release(l) ==
    /\ leaseState[l] # "unborn"
    /\ kind[l] = "prompt" => BrokerLockFree
    /\ FinishLocked(l, "released", waiter)
    /\ UNCHANGED cancelling

\* RuntimeLease.cancel, first half: an active lease is left alone.
CancelLook(l) ==
    /\ BrokerLockFree
    /\ kind[l] = "prompt"
    /\ leaseState[l] # "active"
    /\ cancelling' = l
    /\ UNCHANGED <<gateVars, waiter>>

\* RuntimeLease.cancel, second half: _finish without a second look.
CancelFinish(l) ==
    /\ cancelling = l
    /\ FinishLocked(l, "cancelled", waiter)
    /\ cancelling' = NoLease

-----------------------------------------------------------------------------
SetWaiter(l, s) == [waiter EXCEPT ![l] = s]

\* The worker of the prompt calls wait_until_active.
WaitEnter(l) ==
    /\ kind[l] = "prompt"
    /\ waiter[l] = "none"
    /\ leaseState[l] \in {"active", "queued"}
    /\ waiter' = SetWaiter(l, "check")
    /\ UNCHANGED <<gateVars, cancelling>>

\* One turn of its loop: return or raise, time out, or go to sleep.
WaitLook(l) ==
    /\ waiter[l] \in {"check", "late"}
    /\ IF leaseState[l] # "queued"
       THEN waiter' = SetWaiter(l, "none") /\ UNCHANGED gateVars
       ELSE IF waiter[l] = "late"
       THEN FinishLocked(l, "timed_out", SetWaiter(l, "none"))
       ELSE waiter' = SetWaiter(l, "asleep") /\ UNCHANGED gateVars
    /\ UNCHANGED cancelling

\* Its deadline passes: Condition.wait returns, or the next look is the last.
DeadlinePasses(l) ==
    /\ waiter[l] \in {"check", "asleep"}
    /\ waiter' = SetWaiter(l, "late")
    /\ UNCHANGED <<gateVars, cancelling>>

\* RuntimeGate.close: the queue is emptied, active leases stay active.
Close ==
    /\ ~closed
    /\ closed' = TRUE
    /\ leaseState' = [l \in Lease |->
                        IF l \in Elements(queue) THEN "closed" ELSE leaseState[l]]
    /\ promptLeases' = [o \in Owner |->
                          IF promptLeases[o] \in Elements(queue)
                          THEN NoLease ELSE promptLeases[o]]
    /\ queue' = <<>>
    /\ waiter' = NotifyAll(waiter)
    /\ UNCHANGED <<kind, ownerKey, activePrompts, authLease, configLease,
                   cancelling>>

Next ==
    \/ \E o \in Owner, l \in Lease : ReservePrompt(o, l)
    \/ \E l \in Lease :
          \/ AcquireAuthMutation(l)
          \/ AcquireConfigMutation(l)
          \/ Release(l)
          \/ CancelLook(l)
          \/ CancelFinish(l)
          \/ WaitEnter(l)
          \/ WaitLook(l)
          \/ DeadlinePasses(l)
    \/ Close

Spec == Init /\ [][Next]_vars

(***************************************************************************)
(* Fairness.  Threads run: a waiter that is awake looks, a cancel that has *)
(* begun finishes.  The holder of an active lease eventually releases it:  *)
(* the broker ends every turn, by its total deadline at the latest, and    *)
(* the auth and config mutations release in a finally block.  Strong       *)
(* fairness, because the release competes for the broker lock.  Deadlines  *)
(* are not fair: nothing here depends on a timeout.                        *)
(***************************************************************************)
ReleaseActive(l) == leaseState[l] = "active" /\ Release(l)

Fairness ==
    \A l \in Lease :
        /\ WF_vars(WaitLook(l))
        /\ WF_vars(CancelFinish(l))
        /\ SF_vars(ReleaseActive(l))

FairSpec == Spec /\ Fairness

-----------------------------------------------------------------------------
ActiveLeases == {l \in Lease : kind[l] = "prompt" /\ leaseState[l] = "active"}

(***************************************************************************)
(* The counter _active_prompts, which every admission decision reads, is   *)
(* exactly the number of active prompt leases and never passes the limit,  *)
(* whatever stale handles are released or cancelled twice.                 *)
(***************************************************************************)
CapacityExact ==
    /\ IsFiniteSet(ActiveLeases)
    /\ activePrompts = Cardinality(ActiveLeases)
    /\ activePrompts <= MaxActiveTurns

(***************************************************************************)
(* An authentication or configuration mutation never runs beside a prompt  *)
(* that is active or queued, nor beside the other mutation: the code's     *)
(* "Codex authentication and runs cannot change concurrently".             *)
(***************************************************************************)
MutationExclusive ==
    ~NoMutation =>
        /\ authLease = NoLease \/ configLease = NoLease
        /\ ActiveLeases = {}
        /\ queue = <<>>

(***************************************************************************)
(* No prompt waits while there is room for it: an open gate with a queue   *)
(* has all its slots taken.  _promote_locked runs only when a prompt lease *)
(* finishes, so every other path to a free slot must leave the queue       *)
(* empty.                                                                  *)
(***************************************************************************)
WorkConserving == queue # <<>> => activePrompts = MaxActiveTurns

(***************************************************************************)
(* The queue holds each queued lease exactly once and nothing else, so the *)
(* code's `lease._state != "queued": continue' is never taken and a        *)
(* cancelled or timed out prompt cannot be promoted later.                 *)
(***************************************************************************)
QueueExact ==
    /\ Elements(queue) = {l \in Lease : leaseState[l] = "queued"}
    /\ \A i, j \in 1 .. Len(queue) : queue[i] = queue[j] => i = j
    /\ Len(queue) <= MaxQueuedPrompts

(***************************************************************************)
(* One client request id owns at most one live lease, and the table that   *)
(* reserve_prompt consults for a repeated request names exactly it.        *)
(***************************************************************************)
OwnerTableExact ==
    \A o \in Owner, l \in Lease :
        promptLeases[o] = l <=>
            /\ kind[l] = "prompt"
            /\ ownerKey[l] = o
            /\ leaseState[l] \in {"active", "queued"}

(***************************************************************************)
(* What the gate decides by agrees with the leases it handed out, whatever *)
(* handles are released, cancelled or timed out twice or late: the counter *)
(* of active prompts, the queue and the table of owners (_finish_locked,   *)
(* _promote_locked and reserve_prompt keep them in step).                  *)
(***************************************************************************)
TablesExact == CapacityExact /\ QueueExact /\ OwnerTableExact

(***************************************************************************)
(* An active lease ends by release only: the comment in cancel says an     *)
(* active turn stays the owner until Codex confirms its end and that "a    *)
(* cancellation request alone must never promote another turn".  The look  *)
(* and the finish of cancel are two critical sections, so this rests on    *)
(* nobody promoting the lease between them.                                *)
(***************************************************************************)
ActiveEndsByRelease ==
    [][\A l \in Lease :
          leaseState[l] = "active" => leaseState'[l] \in {"active", "released"}]_vars

(***************************************************************************)
(* FIFO: a queued prompt becomes active only when no prompt that was       *)
(* queued before it is still queued.                                       *)
(***************************************************************************)
FifoPromotion ==
    [][\A i, j \in 1 .. Len(queue) :
          (i < j /\ leaseState'[queue[j]] = "active")
             => leaseState'[queue[i]] # "queued"]_vars

(***************************************************************************)
(* Every worker that waits for its lease is answered, without the help of  *)
(* its deadline: the lease is promoted or ended, and the worker is woken.  *)
(***************************************************************************)
WaiterAnswered ==
    \A l \in Lease : waiter[l] # "none" ~> waiter[l] = "none"
=============================================================================
