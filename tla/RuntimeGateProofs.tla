------------------------- MODULE RuntimeGateProofs -------------------------
(***************************************************************************)
(* Proofs about the runtime gate, for every set of leases and owners and   *)
(* every pair of limits.                                                   *)
(***************************************************************************)
EXTENDS RuntimeGate, FiniteSetTheorems, SequenceTheorems, TLAPS

(***************************************************************************)
(* What the named invariants of RuntimeGate need to be inductive: which    *)
(* kind of lease is found where, that a closed gate has no queue, and that *)
(* the lease in the middle of a cancel has not become active.              *)
(***************************************************************************)
LeaseShape ==
    /\ \A l \in Lease :
          /\ leaseState[l] = "unborn" <=> kind[l] = "none"
          /\ kind[l] = "prompt" <=> ownerKey[l] \in Owner
          /\ leaseState[l] = "queued" => kind[l] = "prompt"
          /\ authLease = l => kind[l] = "auth"
          /\ configLease = l => kind[l] = "config"
    /\ closed => queue = <<>>

CancelWindow ==
    cancelling # NoLease =>
        kind[cancelling] = "prompt" /\ leaseState[cancelling] # "active"

GateInv ==
    /\ TypeOK
    /\ CapacityExact
    /\ MutationExclusive
    /\ WorkConserving
    /\ QueueExact
    /\ OwnerTableExact
    /\ LeaseShape
    /\ CancelWindow

-----------------------------------------------------------------------------
(***************************************************************************)
(* Removing position k of a queue without duplicates (deque.remove, and    *)
(* popleft for k = 1) removes exactly that element and keeps the rest.     *)
(***************************************************************************)
LEMMA WithoutAtProperties ==
    ASSUME NEW q \in Seq(Lease), NEW k \in 1 .. Len(q),
           \A i, j \in 1 .. Len(q) : q[i] = q[j] => i = j
    PROVE  /\ WithoutAt(q, k) \in Seq(Lease)
           /\ Len(WithoutAt(q, k)) = Len(q) - 1
           /\ Elements(WithoutAt(q, k)) = Elements(q) \ {q[k]}
           /\ \A i, j \in 1 .. Len(q) - 1 :
                 WithoutAt(q, k)[i] = WithoutAt(q, k)[j] => i = j
<1> DEFINE r == WithoutAt(q, k)
<1>1. /\ Len(q) \in Nat
      /\ q \in [1 .. Len(q) -> Lease]
      BY LenProperties
<1>2. \A i \in 1 .. Len(q) - 1 : (IF i < k THEN q[i] ELSE q[i + 1]) \in Lease
      BY <1>1
<1>3. r \in Seq(Lease) /\ Len(r) = Len(q) - 1
  <2>1. r \in [1 .. Len(q) - 1 -> Lease]
        BY <1>1, <1>2 DEF WithoutAt
  <2>2. Len(q) - 1 \in Nat
        BY <1>1
  <2>3. r \in Seq(Lease)
        BY <2>1, <2>2, SeqDef
  <2> HIDE DEF r
  <2> QED BY <2>1, <2>2, <2>3, LenProperties
<1>4. \A i \in 1 .. Len(q) - 1 : r[i] = IF i < k THEN q[i] ELSE q[i + 1]
      BY DEF WithoutAt
<1> HIDE DEF r
<1>5. Elements(r) = Elements(q) \ {q[k]}
  <2>1. ASSUME NEW x \in Elements(r)
        PROVE  x \in Elements(q) \ {q[k]}
    <3>1. PICK i \in 1 .. Len(q) - 1 : x = r[i]
          BY <1>3 DEF Elements
    <3>2. CASE i < k
          BY <3>1, <3>2, <1>1, <1>4 DEF Elements
    <3>3. CASE ~(i < k)
          BY <3>1, <3>3, <1>1, <1>4 DEF Elements
    <3> QED BY <3>2, <3>3
  <2>2. ASSUME NEW x \in Elements(q) \ {q[k]}
        PROVE  x \in Elements(r)
    <3>1. PICK j \in 1 .. Len(q) : x = q[j] /\ j # k
          BY DEF Elements
    <3>2. CASE j < k
      <4>1. j \in 1 .. Len(q) - 1 /\ r[j] = x
            BY <3>1, <3>2, <1>1, <1>4
      <4> QED BY <4>1, <1>3 DEF Elements
    <3>3. CASE j > k
      <4>1. j - 1 \in 1 .. Len(q) - 1 /\ r[j - 1] = x
            BY <3>1, <3>3, <1>1, <1>4
      <4> QED BY <4>1, <1>3 DEF Elements
    <3> QED BY <3>1, <3>2, <3>3, <1>1
  <2> QED BY <2>1, <2>2
<1>6. \A i, j \in 1 .. Len(q) - 1 : r[i] = r[j] => i = j
      BY <1>1, <1>4
<1> QED BY <1>3, <1>5, <1>6 DEF r

(* Promoting zero heads of a queue promotes nobody.                        *)
LEMMA NobodyPromoted == \A q : {q[i] : i \in 1 .. 0} = {}
BY SMT

(***************************************************************************)
(* When an active prompt ends its slot goes to the head of the queue, if   *)
(* there is one, and to nobody else; when a queued prompt ends nobody is   *)
(* promoted.  So _promote_locked never moves more than one lease.          *)
(***************************************************************************)
LEMMA FinishPromptEffect ==
    ASSUME GateInv, NEW l \in Lease, NEW s,
           kind[l] = "prompt", leaseState[l] \notin Terminal, FinishPrompt(l, s)
    PROVE  \/ /\ leaseState[l] = "active"
              /\ queue = <<>>
              /\ queue' = <<>>
              /\ activePrompts' = activePrompts - 1
              /\ leaseState' = [leaseState EXCEPT ![l] = s]
           \/ /\ leaseState[l] = "active"
              /\ queue # <<>>
              /\ queue' = WithoutAt(queue, 1)
              /\ activePrompts' = activePrompts
              /\ leaseState' = [leaseState EXCEPT ![l] = s, ![queue[1]] = "active"]
           \/ /\ leaseState[l] = "queued"
              /\ \E k \in 1 .. Len(queue) :
                    queue[k] = l /\ queue' = WithoutAt(queue, k)
              /\ activePrompts' = activePrompts
              /\ leaseState' = [leaseState EXCEPT ![l] = s]
<1> USE LimitsAssumption, NoneAssumption
<1>1. leaseState[l] \in {"active", "queued"}
      BY DEF GateInv, TypeOK, LeaseShape, LeaseStates
<1>2. /\ Len(queue) \in Nat
      /\ queue \in [1 .. Len(queue) -> Lease]
      /\ queue = <<>> <=> Len(queue) = 0
      BY LenProperties, EmptySeq DEF GateInv, TypeOK
<1>3. activePrompts \in Nat /\ activePrompts <= MaxActiveTurns
      BY DEF GateInv, TypeOK, CapacityExact
<1>4. CASE leaseState[l] = "active"
  <2>1. Promote(l, s, queue, activePrompts - 1)
        BY <1>4 DEF FinishPrompt
  <2>2. activePrompts - 1 \in Nat
    <3>1. l \in ActiveLeases /\ IsFiniteSet(ActiveLeases)
          BY <1>4 DEF GateInv, CapacityExact, ActiveLeases
    <3>2. Cardinality(ActiveLeases) # 0
          BY <3>1, FS_EmptySet
    <3> QED BY <3>2, <1>3 DEF GateInv, CapacityExact
  <2>3. NoMutation
        BY <1>4 DEF GateInv, MutationExclusive, ActiveLeases
  <2>4. CASE queue = <<>>
    <3>1. PromotionCount(queue, activePrompts - 1) = 0
          BY <2>4, <1>2, <2>2, <1>3 DEF PromotionCount
    <3>2. SubSeq(queue, 1, Len(queue)) = queue
          BY SubSeqFull DEF GateInv, TypeOK
    <3>3. leaseState' = [leaseState EXCEPT ![l] = s]
          BY <2>1, <2>3, <3>1, NobodyPromoted DEF Promote, NoMutation, GateInv, TypeOK
    <3>4. queue' = <<>> /\ activePrompts' = activePrompts - 1
          BY <2>1, <2>3, <3>1, <3>2, <2>4, <2>2 DEF Promote, NoMutation
    <3> QED BY <3>3, <3>4, <2>4, <1>4
  <2>5. CASE queue # <<>>
    <3>1. activePrompts = MaxActiveTurns /\ ~closed
          BY <2>5 DEF GateInv, WorkConserving, LeaseShape
    <3>2. PromotionCount(queue, activePrompts - 1) = 1
          BY <3>1, <2>5, <1>2, <2>2, <1>3 DEF PromotionCount
    <3>3. {queue[i] : i \in 1 .. 1} = {queue[1]}
          OBVIOUS
    <3>4. queue[1] # l /\ queue[1] \in Lease
      <4>1. queue[1] \in Elements(queue)
            BY <2>5, <1>2 DEF Elements
      <4> QED BY <4>1, <1>4 DEF GateInv, QueueExact
    <3>5. leaseState' = [leaseState EXCEPT ![l] = s, ![queue[1]] = "active"]
          BY <2>1, <2>3, <3>2, <3>3, <3>4 DEF Promote, NoMutation, GateInv, TypeOK
    <3>6. queue' = SubSeq(queue, 2, Len(queue)) /\ activePrompts' = activePrompts
          BY <2>1, <2>3, <3>2, <1>3 DEF Promote, NoMutation
    <3>7. SubSeq(queue, 2, Len(queue)) = WithoutAt(queue, 1)
      <4>1. /\ WithoutAt(queue, 1) \in Seq(Lease)
            /\ Len(WithoutAt(queue, 1)) = Len(queue) - 1
        <5>1. 1 \in 1 .. Len(queue)
              BY <2>5, <1>2
        <5> QED BY <5>1, WithoutAtProperties DEF GateInv, TypeOK, QueueExact
      <4>2. \A i \in 1 .. Len(queue) - 1 : WithoutAt(queue, 1)[i] = queue[i + 1]
            BY <1>2 DEF WithoutAt
      <4>3. /\ SubSeq(queue, 2, Len(queue)) \in Seq(Lease)
            /\ Len(SubSeq(queue, 2, Len(queue))) = Len(queue) - 1
            /\ \A i \in 1 .. Len(queue) - 1 :
                  SubSeq(queue, 2, Len(queue))[i] = queue[i + 1]
        <5>1. \A i \in 2 .. Len(queue) : queue[i] \in Lease
              BY <1>2
        <5>2. /\ SubSeq(queue, 2, Len(queue)) \in Seq(Lease)
              /\ Len(SubSeq(queue, 2, Len(queue))) =
                    IF 2 <= Len(queue) THEN Len(queue) - 2 + 1 ELSE 0
              /\ \A i \in 1 .. Len(queue) - 2 + 1 :
                    SubSeq(queue, 2, Len(queue))[i] = queue[2 + i - 1]
              BY <5>1, <1>2, SubSeqProperties
        <5> QED BY <5>2, <1>2, <2>5
      <4> QED BY <4>1, <4>2, <4>3, SeqEqual
    <3> QED BY <3>5, <3>6, <3>7, <2>5, <1>4
  <2> QED BY <2>4, <2>5
<1>5. CASE leaseState[l] = "queued"
  <2>1. Promote(l, s, Without(queue, l), activePrompts)
        BY <1>5 DEF FinishPrompt
  <2>2. \E k \in 1 .. Len(queue) : queue[k] = l
        BY <1>5 DEF GateInv, QueueExact, Elements
  <2>3. PICK k \in 1 .. Len(queue) :
           queue[k] = l /\ Without(queue, l) = WithoutAt(queue, k)
        BY <2>2 DEF Without
  <2>4. activePrompts = MaxActiveTurns
        BY <2>3, <1>2 DEF GateInv, WorkConserving
  <2>5. PromotionCount(Without(queue, l), activePrompts) = 0
        BY <2>4, <1>3 DEF PromotionCount
  <2>6. WithoutAt(queue, k) \in Seq(Lease)
        BY WithoutAtProperties DEF GateInv, TypeOK, QueueExact
  <2>7. SubSeq(Without(queue, l), 1, Len(Without(queue, l))) = WithoutAt(queue, k)
        BY <2>3, <2>6, SubSeqFull
  <2>8. leaseState' = [leaseState EXCEPT ![l] = s]
        BY <2>1, <2>5, NobodyPromoted DEF Promote, GateInv, TypeOK
  <2>9. queue' = WithoutAt(queue, k) /\ activePrompts' = activePrompts
        BY <2>1, <2>5, <2>7, <1>3 DEF Promote
  <2> QED BY <2>3, <2>8, <2>9, <1>5
<1> QED BY <1>1, <1>4, <1>5

(***************************************************************************)
(* Ending a prompt lease keeps the whole invariant, whatever the terminal  *)
(* state, provided an active lease is not the one being cancelled.         *)
(***************************************************************************)
LEMMA FinishPromptKeepsInv ==
    ASSUME GateInv, NEW l \in Lease, NEW s \in Terminal,
           kind[l] = "prompt", leaseState[l] \notin Terminal, FinishPrompt(l, s),
           UNCHANGED <<kind, ownerKey, closed>>
    PROVE  /\ leaseState' \in [Lease -> LeaseStates]
           /\ activePrompts' \in Nat
           /\ promptLeases' \in [Owner -> Lease \cup {NoLease}]
           /\ queue' \in Seq(Lease)
           /\ CapacityExact'
           /\ MutationExclusive'
           /\ WorkConserving'
           /\ QueueExact'
           /\ OwnerTableExact'
           /\ LeaseShape'
           /\ \A x \in Lease : x # l /\ leaseState[x] \in Terminal => leaseState'[x] = leaseState[x]
           /\ leaseState'[l] = s
           /\ leaseState[l] = "queued" =>
                 \A x \in Lease : x # l => leaseState'[x] = leaseState[x]
           /\ \A x \in Lease : x # l /\ leaseState[x] = "active" => leaseState'[x] = "active"
<1> USE LimitsAssumption, NoneAssumption
<1>1. /\ leaseState \in [Lease -> LeaseStates]
      /\ kind \in [Lease -> Kinds]
      /\ ownerKey \in [Lease -> Owner \cup {NoOwner}]
      /\ activePrompts \in Nat
      /\ promptLeases \in [Owner -> Lease \cup {NoLease}]
      /\ queue \in Seq(Lease)
      BY DEF GateInv, TypeOK
<1>2. /\ Len(queue) \in Nat
      /\ queue \in [1 .. Len(queue) -> Lease]
      /\ queue = <<>> <=> Len(queue) = 0
      BY <1>1, LenProperties, EmptySeq
<1>3. /\ IsFiniteSet(ActiveLeases)
      /\ activePrompts = Cardinality(ActiveLeases)
      /\ activePrompts <= MaxActiveTurns
      BY DEF GateInv, CapacityExact
<1>4. /\ promptLeases' = [promptLeases EXCEPT ![ownerKey[l]] = NoLease]
      /\ UNCHANGED <<authLease, configLease>>
      /\ ownerKey[l] \in Owner
      /\ s # "active" /\ s # "queued" /\ s # "unborn"
      BY DEF FinishPrompt, GateInv, LeaseShape, Terminal
<1>5. /\ \A i, j \in 1 .. Len(queue) : queue[i] = queue[j] => i = j
      /\ Elements(queue) = {x \in Lease : leaseState[x] = "queued"}
      /\ Len(queue) <= MaxQueuedPrompts
      BY DEF GateInv, QueueExact
<1>6. promptLeases' \in [Owner -> Lease \cup {NoLease}]
      BY <1>1, <1>4
<1>7. CASE /\ leaseState[l] = "active"
           /\ queue = <<>>
           /\ queue' = <<>>
           /\ activePrompts' = activePrompts - 1
           /\ leaseState' = [leaseState EXCEPT ![l] = s]
  <2>1. leaseState' \in [Lease -> LeaseStates]
        BY <1>1, <1>7 DEF LeaseStates
  <2>2. CapacityExact' /\ activePrompts' \in Nat
    <3>1. ActiveLeases' = ActiveLeases \ {l} /\ l \in ActiveLeases
          BY <1>1, <1>4, <1>7 DEF ActiveLeases
    <3>2. /\ IsFiniteSet(ActiveLeases \ {l})
          /\ Cardinality(ActiveLeases \ {l}) = Cardinality(ActiveLeases) - 1
          BY <3>1, <1>3, FS_RemoveElement
    <3>3. Cardinality(ActiveLeases \ {l}) \in Nat
          BY <3>2, FS_CardinalityType
    <3> QED BY <3>1, <3>2, <3>3, <1>1, <1>3, <1>7 DEF CapacityExact
  <2>3. MutationExclusive'
        BY <1>1, <1>4, <1>7 DEF GateInv, MutationExclusive, ActiveLeases, NoMutation
  <2>4. WorkConserving' /\ queue' \in Seq(Lease)
        BY <1>7, <1>1 DEF WorkConserving
  <2>5. QueueExact'
    <3>1. Elements(queue') = {}
          BY <1>7, EmptySeq DEF Elements
    <3>2. \A x \in Lease : leaseState'[x] # "queued"
      <4>1. Elements(queue) = {}
            BY <1>7, EmptySeq DEF Elements
      <4> QED BY <4>1, <1>5, <1>1, <1>4, <1>7
    <3> QED BY <3>1, <3>2, <1>5, <1>7 DEF QueueExact
  <2>6. OwnerTableExact'
        BY <1>1, <1>4, <1>7 DEF GateInv, OwnerTableExact
  <2>7. LeaseShape'
        BY <1>1, <1>4, <1>7 DEF GateInv, LeaseShape
  <2> QED BY <2>1, <2>2, <2>3, <2>4, <2>5, <2>6, <2>7, <1>1, <1>6, <1>7 DEF Terminal
<1>8. CASE /\ leaseState[l] = "active"
           /\ queue # <<>>
           /\ queue' = WithoutAt(queue, 1)
           /\ activePrompts' = activePrompts
           /\ leaseState' = [leaseState EXCEPT ![l] = s, ![queue[1]] = "active"]
  <2> DEFINE h == queue[1]
  <2>0. /\ 1 \in 1 .. Len(queue)
        /\ h \in Lease /\ leaseState[h] = "queued" /\ h # l
        /\ kind[h] = "prompt"
    <3>1. 1 \in 1 .. Len(queue)
          BY <1>8, <1>2
    <3>2. h \in Elements(queue)
          BY <3>1 DEF Elements
    <3> QED BY <3>1, <3>2, <1>5, <1>8 DEF GateInv, LeaseShape
  <2>1. leaseState' \in [Lease -> LeaseStates]
        BY <1>1, <1>8 DEF LeaseStates
  <2>2. CapacityExact' /\ activePrompts' \in Nat
    <3>1. ActiveLeases' = (ActiveLeases \ {l}) \cup {h} /\ l \in ActiveLeases
          /\ h \notin ActiveLeases
          BY <1>1, <1>4, <1>8, <2>0 DEF ActiveLeases
    <3>2. /\ IsFiniteSet(ActiveLeases \ {l})
          /\ Cardinality(ActiveLeases \ {l}) = Cardinality(ActiveLeases) - 1
          BY <3>1, <1>3, FS_RemoveElement
    <3>3. /\ IsFiniteSet((ActiveLeases \ {l}) \cup {h})
          /\ Cardinality((ActiveLeases \ {l}) \cup {h}) =
                Cardinality(ActiveLeases \ {l}) + 1
          BY <3>1, <3>2, FS_AddElement
    <3> QED BY <3>1, <3>2, <3>3, <1>1, <1>3, <1>8 DEF CapacityExact
  <2>3. MutationExclusive'
        BY <1>1, <1>4, <1>8, <2>0 DEF GateInv, MutationExclusive, ActiveLeases, NoMutation
  <2>4. WorkConserving'
        BY <1>8 DEF GateInv, WorkConserving
  <2>5. QueueExact' /\ queue' \in Seq(Lease)
    <3>1. /\ queue' \in Seq(Lease)
          /\ Len(queue') = Len(queue) - 1
          /\ Elements(queue') = Elements(queue) \ {h}
          /\ \A i, j \in 1 .. Len(queue) - 1 : queue'[i] = queue'[j] => i = j
      <4>1. /\ WithoutAt(queue, 1) \in Seq(Lease)
            /\ Len(WithoutAt(queue, 1)) = Len(queue) - 1
            /\ Elements(WithoutAt(queue, 1)) = Elements(queue) \ {queue[1]}
            /\ \A i, j \in 1 .. Len(queue) - 1 :
                  WithoutAt(queue, 1)[i] = WithoutAt(queue, 1)[j] => i = j
            BY <1>1, <1>5, <2>0, WithoutAtProperties
      <4> QED BY <4>1, <1>8
    <3>2. Elements(queue') = {x \in Lease : leaseState'[x] = "queued"}
          BY <3>1, <1>1, <1>4, <1>5, <1>8, <2>0
    <3> QED BY <3>1, <3>2, <1>2, <1>5 DEF QueueExact
  <2>6. OwnerTableExact'
        BY <1>1, <1>4, <1>8, <2>0 DEF GateInv, OwnerTableExact
  <2>7. LeaseShape'
        BY <1>1, <1>4, <1>8, <2>0 DEF GateInv, LeaseShape
  <2> QED BY <2>0, <2>1, <2>2, <2>3, <2>4, <2>5, <2>6, <2>7, <1>1, <1>6, <1>8 DEF Terminal
<1>9. CASE /\ leaseState[l] = "queued"
           /\ \E k \in 1 .. Len(queue) :
                 queue[k] = l /\ queue' = WithoutAt(queue, k)
           /\ activePrompts' = activePrompts
           /\ leaseState' = [leaseState EXCEPT ![l] = s]
  <2>1. leaseState' \in [Lease -> LeaseStates]
        BY <1>1, <1>9 DEF LeaseStates
  <2>2. CapacityExact' /\ activePrompts' \in Nat
    <3>1. ActiveLeases' = ActiveLeases
          BY <1>1, <1>4, <1>9 DEF ActiveLeases
    <3> QED BY <3>1, <1>1, <1>3, <1>9 DEF CapacityExact
  <2>3. MutationExclusive' /\ WorkConserving'
    <3>1. queue # <<>>
          BY <1>9, <1>2
    <3> QED BY <3>1, <1>4, <1>9 DEF GateInv, MutationExclusive, WorkConserving, NoMutation
  <2>5. QueueExact' /\ queue' \in Seq(Lease)
    <3>0. PICK k \in 1 .. Len(queue) : queue[k] = l /\ queue' = WithoutAt(queue, k)
          BY <1>9
    <3>1. /\ queue' \in Seq(Lease)
          /\ Len(queue') = Len(queue) - 1
          /\ Elements(queue') = Elements(queue) \ {l}
          /\ \A i, j \in 1 .. Len(queue) - 1 : queue'[i] = queue'[j] => i = j
      <4>1. /\ WithoutAt(queue, k) \in Seq(Lease)
            /\ Len(WithoutAt(queue, k)) = Len(queue) - 1
            /\ Elements(WithoutAt(queue, k)) = Elements(queue) \ {queue[k]}
            /\ \A i, j \in 1 .. Len(queue) - 1 :
                  WithoutAt(queue, k)[i] = WithoutAt(queue, k)[j] => i = j
            BY <1>1, <1>5, WithoutAtProperties
      <4> QED BY <4>1, <3>0
    <3>2. Elements(queue') = {x \in Lease : leaseState'[x] = "queued"}
          BY <3>1, <1>1, <1>4, <1>5, <1>9
    <3> QED BY <3>1, <3>2, <1>2, <1>5 DEF QueueExact
  <2>6. OwnerTableExact'
        BY <1>1, <1>4, <1>9 DEF GateInv, OwnerTableExact
  <2>7. LeaseShape'
    <3>1. ~closed
          BY <1>9, <1>2 DEF GateInv, LeaseShape
    <3> QED BY <3>1, <1>1, <1>4, <1>9 DEF GateInv, LeaseShape
  <2> QED BY <2>1, <2>2, <2>3, <2>5, <2>6, <2>7, <1>1, <1>6, <1>9 DEF Terminal
<1> QED BY <1>7, <1>8, <1>9, FinishPromptEffect

-----------------------------------------------------------------------------
NotifyAllType ==
    \A w \in [Lease -> WaiterStates] : NotifyAll(w) \in [Lease -> WaiterStates]

LEMMA NotifyAllKeepsType == NotifyAllType
BY DEF NotifyAllType, NotifyAll, WaiterStates

(***************************************************************************)
(* _finish_locked keeps the invariant for every caller: release, the       *)
(* second half of cancel (with the broker's lock passed on) and a wait     *)
(* that times out.                                                         *)
(***************************************************************************)
LEMMA FinishLockedKeepsInv ==
    ASSUME GateInv, NEW l \in Lease, NEW s \in Terminal,
           NEW w \in [Lease -> WaiterStates],
           leaseState[l] # "unborn", FinishLocked(l, s, w),
           \/ cancelling' = NoLease
           \/ cancelling' = cancelling
              /\ (leaseState[l] = "active" /\ kind[l] = "prompt" => cancelling = NoLease)
    PROVE  GateInv'
<1> USE LimitsAssumption, NoneAssumption
<1>1. CASE leaseState[l] \in Terminal
  <2>1. waiter' = w /\ UNCHANGED gateVars
        BY <1>1 DEF FinishLocked
  <2>2. TypeOK' /\ CancelWindow'
        BY <2>1 DEF GateInv, TypeOK, CancelWindow, gateVars
  <2> QED BY <2>1, <2>2 DEF GateInv, CapacityExact, MutationExclusive, NoMutation,
             WorkConserving, QueueExact, OwnerTableExact, LeaseShape, ActiveLeases,
             Elements, gateVars
<1>2. CASE leaseState[l] \notin Terminal /\ kind[l] = "prompt"
  <2>1. /\ FinishPrompt(l, s)
        /\ waiter' = NotifyAll(w)
        /\ UNCHANGED <<kind, ownerKey, closed>>
        BY <1>2 DEF FinishLocked
  <2>2. /\ leaseState' \in [Lease -> LeaseStates]
        /\ activePrompts' \in Nat
        /\ promptLeases' \in [Owner -> Lease \cup {NoLease}]
        /\ queue' \in Seq(Lease)
        /\ CapacityExact' /\ MutationExclusive' /\ WorkConserving'
        /\ QueueExact' /\ OwnerTableExact' /\ LeaseShape'
        /\ leaseState'[l] = s
        /\ leaseState[l] = "queued" =>
              \A x \in Lease : x # l => leaseState'[x] = leaseState[x]
        BY <1>2, <2>1, FinishPromptKeepsInv
  <2>3. TypeOK'
        BY <2>1, <2>2, NotifyAllKeepsType DEF NotifyAllType, GateInv, TypeOK, FinishPrompt
  <2>4. CancelWindow'
    <3>1. leaseState[l] \in {"active", "queued"}
          BY <1>2 DEF GateInv, TypeOK, LeaseStates
    <3> QED BY <3>1, <1>2, <2>1, <2>2 DEF GateInv, TypeOK, CancelWindow, Terminal
  <2> QED BY <2>2, <2>3, <2>4 DEF GateInv
<1>3. CASE leaseState[l] \notin Terminal /\ kind[l] # "prompt"
  <2>1. /\ FinishMutation(l, s)
        /\ waiter' = NotifyAll(w)
        /\ UNCHANGED <<kind, ownerKey, closed>>
        BY <1>3 DEF FinishLocked
  <2>2. TypeOK'
        BY <2>1, NotifyAllKeepsType
        DEF NotifyAllType, GateInv, TypeOK, FinishMutation, LeaseStates
  <2>3. ActiveLeases' = ActiveLeases
        BY <2>1, <1>3 DEF GateInv, TypeOK, FinishMutation, ActiveLeases
  <2>4. CapacityExact' /\ WorkConserving' /\ MutationExclusive'
        BY <2>1, <2>3 DEF GateInv, CapacityExact, WorkConserving, MutationExclusive,
           NoMutation, FinishMutation
  <2>5. QueueExact' /\ OwnerTableExact'
    <3>1. {x \in Lease : leaseState'[x] = "queued"} = {x \in Lease : leaseState[x] = "queued"}
          BY <2>1, <1>3 DEF GateInv, TypeOK, LeaseShape, FinishMutation, Terminal
    <3>2. QueueExact'
          BY <3>1, <2>1 DEF GateInv, QueueExact, Elements, FinishMutation
    <3>3. OwnerTableExact'
          BY <2>1, <1>3 DEF GateInv, TypeOK, OwnerTableExact, FinishMutation
    <3> QED BY <3>2, <3>3
  <2>6. LeaseShape' /\ CancelWindow'
    <3>1. LeaseShape'
          BY <2>1, <1>3 DEF GateInv, TypeOK, LeaseShape, FinishMutation, Terminal
    <3>2. CancelWindow'
          BY <2>1, <1>3 DEF GateInv, TypeOK, CancelWindow, FinishMutation
    <3> QED BY <3>1, <3>2
  <2> QED BY <2>2, <2>4, <2>5, <2>6 DEF GateInv
<1> QED BY <1>1, <1>2, <1>3

-----------------------------------------------------------------------------
(* An empty gate satisfies the invariant.                                  *)
LEMMA InitGateInv == Init => GateInv
<1> SUFFICES ASSUME Init PROVE GateInv
    OBVIOUS
<1> USE LimitsAssumption, NoneAssumption
<1>1. TypeOK
      BY EmptySeq DEF Init, TypeOK, LeaseStates, Kinds, WaiterStates
<1>2. ActiveLeases = {} /\ Elements(queue) = {} /\ Len(queue) = 0
      BY EmptySeq DEF Init, ActiveLeases, Elements
<1>3. CapacityExact
      BY <1>2, FS_EmptySet DEF Init, CapacityExact
<1>4. MutationExclusive /\ WorkConserving /\ QueueExact /\ OwnerTableExact
      BY <1>2 DEF Init, MutationExclusive, NoMutation, WorkConserving, QueueExact,
         OwnerTableExact
<1>5. LeaseShape /\ CancelWindow
      BY DEF Init, LeaseShape, CancelWindow
<1> QED BY <1>1, <1>3, <1>4, <1>5 DEF GateInv

(***************************************************************************)
(* reserve_prompt keeps the invariant: a free slot is taken only when the  *)
(* queue is empty, and the queue grows only when every slot is taken.      *)
(***************************************************************************)
LEMMA ReserveKeepsInv ==
    ASSUME GateInv, NEW o \in Owner, NEW l \in Lease, ReservePrompt(o, l)
    PROVE  GateInv'
<1> USE LimitsAssumption, NoneAssumption
<1>1. /\ leaseState[l] = "unborn"
      /\ kind' = [kind EXCEPT ![l] = "prompt"]
      /\ ownerKey' = [ownerKey EXCEPT ![l] = o]
      /\ promptLeases' = [promptLeases EXCEPT ![o] = l]
      /\ promptLeases[o] = NoLease
      /\ ~closed
      /\ NoMutation /\ NoMutation'
      /\ UNCHANGED <<authLease, configLease, closed, cancelling, waiter>>
      /\ cancelling = NoLease
      BY DEF ReservePrompt, NewLease, NoMutation, BrokerLockFree
<1>2. /\ Len(queue) \in Nat
      /\ queue \in [1 .. Len(queue) -> Lease]
      /\ queue = <<>> <=> Len(queue) = 0
      BY LenProperties, EmptySeq DEF GateInv, TypeOK
<1>3. /\ IsFiniteSet(ActiveLeases)
      /\ activePrompts = Cardinality(ActiveLeases)
      /\ activePrompts \in Nat /\ activePrompts <= MaxActiveTurns
      BY DEF GateInv, CapacityExact, TypeOK
<1>4. CASE /\ activePrompts < MaxActiveTurns
           /\ leaseState' = [leaseState EXCEPT ![l] = "active"]
           /\ activePrompts' = activePrompts + 1
           /\ UNCHANGED queue
  <2>1. TypeOK'
        BY <1>1, <1>3, <1>4 DEF GateInv, TypeOK, LeaseStates, Kinds
  <2>2. queue = <<>>
        BY <1>3, <1>4 DEF GateInv, WorkConserving
  <2>3. CapacityExact'
    <3>1. ActiveLeases' = ActiveLeases \cup {l} /\ l \notin ActiveLeases
          BY <1>1, <1>4 DEF GateInv, TypeOK, ActiveLeases
    <3>2. /\ IsFiniteSet(ActiveLeases \cup {l})
          /\ Cardinality(ActiveLeases \cup {l}) = Cardinality(ActiveLeases) + 1
          BY <3>1, <1>3, FS_AddElement
    <3> QED BY <3>1, <3>2, <1>3, <1>4 DEF CapacityExact
  <2>4. MutationExclusive' /\ WorkConserving' /\ CancelWindow'
        BY <1>1, <1>4, <2>2 DEF MutationExclusive, WorkConserving, CancelWindow
  <2>5. QueueExact'
    <3>1. {x \in Lease : leaseState'[x] = "queued"} = {x \in Lease : leaseState[x] = "queued"}
          BY <1>1, <1>4 DEF GateInv, TypeOK
    <3> QED BY <3>1, <1>4 DEF GateInv, QueueExact, Elements
  <2>6. OwnerTableExact'
        BY <1>1, <1>4 DEF GateInv, TypeOK, OwnerTableExact
  <2>7. LeaseShape'
        BY <1>1, <1>4 DEF GateInv, TypeOK, LeaseShape, NoMutation
  <2> QED BY <2>1, <2>3, <2>4, <2>5, <2>6, <2>7 DEF GateInv
<1>5. CASE /\ activePrompts >= MaxActiveTurns
           /\ Len(queue) < MaxQueuedPrompts
           /\ leaseState' = [leaseState EXCEPT ![l] = "queued"]
           /\ queue' = Append(queue, l)
           /\ UNCHANGED activePrompts
  <2>0. /\ queue' \in Seq(Lease)
        /\ Len(queue') = Len(queue) + 1
        /\ \A i \in 1 .. Len(queue) : queue'[i] = queue[i]
        /\ queue'[Len(queue) + 1] = l
    <3>1. queue \in Seq(Lease)
          BY DEF GateInv, TypeOK
    <3> QED BY <3>1, <1>2, <1>5, AppendProperties
  <2>1. TypeOK'
        BY <2>0, <1>1, <1>5 DEF GateInv, TypeOK, LeaseStates, Kinds
  <2>2. CapacityExact'
    <3>1. ActiveLeases' = ActiveLeases
          BY <1>1, <1>5 DEF GateInv, TypeOK, ActiveLeases
    <3> QED BY <3>1, <1>3, <1>5 DEF CapacityExact
  <2>3. MutationExclusive' /\ WorkConserving' /\ CancelWindow'
        BY <1>1, <1>3, <1>5 DEF MutationExclusive, WorkConserving, CancelWindow
  <2>4. QueueExact'
    <3>1. Elements(queue') = Elements(queue) \cup {l}
          BY <2>0, <1>2 DEF Elements
    <3>2. {x \in Lease : leaseState'[x] = "queued"} =
             {x \in Lease : leaseState[x] = "queued"} \cup {l}
          BY <1>5 DEF GateInv, TypeOK
    <3>3. \A i \in 1 .. Len(queue) : queue[i] # l
      <4>1. l \notin Elements(queue)
            BY <1>1 DEF GateInv, QueueExact
      <4> QED BY <4>1 DEF Elements
    <3>4. \A i, j \in 1 .. Len(queue') : queue'[i] = queue'[j] => i = j
          BY <2>0, <3>3, <1>2 DEF GateInv, QueueExact
    <3> QED BY <3>1, <3>2, <3>4, <2>0, <1>2, <1>5 DEF GateInv, QueueExact
  <2>5. OwnerTableExact'
        BY <1>1, <1>5 DEF GateInv, TypeOK, OwnerTableExact
  <2>6. LeaseShape'
        BY <1>1, <1>5 DEF GateInv, TypeOK, LeaseShape, NoMutation
  <2> QED BY <2>1, <2>2, <2>3, <2>4, <2>5, <2>6 DEF GateInv
<1> QED BY <1>4, <1>5 DEF ReservePrompt, NewLease

(***************************************************************************)
(* acquire_auth_mutation and acquire_config_mutation keep the invariant.   *)
(***************************************************************************)
LEMMA AcquireKeepsInv ==
    ASSUME GateInv, NEW l \in Lease,
           AcquireAuthMutation(l) \/ AcquireConfigMutation(l)
    PROVE  GateInv'
<1> USE LimitsAssumption, NoneAssumption
<1>1. PICK k \in {"auth", "config"} :
         /\ leaseState[l] = "unborn"
         /\ leaseState' = [leaseState EXCEPT ![l] = "active"]
         /\ kind' = [kind EXCEPT ![l] = k]
         /\ ownerKey' = [ownerKey EXCEPT ![l] = NoOwner]
         /\ authLease' = IF k = "auth" THEN l ELSE authLease
         /\ configLease' = IF k = "config" THEN l ELSE configLease
         /\ NoMutation
         /\ activePrompts = 0 /\ queue = <<>>
         /\ UNCHANGED <<activePrompts, promptLeases, queue, closed, cancelling, waiter>>
      BY DEF AcquireAuthMutation, AcquireConfigMutation, NewLease, MutationAllowed
<1>2. TypeOK'
      BY <1>1 DEF GateInv, TypeOK, LeaseStates, Kinds
<1>3. ActiveLeases' = ActiveLeases
      BY <1>1 DEF GateInv, TypeOK, ActiveLeases
<1>4. CapacityExact' /\ WorkConserving'
      BY <1>1, <1>3 DEF GateInv, CapacityExact, WorkConserving
<1>5. MutationExclusive'
  <2>1. ActiveLeases = {}
        BY <1>1, FS_EmptySet DEF GateInv, CapacityExact
  <2> QED BY <2>1, <1>1, <1>3 DEF MutationExclusive, NoMutation
<1>6. QueueExact'
  <2>1. {x \in Lease : leaseState'[x] = "queued"} = {x \in Lease : leaseState[x] = "queued"}
        BY <1>1 DEF GateInv, TypeOK
  <2> QED BY <2>1, <1>1 DEF GateInv, QueueExact, Elements
<1>7. OwnerTableExact'
      BY <1>1 DEF GateInv, TypeOK, OwnerTableExact
<1>8. LeaseShape'
      BY <1>1 DEF GateInv, TypeOK, LeaseShape, NoMutation
<1>9. CancelWindow'
      BY <1>1 DEF GateInv, TypeOK, CancelWindow, LeaseShape
<1> QED BY <1>2, <1>4, <1>5, <1>6, <1>7, <1>8, <1>9 DEF GateInv

(***************************************************************************)
(* close keeps the invariant: it ends every queued lease and no other.     *)
(***************************************************************************)
LEMMA CloseKeepsInv == GateInv /\ Close => GateInv'
<1> SUFFICES ASSUME GateInv, Close PROVE GateInv'
    OBVIOUS
<1> USE LimitsAssumption, NoneAssumption
<1>1. /\ Elements(queue) = {l \in Lease : leaseState[l] = "queued"}
      /\ Len(<<>>) = 0 /\ Elements(<<>>) = {} /\ <<>> \in Seq(Lease)
      BY EmptySeq DEF GateInv, QueueExact, Elements
<1>2. TypeOK'
      BY <1>1, NotifyAllKeepsType
      DEF NotifyAllType, GateInv, TypeOK, Close, LeaseStates, Terminal
<1>3. CapacityExact'
  <2>1. ActiveLeases' = ActiveLeases
        BY <1>1 DEF GateInv, TypeOK, Close, ActiveLeases
  <2> QED BY <2>1 DEF GateInv, CapacityExact, Close
<1>4. MutationExclusive' /\ WorkConserving'
      BY <1>1 DEF GateInv, TypeOK, MutationExclusive, WorkConserving, NoMutation, Close,
         ActiveLeases
<1>5. QueueExact'
  <2>1. {l \in Lease : leaseState'[l] = "queued"} = {}
        BY <1>1 DEF GateInv, TypeOK, Close
  <2> QED BY <2>1, <1>1 DEF QueueExact, Close
<1>6. OwnerTableExact'
      BY <1>1 DEF GateInv, TypeOK, OwnerTableExact, Close
<1>7. LeaseShape' /\ CancelWindow'
      BY <1>1 DEF GateInv, TypeOK, LeaseShape, CancelWindow, Close
<1> QED BY <1>2, <1>3, <1>4, <1>5, <1>6, <1>7 DEF GateInv

(***************************************************************************)
(* Every step of the gate keeps the invariant, one step per operation.     *)
(***************************************************************************)
LEMMA NextGateInv == GateInv /\ [Next]_vars => GateInv'
<1> SUFFICES ASSUME GateInv, [Next]_vars PROVE GateInv'
    OBVIOUS
<1> USE NoneAssumption
<1>0. waiter \in [Lease -> WaiterStates]
      BY DEF GateInv, TypeOK
<1>1. ASSUME NEW o \in Owner, NEW l \in Lease, ReservePrompt(o, l) PROVE GateInv'
      BY <1>1, ReserveKeepsInv
<1>2. ASSUME NEW l \in Lease, AcquireAuthMutation(l) \/ AcquireConfigMutation(l)
      PROVE  GateInv'
      BY <1>2, AcquireKeepsInv
<1>3. ASSUME NEW l \in Lease, Release(l) PROVE GateInv'
      BY <1>0, <1>3, FinishLockedKeepsInv DEF Release, Terminal, BrokerLockFree
<1>4. ASSUME NEW l \in Lease, CancelFinish(l) PROVE GateInv'
  <2>1. leaseState[l] # "unborn"
        BY <1>4 DEF CancelFinish, GateInv, CancelWindow, LeaseShape
  <2> QED BY <1>0, <1>4, <2>1, FinishLockedKeepsInv DEF CancelFinish, Terminal
<1>5. ASSUME UNCHANGED gateVars,
             waiter' \in [Lease -> WaiterStates],
             cancelling' = cancelling \/
                (\E l \in Lease : cancelling' = l /\ kind[l] = "prompt"
                                  /\ leaseState[l] # "active")
      PROVE  GateInv'
  <2>1. TypeOK' /\ CancelWindow'
        BY <1>5 DEF GateInv, TypeOK, CancelWindow, gateVars
  <2> QED BY <1>5, <2>1 DEF GateInv, CapacityExact, MutationExclusive, NoMutation,
             WorkConserving, QueueExact, OwnerTableExact, LeaseShape, ActiveLeases,
             Elements, gateVars
<1>6. ASSUME NEW l \in Lease, CancelLook(l) PROVE GateInv'
      BY <1>0, <1>5, <1>6 DEF CancelLook
<1>7. ASSUME NEW l \in Lease, WaitEnter(l) \/ DeadlinePasses(l) PROVE GateInv'
      BY <1>0, <1>5, <1>7 DEF WaitEnter, DeadlinePasses, SetWaiter, WaiterStates
<1>8. ASSUME NEW l \in Lease, WaitLook(l) PROVE GateInv'
  <2>1. SetWaiter(l, "none") \in [Lease -> WaiterStates]
        /\ SetWaiter(l, "asleep") \in [Lease -> WaiterStates]
        BY <1>0 DEF SetWaiter, WaiterStates
  <2>2. CASE leaseState[l] = "queued" /\ waiter[l] = "late"
        BY <1>8, <2>1, <2>2, FinishLockedKeepsInv DEF WaitLook, Terminal
  <2>3. CASE ~(leaseState[l] = "queued" /\ waiter[l] = "late")
        BY <1>5, <1>8, <2>1, <2>3 DEF WaitLook
  <2> QED BY <2>2, <2>3
<1>9. CASE Close
      BY <1>9, CloseKeepsInv
<1>10. CASE UNCHANGED vars
       BY <1>0, <1>5, <1>10 DEF vars
<1> QED BY <1>1, <1>2, <1>3, <1>4, <1>6, <1>7, <1>8, <1>9, <1>10 DEF Next

(***************************************************************************)
(* The gate's invariants hold in every reachable state: the counter is     *)
(* exact and bounded, mutations exclude prompts, no prompt waits while a   *)
(* slot is free, the queue and the owner table are exact.                  *)
(***************************************************************************)
THEOREM GateSafety ==
    Spec => [](TypeOK /\ CapacityExact /\ MutationExclusive /\ WorkConserving
               /\ QueueExact /\ OwnerTableExact)
<1>1. GateInv => TypeOK /\ CapacityExact /\ MutationExclusive /\ WorkConserving
                 /\ QueueExact /\ OwnerTableExact
      BY DEF GateInv
<1> QED BY InitGateInv, NextGateInv, <1>1, PTL DEF Spec

(***************************************************************************)
(* The parts of it that the run checks by name.  The gate's counter, queue *)
(* and owner table never part from the leases.                             *)
(***************************************************************************)
THEOREM TablesStayExact == Spec => []TablesExact
<1>1. CapacityExact /\ QueueExact /\ OwnerTableExact => TablesExact BY DEF TablesExact
<1> QED BY <1>1, GateSafety, PTL

(***************************************************************************)
(* acquire_auth_mutation and acquire_config_mutation never run beside a    *)
(* prompt or beside each other.                                            *)
(***************************************************************************)
THEOREM MutationsExclude == Spec => []MutationExclusive
BY GateSafety, PTL

(***************************************************************************)
(* _promote_locked leaves no prompt in the queue beside a free slot.       *)
(***************************************************************************)
THEOREM NoIdleSlot == Spec => []WorkConserving
BY GateSafety, PTL

(***************************************************************************)
(* _finish_locked on a queued or ended lease leaves every active lease     *)
(* active, and on an active one it leaves every other active lease alone.  *)
(***************************************************************************)
LEMMA FinishLockedActive ==
    ASSUME GateInv, NEW l \in Lease, NEW s \in Terminal, NEW w,
           leaseState[l] # "unborn", FinishLocked(l, s, w),
           NEW x \in Lease, leaseState[x] = "active"
    PROVE  leaseState'[x] = IF x = l THEN s ELSE "active"
<1>0. s # "active" /\ leaseState \in [Lease -> LeaseStates]
      BY DEF Terminal, GateInv, TypeOK
<1>1. CASE leaseState[l] \in Terminal
      BY <1>1 DEF FinishLocked, gateVars, Terminal
<1>2. CASE leaseState[l] \notin Terminal /\ kind[l] = "prompt"
      BY <1>2, FinishPromptKeepsInv DEF FinishLocked
<1>3. CASE leaseState[l] \notin Terminal /\ kind[l] # "prompt"
      BY <1>0, <1>3 DEF FinishLocked, FinishMutation
<1> QED BY <1>1, <1>2, <1>3

(***************************************************************************)
(* An active lease is ended by release and by nothing else.  The cancel    *)
(* window is safe because a lease that was queued when cancel looked can   *)
(* only be promoted by a prompt lease ending, and the broker's lock keeps  *)
(* every step that ends an active one out of the window.                   *)
(***************************************************************************)
THEOREM ActiveEndsOnlyByRelease == Spec => ActiveEndsByRelease
<1> DEFINE Ends == \A l \in Lease :
                leaseState[l] = "active" => leaseState'[l] \in {"active", "released"}
<1>1. GateInv /\ [Next]_vars => [Ends]_vars
  <2> SUFFICES ASSUME GateInv, Next, NEW x \in Lease, leaseState[x] = "active"
               PROVE  leaseState'[x] \in {"active", "released"}
      OBVIOUS
  <2> USE NoneAssumption
  <2>0. leaseState \in [Lease -> LeaseStates]
        BY DEF GateInv, TypeOK
  <2>1. ASSUME NEW o \in Owner, NEW l \in Lease, ReservePrompt(o, l)
        PROVE  leaseState'[x] = "active"
        BY <2>0, <2>1 DEF ReservePrompt, NewLease
  <2>2. ASSUME NEW l \in Lease, AcquireAuthMutation(l) \/ AcquireConfigMutation(l)
        PROVE  leaseState'[x] = "active"
        BY <2>0, <2>2 DEF AcquireAuthMutation, AcquireConfigMutation, NewLease
  <2>3. ASSUME NEW l \in Lease, Release(l)
        PROVE  leaseState'[x] \in {"active", "released"}
        BY <2>3, FinishLockedActive DEF Release, Terminal
  <2>4. ASSUME NEW l \in Lease, CancelFinish(l)
        PROVE  leaseState'[x] = "active"
    <3>1. l # x /\ leaseState[l] # "unborn"
          BY <2>4 DEF CancelFinish, GateInv, CancelWindow, LeaseShape
    <3> QED BY <2>4, <3>1, FinishLockedActive DEF CancelFinish, Terminal
  <2>5. ASSUME NEW l \in Lease, WaitLook(l)
        PROVE  leaseState'[x] = "active"
    <3>1. CASE leaseState[l] = "queued" /\ waiter[l] = "late"
          BY <2>5, <3>1, FinishLockedActive DEF WaitLook, Terminal
    <3>2. CASE ~(leaseState[l] = "queued" /\ waiter[l] = "late")
          BY <2>5, <3>2 DEF WaitLook, gateVars
    <3> QED BY <3>1, <3>2
  <2>6. ASSUME NEW l \in Lease, CancelLook(l) \/ WaitEnter(l) \/ DeadlinePasses(l)
        PROVE  leaseState'[x] = "active"
        BY <2>6 DEF CancelLook, WaitEnter, DeadlinePasses, gateVars
  <2>7. CASE Close
        BY <2>0, <2>7 DEF Close, GateInv, QueueExact
  <2> QED BY <2>1, <2>2, <2>3, <2>4, <2>5, <2>6, <2>7 DEF Next
<1> QED BY InitGateInv, NextGateInv, <1>1, PTL DEF Spec, ActiveEndsByRelease

(***************************************************************************)
(* _finish_locked makes no prompt active that has another one before it in *)
(* the queue: it promotes the head, if anything.                           *)
(***************************************************************************)
LEMMA FinishLockedQueue ==
    ASSUME GateInv, NEW l \in Lease, NEW s \in Terminal, NEW w, FinishLocked(l, s, w),
           NEW j \in 2 .. Len(queue)
    PROVE  leaseState'[queue[j]] # "active"
<1>0. /\ s # "active" /\ leaseState \in [Lease -> LeaseStates]
      /\ Len(queue) \in Nat /\ queue \in [1 .. Len(queue) -> Lease]
      BY LenProperties DEF Terminal, GateInv, TypeOK
<1>1. /\ queue[j] \in Lease /\ leaseState[queue[j]] = "queued"
      /\ queue[1] # queue[j] /\ queue[1] \in Lease /\ queue # <<>>
  <2>1. j \in 1 .. Len(queue) /\ 1 \in 1 .. Len(queue) /\ j # 1
        BY <1>0
  <2>2. queue[j] \in Elements(queue)
        BY <2>1 DEF Elements
  <2>3. queue # <<>>
        BY <2>1
  <2> QED BY <1>0, <2>1, <2>2, <2>3 DEF GateInv, QueueExact
<1>2. CASE leaseState[l] \in Terminal
      BY <1>1, <1>2 DEF FinishLocked, gateVars
<1>3. CASE leaseState[l] \notin Terminal /\ kind[l] = "prompt"
      BY <1>0, <1>1, <1>3, FinishPromptEffect DEF FinishLocked
<1>4. CASE leaseState[l] \notin Terminal /\ kind[l] # "prompt"
      BY <1>0, <1>1, <1>4 DEF FinishLocked, FinishMutation
<1> QED BY <1>2, <1>3, <1>4

(***************************************************************************)
(* Prompts are promoted in the order in which they were queued, whichever  *)
(* of them are released, cancelled or time out in between: _promote_locked *)
(* takes the head of the queue and reserve_prompt promotes nobody.         *)
(***************************************************************************)
THEOREM PromotedInOrder == Spec => FifoPromotion
<1> DEFINE Fifo == \A i, j \in 1 .. Len(queue) :
                (i < j /\ leaseState'[queue[j]] = "active") => leaseState'[queue[i]] # "queued"
<1>1. GateInv /\ [Next]_vars => [Fifo]_vars
  <2> SUFFICES ASSUME GateInv, Next, NEW j \in 2 .. Len(queue)
               PROVE  leaseState'[queue[j]] # "active"
    <3>1. Len(queue) \in Nat
          BY LenProperties DEF GateInv, TypeOK
    <3> QED BY <3>1
  <2> USE NoneAssumption
  <2>0. /\ leaseState \in [Lease -> LeaseStates]
        /\ Len(queue) \in Nat /\ queue \in [1 .. Len(queue) -> Lease]
        BY LenProperties DEF GateInv, TypeOK
  <2>1. queue[j] \in Lease /\ leaseState[queue[j]] = "queued" /\ queue[j] \in Elements(queue)
    <3>1. j \in 1 .. Len(queue)
          BY <2>0
    <3>2. queue[j] \in Elements(queue)
          BY <3>1 DEF Elements
    <3> QED BY <2>0, <3>1, <3>2 DEF GateInv, QueueExact
  <2>2. ASSUME NEW o \in Owner, NEW l \in Lease, ReservePrompt(o, l)
        PROVE  leaseState'[queue[j]] # "active"
        BY <2>0, <2>1, <2>2 DEF ReservePrompt, NewLease
  <2>3. ASSUME NEW l \in Lease, AcquireAuthMutation(l) \/ AcquireConfigMutation(l)
        PROVE  leaseState'[queue[j]] # "active"
        BY <2>0, <2>1, <2>3 DEF AcquireAuthMutation, AcquireConfigMutation, NewLease
  <2>4. ASSUME NEW l \in Lease, Release(l) \/ CancelFinish(l)
        PROVE  leaseState'[queue[j]] # "active"
        BY <2>4, FinishLockedQueue DEF Release, CancelFinish, Terminal
  <2>5. ASSUME NEW l \in Lease, WaitLook(l)
        PROVE  leaseState'[queue[j]] # "active"
    <3>1. CASE leaseState[l] = "queued" /\ waiter[l] = "late"
          BY <2>5, <3>1, FinishLockedQueue DEF WaitLook, Terminal
    <3>2. CASE ~(leaseState[l] = "queued" /\ waiter[l] = "late")
          BY <2>1, <2>5, <3>2 DEF WaitLook, gateVars
    <3> QED BY <3>1, <3>2
  <2>6. ASSUME NEW l \in Lease, CancelLook(l) \/ WaitEnter(l) \/ DeadlinePasses(l)
        PROVE  leaseState'[queue[j]] # "active"
        BY <2>1, <2>6 DEF CancelLook, WaitEnter, DeadlinePasses, gateVars
  <2>7. CASE Close
        BY <2>0, <2>1, <2>7 DEF Close
  <2> QED BY <2>2, <2>3, <2>4, <2>5, <2>6, <2>7 DEF Next
<1> QED BY InitGateInv, NextGateInv, <1>1, PTL DEF Spec, FifoPromotion
=============================================================================
