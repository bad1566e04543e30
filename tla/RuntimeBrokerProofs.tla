------------------------ MODULE RuntimeBrokerProofs ------------------------
(***************************************************************************)
(* Proofs about RuntimeBroker, for any requests, chats and queue length    *)
(* and any number of restarts of the app server.                           *)
(*                                                                         *)
(* What holds whatever the journal does (Always): the gate's own shape,    *)
(* who may hold a lease, what the worker's place says about its run, that  *)
(* a turn is started once and its completion kept, that a deleted chat     *)
(* stays quiet, and, until the app server is first replaced, who owns the  *)
(* turns it runs.  LeaseOK needs a journal that refuses no terminal event: *)
(* a refused run is terminal and keeps its lease.                          *)
(***************************************************************************)
EXTENDS RuntimeBroker, FiniteSetTheorems, TLAPS

-----------------------------------------------------------------------------
(* The invariant.                                                          *)

Run == [st : Statuses, gen : Generation, turn : {"none", "sent", "known"}]
WorkerStates == {"none", "wait", "expired", "begin", "thread", "opened", "dispatch", "turn",
                 "response", "replay", "after", "watch", "judge", "reconcile", "timeout",
                 "except", "abort", "clear", "failed", "done"}
CancelStates == {"none", "abort", "end", "interrupt", "clear"}

Typed ==
    /\ run \in [Request -> Run]
    /\ gate \in [active : SUBSET Request, queued : SUBSET Request]
    /\ leases \subseteq Request /\ admitted \subseteq Request
    /\ worker \in [Request -> WorkerStates]
    /\ saw \in [Request -> BOOLEAN]
    /\ cancel \in [Request -> CancelStates]
    /\ steer \subseteq Request
    /\ server \in [gen : Generation, up : BOOLEAN] /\ server.gen # 0
    /\ live \subseteq Request
    /\ opened \in [Request -> Generation]
    /\ inbox \subseteq [run : Request, gen : Generation, st : Outcome]
    /\ buffered \in [Request -> SUBSET Outcome]
    /\ replaying \subseteq Request
    /\ deleted \subseteq Chat
    /\ closed \in BOOLEAN /\ fatal \in BOOLEAN
    /\ toAbort \subseteq Generation

\* One slot and a bounded queue.
GateOK ==
    /\ \A x, y \in gate.active : x = y
    /\ gate.active \cap gate.queued = {}
    /\ IsFiniteSet(gate.queued) /\ Cardinality(gate.queued) <= MaxQueued

\* A lease has an admission or a run behind it; an admission has a lease.
Holder(r) ==
    /\ r \in Leased => r \in admitted \/ run[r].st # "none"
    /\ r \in admitted => run[r].st = "none" /\ r \in Leased

Early == {"none", "wait", "expired", "begin", "thread", "opened", "dispatch"}
Begun == {"thread", "opened", "dispatch", "turn", "response", "replay", "after", "watch", "judge"}

\* What the worker's place says about the run, and the other way round.
PlaceOK(r) ==
    /\ run[r].st = "none" => /\ worker[r] = "none" /\ cancel[r] = "none"
                             /\ r \notin steer /\ r \notin replaying
    /\ run[r].st = "queued" => /\ worker[r] \in {"wait", "expired", "begin", "except", "failed", "done"}
                               /\ run[r].turn = "none"
    /\ worker[r] \in Early => run[r].turn = "none"
    /\ worker[r] \in {"turn", "response"} => run[r].turn = "sent"
    /\ worker[r] = "abort" => run[r].turn # "none"
    /\ \/ worker[r] \in Begun \/ run[r].turn # "none" \/ run[r].st = "running"
       \/ cancel[r] # "none" \/ r \in steer
       => run[r].gen # 0
    /\ r \in replaying /\ Owned(r) => worker[r] = "replay"
    /\ run[r].gen <= server.gen

\* A started run has the slot, and so has one whose worker was told so.
ActiveOK(r) ==
    run[r].st \in Started \/ (Owned(r) /\ worker[r] = "begin") => r \in gate.active

\* A turn is started once, and is over once.
OnceOK(r) ==
    /\ worker[r] \in Early \cup {"turn"} => r \notin live
    /\ worker[r] \in Early \cup {"turn"} \/ r \in live =>
          buffered[r] = {} /\ \A n \in inbox : n.run # r

\* Its completion is kept for a worker that has the answer to turn/start, or
\* will have it.
Kept(r) ==
    \/ r \in live
    \/ \E n \in inbox : n.run = r /\ n.gen = server.gen
    \/ buffered[r] # {} /\ worker[r] \in {"response", "replay"}

CompletionOK(r) ==
    (/\ Owned(r) /\ run[r].gen = server.gen /\ server.up
     /\ run[r].turn = "known" \/ worker[r] = "response")
    => Kept(r)

\* A deleted chat has no owned run and no call under way.
QuietOK(r) ==
    ChatOf[r] \in deleted => ~Owned(r) /\ cancel[r] = "none" /\ r \notin steer

\* The first generation, while it serves: nobody has given up on it, and its
\* turns belong to runs that are not over.
First == server.gen = 1 /\ server.up /\ ~closed
FirstOK(r) ==
    First =>
        /\ cancel[r] \notin {"end", "clear"}
        /\ worker[r] \notin {"clear", "timeout", "reconcile"}
        /\ r \in live \/ worker[r] = "turn" =>
              Owned(r) /\ run[r].gen = 1 /\ run[r].turn # "none"
        /\ worker[r] = "failed" /\ Owned(r) => run[r].turn = "none"

Sound(r) == /\ Holder(r) /\ PlaceOK(r) /\ ActiveOK(r) /\ OnceOK(r) /\ CompletionOK(r)
            /\ QuietOK(r) /\ FirstOK(r)

Always == Typed /\ GateOK /\ \A r \in Request : Sound(r)

\* With a journal that takes every terminal event.
LeaseOK(r) ==
    /\ r \in leases <=> Owned(r)
    /\ r \in Leased => r \in admitted \/ Owned(r)
    /\ Owned(r) => /\ worker[r] \notin {"none", "done"}
                   /\ worker[r] # "expired" => r \in Leased

Exact == Always /\ ("refuse" \notin Inputs => \A r \in Request : LeaseOK(r))

-----------------------------------------------------------------------------
(* The gate.                                                               *)

\* What is left when leases go: the others, the active one still active.
LEMMA GateWithoutEffect ==
    ASSUME Typed, GateOK, NEW E, gate' \in GateWithout(E)
    PROVE  /\ gate' \in [active : SUBSET Request, queued : SUBSET Request]
           /\ GateOK'
           /\ \A r \in Request : r \in Leased' <=> r \in Leased /\ r \notin E
           /\ \A r \in Request : r \in gate.active /\ r \notin E => r \in gate'.active
    <1> DEFINE a == gate.active \ E
               q == gate.queued \ E
    <1>1. a \subseteq gate.active /\ q \subseteq gate.queued
        OBVIOUS
    <1>2. /\ gate.active \subseteq Request /\ gate.queued \subseteq Request
          /\ \A x, y \in gate.active : x = y
          /\ gate.active \cap gate.queued = {}
          /\ IsFiniteSet(gate.queued) /\ Cardinality(gate.queued) <= MaxQueued
        BY DEF Typed, GateOK
    <1>3. ASSUME NEW s \in SUBSET gate.queued
          PROVE  IsFiniteSet(s) /\ Cardinality(s) <= MaxQueued
        <2>1. IsFiniteSet(s) /\ Cardinality(s) <= Cardinality(gate.queued)
            BY <1>2, FS_Subset
        <2>2. Cardinality(s) \in Nat /\ Cardinality(gate.queued) \in Nat
            BY <1>2, <2>1, FS_CardinalityType
        <2> QED
            BY <1>2, <2>1, <2>2, BrokerAssumption
    <1>4. CASE a = {} /\ q # {}
        <2>1. PICK x \in q : gate' = [active |-> {x}, queued |-> q \ {x}]
            BY <1>4 DEF GateWithout
        <2>2. gate'.active = {x} /\ gate'.queued = q \ {x}
            BY <2>1
        <2>3. IsFiniteSet(gate'.queued) /\ Cardinality(gate'.queued) <= MaxQueued
            BY <1>3, <2>2
        <2>4. gate' \in [active : SUBSET Request, queued : SUBSET Request]
            BY <1>2, <2>1
        <2> QED
            BY <1>2, <1>4, <2>2, <2>3, <2>4 DEF GateOK, Leased
    <1>5. CASE ~(a = {} /\ q # {})
        <2>1. gate' = [active |-> a, queued |-> q]
            BY <1>5 DEF GateWithout
        <2>2. gate'.active = a /\ gate'.queued = q
            BY <2>1
        <2>3. IsFiniteSet(gate'.queued) /\ Cardinality(gate'.queued) <= MaxQueued
            BY <1>3, <2>2
        <2>4. gate' \in [active : SUBSET Request, queued : SUBSET Request]
            BY <1>2, <2>1
        <2> QED
            BY <1>2, <1>5, <2>2, <2>3, <2>4 DEF GateOK, Leased
    <1> QED
        BY <1>4, <1>5

\* A reservation takes the free slot or a free place in the queue.
LEMMA ReservedEffect ==
    ASSUME Typed, GateOK, NEW r \in Request, r \notin Leased, CanReserve, gate' = Reserved(r)
    PROVE  /\ gate' \in [active : SUBSET Request, queued : SUBSET Request]
           /\ GateOK'
           /\ \A x \in Request : x \in Leased' <=> x \in Leased \/ x = r
           /\ \A x \in Request : x \in gate.active => x \in gate'.active
    <1>2. /\ gate.active \subseteq Request /\ gate.queued \subseteq Request
          /\ gate \in [active : SUBSET Request, queued : SUBSET Request]
          /\ \A x, y \in gate.active : x = y
          /\ gate.active \cap gate.queued = {}
          /\ IsFiniteSet(gate.queued) /\ Cardinality(gate.queued) <= MaxQueued
          /\ r \notin gate.active /\ r \notin gate.queued
        BY DEF Typed, GateOK, Leased
    <1>4. CASE gate.active = {}
        <2>1. gate' = [gate EXCEPT !.active = {r}]
            BY <1>4 DEF Reserved
        <2>2. gate'.active = {r} /\ gate'.queued = gate.queued
            BY <1>2, <2>1
        <2> QED
            BY <1>2, <1>4, <2>1, <2>2 DEF GateOK, Leased
    <1>5. CASE gate.active # {}
        <2>1. gate' = [gate EXCEPT !.queued = @ \cup {r}] /\ Cardinality(gate.queued) < MaxQueued
            BY <1>5 DEF Reserved, CanReserve
        <2>2. gate'.active = gate.active /\ gate'.queued = gate.queued \cup {r}
            BY <1>2, <2>1
        <2>3. /\ IsFiniteSet(gate.queued \cup {r})
              /\ Cardinality(gate.queued \cup {r}) = Cardinality(gate.queued) + 1
            BY <1>2, FS_AddElement
        <2>4. Cardinality(gate.queued) \in Nat
            BY <1>2, FS_CardinalityType
        <2>5. Cardinality(gate'.queued) <= MaxQueued
            BY <2>1, <2>2, <2>3, <2>4, BrokerAssumption
        <2> QED
            BY <1>2, <1>5, <2>1, <2>2, <2>3, <2>5 DEF GateOK, Leased
    <1> QED
        BY <1>4, <1>5

-----------------------------------------------------------------------------
(* _terminalize_locked.                                                    *)

\* What ending the runs of T means for request r.
EndsAt(T, r) ==
    /\ run'[r].gen = run[r].gen /\ run'[r].turn = run[r].turn
    /\ run'[r].st = run[r].st \/ (r \in T /\ run'[r].st \in Terminal)
    /\ r \in Leased' => r \in Leased
    /\ r \in Leased /\ run'[r].st = run[r].st => r \in Leased'
    /\ r \in gate.active /\ run'[r].st = run[r].st => r \in gate'.active
    /\ buffered'[r] = buffered[r] \/ (buffered'[r] = {} /\ ~Owned(r)')
    /\ r \in T /\ (T = {r} \/ "refuse" \notin Inputs) => run'[r].st \in Terminal
    /\ "refuse" \notin Inputs => /\ r \in T => r \notin Leased'
                                 /\ r \in leases' <=> r \in leases /\ r \notin T

Ends(T) ==
    /\ run' \in [Request -> Run]
    /\ gate' \in [active : SUBSET Request, queued : SUBSET Request] /\ GateOK'
    /\ leases' \subseteq Request
    /\ buffered' \in [Request -> SUBSET Outcome]
    /\ \A r \in Request : EndsAt(T, r)

\* All of T ends, or one run of it is refused.
LEMMA EndsEffect ==
    ASSUME Typed, GateOK, NEW T \in SUBSET OwnedRuns, NEW S, NEW dropped,
           \A r \in T : S[r] \in Terminal,
           NEW o \in EndOutcomes(T), Valid(o), Ended(o.ended, o.refused, S, dropped)
    PROVE  /\ Ends(T)
           /\ "refuse" \notin Inputs => o.refused = {}
    <1>1. /\ o.ended \subseteq T /\ o.refused \subseteq T
          /\ "refuse" \notin Inputs => o.refused = {} /\ o.ended = T
          /\ o.refused = {} => o.ended = T
          /\ o.refused # {} => \E x \in T : o.refused = {x}
        BY DEF EndOutcomes
    <1>2. PICK E \in SUBSET T, x \in SUBSET T : E = o.ended /\ x = o.refused
        BY <1>1
    <1>3. /\ run' = [r \in Request |->
                       IF r \in E \cup x THEN [run[r] EXCEPT !.st = S[r]] ELSE run[r]]
          /\ gate' \in GateWithout(E \cup (x \cap dropped))
          /\ leases' = leases \ E
          /\ buffered' = [r \in Request |-> IF r \in E THEN {} ELSE buffered[r]]
        BY <1>2 DEF Ended
    <1>4. /\ gate' \in [active : SUBSET Request, queued : SUBSET Request]
          /\ GateOK'
          /\ \A r \in Request : r \in Leased' <=> r \in Leased /\ r \notin E \cup (x \cap dropped)
          /\ \A r \in Request : r \in gate.active /\ r \notin E \cup (x \cap dropped) =>
                r \in gate'.active
        BY <1>3, GateWithoutEffect
    <1>5. leases' \subseteq Request /\ buffered' \in [Request -> SUBSET Outcome]
        BY <1>3 DEF Typed
    <1>6. ASSUME NEW r \in Request
          PROVE  /\ run'[r] \in Run
                 /\ run'[r].gen = run[r].gen /\ run'[r].turn = run[r].turn
                 /\ r \in E \cup x => run'[r].st = S[r]
                 /\ r \notin E \cup x => run'[r].st = run[r].st
        <2>1. run[r] \in Run /\ Terminal \subseteq Statuses
            BY DEF Typed, Statuses
        <2>2. CASE r \in E \cup x
            <3>1. S[r] \in Terminal /\ run'[r] = [run[r] EXCEPT !.st = S[r]]
                BY <1>3, <2>2
            <3> QED
                BY <2>1, <2>2, <3>1 DEF Run
        <2>3. CASE r \notin E \cup x
            BY <1>3, <2>1, <2>3
        <2> QED
            BY <2>2, <2>3
    <1>7. run' \in [Request -> Run]
        BY <1>3, <1>6
    <1>8. ASSUME NEW r \in Request, r \in T
          PROVE  run[r].st \notin Terminal
        BY <1>8 DEF OwnedRuns, Owned, Terminal, Started
    <1>9. \A r \in E \cup x : run'[r].st \in Terminal /\ run'[r].st # run[r].st
        BY <1>6, <1>8 DEF OwnedRuns
    <1>10. ASSUME NEW r \in Request
           PROVE  /\ run'[r].st = run[r].st \/ (r \in T /\ run'[r].st \in Terminal)
                  /\ r \in Leased' => r \in Leased
                  /\ r \in Leased /\ run'[r].st = run[r].st => r \in Leased'
                  /\ r \in gate.active /\ run'[r].st = run[r].st => r \in gate'.active
                  /\ buffered'[r] = buffered[r] \/ (buffered'[r] = {} /\ ~Owned(r)')
        BY <1>3, <1>4, <1>6, <1>9 DEF Owned, Terminal, Started
    <1>11. ASSUME NEW r \in Request
           PROVE  /\ r \in T /\ (T = {r} \/ "refuse" \notin Inputs) => run'[r].st \in Terminal
                  /\ "refuse" \notin Inputs => /\ r \in T => r \notin Leased'
                                               /\ r \in leases' <=> r \in leases /\ r \notin T
        <2>1. T = {r} => r \in E \cup x
            BY <1>1, <1>2
        <2>2. "refuse" \notin Inputs => E = T
            BY <1>1, <1>2
        <2> QED
            BY <1>3, <1>4, <1>9, <2>1, <2>2
    <1> QED
        BY <1>1, <1>4, <1>5, <1>6, <1>7, <1>10, <1>11 DEF Ends, EndsAt

\* A step that leaves the broker's own state alone ends nothing.
LEMMA EndsNothing ==
    ASSUME Typed, GateOK, UNCHANGED brokerVars
    PROVE  Ends({})
    BY DEF Ends, EndsAt, Typed, GateOK, brokerVars, Leased

-----------------------------------------------------------------------------
(* What a step may do around a request that it leaves alone, or ends.      *)

Around(d) ==
    /\ cancel'[d] \in {cancel[d], "none"}
    /\ d \in steer' => d \in steer
    /\ d \in replaying' => d \in replaying
    /\ d \in admitted' <=> d \in admitted
    /\ d \in live' <=> d \in live
    /\ \A n \in inbox' : n.run = d => n \in inbox
    /\ \A n \in inbox : n.run = d => n \in inbox' \/ ~Owned(d)'
    /\ server'.gen = server.gen /\ (server'.up => server.up)
    /\ deleted' = deleted
    /\ closed => closed'

\* Its worker stays where it is, or leaves after what it ended.
Leaves(T, d) ==
    \/ worker'[d] = worker[d]
    \/ /\ worker[d] # "none" /\ worker'[d] \in {"done", "except", "after", "replay"}
       /\ worker'[d] \in {"after", "replay"} => worker[d] \in {"response", "replay"}
       /\ Owned(d) => d \in T
       /\ Owned(d)' => /\ worker[d] \in {"reconcile", "timeout", "clear", "failed"}
                       /\ worker'[d] \in {"done", "except"}

\* A request of which only its end may be new is still sound.
LEMMA EndSound ==
    ASSUME NEW T, NEW d \in Request, d \in T => Owned(d), Sound(d), EndsAt(T, d), Around(d),
           Leaves(T, d), First' /\ d \in T => d \notin live /\ worker[d] # "turn"
    PROVE  Sound(d)'
    <1>0. /\ Owned(d)' => Owned(d) /\ run'[d].st = run[d].st
          /\ ~Owned(d)' => run'[d].st \in Terminal \/ run'[d].st = run[d].st
        BY DEF EndsAt, Owned, Terminal, Started
    <1>1. Holder(d)'
        BY DEF Sound, Holder, EndsAt, Around, Owned, Terminal, Started
    <1>2. PlaceOK(d)'
        <2>1. PlaceOK(d) /\ EndsAt(T, d) /\ Around(d) /\ Leaves(T, d)
            BY DEF Sound
        <2>2. run'[d].st = "none" => /\ worker'[d] = "none" /\ cancel'[d] = "none"
                                     /\ d \notin steer' /\ d \notin replaying'
            BY <2>1 DEF PlaceOK, EndsAt, Around, Leaves, Terminal
        <2>3. run'[d].st = "queued" =>
                 /\ worker'[d] \in {"wait", "expired", "begin", "except", "failed", "done"}
                 /\ run'[d].turn = "none"
            BY <1>0, <2>1 DEF PlaceOK, EndsAt, Leaves, Terminal, Owned
        <2>4. /\ worker'[d] \in Early => run'[d].turn = "none"
              /\ worker'[d] \in {"turn", "response"} => run'[d].turn = "sent"
              /\ worker'[d] = "abort" => run'[d].turn # "none"
            BY <2>1 DEF PlaceOK, EndsAt, Leaves, Early
        <2>5. (\/ worker'[d] \in Begun \/ run'[d].turn # "none" \/ run'[d].st = "running"
               \/ cancel'[d] # "none" \/ d \in steer')
              => run'[d].gen # 0
            BY <2>1 DEF PlaceOK, EndsAt, Around, Leaves, Terminal, Begun
        <2>6. d \in replaying' /\ Owned(d)' => worker'[d] = "replay"
            BY <1>0, <2>1 DEF PlaceOK, Around, Leaves
        <2>7. run'[d].gen <= server'.gen
            BY <2>1 DEF PlaceOK, EndsAt, Around
        <2> QED
            BY <2>2, <2>3, <2>4, <2>5, <2>6, <2>7 DEF PlaceOK
    <1>3. ActiveOK(d)'
        BY <1>0 DEF Sound, ActiveOK, EndsAt, Leaves, Owned, Terminal, Started
    <1>4. OnceOK(d)'
        BY DEF Sound, OnceOK, EndsAt, Around, Leaves, Early
    <1>5. CompletionOK(d)'
        <2> SUFFICES ASSUME Owned(d)', run'[d].gen = server'.gen, server'.up,
                            run'[d].turn = "known" \/ worker'[d] = "response"
                     PROVE  Kept(d)'
            BY DEF CompletionOK
        <2>1. Kept(d) /\ buffered'[d] = buffered[d]
            BY <1>0 DEF Sound, CompletionOK, EndsAt, Around, Leaves, Owned, Terminal, Started
        <2>2. worker[d] \in {"response", "replay"} => worker'[d] = worker[d]
            BY DEF Leaves
        <2> QED
            BY <2>1, <2>2 DEF Kept, Around
    <1>6. QuietOK(d)'
        BY <1>0 DEF Sound, QuietOK, Around
    <1>7. FirstOK(d)'
        <2> SUFFICES ASSUME First' PROVE FirstOK(d)'
            BY DEF FirstOK
        <2>1. First
            BY DEF First, Around
        <2>2. /\ cancel[d] \notin {"end", "clear"}
              /\ worker[d] \notin {"clear", "timeout", "reconcile"}
              /\ d \in live \/ worker[d] = "turn" =>
                    Owned(d) /\ run[d].gen = 1 /\ run[d].turn # "none"
              /\ worker[d] = "failed" /\ Owned(d) => run[d].turn = "none"
            BY <2>1 DEF Sound, FirstOK
        <2>3. /\ cancel'[d] \notin {"end", "clear"}
              /\ worker'[d] \notin {"clear", "timeout", "reconcile"}
            BY <2>2 DEF Around, Leaves
        <2>4. d \in live' \/ worker'[d] = "turn" =>
                 Owned(d)' /\ run'[d].gen = 1 /\ run'[d].turn # "none"
            <3>1. SUFFICES ASSUME d \in live' \/ worker'[d] = "turn"
                           PROVE  Owned(d)' /\ run'[d].gen = 1 /\ run'[d].turn # "none"
                OBVIOUS
            <3>2. d \in live \/ worker[d] = "turn"
                BY <3>1 DEF Around, Leaves
            <3>3. d \notin T
                BY <3>2
            <3> QED
                BY <2>2, <3>2, <3>3 DEF EndsAt, Owned
        <2>5. worker'[d] = "failed" /\ Owned(d)' => run'[d].turn = "none"
            BY <1>0, <2>2 DEF Leaves, EndsAt
        <2> QED
            BY <2>3, <2>4, <2>5 DEF FirstOK
    <1> QED
        BY <1>1, <1>2, <1>3, <1>4, <1>5, <1>6, <1>7 DEF Sound

\* With a journal that refuses nothing, its lease is right too.
LEMMA EndLeased ==
    ASSUME NEW T, NEW d \in Request, d \in T => Owned(d), LeaseOK(d), EndsAt(T, d), Around(d),
           Leaves(T, d), "refuse" \notin Inputs
    PROVE  LeaseOK(d)'
    <1>1. /\ Owned(d)' => Owned(d) /\ run'[d].st = run[d].st /\ d \notin T
          /\ Owned(d) /\ d \notin T => Owned(d)'
        BY DEF EndsAt, Owned, Terminal, Started
    <1>2. Owned(d)' => worker'[d] = worker[d]
        BY <1>1 DEF Leaves
    <1> QED
        BY <1>1, <1>2 DEF LeaseOK, EndsAt, Around

\* A step that ends the runs of T, and moves workers only after their end.
LEMMA EndsKeep ==
    ASSUME Exact, NEW T \in SUBSET OwnedRuns, Ends(T),
           \A d \in Request : Around(d) /\ Leaves(T, d),
           First' => \A d \in T : d \notin live /\ worker[d] # "turn",
           Typed'
    PROVE  Exact'
    <1>1. \A d \in T : d \in Request /\ Owned(d)
        BY DEF OwnedRuns
    <1>2. \A d \in Request : Sound(d)'
        BY <1>1, EndSound DEF Exact, Always, Ends
    <1>3. "refuse" \notin Inputs => \A d \in Request : LeaseOK(d)'
        BY <1>1, EndLeased DEF Exact, Ends
    <1> QED
        BY <1>2, <1>3 DEF Exact, Always, Ends

-----------------------------------------------------------------------------
(* The steps that end runs.                                                *)

\* The runs that steps end are owned, and end with a terminal status.
LEMMA OwnedSets ==
    ASSUME NEW r \in Request
    PROVE  /\ Own(r) \subseteq OwnedRuns /\ Queued \subseteq OwnedRuns
           /\ Own(r) = {} \/ Own(r) = {r}
           /\ Owned(r) => Own(r) = {r}
           /\ r \in Own(r) <=> Owned(r)
    BY DEF Own, OwnedRuns, Queued, Owned

LEMMA FateTerminal ==
    ASSUME NEW r, NEW st \in Terminal
    PROVE  \A x \in Request : Fate(r, st)[x] \in Terminal
    BY DEF Fate, Terminal

LEMMA StatusAfterTerminal ==
    ASSUME NEW r, NEW st \in Outcome
    PROVE  StatusAfter(r, st) \in Terminal
    BY DEF StatusAfter, Outcome, Terminal

\* The worker's move.
LEMMA GoEffect ==
    ASSUME Typed, NEW r \in Request, NEW w \in WorkerStates, Go(r, w)
    PROVE  /\ worker' \in [Request -> WorkerStates] /\ worker'[r] = w
           /\ \A d \in Request : d # r => worker'[d] = worker[d]
    BY DEF Typed, Go

\* Nothing but the broker's own state and a worker changes.
Inside == UNCHANGED <<admitted, saw, cancel, steer, serverVars, replaying, endVars>>

LEMMA InsideAround ==
    ASSUME Inside
    PROVE  /\ \A d \in Request : Around(d)
           /\ First' <=> First
    BY DEF Inside, Around, serverVars, endVars, First

LEMMA InsideTyped ==
    ASSUME Typed, Inside, NEW T, Ends(T), worker' \in [Request -> WorkerStates]
    PROVE  Typed'
    BY DEF Typed, Inside, Ends, serverVars, endVars

\* A worker that ends runs, its own among them, and leaves.
LEMMA EndsAllKeep ==
    ASSUME Exact, NEW r \in Request, NEW T \in SUBSET OwnedRuns, Own(r) \subseteq T,
           NEW S, \A d \in T : S[d] \in Terminal, NEW dropped,
           NEW refused \in {"done", "except"}, EndsAll(r, T, S, dropped, refused),
           worker[r] # "none",
           T = Own(r) \/ worker[r] \in {"reconcile", "timeout", "clear", "failed"},
           First => \A d \in T : d \notin live /\ worker[d] # "turn"
    PROVE  Exact'
    <1>0. Typed /\ GateOK /\ \A d \in Request : Sound(d)
        BY DEF Exact, Always
    <1>1. PICK o \in EndOutcomes(T) :
              /\ Valid(o) /\ Ended(o.ended, o.refused, S, dropped)
              /\ Go(r, IF o.refused = {} THEN "done" ELSE refused)
        BY DEF EndsAll
    <1>2. Ends(T)
        BY <1>0, <1>1, EndsEffect
    <1>3. PICK w \in {"done", "except"} : Go(r, w)
        BY <1>1
    <1>4. /\ worker' \in [Request -> WorkerStates] /\ worker'[r] = w
          /\ \A d \in Request : d # r => worker'[d] = worker[d]
        BY <1>0, <1>3, GoEffect DEF WorkerStates
    <1>5. Inside
        BY DEF EndsAll, Inside
    <1>6. Leaves(T, r)
        <2>1. Owned(r) => r \in T
            BY OwnedSets
        <2>2. T = Own(r) => ~Owned(r)'
            <3>1. SUFFICES ASSUME T = Own(r) PROVE ~Owned(r)'
                OBVIOUS
            <3>2. CASE Owned(r)
                <4>1. T = {r} /\ EndsAt(T, r)
                    BY <1>2, <3>1, <3>2, OwnedSets DEF Ends
                <4> QED
                    BY <4>1 DEF EndsAt, Owned, Terminal, Started
            <3>3. CASE ~Owned(r)
                <4>1. r \notin T /\ EndsAt(T, r)
                    BY <1>2, <3>1, <3>3, OwnedSets DEF Ends
                <4> QED
                    BY <3>3, <4>1 DEF EndsAt, Owned
            <3> QED
                BY <3>2, <3>3
        <2> QED
            BY <1>3, <1>4, <2>1, <2>2 DEF Leaves
    <1>7. \A d \in Request : Leaves(T, d)
        BY <1>4, <1>6 DEF Leaves
    <1> QED
        BY <1>0, <1>2, <1>4, <1>5, <1>7, InsideAround, InsideTyped, EndsKeep

\* Ending the one run of a worker that has no turn yet.
LEMMA EndsOwnKeep ==
    ASSUME Exact, NEW r \in Request, worker[r] \in Early \ {"none"},
           NEW S, \A d \in Request : S[d] \in Terminal, NEW dropped,
           NEW refused \in {"done", "except"}, EndsAll(r, Own(r), S, dropped, refused)
    PROVE  Exact'
    <1>1. Sound(r)
        BY DEF Exact, Always
    <1>2. r \notin live /\ worker[r] # "turn" /\ worker[r] # "none"
        BY <1>1 DEF Sound, OnceOK, Early
    <1>3. \A d \in Own(r) : d = r
        BY DEF Own
    <1> QED
        BY <1>2, <1>3, OwnedSets, EndsAllKeep

LEMMA ExpiredStep ==
    ASSUME Exact, NEW r \in Request, Expired(r) \/ AccountRefuses(r)
    PROVE  Exact'
    <1>1. "cancelled" \in Terminal /\ {"expired", "begin"} \subseteq Early \ {"none"}
        BY DEF Terminal, Early
    <1>2. CASE Expired(r)
        BY <1>1, <1>2, FateTerminal, EndsOwnKeep DEF Expired
    <1>3. CASE AccountRefuses(r)
        <2>1. \A d \in Request : [x \in Request |-> "cancelled"][d] \in Terminal
            BY <1>1
        <2> QED
            BY <1>1, <1>3, <2>1, EndsOwnKeep DEF AccountRefuses
    <1> QED
        BY <1>2, <1>3

\* A cancellation found before the turn was asked for.
LEMMA CancellingStep ==
    ASSUME Exact, NEW r \in Request, worker[r] \in {"begin", "opened"}, Owned(r),
           EndsAll(r, {r}, Fate(r, "cancelled"), {}, "except")
    PROVE  Exact'
    <1>1. "cancelled" \in Terminal /\ {"begin", "opened"} \subseteq Early \ {"none"}
        BY DEF Terminal, Early
    <1> QED
        BY <1>1, OwnedSets, FateTerminal, EndsOwnKeep

LEMMA ReconcileStep ==
    ASSUME Exact, NEW r \in Request, Reconcile(r)
    PROVE  Exact'
    <1>1. Sound(r) /\ worker[r] = "reconcile"
        BY DEF Exact, Always, Reconcile
    <1>2. ~First
        BY <1>1 DEF Sound, FirstOK
    <1>3. \A d \in OwnedRuns : [x \in Request |-> "interrupted"][d] \in Terminal
        BY DEF OwnedRuns, Terminal
    <1> QED
        BY <1>1, <1>2, <1>3, OwnedSets, EndsAllKeep DEF Reconcile

LEMMA TimeoutEndsStep ==
    ASSUME Exact, NEW r \in Request, TimeoutEnds(r)
    PROVE  Exact'
    <1>1. Sound(r) /\ worker[r] = "timeout"
        BY DEF Exact, Always, TimeoutEnds
    <1>2. ~First
        BY <1>1 DEF Sound, FirstOK
    <1>3. PICK st \in Terminal : st = IF saw[r] THEN "cancelled" ELSE "failed"
        BY DEF Terminal
    <1>4. \A d \in Queued \cup Own(r) : Fate(r, st)[d] \in Terminal
        BY FateTerminal DEF Queued, Own
    <1>5. EndsAll(r, Queued \cup Own(r), Fate(r, st), Queued, "except")
        BY <1>3 DEF TimeoutEnds
    <1> QED
        BY <1>1, <1>2, <1>4, <1>5, OwnedSets, EndsAllKeep

LEMMA FailedStep ==
    ASSUME Exact, NEW r \in Request, Failed(r)
    PROVE  Exact'
    <1> DEFINE T == (IF worker[r] = "clear" THEN Queued ELSE {}) \cup Own(r)
               S == [Fate(r, "failed") EXCEPT ![r] = IF run[r].st = "queued"
                                                     THEN "cancelled" ELSE "failed"]
               dropped == IF worker[r] = "clear" THEN Queued ELSE {}
    <1>1. Sound(r) /\ worker[r] \in {"clear", "failed"}
        BY DEF Exact, Always, Failed
    <1>2. EndsAll(r, T, S, dropped, "done")
        BY DEF Failed
    <1>3. T \subseteq OwnedRuns /\ Own(r) \subseteq T
        BY OwnedSets
    <1>4. \A d \in T : S[d] \in Terminal
        <2>1. "failed" \in Terminal /\ "cancelled" \in Terminal
            BY DEF Terminal
        <2>2. \A d \in Request : Fate(r, "failed")[d] \in Terminal
            BY <2>1, FateTerminal
        <2>3. \A d \in Request : S[d] \in Terminal
            BY <2>1, <2>2 DEF Fate
        <2> QED
            BY <1>3, <2>3 DEF OwnedRuns
    <1>5. First => \A d \in T : d \notin live /\ worker[d] # "turn"
        <2>1. SUFFICES ASSUME First PROVE \A d \in T : d \notin live /\ worker[d] # "turn"
            OBVIOUS
        <2>2. worker[r] = "failed" /\ (Owned(r) => run[r].turn = "none")
              /\ (r \in live => run[r].turn # "none")
            BY <1>1, <2>1 DEF Sound, FirstOK
        <2>3. \A d \in T : d = r /\ Owned(r)
            BY <2>2 DEF Own
        <2> QED
            BY <2>2, <2>3
    <1> HIDE DEF T, S, dropped
    <1> QED
        BY <1>1, <1>2, <1>3, <1>4, <1>5, EndsAllKeep

\* The completion of a turn, read in the answer or in the replay, ends one run.
LEMMA EndsOneKeep ==
    ASSUME Exact, NEW r \in Request, Owned(r), r \notin live, worker[r] \in {"response", "replay"},
           NEW st \in Outcome, NEW o \in EndOutcomes({r}), Valid(o),
           Ended(o.ended, o.refused, Fate(r, StatusAfter(r, st)), {}),
           NEW w \in {"after", "replay", "except"}, Go(r, w), Inside
    PROVE  Exact'
    <1>0. Typed /\ GateOK /\ \A d \in Request : Sound(d)
        BY DEF Exact, Always
    <1>1. \A d \in {r} : Fate(r, StatusAfter(r, st))[d] \in Terminal
        BY StatusAfterTerminal, FateTerminal
    <1>2. {r} \in SUBSET OwnedRuns
        BY DEF OwnedRuns
    <1>3. Ends({r})
        BY <1>0, <1>1, <1>2, EndsEffect
    <1>4. /\ worker' \in [Request -> WorkerStates] /\ worker'[r] = w
          /\ \A d \in Request : d # r => worker'[d] = worker[d]
        BY <1>0, GoEffect DEF WorkerStates
    <1>5. ~Owned(r)'
        BY <1>3 DEF Ends, EndsAt, Owned, Terminal, Started
    <1>6. \A d \in Request : Leaves({r}, d)
        BY <1>4, <1>5 DEF Leaves
    <1> QED
        BY <1>0, <1>2, <1>3, <1>4, <1>6, InsideAround, InsideTyped, EndsKeep

LEMMA TurnOverStep ==
    ASSUME Exact, NEW r \in Request, TurnOver(r)
    PROVE  Exact'
    <1>1. worker[r] = "response" /\ Owned(r) /\ r \notin live /\ Inside
        BY DEF TurnOver, SameGeneration, Inside
    <1>2. PICK st \in buffered[r] \cup {n.st : n \in {m \in inbox : m.run = r}} :
             \E o \in EndOutcomes({r}) :
                /\ Valid(o)
                /\ Ended(o.ended, o.refused, Fate(r, StatusAfter(r, st)), {})
                /\ Go(r, IF o.refused = {} THEN "after" ELSE "except")
        BY DEF TurnOver
    <1>3. st \in Outcome
        BY <1>2 DEF Exact, Always, Typed
    <1>4. PICK o \in EndOutcomes({r}) :
             /\ Valid(o)
             /\ Ended(o.ended, o.refused, Fate(r, StatusAfter(r, st)), {})
             /\ Go(r, IF o.refused = {} THEN "after" ELSE "except")
        BY <1>2
    <1>5. PICK w \in {"after", "replay", "except"} : Go(r, w)
        BY <1>4
    <1> QED
        BY <1>1, <1>3, <1>4, <1>5, EndsOneKeep

\* A buffered completion ends the run; what follows it is discarded.
LEMMA ReplayStep ==
    ASSUME Exact, NEW r \in Request, Replay(r)
    PROVE  Exact'
    <1>0. Typed /\ GateOK /\ \A d \in Request : Sound(d)
        BY DEF Exact, Always
    <1>1. worker[r] = "replay" /\ Inside
        BY DEF Replay, Inside
    <1>2. PICK st \in buffered[r] :
             IF Owned(r)
             THEN \E o \in EndOutcomes({r}) :
                     /\ Valid(o)
                     /\ Ended(o.ended, o.refused, Fate(r, StatusAfter(r, st)), {})
                     /\ Go(r, IF o.refused = {} THEN "replay" ELSE "except")
             ELSE /\ buffered' = [buffered EXCEPT ![r] = @ \ {st}]
                  /\ UNCHANGED <<run, gate, leases, worker>>
        BY DEF Replay
    <1>3. st \in Outcome /\ r \notin live
        BY <1>0, <1>2 DEF Typed, Sound, OnceOK
    <1>4. CASE Owned(r)
        <2>1. PICK o \in EndOutcomes({r}) :
                 /\ Valid(o)
                 /\ Ended(o.ended, o.refused, Fate(r, StatusAfter(r, st)), {})
                 /\ Go(r, IF o.refused = {} THEN "replay" ELSE "except")
            BY <1>2, <1>4
        <2>2. PICK w \in {"after", "replay", "except"} : Go(r, w)
            BY <2>1
        <2> QED
            BY <1>1, <1>3, <1>4, <2>1, <2>2, EndsOneKeep
    <1>5. CASE ~Owned(r)
        <2>1. /\ UNCHANGED <<run, gate, leases, worker>>
              /\ buffered' = [buffered EXCEPT ![r] = @ \ {st}]
            BY <1>2, <1>5
        <2>2. /\ buffered' \in [Request -> SUBSET Outcome]
              /\ buffered'[r] \subseteq buffered[r]
              /\ \A d \in Request : d # r => buffered'[d] = buffered[d]
            BY <1>0, <2>1 DEF Typed
        <2>3. Typed'
            BY <1>0, <1>1, <2>1, <2>2 DEF Typed, Inside, serverVars, endVars
        <2>4. GateOK'
            BY <1>0, <2>1 DEF GateOK
        <2>5. ASSUME NEW d \in Request, d # r PROVE EndsAt({}, d) /\ Leaves({}, d)
            BY <2>1, <2>2, <2>5 DEF EndsAt, Leased, Leaves
        <2>6. \A d \in Request : d # r => Sound(d)'
            BY <1>0, <1>1, <2>5, InsideAround, EndSound
        <2>7. UNCHANGED <<run, gate, leases, worker, admitted, cancel, steer, server, live,
                          inbox, replaying, deleted, closed>>
            BY <1>1, <2>1 DEF Inside, serverVars, endVars
        <2>8. Sound(r)'
            <3>1. Sound(r) /\ ~Owned(r)'
                BY <1>0, <1>5, <2>7 DEF Owned
            <3>2. Holder(r)' /\ PlaceOK(r)' /\ ActiveOK(r)' /\ QuietOK(r)' /\ FirstOK(r)'
                BY <2>7, <3>1
                DEF Sound, Holder, PlaceOK, ActiveOK, QuietOK, FirstOK, First, Owned, Leased
            <3>3. OnceOK(r)'
                BY <2>2, <2>7, <3>1 DEF Sound, OnceOK
            <3> QED
                BY <3>1, <3>2, <3>3 DEF Sound, CompletionOK
        <2>9. \A d \in Request : LeaseOK(d)' <=> LeaseOK(d)
            BY <2>7 DEF LeaseOK, Owned, Leased
        <2> QED
            BY <2>3, <2>4, <2>6, <2>8, <2>9 DEF Exact, Always
    <1> QED
        BY <1>4, <1>5

\* A step of a call or of the callback thread that ends runs: the workers stay.
LEMMA EndsOutsideKeep ==
    ASSUME Exact, NEW T \in SUBSET OwnedRuns, NEW S, \A d \in T : S[d] \in Terminal, NEW dropped,
           NEW o \in EndOutcomes(T), Valid(o), Ended(o.ended, o.refused, S, dropped),
           UNCHANGED <<admitted, worker, saw, live, opened, replaying, endVars>>,
           cancel' \in [Request -> CancelStates],
           \A d \in Request : cancel'[d] \in {cancel[d], "none"},
           steer' \subseteq steer,
           inbox' \subseteq inbox, \A n \in inbox : n \in inbox' \/ T = {n.run},
           server' \in [gen : Generation, up : BOOLEAN],
           server'.gen = server.gen, server'.up => server.up,
           First' => \A d \in T : d \notin live /\ worker[d] # "turn"
    PROVE  Exact'
    <1>0. Typed /\ GateOK /\ \A d \in Request : Sound(d)
        BY DEF Exact, Always
    <1>1. Ends(T)
        BY <1>0, EndsEffect
    <1>2. Typed'
        BY <1>0, <1>1 DEF Typed, Ends, endVars
    <1>3. ASSUME NEW d \in Request PROVE Around(d) /\ Leaves(T, d)
        <2>1. \A n \in inbox : n.run = d => n \in inbox' \/ ~Owned(d)'
            <3>1. T = {d} => run'[d].st \in Terminal
                BY <1>1 DEF Ends, EndsAt
            <3> QED
                BY <3>1 DEF Owned, Terminal, Started
        <2> QED
            BY <2>1 DEF Around, Leaves, endVars
    <1> QED
        BY <1>1, <1>2, <1>3, EndsKeep

\* What AbortGeneration leaves.
LEMMA AbortEffect ==
    ASSUME Typed, NEW g
    PROVE  /\ AbortGeneration(g) \in [gen : Generation, up : BOOLEAN]
           /\ AbortGeneration(g).gen = server.gen
           /\ AbortGeneration(g).up => server.up
           /\ g = server.gen => ~AbortGeneration(g).up
    BY DEF Typed, AbortGeneration

LEMMA CancelQueuedStep ==
    ASSUME Exact, NEW r \in Request, CancelQueued(r)
    PROVE  Exact'
    <1>0. Typed /\ Sound(r)
        BY DEF Exact, Always
    <1>1. PICK o \in EndOutcomes({r}) :
             Valid(o) /\ Ended(o.ended, o.refused, [x \in Request |-> "cancelled"], Queued)
        BY DEF CancelQueued
    <1>2. /\ run[r].st = "queued" /\ {r} \in SUBSET OwnedRuns
          /\ UNCHANGED <<admitted, worker, saw, cancel, steer, server, live, opened, inbox,
                         replaying, endVars>>
        BY DEF CancelQueued, OwnedRuns, Owned, pcVars, serverVars
    <1>3. \A d \in {r} : [x \in Request |-> "cancelled"][d] \in Terminal
        BY DEF Terminal
    <1>4. First => r \notin live /\ worker[r] # "turn"
        BY <1>0, <1>2 DEF Sound, FirstOK, PlaceOK
    <1>5. First' => First
        BY <1>2 DEF First, endVars
    <1> QED
        BY <1>0, <1>1, <1>2, <1>3, <1>4, <1>5, EndsOutsideKeep DEF Typed

LEMMA CancelEndsStep ==
    ASSUME Exact, NEW r \in Request, CancelEnds(r)
    PROVE  Exact'
    <1>0. Typed /\ Sound(r)
        BY DEF Exact, Always
    <1>1. PICK T : T = Queued \cup (IF cancel[r] = "end" THEN Own(r) ELSE {})
        OBVIOUS
    <1>2. T \in SUBSET OwnedRuns
        BY <1>1, OwnedSets
    <1>3. PICK o \in EndOutcomes(T) :
             Valid(o) /\ Ended(o.ended, o.refused, Fate(r, "cancelled"), Queued)
        BY <1>1 DEF CancelEnds
    <1>4. \A d \in T : Fate(r, "cancelled")[d] \in Terminal
        BY <1>2, FateTerminal DEF Terminal, OwnedRuns
    <1>5. /\ UNCHANGED <<admitted, worker, saw, steer, server, live, opened, inbox,
                         replaying, endVars>>
          /\ cancel' = [cancel EXCEPT ![r] = "none"] /\ cancel[r] \in {"end", "clear"}
        BY DEF CancelEnds, Cancels, serverVars
    <1>6. /\ cancel' \in [Request -> CancelStates]
          /\ \A d \in Request : cancel'[d] \in {cancel[d], "none"}
        BY <1>0, <1>5 DEF Typed, CancelStates
    <1>7. ~First'
        BY <1>0, <1>5 DEF Sound, FirstOK, First, endVars
    <1> QED
        BY <1>0, <1>2, <1>3, <1>4, <1>5, <1>6, <1>7, EndsOutsideKeep DEF Typed

\* The generation goes with the run: no turn of it is served any more.
LEMMA EndsWithGenerationKeep ==
    ASSUME Exact, NEW r \in Request, NEW st \in Terminal, EndsWithGeneration(r, st),
           steer' \subseteq steer, run[r].gen # 0
    PROVE  Exact'
    <1>0. Typed /\ Sound(r)
        BY DEF Exact, Always
    <1>1. PICK T : T = Queued \cup Own(r)
        OBVIOUS
    <1>2. T \in SUBSET OwnedRuns
        BY <1>1, OwnedSets
    <1>3. PICK o \in EndOutcomes(T) :
             Valid(o) /\ Ended(o.ended, o.refused, Fate(r, st), Queued)
        BY <1>1 DEF EndsWithGeneration
    <1>4. \A d \in T : Fate(r, st)[d] \in Terminal
        BY <1>2, FateTerminal DEF OwnedRuns
    <1>5. /\ UNCHANGED <<admitted, worker, saw, cancel, live, opened, inbox, replaying, endVars>>
          /\ server' = AbortGeneration(run[r].gen)
        BY DEF EndsWithGeneration
    <1>6. /\ server' \in [gen : Generation, up : BOOLEAN]
          /\ server'.gen = server.gen /\ (server'.up => server.up)
          /\ run[r].gen = server.gen => ~server'.up
        BY <1>0, <1>5, AbortEffect
    <1>7. ~First'
        <2>1. server.gen = 1 => run[r].gen = 1
            <3>1. run[r].gen \in Nat /\ run[r].gen <= server.gen
                BY <1>0, BrokerAssumption DEF Sound, PlaceOK, Typed, Run, Generation
            <3> QED
                BY <3>1
        <2> QED
            BY <1>6, <2>1 DEF First
    <1> QED
        BY <1>0, <1>2, <1>3, <1>4, <1>5, <1>6, <1>7, EndsOutsideKeep DEF Typed

LEMMA GenerationStep ==
    ASSUME Exact, NEW r \in Request, SteerFails(r) \/ InteractionExpires(r) \/ BufferOverflows(r)
    PROVE  Exact'
    <1>0. Typed /\ Sound(r) /\ {"interrupted", "failed"} \subseteq Terminal
        BY DEF Exact, Always, Terminal
    <1>1. CASE SteerFails(r)
        <2>1. run[r].gen # 0 /\ steer' \subseteq steer
            BY <1>0, <1>1 DEF SteerFails, Sound, PlaceOK
        <2> QED
            BY <1>0, <1>1, <2>1, EndsWithGenerationKeep DEF SteerFails
    <1>2. CASE InteractionExpires(r)
        <2>1. run[r].gen # 0 /\ steer' \subseteq steer
            BY <1>0, <1>2 DEF InteractionExpires, Sound, PlaceOK
        <2> QED
            BY <1>0, <1>2, <2>1, EndsWithGenerationKeep DEF InteractionExpires
    <1>3. CASE BufferOverflows(r)
        <2>1. run[r].gen # 0 /\ steer' \subseteq steer
            BY <1>0, <1>3 DEF BufferOverflows, Typed
        <2> QED
            BY <1>0, <1>3, <2>1, EndsWithGenerationKeep DEF BufferOverflows
    <1> QED
        BY <1>1, <1>2, <1>3

-----------------------------------------------------------------------------
(* The steps of a worker that only move it on.                             *)

\* Worker r moves to w, and what is not the broker's may change around it.
LEMMA MoveKeep ==
    ASSUME Exact, NEW r \in Request,
           NEW w \in WorkerStates \ {"none", "wait", "turn", "response", "replay"}, Go(r, w),
           UNCHANGED brokerVars, \A d \in Request : Around(d), Typed',
           worker[r] \notin {"none", "expired"},
           w \in Early => worker[r] \in Early,
           w \in Begun => worker[r] \in Begun,
           run[r].st = "queued" => w \in {"wait", "expired", "begin", "except", "failed", "done"},
           Owned(r) => r \notin replaying',
           w = "begin" => r \in gate.active,
           w = "abort" => run[r].turn # "none",
           worker[r] = "replay" => buffered[r] = {},
           First' => w \notin {"clear", "timeout", "reconcile"},
           w = "failed" /\ Owned(r) => run[r].turn = "none",
           Owned(r) => w # "done"
    PROVE  Exact'
    <1>0. Typed /\ GateOK /\ \A d \in Request : Sound(d)
        BY DEF Exact, Always
    <1>1. Ends({})
        BY <1>0, EndsNothing
    <1>2. /\ worker'[r] = w
          /\ \A d \in Request : d # r => worker'[d] = worker[d]
        BY <1>0, GoEffect
    <1>3. \A d \in Request : d # r => Leaves({}, d)
        BY <1>2 DEF Leaves
    <1>4. \A d \in Request : d # r => Sound(d)'
        BY <1>0, <1>1, <1>3, EndSound DEF Ends
    <1>5. UNCHANGED <<run, gate, leases, buffered>> /\ (Owned(r)' <=> Owned(r))
        BY DEF brokerVars, Owned
    <1>6. Sound(r) /\ Around(r)
        BY <1>0
    <1>7. Holder(r)'
        BY <1>5, <1>6 DEF Sound, Holder, Around, Leased
    <1>8. PlaceOK(r)'
        <2>1. PlaceOK(r)
            BY <1>6 DEF Sound
        <2>2. run[r].st # "none"
            BY <2>1 DEF PlaceOK
        <2>3. /\ w \in Early => run[r].turn = "none"
              /\ run[r].st = "queued" => run[r].turn = "none"
              /\ run[r].gen <= server'.gen
            BY <1>6, <2>1 DEF PlaceOK, Around
        <2>4. (\/ w \in Begun \/ run[r].turn # "none" \/ run[r].st = "running"
               \/ cancel'[r] # "none" \/ r \in steer') => run[r].gen # 0
            BY <1>6, <2>1 DEF PlaceOK, Around
        <2> QED
            BY <1>2, <1>5, <2>2, <2>3, <2>4 DEF PlaceOK
    <1>9. ActiveOK(r)'
        BY <1>2, <1>5, <1>6 DEF Sound, ActiveOK
    <1>10. OnceOK(r)'
        BY <1>2, <1>5, <1>6 DEF Sound, OnceOK, Around
    <1>11. CompletionOK(r)'
        <2> SUFFICES ASSUME Owned(r)', run'[r].gen = server'.gen, server'.up,
                            run'[r].turn = "known" \/ worker'[r] = "response"
                     PROVE  Kept(r)'
            BY DEF CompletionOK
        <2>1. run[r].turn = "known"
            BY <1>2, <1>5
        <2>2. Kept(r)
            BY <1>5, <1>6, <2>1 DEF Sound, CompletionOK, Around
        <2>3. worker[r] # "response"
            BY <1>6, <2>1 DEF Sound, PlaceOK
        <2> QED
            BY <1>5, <1>6, <2>2, <2>3 DEF Kept, Around
    <1>12. QuietOK(r)'
        BY <1>5, <1>6 DEF Sound, QuietOK, Around
    <1>13. FirstOK(r)'
        <2> SUFFICES ASSUME First' PROVE FirstOK(r)'
            BY DEF FirstOK
        <2>1. First
            BY <1>6 DEF First, Around
        <2> QED
            BY <1>2, <1>5, <1>6, <2>1 DEF Sound, FirstOK, Around
    <1>14. Sound(r)'
        BY <1>7, <1>8, <1>9, <1>10, <1>11, <1>12, <1>13 DEF Sound
    <1>15. "refuse" \notin Inputs => \A d \in Request : LeaseOK(d)'
        <2> SUFFICES ASSUME "refuse" \notin Inputs, NEW d \in Request PROVE LeaseOK(d)'
            OBVIOUS
        <2>1. LeaseOK(d)
            BY DEF Exact
        <2>2. CASE d # r
            BY <1>1, <1>3, <2>1, <2>2, EndLeased DEF Ends
        <2>3. CASE d = r
            BY <1>2, <1>5, <1>6, <2>1, <2>3 DEF LeaseOK, Around, Leased
        <2> QED
            BY <2>2, <2>3
    <1> QED
        BY <1>0, <1>1, <1>4, <1>14, <1>15 DEF Exact, Always, Ends

\* A generation that is known to be the run's own is served no more once aborted.
LEMMA FirstAborted ==
    ASSUME Typed, NEW r \in Request, Sound(r), run[r].gen # 0, server.gen = 1
    PROVE  run[r].gen = 1
    <1>1. run[r].gen \in Nat /\ run[r].gen <= server.gen
        BY BrokerAssumption DEF Sound, PlaceOK, Typed, Run, Generation
    <1> QED
        BY <1>1

\* What a plain move leaves to be shown.
LEMMA MovesEffect ==
    ASSUME Exact, NEW r \in Request, NEW f, NEW w \in WorkerStates, Moves(r, f, w)
    PROVE  /\ worker[r] = f /\ Go(r, w) /\ UNCHANGED brokerVars /\ Typed'
           /\ \A d \in Request : Around(d)
           /\ replaying' = replaying /\ (First' <=> First)
           /\ Sound(r)
           /\ Owned(r) /\ r \in replaying => worker[r] = "replay"
    <1>0. Typed /\ GateOK /\ Sound(r)
        BY DEF Exact, Always
    <1>1. worker[r] = f /\ Go(r, w) /\ UNCHANGED brokerVars /\ Inside
        BY DEF Moves, Inside
    <1>2. Typed'
        BY <1>0, <1>1, EndsNothing, GoEffect, InsideTyped
    <1>3. Owned(r) /\ r \in replaying => worker[r] = "replay"
        BY <1>0 DEF Sound, PlaceOK
    <1> QED
        BY <1>0, <1>1, <1>2, <1>3, InsideAround DEF Inside

LEMMA EarlyMoveStep ==
    ASSUME Exact, NEW r \in Request, LeaseActive(r) \/ LeaseGone(r) \/ DeadlinePasses(r)
    PROVE  Exact'
    <1> USE DEF WorkerStates, Early, Begun
    <1>1. CASE LeaseActive(r)
        <2>1. Moves(r, "wait", "begin") /\ r \in gate.active
            BY <1>1 DEF LeaseActive
        <2> QED
            BY <2>1, MovesEffect, MoveKeep
    <1>2. CASE LeaseGone(r)
        <2>1. Moves(r, "wait", "expired")
            BY <1>2 DEF LeaseGone
        <2> QED
            BY <2>1, MovesEffect, MoveKeep
    <1>3. CASE DeadlinePasses(r)
        <2>1. worker[r] \in {"begin", "dispatch"} /\ Moves(r, worker[r], "except")
            BY <1>3 DEF DeadlinePasses
        <2> QED
            BY <2>1, MovesEffect, MoveKeep
    <1> QED
        BY <1>1, <1>2, <1>3

LEMMA SeesEndStep ==
    ASSUME Exact, NEW r \in Request, SeesEnd(r)
    PROVE  Exact'
    <1>1. /\ worker[r] \in {"begin", "thread", "opened", "dispatch", "response", "after", "watch"}
          /\ ~Owned(r) /\ Moves(r, worker[r], "done")
        BY DEF SeesEnd
    <1> QED
        BY <1>1, MovesEffect, MoveKeep DEF WorkerStates, Early, Begun

\* A request that failed, or a generation that is gone, takes the worker to
\* its handlers.
LEMMA ToHandlerStep ==
    ASSUME Exact, NEW r \in Request, RequestFails(r) \/ Stale(r)
    PROVE  Exact'
    <1>1. /\ worker[r] \in {"thread", "turn", "response", "opened", "dispatch"}
          /\ Moves(r, worker[r], "except")
        BY DEF RequestFails, Stale
    <1> QED
        BY <1>1, MovesEffect, MoveKeep DEF WorkerStates, Early, Begun

LEMMA ExceptStep ==
    ASSUME Exact, NEW r \in Request, Except(r)
    PROVE  Exact'
    <1>1. PICK w \in {"abort", "failed"} :
             /\ w = IF Owned(r) /\ run[r].turn # "none" THEN "abort" ELSE "failed"
             /\ Moves(r, "except", w)
        BY DEF Except
    <1>2. run[r].st = "queued" => w = "failed"
        BY <1>1 DEF Exact, Always, Sound, PlaceOK
    <1> QED
        BY <1>1, <1>2, MovesEffect, MoveKeep DEF WorkerStates, Early, Begun

LEMMA JudgeStep ==
    ASSUME Exact, NEW r \in Request, SeesRestart(r) \/ LooksAgain(r)
    PROVE  Exact'
    <1>0. Typed /\ Sound(r) /\ worker[r] = "judge"
        BY DEF Exact, Always, SeesRestart, LooksAgain, Moves
    <1>1. run[r].st # "queued" /\ run[r].gen # 0
        BY <1>0 DEF Sound, PlaceOK, Begun
    <1>2. CASE SeesRestart(r)
        <2>1. Moves(r, "judge", "reconcile") /\ run[r].gen # server.gen
            BY <1>2 DEF SeesRestart
        <2>2. ~First
            BY <1>0, <1>1, <2>1, FirstAborted DEF First
        <2> QED
            BY <1>1, <2>1, <2>2, MovesEffect, MoveKeep DEF WorkerStates, Early, Begun
    <1>3. CASE LooksAgain(r)
        <2>1. Moves(r, "judge", "watch")
            BY <1>3 DEF LooksAgain
        <2> QED
            BY <1>1, <2>1, MovesEffect, MoveKeep DEF WorkerStates, Early, Begun
    <1> QED
        BY <1>2, <1>3

LEMMA ThreadOpenedStep ==
    ASSUME Exact, NEW r \in Request, ThreadOpened(r)
    PROVE  Exact'
    <1>1. worker[r] = "opened" /\ Owned(r)
        BY DEF ThreadOpened, SameGeneration
    <1>2. CASE run[r].st = "cancelling"
        BY <1>1, <1>2, CancellingStep DEF ThreadOpened
    <1>3. CASE run[r].st # "cancelling"
        <2>1. Moves(r, "opened", "dispatch")
            BY <1>3 DEF ThreadOpened
        <2>2. run[r].st # "queued"
            BY <1>1 DEF Exact, Always, Sound, PlaceOK
        <2> QED
            BY <2>1, <2>2, MovesEffect, MoveKeep DEF WorkerStates, Early, Begun
    <1> QED
        BY <1>2, <1>3

\* Moves that change something around the broker too.
LEMMA ThreadOpensStep ==
    ASSUME Exact, NEW r \in Request, ThreadOpens(r)
    PROVE  Exact'
    <1>0. Typed /\ GateOK /\ Sound(r)
        BY DEF Exact, Always
    <1>1. /\ worker[r] = "thread" /\ Go(r, "opened") /\ opened' = [opened EXCEPT ![r] = server.gen]
          /\ UNCHANGED <<brokerVars, admitted, saw, cancel, steer, server, live, inbox,
                         replaying, endVars>>
        BY DEF ThreadOpens
    <1>2. worker' \in [Request -> WorkerStates] /\ opened' \in [Request -> Generation]
        BY <1>0, <1>1, GoEffect DEF WorkerStates, Typed
    <1>3. Typed'
        BY <1>0, <1>1, <1>2 DEF Typed, brokerVars, endVars
    <1>4. \A d \in Request : Around(d)
        BY <1>1 DEF Around, endVars
    <1>5. run[r].st # "queued" /\ (Owned(r) => r \notin replaying)
        BY <1>0, <1>1 DEF Sound, PlaceOK
    <1> QED
        BY <1>1, <1>3, <1>4, <1>5, MoveKeep DEF WorkerStates, Early, Begun

LEMMA WatchStep ==
    ASSUME Exact, NEW r \in Request, Watch(r)
    PROVE  Exact'
    <1>0. Typed /\ GateOK /\ Sound(r)
        BY DEF Exact, Always
    <1>1. /\ worker[r] = "watch" /\ Go(r, "judge")
          /\ saw' = [saw EXCEPT ![r] = run[r].st = "cancelling"]
          /\ UNCHANGED <<brokerVars, admitted, cancel, steer, serverVars, replaying, endVars>>
        BY DEF Watch
    <1>2. worker' \in [Request -> WorkerStates] /\ saw' \in [Request -> BOOLEAN]
        BY <1>0, <1>1, GoEffect DEF WorkerStates, Typed
    <1>3. Typed'
        BY <1>0, <1>1, <1>2 DEF Typed, brokerVars, serverVars, endVars
    <1>4. \A d \in Request : Around(d)
        BY <1>1 DEF Around, serverVars, endVars
    <1>5. run[r].st # "queued" /\ (Owned(r) => r \notin replaying)
        BY <1>0, <1>1 DEF Sound, PlaceOK
    <1> QED
        BY <1>1, <1>3, <1>4, <1>5, MoveKeep DEF WorkerStates, Early, Begun

LEMMA ReplayDoneStep ==
    ASSUME Exact, NEW r \in Request, ReplayDone(r)
    PROVE  Exact'
    <1>0. Typed /\ GateOK /\ Sound(r)
        BY DEF Exact, Always
    <1>1. /\ worker[r] = "replay" /\ buffered[r] = {} /\ Go(r, "after")
          /\ replaying' = replaying \ {r}
          /\ UNCHANGED <<brokerVars, admitted, saw, cancel, steer, serverVars, endVars>>
        BY DEF ReplayDone
    <1>2. worker' \in [Request -> WorkerStates]
        BY <1>0, <1>1, GoEffect DEF WorkerStates
    <1>3. Typed'
        BY <1>0, <1>1, <1>2 DEF Typed, brokerVars, serverVars, endVars
    <1>4. \A d \in Request : Around(d)
        BY <1>1 DEF Around, serverVars, endVars
    <1>5. run[r].st # "queued"
        BY <1>0, <1>1 DEF Sound, PlaceOK
    <1> QED
        BY <1>1, <1>3, <1>4, <1>5, MoveKeep DEF WorkerStates, Early, Begun

\* The worker aborts its generation and moves on.
LEMMA AbortingKeep ==
    ASSUME Exact, NEW r \in Request, worker[r] \in {"after", "judge", "abort"},
           NEW w \in {"watch", "timeout", "clear"}, Go(r, w),
           w = "watch" => worker[r] = "after",
           server' = server \/ server' = AbortGeneration(run[r].gen),
           w # "watch" => server' = AbortGeneration(run[r].gen),
           UNCHANGED <<brokerVars, admitted, saw, cancel, steer, live, opened, inbox,
                       replaying, endVars>>
    PROVE  Exact'
    <1>0. Typed /\ GateOK /\ Sound(r)
        BY DEF Exact, Always
    <1>1. worker' \in [Request -> WorkerStates]
        BY <1>0, GoEffect DEF WorkerStates
    <1>2. /\ server' \in [gen : Generation, up : BOOLEAN]
          /\ server'.gen = server.gen /\ (server'.up => server.up)
          /\ w # "watch" /\ run[r].gen = server.gen => ~server'.up
        BY <1>0, AbortEffect DEF Typed
    <1>3. Typed'
        BY <1>0, <1>1, <1>2 DEF Typed, brokerVars, endVars
    <1>4. \A d \in Request : Around(d)
        BY <1>2 DEF Around, endVars
    <1>5. run[r].st # "queued" /\ run[r].gen # 0 /\ (Owned(r) => r \notin replaying)
        BY <1>0 DEF Sound, PlaceOK, Begun
    <1>6. First' => w = "watch"
        BY <1>0, <1>2, <1>5, FirstAborted DEF First
    <1> QED
        BY <1>3, <1>4, <1>5, <1>6, MoveKeep DEF WorkerStates, Early, Begun

LEMMA AbortingStep ==
    ASSUME Exact, NEW r \in Request, After(r) \/ TimesOut(r) \/ Abort(r)
    PROVE  Exact'
    <1>1. CASE After(r)
        BY <1>1, AbortingKeep DEF After
    <1>2. CASE TimesOut(r)
        BY <1>2, AbortingKeep DEF TimesOut
    <1>3. CASE Abort(r)
        BY <1>3, AbortingKeep DEF Abort
    <1> QED
        BY <1>1, <1>2, <1>3

-----------------------------------------------------------------------------
(* The steps that change one request's run, calls or turn.                 *)

\* Nothing is new for any request but r.
LEMMA OneKeep ==
    ASSUME Exact, NEW r \in Request, Typed', GateOK',
           \A d \in Request : d # r => EndsAt({}, d) /\ Around(d) /\ Leaves({}, d),
           Sound(r)', "refuse" \notin Inputs => LeaseOK(r)'
    PROVE  Exact'
    <1>1. ASSUME NEW d \in Request, d # r PROVE Sound(d)'
        BY <1>1, EndSound DEF Exact, Always
    <1>2. ASSUME NEW d \in Request, d # r, "refuse" \notin Inputs PROVE LeaseOK(d)'
        BY <1>2, EndLeased DEF Exact
    <1> QED
        BY <1>1, <1>2 DEF Exact, Always

\* A change of run r alone, by its worker.
LEMMA RunChange ==
    ASSUME Typed, GateOK, NEW r \in Request, NEW v \in Run, run' = [run EXCEPT ![r] = v],
           UNCHANGED <<gate, leases, buffered>>
    PROVE  /\ run' \in [Request -> Run] /\ run'[r] = v
           /\ \A d \in Request : d # r => EndsAt({}, d)
           /\ GateOK' /\ (\A d \in Request : d \in Leased' <=> d \in Leased)
    <1>1. /\ run' \in [Request -> Run] /\ run'[r] = v
          /\ \A d \in Request : d # r => run'[d] = run[d]
        BY DEF Typed
    <1> QED
        BY <1>1 DEF EndsAt, Leased, GateOK

LEMMA BeginStep ==
    ASSUME Exact, NEW r \in Request, Begin(r)
    PROVE  Exact'
    <1>0. Typed /\ GateOK /\ Sound(r)
        BY DEF Exact, Always
    <1>1. worker[r] = "begin" /\ Owned(r)
        BY DEF Begin
    <1>2. CASE run[r].st = "cancelling"
        BY <1>1, <1>2, CancellingStep DEF Begin
    <1>3. CASE run[r].st # "cancelling"
        <2>1. /\ run' = [run EXCEPT ![r].st = "starting", ![r].gen = server.gen]
              /\ Go(r, "thread") /\ UNCHANGED <<gate, leases, buffered>> /\ Inside
            BY <1>3 DEF Begin, Inside
        <2>2. run[r].turn = "none" /\ r \in gate.active
            BY <1>0, <1>1 DEF Sound, PlaceOK, ActiveOK, Early
        <2>3. PICK v \in Run : /\ v.st = "starting" /\ v.gen = server.gen /\ v.turn = "none"
                               /\ run' = [run EXCEPT ![r] = v]
            <3>1. run[r] \in Run /\ server.gen \in Generation
                BY <1>0 DEF Typed
            <3>2. run' = [run EXCEPT ![r] = [run[r] EXCEPT !.st = "starting", !.gen = server.gen]]
                BY <1>0, <2>1 DEF Typed
            <3>3. [run[r] EXCEPT !.st = "starting", !.gen = server.gen] \in Run
                BY <3>1 DEF Run, Statuses, Started
            <3> QED
                BY <2>2, <3>1, <3>2, <3>3 DEF Run
        <2>4. /\ run' \in [Request -> Run] /\ run'[r] = v /\ GateOK'
              /\ \A d \in Request : d # r => EndsAt({}, d)
            BY <1>0, <2>1, <2>3, RunChange
        <2>5. /\ worker' \in [Request -> WorkerStates] /\ worker'[r] = "thread"
              /\ \A d \in Request : d # r => worker'[d] = worker[d]
            BY <1>0, <2>1, GoEffect DEF WorkerStates
        <2>6. Typed'
            BY <1>0, <2>1, <2>4, <2>5 DEF Typed, Inside, serverVars, endVars
        <2>7. UNCHANGED <<gate, leases, buffered, admitted, cancel, steer, server, live,
                          inbox, replaying, deleted, closed>>
            BY <2>1 DEF Inside, serverVars, endVars
        <2>8. Owned(r)' /\ server.gen # 0 /\ run'[r].st = "starting"
              /\ run'[r].gen = server.gen /\ run'[r].turn = "none"
            BY <1>0, <2>3, <2>4 DEF Owned, Started, Typed
        <2>9. Holder(r)' /\ ActiveOK(r)'
            BY <1>0, <1>1, <2>2, <2>7, <2>8
            DEF Sound, Holder, ActiveOK, Leased, Owned, Started
        <2>10. PlaceOK(r)'
            <3>1. r \notin replaying /\ server.gen \in Nat
                BY <1>0, <1>1, BrokerAssumption DEF Sound, PlaceOK, Typed, Generation
            <3> QED
                BY <2>5, <2>7, <2>8, <3>1 DEF PlaceOK
        <2>11. OnceOK(r)'
            BY <1>0, <1>1, <2>5, <2>7 DEF Sound, OnceOK, Early
        <2>12. CompletionOK(r)' /\ QuietOK(r)'
            BY <1>0, <1>1, <2>5, <2>7, <2>8 DEF Sound, QuietOK, CompletionOK
        <2>13. FirstOK(r)'
            BY <1>0, <1>1, <2>5, <2>7, <2>8 DEF Sound, FirstOK, First, OnceOK, Early
        <2>14. Sound(r)'
            BY <2>9, <2>10, <2>11, <2>12, <2>13 DEF Sound
        <2>15. "refuse" \notin Inputs => LeaseOK(r)'
            BY <1>1, <2>2, <2>5, <2>7, <2>8 DEF Exact, LeaseOK, Leased
        <2>16. \A d \in Request : d # r => Around(d) /\ Leaves({}, d)
            BY <2>1, <2>5, InsideAround DEF Leaves
        <2> QED
            BY <2>4, <2>6, <2>14, <2>15, <2>16, OneKeep
    <1> QED
        BY <1>2, <1>3

LEMMA DispatchStep ==
    ASSUME Exact, NEW r \in Request, Dispatch(r)
    PROVE  Exact'
    <1>0. Typed /\ GateOK /\ Sound(r)
        BY DEF Exact, Always
    <1>1. /\ worker[r] = "dispatch" /\ Owned(r) /\ run[r].gen = server.gen
          /\ run' = [run EXCEPT ![r].turn = "sent"]
          /\ Go(r, "turn") /\ UNCHANGED <<gate, leases, buffered>> /\ Inside
        BY DEF Dispatch, SameGeneration, Inside
    <1>2. PICK v \in Run : /\ v.st = run[r].st /\ v.gen = run[r].gen /\ v.turn = "sent"
                           /\ run' = [run EXCEPT ![r] = v]
        <2>1. run[r] \in Run
            BY <1>0 DEF Typed
        <2>2. run' = [run EXCEPT ![r] = [run[r] EXCEPT !.turn = "sent"]]
            BY <1>0, <1>1 DEF Typed
        <2>3. [run[r] EXCEPT !.turn = "sent"] \in Run
            BY <2>1 DEF Run
        <2> QED
            BY <2>1, <2>2, <2>3 DEF Run
    <1>3. /\ run' \in [Request -> Run] /\ run'[r] = v /\ GateOK'
          /\ \A d \in Request : d # r => EndsAt({}, d)
        BY <1>0, <1>1, <1>2, RunChange
    <1>4. /\ worker' \in [Request -> WorkerStates] /\ worker'[r] = "turn"
          /\ \A d \in Request : d # r => worker'[d] = worker[d]
        BY <1>0, <1>1, GoEffect DEF WorkerStates
    <1>5. Typed'
        BY <1>0, <1>1, <1>3, <1>4 DEF Typed, Inside, serverVars, endVars
    <1>6. UNCHANGED <<gate, leases, buffered, admitted, cancel, steer, server, live,
                      inbox, replaying, deleted, closed>>
        BY <1>1 DEF Inside, serverVars, endVars
    <1>7. /\ Owned(r)' /\ run'[r].st = run[r].st /\ run[r].st # "none"
          /\ run'[r].gen = run[r].gen /\ run'[r].turn = "sent"
        BY <1>1, <1>2, <1>3 DEF Owned, Started
    <1>8. Holder(r)' /\ ActiveOK(r)' /\ QuietOK(r)'
        BY <1>0, <1>1, <1>4, <1>6, <1>7 DEF Sound, Holder, ActiveOK, QuietOK, Leased
    <1>9. PlaceOK(r)'
        BY <1>0, <1>1, <1>4, <1>6, <1>7 DEF Sound, PlaceOK, Early, Begun
    <1>10. OnceOK(r)' /\ CompletionOK(r)'
        BY <1>0, <1>1, <1>4, <1>6, <1>7 DEF Sound, OnceOK, CompletionOK, Early
    <1>11. FirstOK(r)'
        BY <1>0, <1>1, <1>4, <1>6, <1>7 DEF Sound, FirstOK, First
    <1>12. Sound(r)'
        BY <1>8, <1>9, <1>10, <1>11 DEF Sound
    <1>13. "refuse" \notin Inputs => LeaseOK(r)'
        BY <1>1, <1>4, <1>6, <1>7 DEF Exact, LeaseOK, Leased
    <1>14. \A d \in Request : d # r => Around(d) /\ Leaves({}, d)
        BY <1>1, <1>4, InsideAround DEF Leaves
    <1> QED
        BY <1>3, <1>5, <1>12, <1>13, <1>14, OneKeep

\* The app server has the turn: its completion cannot have come before.
LEMMA TurnStartsStep ==
    ASSUME Exact, NEW r \in Request, TurnStarts(r)
    PROVE  Exact'
    <1>0. Typed /\ GateOK /\ Sound(r)
        BY DEF Exact, Always
    <1>1. /\ worker[r] = "turn" /\ live' = live \cup {r} /\ Go(r, "response")
          /\ UNCHANGED <<run, gate, leases, buffered, admitted, saw, cancel, steer, server,
                         opened, inbox, replaying, endVars>>
        BY DEF TurnStarts, brokerVars
    <1>2. /\ worker' \in [Request -> WorkerStates] /\ worker'[r] = "response"
          /\ \A d \in Request : d # r => worker'[d] = worker[d]
        BY <1>0, <1>1, GoEffect DEF WorkerStates
    <1>3. Typed' /\ GateOK'
        BY <1>0, <1>1, <1>2 DEF Typed, GateOK, endVars
    <1>4. Owned(r)' <=> Owned(r)
        BY <1>1 DEF Owned
    <1>5. Holder(r)' /\ ActiveOK(r)' /\ QuietOK(r)'
        BY <1>0, <1>1, <1>2, <1>4 DEF Sound, Holder, ActiveOK, QuietOK, Leased, endVars
    <1>6. PlaceOK(r)'
        BY <1>0, <1>1, <1>2, <1>4 DEF Sound, PlaceOK, Early, Begun
    <1>7. OnceOK(r)' /\ CompletionOK(r)'
        BY <1>0, <1>1, <1>2 DEF Sound, OnceOK, CompletionOK, Kept, Early
    <1>8. FirstOK(r)'
        BY <1>0, <1>1, <1>2, <1>4 DEF Sound, FirstOK, First, endVars
    <1>9. Sound(r)'
        BY <1>5, <1>6, <1>7, <1>8 DEF Sound
    <1>10. "refuse" \notin Inputs => LeaseOK(r)'
        BY <1>1, <1>2, <1>4 DEF Exact, LeaseOK, Leased
    <1>11. \A d \in Request : d # r => EndsAt({}, d) /\ Around(d) /\ Leaves({}, d)
        BY <1>1, <1>2 DEF EndsAt, Around, Leaves, Leased, endVars
    <1> QED
        BY <1>3, <1>9, <1>10, <1>11, OneKeep

LEMMA TurnStartedStep ==
    ASSUME Exact, NEW r \in Request, TurnStarted(r)
    PROVE  Exact'
    <1>0. Typed /\ GateOK /\ Sound(r)
        BY DEF Exact, Always
    <1>1. /\ worker[r] = "response" /\ Owned(r) /\ run[r].gen = server.gen
          /\ run' = [run EXCEPT ![r].turn = "known",
                                ![r].st = IF @ = "cancelling" THEN @ ELSE "running"]
          /\ Go(r, "replay") /\ replaying' = replaying \cup {r}
          /\ UNCHANGED <<gate, leases, buffered, admitted, saw, cancel, steer, serverVars, endVars>>
        BY DEF TurnStarted, SameGeneration
    <1>2. PICK v \in Run : /\ v.st \in {"cancelling", "running"} /\ v.gen = run[r].gen
                           /\ v.turn = "known" /\ run' = [run EXCEPT ![r] = v]
        <2>1. run[r] \in Run
            BY <1>0 DEF Typed
        <2>2. PICK s \in {"cancelling", "running"} :
                 s = IF run[r].st = "cancelling" THEN run[r].st ELSE "running"
            OBVIOUS
        <2>3. run' = [run EXCEPT ![r] = [run[r] EXCEPT !.turn = "known", !.st = s]]
            BY <1>0, <1>1, <2>2 DEF Typed
        <2>4. [run[r] EXCEPT !.turn = "known", !.st = s] \in Run
            BY <2>1 DEF Run, Statuses, Started
        <2> QED
            BY <2>1, <2>3, <2>4 DEF Run
    <1>3. /\ run' \in [Request -> Run] /\ run'[r] = v /\ GateOK'
          /\ \A d \in Request : d # r => EndsAt({}, d)
        BY <1>0, <1>1, <1>2, RunChange
    <1>4. /\ worker' \in [Request -> WorkerStates] /\ worker'[r] = "replay"
          /\ \A d \in Request : d # r => worker'[d] = worker[d]
        BY <1>0, <1>1, GoEffect DEF WorkerStates
    <1>5. Typed'
        BY <1>0, <1>1, <1>3, <1>4 DEF Typed, serverVars, endVars
    <1>6. UNCHANGED <<gate, leases, buffered, admitted, cancel, steer, server, live,
                      inbox, deleted, closed>>
        BY <1>1 DEF serverVars, endVars
    <1>7. /\ Owned(r)' /\ run'[r].st \in {"cancelling", "running"}
          /\ run'[r].gen = run[r].gen /\ run'[r].turn = "known"
        BY <1>2, <1>3 DEF Owned, Started
    <1>8. run[r].st \in Started
        BY <1>0, <1>1 DEF Sound, PlaceOK, Owned
    <1>9. Holder(r)' /\ ActiveOK(r)' /\ QuietOK(r)'
        BY <1>0, <1>1, <1>6, <1>7, <1>8 DEF Sound, Holder, ActiveOK, QuietOK, Leased, Started
    <1>10. PlaceOK(r)'
        BY <1>0, <1>1, <1>4, <1>6, <1>7 DEF Sound, PlaceOK, Early, Begun
    <1>11. OnceOK(r)'
        BY <1>0, <1>4, <1>6 DEF Sound, OnceOK, Early
    <1>12. CompletionOK(r)'
        BY <1>0, <1>1, <1>4, <1>6, <1>7 DEF Sound, CompletionOK, Kept
    <1>13. FirstOK(r)'
        BY <1>0, <1>4, <1>6, <1>7 DEF Sound, FirstOK, First
    <1>14. Sound(r)'
        BY <1>9, <1>10, <1>11, <1>12, <1>13 DEF Sound
    <1>15. "refuse" \notin Inputs => LeaseOK(r)'
        BY <1>1, <1>4, <1>6, <1>7 DEF Exact, LeaseOK, Leased
    <1>16. \A d \in Request : d # r => Around(d) /\ Leaves({}, d)
        BY <1>1, <1>4, <1>6 DEF Around, Leaves
    <1> QED
        BY <1>3, <1>5, <1>14, <1>15, <1>16, OneKeep

LEMMA CancelStartedStep ==
    ASSUME Exact, NEW r \in Request, CancelStarted(r)
    PROVE  Exact'
    <1>0. Typed /\ GateOK /\ Sound(r)
        BY DEF Exact, Always
    <1>1. PICK c \in {"interrupt", "none", "abort"} :
             /\ cancel' = [cancel EXCEPT ![r] = c]
             /\ c # "none" => run[r].turn = "known" \/ run[r].gen # 0
        BY DEF CancelStarted, Cancels
    <1>2. /\ run[r].st \in Started /\ run' = [run EXCEPT ![r].st = "cancelling"]
          /\ UNCHANGED <<gate, leases, buffered, admitted, worker, saw, steer, serverVars,
                         replaying, endVars>>
        BY DEF CancelStarted
    <1>3. PICK v \in Run : /\ v.st = "cancelling" /\ v.gen = run[r].gen /\ v.turn = run[r].turn
                           /\ run' = [run EXCEPT ![r] = v]
        <2>1. run[r] \in Run
            BY <1>0 DEF Typed
        <2>2. run' = [run EXCEPT ![r] = [run[r] EXCEPT !.st = "cancelling"]]
            BY <1>0, <1>2 DEF Typed
        <2>3. [run[r] EXCEPT !.st = "cancelling"] \in Run
            BY <2>1 DEF Run, Statuses, Started
        <2> QED
            BY <2>1, <2>2, <2>3 DEF Run
    <1>4. /\ run' \in [Request -> Run] /\ run'[r] = v /\ GateOK'
          /\ \A d \in Request : d # r => EndsAt({}, d)
        BY <1>0, <1>2, <1>3, RunChange
    <1>5. /\ cancel' \in [Request -> CancelStates] /\ cancel'[r] = c
          /\ \A d \in Request : d # r => cancel'[d] = cancel[d]
        BY <1>0, <1>1 DEF Typed, CancelStates
    <1>6. Typed'
        BY <1>0, <1>2, <1>4, <1>5 DEF Typed, serverVars, endVars
    <1>7. UNCHANGED <<gate, leases, buffered, admitted, worker, steer, server, live,
                      inbox, replaying, deleted, closed>>
        BY <1>2 DEF serverVars, endVars
    <1>8. /\ Owned(r) /\ Owned(r)' /\ run'[r].st = "cancelling" /\ run[r].st \notin {"none", "queued"}
          /\ run'[r].gen = run[r].gen /\ run'[r].turn = run[r].turn
        BY <1>2, <1>3, <1>4 DEF Owned, Started
    <1>9. Holder(r)' /\ ActiveOK(r)' /\ QuietOK(r)'
        BY <1>0, <1>2, <1>7, <1>8 DEF Sound, Holder, ActiveOK, QuietOK, Leased
    <1>10. PlaceOK(r)'
        <2>1. PlaceOK(r) /\ (c # "none" => run[r].gen # 0)
            BY <1>0, <1>1 DEF Sound, PlaceOK
        <2> QED
            BY <1>5, <1>7, <1>8, <2>1 DEF PlaceOK
    <1>11. OnceOK(r)'
        BY <1>0, <1>7 DEF Sound, OnceOK
    <1>12. CompletionOK(r)'
        BY <1>0, <1>7, <1>8 DEF Sound, CompletionOK, Kept
    <1>13. FirstOK(r)'
        BY <1>0, <1>5, <1>7, <1>8 DEF Sound, FirstOK, First
    <1>14. Sound(r)'
        BY <1>9, <1>10, <1>11, <1>12, <1>13 DEF Sound
    <1>15. "refuse" \notin Inputs => LeaseOK(r)'
        BY <1>7, <1>8 DEF Exact, LeaseOK, Leased
    <1>16. \A d \in Request : d # r => Around(d) /\ Leaves({}, d)
        BY <1>5, <1>7 DEF Around, Leaves
    <1> QED
        BY <1>4, <1>6, <1>14, <1>15, <1>16, OneKeep

\* A call for r moves on; the generation may have been aborted by it.
LEMMA CallKeep ==
    ASSUME Exact, NEW r \in Request,
           UNCHANGED <<brokerVars, admitted, worker, saw, live, opened, inbox, replaying, endVars>>,
           NEW c \in CancelStates, cancel' = [cancel EXCEPT ![r] = c],
           steer' \subseteq Request, \A d \in Request : d # r => (d \in steer' <=> d \in steer),
           server' \in [gen : Generation, up : BOOLEAN],
           server'.gen = server.gen, server'.up => server.up,
           c # "none" \/ r \in steer' => run[r].gen # 0 /\ ChatOf[r] \notin deleted
                                         /\ run[r].st # "none",
           First' => c \notin {"end", "clear"}
    PROVE  Exact'
    <1>0. Typed /\ GateOK /\ Sound(r)
        BY DEF Exact, Always
    <1>1. UNCHANGED <<run, gate, leases, buffered, deleted, closed>> /\ (Owned(r)' <=> Owned(r))
        BY DEF brokerVars, endVars, Owned
    <1>2. /\ cancel' \in [Request -> CancelStates] /\ cancel'[r] = c
          /\ \A d \in Request : d # r => cancel'[d] = cancel[d]
        BY <1>0 DEF Typed
    <1>3. Typed' /\ GateOK'
        BY <1>0, <1>1, <1>2 DEF Typed, GateOK, endVars
    <1>4. Holder(r)' /\ ActiveOK(r)' /\ OnceOK(r)'
        BY <1>0, <1>1 DEF Sound, Holder, ActiveOK, OnceOK, Leased
    <1>5. PlaceOK(r)'
        BY <1>0, <1>1, <1>2 DEF Sound, PlaceOK
    <1>6. CompletionOK(r)' /\ QuietOK(r)'
        BY <1>0, <1>1, <1>2 DEF Sound, CompletionOK, Kept, QuietOK
    <1>7. FirstOK(r)'
        BY <1>0, <1>1, <1>2 DEF Sound, FirstOK, First
    <1>8. Sound(r)'
        BY <1>4, <1>5, <1>6, <1>7 DEF Sound
    <1>9. "refuse" \notin Inputs => LeaseOK(r)'
        BY <1>1 DEF Exact, LeaseOK, Leased
    <1>10. \A d \in Request : d # r => EndsAt({}, d) /\ Around(d) /\ Leaves({}, d)
        BY <1>1, <1>2 DEF EndsAt, Around, Leaves, Leased
    <1> QED
        BY <1>3, <1>8, <1>9, <1>10, OneKeep

LEMMA CallStepKeeps ==
    ASSUME Exact, NEW r \in Request, CancelAborts(r) \/ CancelInterrupts(r)
    PROVE  Exact'
    <1>0. Typed /\ GateOK /\ Sound(r)
        BY DEF Exact, Always
    <1>1. /\ cancel[r] \in {"abort", "interrupt"}
          /\ UNCHANGED <<brokerVars, admitted, worker, saw, live, opened, inbox, replaying, endVars>>
          /\ steer' = steer
        BY DEF CancelAborts, CancelInterrupts
    <1>2. PICK c \in {"end", "none", "clear"} :
             /\ cancel' = [cancel EXCEPT ![r] = c]
             /\ c = "none" => server' = server
             /\ c # "none" => server' = AbortGeneration(run[r].gen)
        BY DEF CancelAborts, CancelInterrupts, Cancels
    <1>3. run[r].gen # 0 /\ ChatOf[r] \notin deleted /\ run[r].st # "none"
        BY <1>0, <1>1 DEF Sound, PlaceOK, QuietOK
    <1>4. /\ server' \in [gen : Generation, up : BOOLEAN]
          /\ server'.gen = server.gen /\ (server'.up => server.up)
          /\ c # "none" /\ run[r].gen = server.gen => ~server'.up
        BY <1>0, <1>2, AbortEffect DEF Typed
    <1>5. First' => c = "none"
        BY <1>0, <1>3, <1>4, FirstAborted DEF First
    <1>6. c \in CancelStates /\ steer' \subseteq Request
        BY <1>0, <1>1 DEF CancelStates, Typed
    <1> QED
        BY <1>1, <1>2, <1>3, <1>4, <1>5, <1>6, CallKeep

LEMMA SteerStep ==
    ASSUME Exact, NEW r \in Request, Steer(r) \/ SteerAccepted(r)
    PROVE  Exact'
    <1>0. Typed /\ GateOK /\ Sound(r)
        BY DEF Exact, Always
    <1>1. /\ UNCHANGED <<brokerVars, admitted, worker, saw, cancel, server, live, opened, inbox,
                         replaying, endVars>>
          /\ steer' = steer \cup {r} \/ steer' = steer \ {r}
          /\ r \in steer' => Owned(r) /\ run[r].turn = "known"
        BY DEF Steer, SteerAccepted, serverVars, Owned, Started
    <1>2. run[r].turn = "known" => run[r].gen # 0
        BY <1>0 DEF Sound, PlaceOK
    <1>3. Owned(r) \/ cancel[r] # "none" => ChatOf[r] \notin deleted /\ run[r].st # "none"
        BY <1>0 DEF Sound, QuietOK, PlaceOK, Owned, Started
    <1>4. cancel[r] # "none" => run[r].gen # 0
        BY <1>0 DEF Sound, PlaceOK
    <1>5. First' => cancel[r] \notin {"end", "clear"}
        BY <1>0, <1>1 DEF Sound, FirstOK, First, endVars
    <1>6. /\ cancel[r] \in CancelStates /\ cancel' = [cancel EXCEPT ![r] = cancel[r]]
          /\ steer' \subseteq Request /\ server \in [gen : Generation, up : BOOLEAN]
        BY <1>0, <1>1 DEF Typed
    <1> QED
        BY <1>1, <1>2, <1>3, <1>4, <1>5, <1>6, CallKeep

-----------------------------------------------------------------------------
(* The app server.                                                         *)

LEMMA ServerFinishesStep ==
    ASSUME Exact, NEW r \in Request, NEW st \in Outcome, ServerFinishes(r, st)
    PROVE  Exact'
    <1>0. Typed /\ GateOK /\ Sound(r)
        BY DEF Exact, Always
    <1>1. PICK m \in [run : Request, gen : Generation, st : Outcome] :
             m.run = r /\ m.gen = server.gen /\ inbox' = inbox \cup {m}
        <2>1. [run |-> r, gen |-> server.gen, st |-> st] \in
                 [run : Request, gen : Generation, st : Outcome]
            BY <1>0 DEF Typed
        <2> QED
            BY <2>1 DEF ServerFinishes
    <1>2. /\ server.up /\ r \in live /\ live' = live \ {r}
          /\ UNCHANGED <<run, gate, leases, buffered, admitted, worker, saw, cancel, steer,
                         server, opened, replaying, endVars>>
        BY DEF ServerFinishes, brokerVars, pcVars
    <1>3. Typed' /\ GateOK'
        BY <1>0, <1>1, <1>2 DEF Typed, GateOK, endVars
    <1>4. Owned(r)' <=> Owned(r)
        BY <1>2 DEF Owned
    <1>5. Holder(r)' /\ PlaceOK(r)' /\ ActiveOK(r)' /\ QuietOK(r)' /\ FirstOK(r)'
        BY <1>0, <1>2, <1>4
        DEF Sound, Holder, PlaceOK, ActiveOK, QuietOK, FirstOK, First, Leased, endVars
    <1>6. OnceOK(r)'
        BY <1>0, <1>2 DEF Sound, OnceOK
    <1>7. CompletionOK(r)'
        BY <1>1, <1>2 DEF CompletionOK, Kept
    <1>8. Sound(r)'
        BY <1>5, <1>6, <1>7 DEF Sound
    <1>9. "refuse" \notin Inputs => LeaseOK(r)'
        BY <1>2, <1>4 DEF Exact, LeaseOK, Leased
    <1>10. \A d \in Request : d # r => EndsAt({}, d) /\ Around(d) /\ Leaves({}, d)
        BY <1>1, <1>2 DEF EndsAt, Around, Leaves, Leased, endVars
    <1> QED
        BY <1>3, <1>8, <1>9, <1>10, OneKeep

LEMMA ServerStopsStep ==
    ASSUME Exact, ServerDies \/ \E g \in toAbort : CloseAborts(g)
    PROVE  Exact'
    <1>0. Typed /\ GateOK
        BY DEF Exact, Always
    <1>1. /\ UNCHANGED <<brokerVars, admitted, worker, saw, cancel, steer, live, opened, inbox,
                         replaying, deleted, closed, fatal>>
          /\ toAbort' \subseteq toAbort
        BY DEF ServerDies, CloseAborts, pcVars, endVars
    <1>2. /\ server' \in [gen : Generation, up : BOOLEAN]
          /\ server'.gen = server.gen /\ (server'.up => server.up)
        <2>1. CASE ServerDies
            BY <1>0, <2>1 DEF ServerDies, Typed
        <2>2. CASE \E g \in toAbort : CloseAborts(g)
            BY <1>0, <2>2, AbortEffect DEF CloseAborts
        <2> QED
            BY <2>1, <2>2
    <1>3. Typed'
        BY <1>0, <1>1, <1>2 DEF Typed, brokerVars
    <1>4. Ends({})
        BY <1>0, <1>1, EndsNothing
    <1>5. \A d \in Request : Around(d) /\ Leaves({}, d)
        BY <1>1, <1>2 DEF Around, Leaves
    <1> QED
        BY <1>3, <1>4, <1>5, EndsKeep

\* No run can be of the generation that begins.
LEMMA RespawnStep ==
    ASSUME Exact, Respawn
    PROVE  Exact'
    <1>0. Typed /\ GateOK /\ \A d \in Request : Sound(d)
        BY DEF Exact, Always
    <1>1. /\ server' = [gen |-> server.gen + 1, up |-> TRUE] /\ live' = {}
          /\ server.gen < MaxGeneration
          /\ UNCHANGED <<run, gate, leases, buffered, admitted, worker, saw, cancel, steer,
                         opened, inbox, replaying, endVars>>
        BY DEF Respawn, brokerVars, pcVars
    <1>2. server.gen \in Nat /\ server.gen # 0 /\ server'.gen = server.gen + 1
          /\ server'.gen \in Generation
        BY <1>0, <1>1, BrokerAssumption DEF Typed, Generation
    <1>3. Typed' /\ GateOK'
        BY <1>0, <1>1, <1>2 DEF Typed, GateOK, endVars
    <1>4. ASSUME NEW d \in Request PROVE Sound(d)' /\ (LeaseOK(d) => LeaseOK(d)')
        <2>1. Sound(d) /\ (Owned(d)' <=> Owned(d))
            BY <1>0, <1>1 DEF Owned
        <2>2. run[d].gen \in Nat /\ run[d].gen <= server.gen
            BY <1>0, <2>1, BrokerAssumption DEF Typed, Run, Generation, Sound, PlaceOK
        <2>3. run[d].gen <= server'.gen /\ run[d].gen # server'.gen
            BY <1>2, <2>2
        <2>4. Holder(d)' /\ ActiveOK(d)' /\ QuietOK(d)' /\ OnceOK(d)'
            BY <1>1, <2>1 DEF Sound, Holder, ActiveOK, QuietOK, OnceOK, Leased, endVars
        <2>5. PlaceOK(d)' /\ CompletionOK(d)'
            BY <1>1, <2>1, <2>3 DEF Sound, PlaceOK, CompletionOK
        <2>6. FirstOK(d)'
            BY <1>2 DEF FirstOK, First
        <2>7. LeaseOK(d) => LeaseOK(d)'
            BY <1>1, <2>1 DEF LeaseOK, Leased
        <2> QED
            BY <2>4, <2>5, <2>6, <2>7 DEF Sound
    <1> QED
        BY <1>3, <1>4 DEF Exact, Always

-----------------------------------------------------------------------------
(* Admission and submission.                                               *)

\* A request that has no run.
LEMMA NoRun ==
    ASSUME NEW r \in Request, Sound(r), run[r].st = "none"
    PROVE  /\ ~Owned(r) /\ worker[r] = "none" /\ run[r].turn = "none"
           /\ r \notin live /\ r \notin replaying /\ cancel[r] = "none" /\ r \notin steer
           /\ r \in Leased <=> r \in admitted
    BY DEF Sound, Holder, PlaceOK, OnceOK, Owned, Started, Early

\* The admission of a request that has no run begins or ends.
LEMMA AdmissionStep ==
    ASSUME Exact, NEW r \in Request, Admit(r) \/ ReleaseAdmission(r)
    PROVE  Exact'
    <1>0. Typed /\ GateOK /\ Sound(r)
        BY DEF Exact, Always
    <1>1. UNCHANGED <<run, leases, buffered, worker, saw, cancel, steer, server, live, opened,
                      inbox, replaying, endVars>>
        BY DEF Admit, ReleaseAdmission, pcVars, serverVars
    <1>2. run[r].st = "none"
        BY <1>0 DEF Admit, ReleaseAdmission, Sound, Holder
    <1>3. /\ gate' \in [active : SUBSET Request, queued : SUBSET Request] /\ GateOK'
          /\ admitted' \subseteq Request
          /\ r \in Leased' <=> r \in admitted'
          /\ \A d \in Request : d # r => /\ d \in Leased' <=> d \in Leased
                                         /\ d \in gate.active => d \in gate'.active
                                         /\ d \in admitted' <=> d \in admitted
        <2>1. CASE Admit(r)
            <3>1. /\ r \notin Leased /\ CanReserve /\ gate' = Reserved(r)
                  /\ admitted' = admitted \cup {r}
                BY <1>0, <1>2, <2>1, NoRun DEF Admit
            <3> QED
                BY <1>0, <3>1, ReservedEffect DEF Typed
        <2>2. CASE ReleaseAdmission(r)
            <3>1. gate' \in GateWithout({r}) /\ admitted' = admitted \ {r}
                BY <2>2 DEF ReleaseAdmission
            <3> QED
                BY <1>0, <3>1, GateWithoutEffect DEF Typed
        <2> QED
            BY <2>1, <2>2
    <1>4. Typed'
        BY <1>0, <1>1, <1>3 DEF Typed, endVars
    <1>5. Sound(r)'
        <2>1. ~Owned(r)' /\ ~Owned(r) /\ run'[r].st = "none"
            BY <1>1, <1>2 DEF Owned, Started
        <2>2. Holder(r)'
            BY <1>3, <2>1 DEF Holder
        <2>3. PlaceOK(r)' /\ OnceOK(r)' /\ QuietOK(r)' /\ FirstOK(r)'
            BY <1>0, <1>1, <2>1
            DEF Sound, PlaceOK, OnceOK, QuietOK, FirstOK, First, endVars
        <2>4. ActiveOK(r)' /\ CompletionOK(r)'
            BY <2>1 DEF ActiveOK, CompletionOK, Owned
        <2> QED
            BY <2>2, <2>3, <2>4 DEF Sound
    <1>6. "refuse" \notin Inputs => LeaseOK(r)'
        <2>1. ~Owned(r)' /\ ~Owned(r)
            BY <1>1, <1>2 DEF Owned, Started
        <2> QED
            BY <1>1, <1>3, <2>1 DEF Exact, LeaseOK
    <1>7. \A d \in Request : d # r => EndsAt({}, d) /\ Around(d) /\ Leaves({}, d)
        BY <1>1, <1>3 DEF EndsAt, Around, Leaves, endVars
    <1> QED
        BY <1>3, <1>4, <1>5, <1>6, <1>7, OneKeep

LEMMA SubmitStep ==
    ASSUME Exact, NEW r \in Request, Submit(r)
    PROVE  Exact'
    <1>0. Typed /\ GateOK /\ Sound(r)
        BY DEF Exact, Always
    <1>1. /\ run[r].st = "none" /\ ChatOf[r] \notin deleted /\ leases' = leases \cup {r}
          /\ admitted' = admitted \ {r} /\ worker' = [worker EXCEPT ![r] = "wait"]
          /\ run' = [run EXCEPT ![r].st = IF r \in gate'.active THEN "starting" ELSE "queued"]
          /\ UNCHANGED <<buffered, saw, cancel, steer, server, live, opened, inbox, replaying,
                         endVars>>
        BY DEF Submit, serverVars
    <1>2. /\ worker[r] = "none" /\ run[r].turn = "none" /\ r \notin live /\ r \notin replaying
          /\ cancel[r] = "none" /\ r \notin steer /\ (r \in Leased <=> r \in admitted)
        BY <1>0, <1>1, NoRun
    <1>3. /\ gate' \in [active : SUBSET Request, queued : SUBSET Request] /\ GateOK'
          /\ r \in Leased'
          /\ \A d \in Request : d # r => /\ d \in Leased' <=> d \in Leased
                                         /\ d \in gate.active => d \in gate'.active
        <2>1. CASE r \in admitted
            <3>1. gate' = gate /\ r \in Leased
                BY <1>2, <2>1 DEF Submit
            <3> QED
                BY <1>0, <3>1 DEF Typed, GateOK, Leased
        <2>2. CASE r \notin admitted
            <3>1. r \notin Leased /\ CanReserve /\ gate' = Reserved(r)
                BY <1>2, <2>2 DEF Submit
            <3> QED
                BY <1>0, <3>1, ReservedEffect
        <2> QED
            BY <2>1, <2>2
    <1>4. PICK v \in Run : /\ v.st = IF r \in gate'.active THEN "starting" ELSE "queued"
                           /\ v.gen = run[r].gen /\ v.turn = "none"
                           /\ run' = [run EXCEPT ![r] = v]
        <2>1. run[r] \in Run
            BY <1>0 DEF Typed
        <2>2. PICK s \in {"starting", "queued"} :
                 s = IF r \in gate'.active THEN "starting" ELSE "queued"
            OBVIOUS
        <2>3. run' = [run EXCEPT ![r] = [run[r] EXCEPT !.st = s]]
            BY <1>0, <1>1, <2>2 DEF Typed
        <2>4. [run[r] EXCEPT !.st = s] \in Run
            BY <2>1 DEF Run, Statuses, Started
        <2> QED
            BY <1>2, <2>1, <2>2, <2>3, <2>4 DEF Run
    <1>5. /\ run' \in [Request -> Run] /\ run'[r] = v
          /\ \A d \in Request : d # r => run'[d] = run[d]
          /\ worker' \in [Request -> WorkerStates] /\ worker'[r] = "wait"
          /\ \A d \in Request : d # r => worker'[d] = worker[d]
        BY <1>0, <1>1, <1>4 DEF Typed, WorkerStates
    <1>6. Typed'
        BY <1>0, <1>1, <1>3, <1>5 DEF Typed, endVars
    <1>7. /\ Owned(r)' /\ run'[r].st \in {"starting", "queued"} /\ run'[r].turn = "none"
          /\ run'[r].st = "starting" <=> r \in gate'.active
          /\ run'[r].gen = run[r].gen
        BY <1>4, <1>5 DEF Owned, Started
    <1>8. Sound(r)'
        <2>1. Holder(r)' /\ ActiveOK(r)' /\ QuietOK(r)'
            BY <1>1, <1>2, <1>3, <1>5, <1>7 DEF Holder, ActiveOK, QuietOK, Started, endVars
        <2>2. PlaceOK(r)'
            BY <1>0, <1>1, <1>2, <1>5, <1>7 DEF Sound, PlaceOK, Begun
        <2>3. OnceOK(r)'
            BY <1>0, <1>1, <1>2, <1>5 DEF Sound, OnceOK, Early
        <2>4. CompletionOK(r)' /\ FirstOK(r)'
            BY <1>1, <1>2, <1>5, <1>7 DEF CompletionOK, FirstOK
        <2> QED
            BY <2>1, <2>2, <2>3, <2>4 DEF Sound
    <1>9. "refuse" \notin Inputs => LeaseOK(r)'
        BY <1>1, <1>3, <1>5, <1>7 DEF LeaseOK
    <1>10. \A d \in Request : d # r => EndsAt({}, d) /\ Around(d) /\ Leaves({}, d)
        BY <1>1, <1>3, <1>5 DEF EndsAt, Around, Leaves, endVars
    <1> QED
        BY <1>3, <1>6, <1>8, <1>9, <1>10, OneKeep

\* The wait for the slot times out: the place in the queue is given up.
LEMMA LeaseTimesOutStep ==
    ASSUME Exact, NEW r \in Request, LeaseTimesOut(r)
    PROVE  Exact'
    <1>0. Typed /\ GateOK /\ Sound(r)
        BY DEF Exact, Always
    <1>1. /\ worker[r] = "wait" /\ r \in gate.queued /\ Go(r, "expired")
          /\ gate' \in GateWithout({r})
          /\ UNCHANGED <<run, leases, buffered, admitted, saw, cancel, steer, server, live,
                         opened, inbox, replaying, endVars>>
        BY DEF LeaseTimesOut, serverVars
    <1>2. /\ gate' \in [active : SUBSET Request, queued : SUBSET Request] /\ GateOK'
          /\ r \notin Leased'
          /\ \A d \in Request : d # r => /\ d \in Leased' <=> d \in Leased
                                         /\ d \in gate.active => d \in gate'.active
        BY <1>0, <1>1, GateWithoutEffect
    <1>3. /\ worker' \in [Request -> WorkerStates] /\ worker'[r] = "expired"
          /\ \A d \in Request : d # r => worker'[d] = worker[d]
        BY <1>0, <1>1, GoEffect DEF WorkerStates
    <1>4. Typed'
        BY <1>0, <1>1, <1>2, <1>3 DEF Typed, endVars
    <1>5. r \notin gate.active /\ run[r].st # "none" /\ (Owned(r)' <=> Owned(r))
        BY <1>0, <1>1 DEF GateOK, Sound, PlaceOK, Owned
    <1>6. r \notin admitted /\ run[r].st \notin Started
        BY <1>0, <1>5 DEF Sound, Holder, ActiveOK
    <1>7. Sound(r)'
        <2>1. Holder(r)' /\ ActiveOK(r)' /\ QuietOK(r)'
            BY <1>0, <1>1, <1>2, <1>3, <1>5, <1>6
            DEF Sound, Holder, ActiveOK, QuietOK, endVars
        <2>2. PlaceOK(r)'
            BY <1>0, <1>1, <1>3, <1>5 DEF Sound, PlaceOK, Early, Begun
        <2>3. OnceOK(r)' /\ CompletionOK(r)'
            BY <1>0, <1>1, <1>3, <1>5 DEF Sound, OnceOK, CompletionOK, PlaceOK, Early
        <2>4. FirstOK(r)'
            BY <1>0, <1>1, <1>3, <1>5 DEF Sound, FirstOK, First, endVars
        <2> QED
            BY <2>1, <2>2, <2>3, <2>4 DEF Sound
    <1>8. "refuse" \notin Inputs => LeaseOK(r)'
        BY <1>1, <1>2, <1>3, <1>5 DEF Exact, LeaseOK
    <1>9. \A d \in Request : d # r => EndsAt({}, d) /\ Around(d) /\ Leaves({}, d)
        BY <1>1, <1>2, <1>3 DEF EndsAt, Around, Leaves, endVars
    <1> QED
        BY <1>2, <1>4, <1>7, <1>8, <1>9, OneKeep

-----------------------------------------------------------------------------
(* The callback thread.                                                    *)

\* A completion is dropped only where nothing waits for it, is kept for the
\* replay, or ends its run.
LEMMA CompletedStep ==
    ASSUME Exact, NEW n \in inbox, Completed(n)
    PROVE  Exact'
    <1>0. Typed /\ GateOK /\ \A d \in Request : Sound(d)
        BY DEF Exact, Always
    <1>1. PICK r \in Request : r = n.run
        BY <1>0 DEF Typed
    <1>2. /\ inbox' = inbox \ {n}
          /\ UNCHANGED <<admitted, worker, saw, cancel, steer, live, opened, replaying, endVars>>
        BY DEF Completed, pcVars
    <1>3. worker[r] \notin Early \cup {"turn"} /\ r \notin live /\ Sound(r)
        BY <1>0, <1>1 DEF Sound, OnceOK
    <1>4. CASE ~server.up \/ server.gen # n.gen \/ ~(Correlated(n) \/ Candidate(n))
        <2>1. UNCHANGED <<run, gate, leases, buffered, server>>
            BY <1>4 DEF Completed, brokerVars
        <2>2. Typed' /\ GateOK'
            BY <1>0, <1>2, <2>1 DEF Typed, GateOK, endVars
        <2>3. Owned(r)' <=> Owned(r)
            BY <2>1 DEF Owned
        <2>4. Holder(r)' /\ PlaceOK(r)' /\ ActiveOK(r)' /\ QuietOK(r)' /\ FirstOK(r)'
            BY <1>2, <1>3, <2>1, <2>3
            DEF Sound, Holder, PlaceOK, ActiveOK, QuietOK, FirstOK, First, Leased, endVars
        <2>5. OnceOK(r)'
            BY <1>2, <1>3 DEF OnceOK
        <2>6. CompletionOK(r)'
            <3> SUFFICES ASSUME Owned(r)', run'[r].gen = server'.gen, server'.up,
                                run'[r].turn = "known" \/ worker'[r] = "response"
                         PROVE  Kept(r)'
                BY DEF CompletionOK
            <3>1. /\ Owned(r) /\ run[r].gen = server.gen /\ server.up
                  /\ run[r].turn \in {"known", "sent"}
                BY <1>2, <1>3, <2>1, <2>3 DEF Sound, PlaceOK
            <3>2. Kept(r)
                BY <1>2, <1>3, <2>1, <3>1 DEF Sound, CompletionOK
            <3>3. n.gen # server.gen
                BY <1>1, <1>4, <3>1 DEF Correlated, Candidate
            <3> QED
                BY <1>2, <2>1, <3>2, <3>3 DEF Kept
        <2>7. Sound(r)'
            BY <2>4, <2>5, <2>6 DEF Sound
        <2>8. "refuse" \notin Inputs => LeaseOK(r)'
            BY <1>2, <2>1, <2>3 DEF Exact, LeaseOK, Leased
        <2>9. \A d \in Request : d # r => EndsAt({}, d) /\ Around(d) /\ Leaves({}, d)
            BY <1>1, <1>2, <2>1 DEF EndsAt, Around, Leaves, Leased, endVars
        <2> QED
            BY <2>2, <2>7, <2>8, <2>9, OneKeep
    <1>5. CASE /\ ~(~server.up \/ server.gen # n.gen \/ ~(Correlated(n) \/ Candidate(n)))
               /\ Candidate(n) \/ n.run \in replaying
        <2>1. /\ buffered' = [buffered EXCEPT ![r] = @ \cup {n.st}]
              /\ UNCHANGED <<run, gate, leases, server>>
            BY <1>1, <1>5 DEF Completed
        <2>2. /\ buffered' \in [Request -> SUBSET Outcome] /\ buffered'[r] # {}
              /\ \A d \in Request : d # r => buffered'[d] = buffered[d]
            BY <1>0, <2>1 DEF Typed
        <2>3. Typed' /\ GateOK'
            BY <1>0, <1>2, <2>1, <2>2 DEF Typed, GateOK, endVars
        <2>4. Owned(r)' <=> Owned(r)
            BY <2>1 DEF Owned
        <2>5. Holder(r)' /\ PlaceOK(r)' /\ ActiveOK(r)' /\ QuietOK(r)' /\ FirstOK(r)'
            BY <1>2, <1>3, <2>1, <2>4
            DEF Sound, Holder, PlaceOK, ActiveOK, QuietOK, FirstOK, First, Leased, endVars
        <2>6. OnceOK(r)'
            BY <1>2, <1>3 DEF OnceOK
        <2>7. CompletionOK(r)'
            <3>1. run[r].turn = "known" => worker[r] = "replay"
                BY <1>1, <1>3, <1>5 DEF Correlated, Candidate, Sound, PlaceOK
            <3> QED
                BY <1>2, <2>1, <2>2, <3>1 DEF CompletionOK, Kept
        <2>8. Sound(r)'
            BY <2>5, <2>6, <2>7 DEF Sound
        <2>9. "refuse" \notin Inputs => LeaseOK(r)'
            BY <1>2, <2>1, <2>4 DEF Exact, LeaseOK, Leased
        <2>10. \A d \in Request : d # r => EndsAt({}, d) /\ Around(d) /\ Leaves({}, d)
            BY <1>1, <1>2, <2>1, <2>2 DEF EndsAt, Around, Leaves, Leased, endVars
        <2> QED
            BY <2>3, <2>8, <2>9, <2>10, OneKeep
    <1>6. CASE /\ ~(~server.up \/ server.gen # n.gen \/ ~(Correlated(n) \/ Candidate(n)))
               /\ ~(Candidate(n) \/ n.run \in replaying)
        <2>1. PICK o \in EndOutcomes({r}) :
                 /\ Valid(o)
                 /\ Ended(o.ended, o.refused, Fate(r, StatusAfter(r, n.st)), {})
                 /\ server' = IF o.refused = {} THEN server ELSE [server EXCEPT !.up = FALSE]
            BY <1>1, <1>6 DEF Completed
        <2>2. {r} \in SUBSET OwnedRuns
            BY <1>1, <1>6 DEF Correlated, Candidate, OwnedRuns
        <2>3. n.st \in Outcome
            BY <1>0 DEF Typed
        <2>4. \A d \in {r} : Fate(r, StatusAfter(r, n.st))[d] \in Terminal
            BY <2>3, StatusAfterTerminal, FateTerminal
        <2>5. /\ server' \in [gen : Generation, up : BOOLEAN]
              /\ server'.gen = server.gen /\ (server'.up => server.up)
            BY <1>0, <2>1 DEF Typed
        <2>6. inbox' \subseteq inbox /\ \A m \in inbox : m \in inbox' \/ {r} = {m.run}
            BY <1>1, <1>2
        <2>7. \A d \in {r} : d \notin live /\ worker[d] # "turn"
            BY <1>3
        <2>8. cancel' \in [Request -> CancelStates]
            BY <1>0, <1>2 DEF Typed
        <2> QED
            BY <1>2, <2>1, <2>2, <2>4, <2>5, <2>6, <2>7, <2>8, EndsOutsideKeep
    <1> QED
        BY <1>4, <1>5, <1>6

-----------------------------------------------------------------------------
(* The end of a chat, of the Bridge, and of its checkpoint.                *)

LEMMA DeleteThreadStep ==
    ASSUME Exact, NEW c \in Chat, DeleteThread(c)
    PROVE  Exact'
    <1>0. Typed /\ GateOK /\ \A d \in Request : Sound(d)
        BY DEF Exact, Always
    <1>1. PICK gone \in SUBSET Request :
             /\ gone = {r \in Request : ChatOf[r] = c /\ run[r].st \in Terminal}
             /\ run' = [r \in Request |-> IF r \in gone THEN [run[r] EXCEPT !.st = "purged"]
                                                        ELSE run[r]]
             /\ leases' = leases \ gone
             /\ buffered' = [r \in Request |-> IF r \in gone THEN {} ELSE buffered[r]]
        BY DEF DeleteThread
    <1>2. /\ Deletable(c) /\ deleted' = deleted \cup {c}
          /\ UNCHANGED <<gate, admitted, worker, saw, cancel, steer, server, live, opened, inbox,
                         replaying, closed, toAbort, fatal>>
        BY DEF DeleteThread, pcVars, serverVars
    <1>3. ASSUME NEW d \in Request
          PROVE  /\ run'[d] \in Run /\ run'[d].gen = run[d].gen /\ run'[d].turn = run[d].turn
                 /\ d \in gone => run[d].st \in Terminal /\ run'[d].st = "purged"
                 /\ d \notin gone => run'[d].st = run[d].st /\ buffered'[d] = buffered[d]
                 /\ buffered'[d] \in {buffered[d], {}}
                 /\ d \in leases' => d \in leases
                 /\ d \notin gone => (d \in leases' <=> d \in leases)
        <2>1. run[d] \in Run
            BY <1>0 DEF Typed
        <2>2. CASE d \in gone
            <3>1. run'[d] = [run[d] EXCEPT !.st = "purged"]
                BY <1>1, <2>2
            <3> QED
                BY <1>1, <2>1, <2>2, <3>1 DEF Run, Statuses
        <2>3. CASE d \notin gone
            BY <1>1, <2>1, <2>3
        <2> QED
            BY <2>2, <2>3
    <1>4. run' \in [Request -> Run] /\ buffered' \in [Request -> SUBSET Outcome]
        BY <1>0, <1>1, <1>3 DEF Typed
    <1>5. Typed' /\ GateOK'
        BY <1>0, <1>1, <1>2, <1>4 DEF Typed, GateOK
    <1>6. ASSUME NEW d \in Request PROVE Sound(d)' /\ (LeaseOK(d) => LeaseOK(d)')
        <2>1. Sound(d)
            BY <1>0
        <2>2. /\ Owned(d)' <=> Owned(d)
              /\ Owned(d) => run'[d].st = run[d].st /\ buffered'[d] = buffered[d]
              /\ run'[d].st \in {"none", "queued", "running"} \cup Started => run'[d].st = run[d].st
              /\ run[d].st = "none" <=> run'[d].st = "none"
              /\ d \in gone => ~Owned(d)
            BY <1>3 DEF Owned, Started, Terminal
        <2>3. Holder(d)' /\ ActiveOK(d)'
            BY <1>2, <2>1, <2>2 DEF Sound, Holder, ActiveOK, Leased
        <2>4. PlaceOK(d)'
            BY <1>2, <1>3, <2>1, <2>2 DEF Sound, PlaceOK
        <2>5. OnceOK(d)'
            BY <1>2, <1>3, <2>1 DEF Sound, OnceOK
        <2>6. CompletionOK(d)'
            BY <1>2, <1>3, <2>1, <2>2 DEF Sound, CompletionOK, Kept
        <2>7. QuietOK(d)'
            <3>1. ChatOf[d] = c => ~Owned(d) /\ cancel[d] = "none" /\ d \notin steer
                BY <1>2 DEF Deletable, Publishing, OwnedRuns
            <3> QED
                BY <1>2, <2>1, <2>2, <3>1 DEF Sound, QuietOK
        <2>8. FirstOK(d)'
            BY <1>2, <1>3, <2>1, <2>2 DEF Sound, FirstOK, First
        <2>9. LeaseOK(d) => LeaseOK(d)'
            BY <1>2, <1>3, <2>2 DEF LeaseOK, Leased
        <2> QED
            BY <2>3, <2>4, <2>5, <2>6, <2>7, <2>8, <2>9 DEF Sound
    <1> QED
        BY <1>5, <1>6 DEF Exact, Always

\* Everything the broker owns ends and every lease goes.
LEMMA ClearsKeep ==
    ASSUME Exact,
           run' = [r \in Request |-> IF Owned(r) THEN [run[r] EXCEPT !.st = "interrupted"]
                                                 ELSE run[r]],
           gate' \in GateWithout(OwnedRuns \cup admitted),
           leases' = leases \ OwnedRuns,
           buffered' \in [Request -> SUBSET Outcome],
           \A d \in Request : buffered'[d] = {} \/ (~Owned(d) /\ buffered'[d] = buffered[d]),
           admitted' = {}, replaying' \subseteq replaying,
           UNCHANGED <<pcVars, live, opened, inbox, deleted>>,
           server' \in [gen : Generation, up : BOOLEAN],
           server'.gen = server.gen, server'.up => server.up,
           closed' \in BOOLEAN, closed => closed', fatal' \in BOOLEAN, toAbort' \subseteq Generation,
           First' => \A d \in OwnedRuns : d \notin live /\ worker[d] # "turn"
    PROVE  Exact'
    <1>0. Typed /\ GateOK /\ \A d \in Request : Sound(d)
        BY DEF Exact, Always
    <1>1. /\ gate' \in [active : SUBSET Request, queued : SUBSET Request] /\ GateOK'
          /\ \A d \in Request : d \in Leased' <=> d \in Leased /\ d \notin OwnedRuns \cup admitted
          /\ \A d \in Request : d \in gate.active /\ d \notin OwnedRuns \cup admitted =>
                d \in gate'.active
        BY <1>0, GateWithoutEffect
    <1>2. ASSUME NEW d \in Request
          PROVE  /\ run'[d] \in Run /\ run'[d].gen = run[d].gen /\ run'[d].turn = run[d].turn
                 /\ Owned(d) => run'[d].st = "interrupted"
                 /\ ~Owned(d) => run'[d].st = run[d].st
        <2>1. run[d] \in Run
            BY <1>0 DEF Typed
        <2>2. CASE Owned(d)
            <3>1. run'[d] = [run[d] EXCEPT !.st = "interrupted"]
                BY <2>2
            <3> QED
                BY <2>1, <2>2, <3>1 DEF Run, Statuses, Terminal
        <2>3. CASE ~Owned(d)
            BY <2>1, <2>3
        <2> QED
            BY <2>2, <2>3
    <1>3. run' \in [Request -> Run]
        BY <1>2
    <1>4. Typed'
        BY <1>0, <1>1, <1>3 DEF Typed, pcVars
    <1>5. ASSUME NEW d \in Request PROVE Sound(d)' /\ ("refuse" \notin Inputs => LeaseOK(d)')
        <2>1. /\ Sound(d) /\ ~Owned(d)' /\ (d \in OwnedRuns <=> Owned(d))
              /\ Owned(d) => run'[d].st \in Terminal /\ run'[d].st # run[d].st
              /\ ~Owned(d) => run'[d].st = run[d].st
            BY <1>0, <1>2 DEF Owned, Started, OwnedRuns, Terminal
        <2>2. CASE d \notin admitted
            <3>1. EndsAt(OwnedRuns, d)
                <4>1. d \in leases' <=> d \in leases /\ d \notin OwnedRuns
                    OBVIOUS
                <4>2. buffered'[d] = buffered[d] \/ (buffered'[d] = {} /\ ~Owned(d)')
                    BY <2>1
                <4> QED
                    BY <1>1, <1>2, <2>1, <2>2, <4>1, <4>2 DEF EndsAt
            <3>2. Around(d) /\ Leaves(OwnedRuns, d)
                BY <2>2 DEF Around, Leaves, pcVars
            <3>3. Sound(d)'
                BY <2>1, <3>1, <3>2, EndSound
            <3> QED
                BY <2>1, <3>1, <3>2, <3>3, EndLeased DEF Exact
        <2>3. CASE d \in admitted
            <3>1. run[d].st = "none"
                BY <2>1, <2>3 DEF Sound, Holder
            <3>2. ~Owned(d) /\ run'[d].st = "none"
                BY <1>2, <3>1 DEF Owned, Started
            <3>3. d \notin Leased'
                BY <1>1, <2>3
            <3>4. UNCHANGED <<worker, cancel, steer>> /\ buffered'[d] \in {buffered[d], {}}
                BY DEF pcVars
            <3>5. Holder(d)' /\ ActiveOK(d)' /\ CompletionOK(d)'
                BY <2>1, <3>2, <3>3 DEF Holder, ActiveOK, CompletionOK, Started
            <3>6. PlaceOK(d)'
                BY <1>2, <2>1, <3>1, <3>2, <3>4 DEF Sound, PlaceOK
            <3>7. OnceOK(d)' /\ QuietOK(d)'
                BY <2>1, <3>4 DEF Sound, OnceOK, QuietOK
            <3>8. FirstOK(d)'
                BY <2>1, <3>1, <3>2, <3>4, NoRun DEF FirstOK
            <3>9. "refuse" \notin Inputs => LeaseOK(d)'
                BY <2>1, <3>2, <3>3 DEF Exact, LeaseOK
            <3> QED
                BY <3>5, <3>6, <3>7, <3>8, <3>9 DEF Sound
        <2> QED
            BY <2>2, <2>3
    <1> QED
        BY <1>1, <1>4, <1>5 DEF Exact, Always

LEMMA CloseStep ==
    ASSUME Exact, Close
    PROVE  Exact'
    <1>0. Typed
        BY DEF Exact, Always
    <1>1. /\ closed' = TRUE /\ ~First'
          /\ UNCHANGED <<pcVars, live, opened, inbox, deleted, replaying, server, fatal>>
        BY DEF Close, serverVars, First
    <1>2. toAbort' \subseteq Generation
        BY <1>0 DEF Close, Typed, Run, OwnedRuns
    <1>3. buffered' = [r \in Request |-> IF Owned(r) THEN {} ELSE buffered[r]]
        BY DEF Close
    <1>4. buffered' \in [Request -> SUBSET Outcome]
        BY <1>0, <1>3 DEF Typed
    <1>5. server \in [gen : Generation, up : BOOLEAN] /\ fatal \in BOOLEAN
        BY <1>0 DEF Typed
    <1> QED
        BY <1>1, <1>2, <1>3, <1>4, <1>5, ClearsKeep DEF Close

LEMMA EnterFatalStateStep ==
    ASSUME Exact, EnterFatalState
    PROVE  Exact'
    <1>0. Typed /\ \A d \in Request : Sound(d)
        BY DEF Exact, Always
    <1>1. /\ fatal' = TRUE /\ replaying' = {} /\ buffered' = [r \in Request |-> {}]
          /\ server' = IF \E r \in OwnedRuns : run[r].gen = server.gen
                       THEN [server EXCEPT !.up = FALSE] ELSE server
          /\ UNCHANGED <<pcVars, live, opened, inbox, deleted, closed, toAbort>>
        BY DEF EnterFatalState
    <1>2. /\ server' \in [gen : Generation, up : BOOLEAN]
          /\ server'.gen = server.gen /\ (server'.up => server.up)
          /\ server'.up => \A d \in OwnedRuns : run[d].gen # server.gen
        BY <1>0, <1>1 DEF Typed
    <1>3. buffered' \in [Request -> SUBSET Outcome] /\ closed \in BOOLEAN
          /\ toAbort \subseteq Generation
        BY <1>0, <1>1 DEF Typed
    <1>4. First' => \A d \in OwnedRuns : d \notin live /\ worker[d] # "turn"
        BY <1>0, <1>1, <1>2 DEF First, Sound, FirstOK, OwnedRuns
    <1> QED
        BY <1>1, <1>2, <1>3, <1>4, ClearsKeep DEF EnterFatalState

-----------------------------------------------------------------------------
(* The invariant holds.                                                    *)

LEMMA InitExact == Init => Exact
    <1> SUFFICES ASSUME Init PROVE Exact
        OBVIOUS
    <1>1. 0 \in Generation /\ 1 \in Generation
        BY BrokerAssumption DEF Generation
    <1>2. Typed
        <2>1. [st |-> "none", gen |-> 0, turn |-> "none"] \in Run
            BY <1>1 DEF Run, Statuses
        <2>2. run \in [Request -> Run]
            BY <2>1 DEF Init
        <2>3. /\ gate \in [active : SUBSET Request, queued : SUBSET Request]
              /\ server \in [gen : Generation, up : BOOLEAN] /\ server.gen # 0
            BY <1>1 DEF Init
        <2>4. /\ worker \in [Request -> WorkerStates] /\ saw \in [Request -> BOOLEAN]
              /\ cancel \in [Request -> CancelStates] /\ opened \in [Request -> Generation]
              /\ buffered \in [Request -> SUBSET Outcome]
            BY <1>1 DEF Init, WorkerStates, CancelStates
        <2> QED
            BY <2>2, <2>3, <2>4 DEF Init, Typed
    <1>3. GateOK
        <2>1. gate.active = {} /\ gate.queued = {}
            BY DEF Init
        <2>2. IsFiniteSet(gate.queued) /\ Cardinality(gate.queued) <= MaxQueued
            BY <2>1, FS_EmptySet, BrokerAssumption
        <2> QED
            BY <2>1, <2>2 DEF GateOK
    <1>4. ASSUME NEW r \in Request PROVE Sound(r) /\ LeaseOK(r)
        <2>1. /\ run[r].st = "none" /\ run[r].gen = 0 /\ run[r].turn = "none"
              /\ worker[r] = "none" /\ cancel[r] = "none" /\ steer = {} /\ live = {}
              /\ inbox = {} /\ buffered[r] = {} /\ replaying = {} /\ deleted = {}
              /\ leases = {} /\ admitted = {} /\ server.gen = 1 /\ ~Owned(r)
              /\ Leased = {}
            BY DEF Init, Owned, Started, Leased
        <2>2. Holder(r) /\ ActiveOK(r) /\ OnceOK(r) /\ CompletionOK(r) /\ QuietOK(r) /\ FirstOK(r)
            BY <2>1 DEF Holder, ActiveOK, OnceOK, CompletionOK, QuietOK, FirstOK, Started
        <2>3. PlaceOK(r)
            BY <2>1 DEF PlaceOK, Begun
        <2> QED
            BY <2>1, <2>2, <2>3 DEF Sound, LeaseOK
    <1> QED
        BY <1>2, <1>3, <1>4 DEF Exact, Always

LEMMA WorkerStepKeeps ==
    ASSUME Exact, NEW r \in Request, WorkerStep(r)
    PROVE  Exact'
    BY EarlyMoveStep, ExpiredStep, SeesEndStep, BeginStep, ThreadOpensStep, ToHandlerStep,
       ThreadOpenedStep, DispatchStep, TurnStartsStep, TurnStartedStep, TurnOverStep, ReplayStep,
       ReplayDoneStep, AbortingStep, WatchStep, JudgeStep, ReconcileStep, TimeoutEndsStep,
       ExceptStep, FailedStep
    DEF WorkerStep

LEMMA NextKeeps ==
    ASSUME Exact, [Next]_vars
    PROVE  Exact'
    <1>1. ASSUME NEW r \in Request, Admit(r) \/ ReleaseAdmission(r) \/ Submit(r)
          PROVE  Exact'
        BY <1>1, AdmissionStep, SubmitStep
    <1>2. ASSUME NEW r \in Request,
                 WorkerStep(r) \/ TimesOut(r) \/ LeaseTimesOut(r) \/ AccountRefuses(r)
                 \/ DeadlinePasses(r)
          PROVE  Exact'
        BY <1>2, WorkerStepKeeps, AbortingStep, LeaseTimesOutStep, ExpiredStep, EarlyMoveStep
    <1>3. ASSUME NEW r \in Request,
                 CancelQueued(r) \/ CancelStarted(r) \/ Steer(r) \/ CallStep(r)
          PROVE  Exact'
        BY <1>3, CancelQueuedStep, CancelStartedStep, SteerStep, CallStepKeeps, CancelEndsStep,
           GenerationStep
        DEF CallStep
    <1>4. ASSUME NEW r \in Request, InteractionExpires(r) \/ BufferOverflows(r)
          PROVE  Exact'
        BY <1>4, GenerationStep
    <1>5. ASSUME NEW r \in Request, NEW st \in Outcome, ServerFinishes(r, st)
          PROVE  Exact'
        BY <1>5, ServerFinishesStep
    <1>6. ASSUME UNCHANGED vars PROVE Exact'
        <2>1. Typed /\ GateOK
            BY DEF Exact, Always
        <2>2. UNCHANGED <<brokerVars, admitted, worker, saw, cancel, steer, server, live, opened,
                          inbox, replaying, deleted, closed, toAbort, fatal>>
            BY <1>6 DEF vars, pcVars, serverVars, endVars
        <2>3. Typed' /\ Ends({})
            BY <2>1, <2>2, EndsNothing DEF Typed, brokerVars
        <2>4. \A d \in Request : Around(d) /\ Leaves({}, d)
            BY <2>2 DEF Around, Leaves
        <2> QED
            BY <2>3, <2>4, EndsKeep
    <1> QED
        BY <1>1, <1>2, <1>3, <1>4, <1>5, <1>6, CompletedStep, ServerStopsStep, RespawnStep,
           DeleteThreadStep, CloseStep, EnterFatalStateStep
        DEF Next

LEMMA ExactHolds == Spec => []Exact
    <1>1. Init => Exact
        BY InitExact
    <1>2. Exact /\ [Next]_vars => Exact'
        BY NextKeeps
    <1> QED
        BY <1>1, <1>2, PTL DEF Spec

-----------------------------------------------------------------------------
(* The theorems.                                                           *)

(***************************************************************************)
(* The broker's state has its types; one prompt at most is active and no   *)
(* more are queued than max_queued_prompts, whatever ends or is refused.   *)
(***************************************************************************)
THEOREM BrokerTyped == Spec => []TypeOK
    <1>1. Exact => TypeOK
        <2> SUFFICES ASSUME Exact PROVE TypeOK
            OBVIOUS
        <2>1. Typed /\ GateOK
            BY DEF Exact, Always
        <2>2. Cardinality(gate.active) <= 1
            <3>1. CASE gate.active = {}
                BY <3>1, FS_EmptySet
            <3>2. CASE gate.active # {}
                <4>1. PICK x \in gate.active : TRUE
                    BY <3>2
                <4>2. gate.active = {x}
                    BY <2>1, <4>1 DEF GateOK
                <4> QED
                    BY <4>2, FS_Singleton
            <3> QED
                BY <3>1, <3>2
        <2> QED
            BY <2>1, <2>2 DEF TypeOK, Typed, GateOK, Run, WorkerStates, CancelStates
    <1> QED
        BY <1>1, ExactHolds, PTL

(***************************************************************************)
(* While the journal takes every terminal event, capacity is exact: the    *)
(* gate's leases are those of pending admissions and of runs that are not  *)
(* over, through every ending, cancellation, timeout and restart.          *)
(***************************************************************************)
THEOREM LeasesExact ==
    ASSUME "refuse" \notin Inputs
    PROVE  Spec => []LeaseExact
    <1>1. Exact => LeaseExact
        <2> SUFFICES ASSUME Exact PROVE LeaseExact
            OBVIOUS
        <2>1. /\ Typed /\ (\A r \in Request : Sound(r) /\ LeaseOK(r))
              /\ leases \subseteq Request /\ Leased \subseteq Request /\ admitted \subseteq Request
            BY DEF Exact, Always, Typed, Leased
        <2>2. leases = OwnedRuns
            BY <2>1 DEF LeaseOK, OwnedRuns
        <2>3. /\ \A r \in Leased : r \in admitted \/ Owned(r)
              /\ admitted \subseteq Leased
            BY <2>1 DEF LeaseOK, Sound, Holder
        <2>4. \A r \in OwnedRuns : worker[r] # "expired" => r \in Leased
            BY <2>1 DEF LeaseOK, OwnedRuns
        <2>5. \A r \in Request : run[r].st \in Started => r \in gate.active
            BY <2>1 DEF Sound, ActiveOK
        <2> QED
            BY <2>2, <2>3, <2>4, <2>5 DEF LeaseExact
    <1> QED
        BY <1>1, ExactHolds, PTL

(***************************************************************************)
(* While the journal takes every terminal event, no consumer sees a        *)
(* terminal run that the gate still counts: _terminalize_locked gives the  *)
(* lease back in the step that makes the status terminal, and nobody takes *)
(* one for that run again.                                                 *)
(***************************************************************************)
THEOREM TerminalIsFree ==
    ASSUME "refuse" \notin Inputs
    PROVE  Spec => []TerminalFreesCapacity
    <1>1. Exact => TerminalFreesCapacity
        <2> SUFFICES ASSUME Exact, NEW r \in Request, run[r].st \in Terminal PROVE r \notin Leased
            BY DEF TerminalFreesCapacity
        <2>1. Sound(r) /\ LeaseOK(r) /\ ~Owned(r) /\ run[r].st # "none"
            BY DEF Exact, Always, Owned, Started, Terminal
        <2> QED
            BY <2>1 DEF LeaseOK, Sound, Holder
    <1> QED
        BY <1>1, ExactHolds, PTL

(***************************************************************************)
(* While the journal takes every terminal event, no worker leaves a run    *)
(* that is not over: every way out of _run_worker ends it first.           *)
(***************************************************************************)
THEOREM WorkersStay ==
    ASSUME "refuse" \notin Inputs
    PROVE  Spec => []OwnedHasWorker
    <1>1. Exact => OwnedHasWorker
        BY DEF Exact, LeaseOK, OwnedHasWorker, OwnedRuns
    <1> QED
        BY <1>1, ExactHolds, PTL

(***************************************************************************)
(* A deleted chat stays quiet for ever, whatever the environment does.     *)
(***************************************************************************)
THEOREM DeletedStaysQuiet == Spec => []DeletedIsQuiet
    <1>1. Exact => DeletedIsQuiet
        BY DEF Exact, Always, Sound, QuietOK, DeletedIsQuiet, Publishing, OwnedRuns
    <1> QED
        BY <1>1, ExactHolds, PTL

(***************************************************************************)
(* The completion of a turn is never lost while its run waits for it, in   *)
(* any order of the answer to turn/start, the notification and the replay, *)
(* across restarts and with a journal that refuses.                        *)
(***************************************************************************)
THEOREM CompletionKept == Spec => []CompletionNotLost
    <1>1. Exact => CompletionNotLost
        <2> SUFFICES ASSUME Exact, NEW r \in Request, Owned(r), run[r].turn = "known",
                            run[r].gen = server.gen, server.up
                     PROVE  \/ r \in live
                            \/ \E n \in inbox : n.run = r /\ n.gen = server.gen
                            \/ buffered[r] # {} /\ worker[r] = "replay"
            BY DEF CompletionNotLost
        <2>1. Sound(r)
            BY DEF Exact, Always
        <2>2. Kept(r) /\ worker[r] # "response"
            BY <2>1 DEF Sound, CompletionOK, PlaceOK
        <2> QED
            BY <2>2 DEF Kept
    <1> QED
        BY <1>1, ExactHolds, PTL

(***************************************************************************)
(* Until the app server is first replaced, a turn under way in it belongs  *)
(* to the run that has the slot, whatever the environment does: so no two  *)
(* turns run at once.  (After a replacement a worker that compared the     *)
(* generation before it took the lock may end another run: see the README.) *)
(***************************************************************************)
THEOREM FirstTurnsOwned == Spec => [](server.gen = 1 => TurnOwned)
    <1>1. Exact => (server.gen = 1 => TurnOwned)
        <2> SUFFICES ASSUME Exact, server.gen = 1, server.up, ~closed, NEW r \in live
                     PROVE  Owned(r) /\ r \in gate.active /\ run[r].gen = server.gen
            BY DEF TurnOwned
        <2>1. r \in Request /\ Sound(r) /\ First
            BY DEF Exact, Always, Typed, First
        <2>2. Owned(r) /\ run[r].gen = 1 /\ run[r].turn # "none"
            BY <2>1 DEF Sound, FirstOK
        <2>3. run[r].st \in Started
            BY <2>1, <2>2 DEF Sound, PlaceOK, Owned
        <2> QED
            BY <2>1, <2>2, <2>3 DEF Sound, ActiveOK
    <1> QED
        BY <1>1, ExactHolds, PTL

=============================================================================
