---------------------------- MODULE RuntimeBroker ----------------------------
(***************************************************************************)
(* The life of a prompt in the Bridge (RuntimeBroker): admission, the      *)
(* worker thread that waits for the gate, starts the turn on the app       *)
(* server and watches it, cancellation, follow-ups, timeouts, restarts of  *)
(* the app server, deletion, shutdown and a failing checkpoint.            *)
(*                                                                         *)
(* What happens under one acquisition of the broker's lock is one action;  *)
(* requests to the app server and waits happen between two of them.  The   *)
(* gate is the one of RuntimeGate with a single slot, seen through the     *)
(* operations the broker uses; which queued prompt is promoted is left     *)
(* open here.  A run has the name of the client request that made it.      *)
(***************************************************************************)
EXTENDS Naturals, FiniteSets

CONSTANTS
    Request,        \* client request ids
    Chat,           \* chats (threads of the Bridge)
    ChatOf,         \* ChatOf[r]: the chat a request is for
    MaxQueued,      \* max_queued_prompts
    MaxGeneration,  \* bound on generations of the app server
    Inputs          \* what the environment may do besides prompts and restarts

ASSUME BrokerAssumption ==
    /\ ChatOf \in [Request -> Chat]
    /\ MaxQueued \in Nat
    /\ MaxGeneration \in Nat \ {0}
    /\ Inputs \subseteq {"admission", "cancel", "steer", "interaction", "overflow",
                         "deadline", "account", "delete", "close", "fatal", "refuse"}

VARIABLES
    run,        \* _state.runs: status, generation, and what is known of the turn
    gate,       \* the gate's active lease and its queued leases, by owner
    leases,     \* _leases
    admitted,   \* _pending_prompt_admissions
    worker,     \* how far each run's worker thread is
    saw,        \* the worker's local `cancelling' in _watch_turn
    cancel,     \* how far a cancel_run is
    steer,      \* runs with a turn/steer request under way
    server,     \* the app server: generation, and whether it serves it
    live,       \* turns under way in the app server
    opened,     \* generation that holds the provider thread of a run
    inbox,      \* turn/completed notifications not yet dispatched
    buffered,   \* _pre_response_callbacks
    replaying,  \* _callback_replays_in_progress
    deleted,    \* chats deleted
    closed,     \* _closed
    toAbort,    \* generations close() has yet to abort
    fatal       \* _fatal_error

brokerVars == <<run, gate, leases, buffered>>
pcVars == <<worker, saw, cancel, steer>>
serverVars == <<server, live, opened, inbox>>
endVars == <<deleted, closed, toAbort, fatal>>
vars == <<brokerVars, admitted, pcVars, serverVars, replaying, endVars>>

-----------------------------------------------------------------------------
Terminal == {"completed", "cancelled", "interrupted", "failed"}
Started == {"starting", "running", "cancelling"}
Statuses == {"none", "queued", "purged"} \cup Started \cup Terminal
Outcome == {"completed", "interrupted", "failed"}
Generation == 0 .. MaxGeneration

TypeOK ==
    /\ run \in [Request -> [st : Statuses, gen : Generation,
                            turn : {"none", "sent", "known"}]]
    /\ gate \in [active : SUBSET Request, queued : SUBSET Request]
    /\ Cardinality(gate.active) <= 1
    /\ gate.active \cap gate.queued = {}
    /\ Cardinality(gate.queued) <= MaxQueued
    /\ leases \subseteq Request /\ admitted \subseteq Request
    /\ worker \in [Request -> {"none", "wait", "expired", "begin", "thread", "opened",
                               "dispatch", "turn", "response", "replay", "after",
                               "watch", "judge", "reconcile", "timeout", "except",
                               "abort", "clear", "failed", "done"}]
    /\ saw \in [Request -> BOOLEAN]
    /\ cancel \in [Request -> {"none", "abort", "end", "interrupt", "clear"}]
    /\ steer \subseteq Request
    /\ server \in [gen : Generation, up : BOOLEAN]
    /\ live \subseteq Request
    /\ opened \in [Request -> Generation]
    /\ inbox \subseteq [run : Request, gen : Generation, st : Outcome]
    /\ buffered \in [Request -> SUBSET Outcome]
    /\ replaying \subseteq Request
    /\ deleted \subseteq Chat
    /\ closed \in BOOLEAN /\ fatal \in BOOLEAN
    /\ toAbort \subseteq Generation

Init ==
    /\ run = [r \in Request |-> [st |-> "none", gen |-> 0, turn |-> "none"]]
    /\ gate = [active |-> {}, queued |-> {}]
    /\ leases = {} /\ admitted = {}
    /\ worker = [r \in Request |-> "none"]
    /\ saw = [r \in Request |-> FALSE]
    /\ cancel = [r \in Request |-> "none"]
    /\ steer = {}
    /\ server = [gen |-> 1, up |-> TRUE]
    /\ live = {} /\ inbox = {}
    /\ opened = [r \in Request |-> 0]
    /\ buffered = [r \in Request |-> {}]
    /\ replaying = {} /\ deleted = {}
    /\ closed = FALSE /\ fatal = FALSE
    /\ toAbort = {}

\* A run the broker owns: every status that is not terminal.
Owned(r) == run[r].st \in {"queued"} \cup Started
OwnedRuns == {r \in Request : Owned(r)}
Queued == {r \in Request : run[r].st = "queued"}

-----------------------------------------------------------------------------
(***************************************************************************)
(* The gate.                                                               *)
(***************************************************************************)
Leased == gate.active \cup gate.queued

\* reserve_prompt
Reserved(r) ==
    IF gate.active = {} THEN [gate EXCEPT !.active = {r}]
                        ELSE [gate EXCEPT !.queued = @ \cup {r}]

CanReserve == gate.active = {} \/ Cardinality(gate.queued) < MaxQueued

\* Mutant: nothing is promoted.
GateWithoutPromotion(E) ==
    {[active |-> gate.active \ E, queued |-> gate.queued \ E]}

\* The leases of E are released or cancelled, and a queued one is promoted.
GateWithout(E) ==
    LET a == gate.active \ E
        q == gate.queued \ E
    IN  IF a = {} /\ q # {}
        THEN {[active |-> {x}, queued |-> q \ {x}] : x \in q}
        ELSE {[active |-> a, queued |-> q]}

(***************************************************************************)
(* _terminalize_locked for the runs of E, with the statuses S.  A journal  *)
(* that refuses the terminal event (EventStoreAdmissionError and the like) *)
(* makes it raise for one run x: x has its status, but its lease is still  *)
(* held, unless the caller had taken it out of the queue before (dropped). *)
(***************************************************************************)
\* Mutant: the lease stays with the run.
EndedKeepsLease(E, x, S, dropped) ==
    /\ run' = [r \in Request |->
                 IF r \in E \cup x THEN [run[r] EXCEPT !.st = S[r]] ELSE run[r]]
    /\ gate' \in GateWithout((x \cup E) \cap dropped)
    /\ leases' = leases \ E
    /\ buffered' = [r \in Request |-> IF r \in E THEN {} ELSE buffered[r]]

Ended(E, x, S, dropped) ==
    /\ run' = [r \in Request |->
                 IF r \in E \cup x THEN [run[r] EXCEPT !.st = S[r]] ELSE run[r]]
    /\ gate' \in GateWithout(E \cup (x \cap dropped))
    /\ leases' = leases \ E
    /\ buffered' = [r \in Request |-> IF r \in E THEN {} ELSE buffered[r]]

\* All of T ends, or one of T is refused and which others ended is open.
EndOutcomes(T) ==
    {[ended |-> T, refused |-> {}]} \cup
    IF "refuse" \in Inputs
    THEN {[ended |-> e, refused |-> {x}] : e \in SUBSET T, x \in T}
    ELSE {}

Valid(o) == o.ended \cap o.refused = {}

\* Runs that are queued when everything queued is cleared end as interrupted.
Fate(r, st) ==
    [x \in Request |-> IF run[x].st = "queued" THEN "interrupted"
                       ELSE IF x = r THEN st ELSE "interrupted"]

Own(r) == IF Owned(r) THEN {r} ELSE {}

(***************************************************************************)
(* The app server's client.                                                *)
(***************************************************************************)
\* Mutant: the generation is left running.
AbortNothing(g) == server

\* abort_generation: only the generation that is meant.
AbortGeneration(g) ==
    IF server.up /\ server.gen = g THEN [server EXCEPT !.up = FALSE] ELSE server

-----------------------------------------------------------------------------
(***************************************************************************)
(* Prompts.                                                                *)
(***************************************************************************)
Accepting == ~closed /\ ~fatal

\* admit_prompt reserves before its caller touches the target.
Admit(r) ==
    /\ "admission" \in Inputs
    /\ Accepting
    /\ run[r].st = "none" /\ r \notin admitted
    /\ CanReserve
    /\ gate' = Reserved(r)
    /\ admitted' = admitted \cup {r}
    /\ UNCHANGED <<run, leases, buffered, pcVars, serverVars, replaying, endVars>>

\* The admission's context ends, or the submission was rolled back.
ReleaseAdmission(r) ==
    /\ r \in admitted
    /\ admitted' = admitted \ {r}
    /\ gate' \in GateWithout({r})
    /\ UNCHANGED <<run, leases, buffered, pcVars, serverVars, replaying, endVars>>

\* Mutant: the admission is not consumed.
SubmitKeepsAdmission(r) ==
    /\ Accepting
    /\ run[r].st = "none"
    /\ ChatOf[r] \notin deleted
    /\ \A x \in OwnedRuns : ChatOf[x] # ChatOf[r]
    /\ r \in admitted \/ CanReserve
    /\ gate' = IF r \in admitted THEN gate ELSE Reserved(r)
    /\ run' = [run EXCEPT ![r].st = IF r \in gate'.active THEN "starting" ELSE "queued"]
    /\ leases' = leases \cup {r}
    /\ worker' = [worker EXCEPT ![r] = "wait"]
    /\ UNCHANGED <<admitted, buffered, saw, cancel, steer, serverVars, replaying, endVars>>

\* submit_prompt, with the lease of an admission or one reserved now.  A chat
\* with a run that is not terminal takes follow-ups instead, or refuses.
Submit(r) ==
    /\ Accepting
    /\ run[r].st = "none"
    /\ ChatOf[r] \notin deleted
    /\ \A x \in OwnedRuns : ChatOf[x] # ChatOf[r]
    /\ r \in admitted \/ CanReserve
    /\ gate' = IF r \in admitted THEN gate ELSE Reserved(r)
    /\ run' = [run EXCEPT ![r].st = IF r \in gate'.active THEN "starting" ELSE "queued"]
    /\ leases' = leases \cup {r}
    /\ admitted' = admitted \ {r}
    /\ worker' = [worker EXCEPT ![r] = "wait"]
    /\ UNCHANGED <<buffered, saw, cancel, steer, serverVars, replaying, endVars>>

-----------------------------------------------------------------------------
(***************************************************************************)
(* The worker thread: _run_worker and _start_turn.                         *)
(***************************************************************************)
Go(r, pc) == worker' = [worker EXCEPT ![r] = pc]

\* A step of the worker that only moves on.
Moves(r, from, to) ==
    /\ worker[r] = from
    /\ Go(r, to)
    /\ UNCHANGED <<brokerVars, admitted, saw, cancel, steer, serverVars, replaying, endVars>>

\* The worker ends runs and leaves; a refusal takes it to `refused'.
EndsAll(r, T, S, dropped, refused) ==
    /\ \E o \in EndOutcomes(T) :
          /\ Valid(o)
          /\ Ended(o.ended, o.refused, S, dropped)
          /\ Go(r, IF o.refused = {} THEN "done" ELSE refused)
    /\ UNCHANGED <<admitted, saw, cancel, steer, serverVars, replaying, endVars>>

\* wait_until_active returns, times out, or finds the lease gone.
LeaseActive(r) == r \in gate.active /\ Moves(r, "wait", "begin")
LeaseGone(r) == r \notin Leased /\ Moves(r, "wait", "expired")
LeaseTimesOut(r) ==
    /\ worker[r] = "wait" /\ r \in gate.queued
    /\ "deadline" \in Inputs
    /\ Go(r, "expired")
    /\ gate' \in GateWithout({r})
    /\ UNCHANGED <<run, leases, buffered, admitted, saw, cancel, steer, serverVars,
                   replaying, endVars>>

Expired(r) ==
    /\ worker[r] = "expired"
    /\ EndsAll(r, Own(r), Fate(r, "cancelled"), {}, "done")

\* The account is changing.
AccountRefuses(r) ==
    /\ worker[r] = "begin"
    /\ "account" \in Inputs
    /\ EndsAll(r, Own(r), [x \in Request |-> "cancelled"], {}, "except")

\* The run was ended by someone else: every block of _start_turn and
\* _watch_turn returns.
SeesEnd(r) ==
    /\ worker[r] \in {"begin", "thread", "opened", "dispatch", "response", "after", "watch"}
    /\ ~Owned(r)
    /\ Moves(r, worker[r], "done")

\* _RuntimeTotalDeadlineExceeded
DeadlinePasses(r) ==
    /\ "deadline" \in Inputs
    /\ worker[r] \in {"begin", "dispatch"} /\ Owned(r)
    /\ Moves(r, worker[r], "except")

Begin(r) ==
    /\ worker[r] = "begin" /\ Owned(r)
    /\ IF run[r].st = "cancelling"
       THEN EndsAll(r, {r}, Fate(r, "cancelled"), {}, "except")
       ELSE /\ run' = [run EXCEPT ![r].st = "starting", ![r].gen = server.gen]
            /\ Go(r, "thread")
            /\ UNCHANGED <<gate, leases, buffered, admitted, saw, cancel, steer,
                           serverVars, replaying, endVars>>

\* thread/start or thread/resume is answered.
ThreadOpens(r) ==
    /\ worker[r] = "thread"
    /\ server.up
    /\ opened' = [opened EXCEPT ![r] = server.gen]
    /\ Go(r, "opened")
    /\ UNCHANGED <<brokerVars, admitted, saw, cancel, steer, server, live, inbox,
                   replaying, endVars>>

\* A request fails or times out; the turn may have started nevertheless.
RequestFails(r) ==
    /\ worker[r] \in {"thread", "turn", "response"}
    /\ Moves(r, worker[r], "except")

\* RuntimeUnavailableError: the generation changed under the worker.
Stale(r) ==
    /\ worker[r] \in {"opened", "dispatch", "response"}
    /\ Owned(r) /\ run[r].gen # server.gen
    /\ Moves(r, worker[r], "except")

SameGeneration(r) == Owned(r) /\ run[r].gen = server.gen

ThreadOpened(r) ==
    /\ worker[r] = "opened" /\ SameGeneration(r)
    /\ IF run[r].st = "cancelling"
       THEN EndsAll(r, {r}, Fate(r, "cancelled"), {}, "except")
       ELSE Moves(r, "opened", "dispatch")

\* turn_start_dispatched
Dispatch(r) ==
    /\ worker[r] = "dispatch" /\ SameGeneration(r)
    /\ run' = [run EXCEPT ![r].turn = "sent"]
    /\ Go(r, "turn")
    /\ UNCHANGED <<gate, leases, buffered, admitted, saw, cancel, steer, serverVars,
                   replaying, endVars>>

\* turn/start reaches the app server, which knows the threads it opened.
TurnStarts(r) ==
    /\ worker[r] = "turn"
    /\ server.up /\ opened[r] = server.gen
    /\ live' = live \cup {r}
    /\ Go(r, "response")
    /\ UNCHANGED <<brokerVars, admitted, saw, cancel, steer, server, opened, inbox,
                   replaying, endVars>>

\* The answer to turn/start: the turn has its id, callbacks are replayed.
TurnStarted(r) ==
    /\ worker[r] = "response" /\ SameGeneration(r)
    /\ run' = [run EXCEPT ![r].turn = "known",
                          ![r].st = IF @ = "cancelling" THEN @ ELSE "running"]
    /\ replaying' = replaying \cup {r}
    /\ Go(r, "replay")
    /\ UNCHANGED <<gate, leases, buffered, admitted, saw, cancel, steer, serverVars, endVars>>

\* _handle_turn_completed_locked
StatusAfter(r, st) ==
    IF st = "interrupted" /\ run[r].st = "cancelling" THEN "cancelled" ELSE st

\* The answer says that the turn is over already.
TurnOver(r) ==
    /\ worker[r] = "response" /\ SameGeneration(r)
    /\ r \notin live
    /\ \E st \in buffered[r] \cup {n.st : n \in {m \in inbox : m.run = r}} :
          /\ \E o \in EndOutcomes({r}) :
                /\ Valid(o)
                /\ Ended(o.ended, o.refused, Fate(r, StatusAfter(r, st)), {})
                /\ Go(r, IF o.refused = {} THEN "after" ELSE "except")
    /\ UNCHANGED <<admitted, saw, cancel, steer, serverVars, replaying, endVars>>

\* _replay_pre_response_callbacks
Replay(r) ==
    /\ worker[r] = "replay"
    /\ \E st \in buffered[r] :
          IF Owned(r)
          THEN \E o \in EndOutcomes({r}) :
                  /\ Valid(o)
                  /\ Ended(o.ended, o.refused, Fate(r, StatusAfter(r, st)), {})
                  /\ Go(r, IF o.refused = {} THEN "replay" ELSE "except")
          ELSE /\ buffered' = [buffered EXCEPT ![r] = @ \ {st}]
               /\ UNCHANGED <<run, gate, leases, worker>>
    /\ UNCHANGED <<admitted, saw, cancel, steer, serverVars, replaying, endVars>>

\* Mutant: what arrived during the replay is forgotten.
ReplayDoneEarly(r) ==
    /\ worker[r] = "replay"
    /\ buffered' = [buffered EXCEPT ![r] = {}]
    /\ replaying' = replaying \ {r}
    /\ Go(r, "after")
    /\ UNCHANGED <<run, gate, leases, admitted, saw, cancel, steer, serverVars, endVars>>

ReplayDone(r) ==
    /\ worker[r] = "replay"
    /\ buffered[r] = {}
    /\ replaying' = replaying \ {r}
    /\ Go(r, "after")
    /\ UNCHANGED <<brokerVars, admitted, saw, cancel, steer, serverVars, endVars>>

\* A cancellation that came while the turn was starting is passed on now.
After(r) ==
    /\ worker[r] = "after" /\ Owned(r)
    /\ \/ UNCHANGED server
       \/ /\ run[r].st = "cancelling"
          /\ server' = AbortGeneration(run[r].gen)
    /\ Go(r, "watch")
    /\ UNCHANGED <<brokerVars, admitted, saw, cancel, steer, live, opened, inbox,
                   replaying, endVars>>

-----------------------------------------------------------------------------
(***************************************************************************)
(* _watch_turn: the worker looks at the run under the lock and judges what *)
(* it saw without it.                                                      *)
(***************************************************************************)
Watch(r) ==
    /\ worker[r] = "watch" /\ Owned(r)
    /\ saw' = [saw EXCEPT ![r] = run[r].st = "cancelling"]
    /\ Go(r, "judge")
    /\ UNCHANGED <<brokerVars, admitted, cancel, steer, serverVars, replaying, endVars>>

SeesRestart(r) == run[r].gen # server.gen /\ Moves(r, "judge", "reconcile")
LooksAgain(r) == run[r].gen = server.gen /\ Moves(r, "judge", "watch")

\* The turn's deadline, idleness, or the grace period after a cancellation.
TimesOut(r) ==
    /\ worker[r] = "judge"
    /\ run[r].gen = server.gen
    /\ server' = AbortGeneration(run[r].gen)
    /\ Go(r, "timeout")
    /\ UNCHANGED <<brokerVars, admitted, saw, cancel, steer, live, opened, inbox,
                   replaying, endVars>>

\* _reconcile_generation_locked
Reconcile(r) ==
    /\ worker[r] = "reconcile"
    /\ EndsAll(r, OwnedRuns, [x \in Request |-> "interrupted"], {}, "except")

\* The generation is aborted; what is queued is cleared.
TimeoutEnds(r) ==
    /\ worker[r] = "timeout"
    /\ EndsAll(r, Queued \cup Own(r), Fate(r, IF saw[r] THEN "cancelled" ELSE "failed"),
               Queued, "except")

\* The handlers of _run_worker.
Except(r) ==
    /\ worker[r] = "except"
    /\ Moves(r, "except", IF Owned(r) /\ run[r].turn # "none" THEN "abort" ELSE "failed")

Abort(r) ==
    /\ worker[r] = "abort"
    /\ server' = AbortGeneration(run[r].gen)
    /\ Go(r, "clear")
    /\ UNCHANGED <<brokerVars, admitted, saw, cancel, steer, live, opened, inbox,
                   replaying, endVars>>

\* Mutant: only what is queued is ended.
FailedClears(r) ==
    /\ worker[r] \in {"clear", "failed"}
    /\ EndsAll(r, Queued, Fate(r, "failed"), Queued, "done")

Failed(r) ==
    /\ worker[r] \in {"clear", "failed"}
    /\ LET T == (IF worker[r] = "clear" THEN Queued ELSE {}) \cup Own(r)
           S == [Fate(r, "failed") EXCEPT ![r] = IF run[r].st = "queued"
                                                THEN "cancelled" ELSE "failed"]
       IN  EndsAll(r, T, S, IF worker[r] = "clear" THEN Queued ELSE {}, "done")

-----------------------------------------------------------------------------
(***************************************************************************)
(* cancel_run.                                                             *)
(***************************************************************************)
Cancels(r, pc) == cancel' = [cancel EXCEPT ![r] = pc]

CancelQueued(r) ==
    /\ "cancel" \in Inputs
    /\ run[r].st = "queued"
    /\ \E o \in EndOutcomes({r}) :
          Valid(o) /\ Ended(o.ended, o.refused, [x \in Request |-> "cancelled"], Queued)
    /\ UNCHANGED <<admitted, pcVars, serverVars, replaying, endVars>>

CancelStarted(r) ==
    /\ "cancel" \in Inputs
    /\ run[r].st \in Started
    /\ cancel[r] = "none"
    /\ run' = [run EXCEPT ![r].st = "cancelling"]
    /\ Cancels(r, IF run[r].turn = "known" THEN "interrupt"
                  ELSE IF run[r].gen = 0 THEN "none" ELSE "abort")
    /\ UNCHANGED <<gate, leases, buffered, admitted, worker, saw, steer, serverVars,
                   replaying, endVars>>

\* There is no turn to interrupt yet: the generation is aborted.
CancelAborts(r) ==
    /\ cancel[r] = "abort"
    /\ server' = AbortGeneration(run[r].gen)
    /\ Cancels(r, "end")
    /\ UNCHANGED <<brokerVars, admitted, worker, saw, steer, live, opened, inbox,
                   replaying, endVars>>

\* turn/interrupt is answered, or fails and the generation is aborted.
CancelInterrupts(r) ==
    /\ cancel[r] = "interrupt"
    /\ \/ server.up /\ UNCHANGED server /\ Cancels(r, "none")
       \/ server' = AbortGeneration(run[r].gen) /\ Cancels(r, "clear")
    /\ UNCHANGED <<brokerVars, admitted, worker, saw, steer, live, opened, inbox,
                   replaying, endVars>>

CancelEnds(r) ==
    /\ cancel[r] \in {"end", "clear"}
    /\ LET T == Queued \cup (IF cancel[r] = "end" THEN Own(r) ELSE {})
       IN  \E o \in EndOutcomes(T) :
              Valid(o) /\ Ended(o.ended, o.refused, Fate(r, "cancelled"), Queued)
    /\ Cancels(r, "none")
    /\ UNCHANGED <<admitted, worker, saw, steer, serverVars, replaying, endVars>>

(***************************************************************************)
(* A follow-up to a running turn: submit_prompt with turn/steer.           *)
(***************************************************************************)
Steer(r) ==
    /\ "steer" \in Inputs
    /\ Accepting
    /\ run[r].st \in {"starting", "running"} /\ run[r].turn = "known"
    /\ steer' = steer \cup {r}
    /\ UNCHANGED <<brokerVars, admitted, worker, saw, cancel, serverVars, replaying, endVars>>

SteerAccepted(r) ==
    /\ r \in steer
    /\ server.up /\ server.gen = run[r].gen
    /\ steer' = steer \ {r}
    /\ UNCHANGED <<brokerVars, admitted, worker, saw, cancel, serverVars, replaying, endVars>>

\* Its outcome is unknown: the generation goes, and the turn with it.
EndsWithGeneration(r, st) ==
    /\ server' = AbortGeneration(run[r].gen)
    /\ \E o \in EndOutcomes(Queued \cup Own(r)) :
          Valid(o) /\ Ended(o.ended, o.refused, Fate(r, st), Queued)
    /\ UNCHANGED <<admitted, worker, saw, cancel, live, opened, inbox, replaying, endVars>>

SteerFails(r) ==
    /\ r \in steer
    /\ EndsWithGeneration(r, "interrupted")
    /\ steer' = steer \ {r}

\* _expire_due_interactions_locked, by the watcher or by any reader.
InteractionExpires(r) ==
    /\ "interaction" \in Inputs
    /\ run[r].st = "running"
    /\ EndsWithGeneration(r, "failed")
    /\ UNCHANGED steer

\* _buffer_pre_response_callback_locked, when the buffer is full.
BufferOverflows(r) ==
    /\ "overflow" \in Inputs
    /\ Owned(r) /\ run[r].gen = server.gen /\ server.up
    /\ run[r].turn = "sent" \/ r \in replaying
    /\ EndsWithGeneration(r, "failed")
    /\ UNCHANGED steer

-----------------------------------------------------------------------------
(***************************************************************************)
(* turn/completed is dispatched by the one callback thread.                *)
(***************************************************************************)
Correlated(n) == Owned(n.run) /\ run[n.run].gen = n.gen /\ run[n.run].turn = "known"
Candidate(n) == Owned(n.run) /\ run[n.run].gen = n.gen /\ run[n.run].turn = "sent"

Completed(n) ==
    /\ n \in inbox
    /\ inbox' = inbox \ {n}
    /\ IF ~server.up \/ server.gen # n.gen \/ ~(Correlated(n) \/ Candidate(n))
       THEN UNCHANGED <<brokerVars, server>>
       ELSE IF Candidate(n) \/ n.run \in replaying
       THEN /\ buffered' = [buffered EXCEPT ![n.run] = @ \cup {n.st}]
            /\ UNCHANGED <<run, gate, leases, server>>
       ELSE \E o \in EndOutcomes({n.run}) :
               /\ Valid(o)
               /\ Ended(o.ended, o.refused, Fate(n.run, StatusAfter(n.run, n.st)), {})
               /\ server' = IF o.refused = {} THEN server ELSE [server EXCEPT !.up = FALSE]
    /\ UNCHANGED <<admitted, pcVars, live, opened, replaying, endVars>>

(***************************************************************************)
(* The app server process (external): a turn ends, the process dies and    *)
(* the supervisor starts the next generation.                              *)
(***************************************************************************)
ServerFinishes(r, st) ==
    /\ server.up
    /\ r \in live
    /\ live' = live \ {r}
    /\ inbox' = inbox \cup {[run |-> r, gen |-> server.gen, st |-> st]}
    /\ UNCHANGED <<brokerVars, admitted, pcVars, server, opened, replaying, endVars>>

ServerDies ==
    /\ server.up
    /\ server' = [server EXCEPT !.up = FALSE]
    /\ UNCHANGED <<brokerVars, admitted, pcVars, live, opened, inbox, replaying, endVars>>

Respawn ==
    /\ ~server.up /\ server.gen < MaxGeneration
    /\ server' = [gen |-> server.gen + 1, up |-> TRUE]
    /\ live' = {}
    /\ UNCHANGED <<brokerVars, admitted, pcVars, opened, inbox, replaying, endVars>>

-----------------------------------------------------------------------------
(***************************************************************************)
(* The end of a chat, of the Bridge, and of its checkpoint.                *)
(***************************************************************************)
Publishing(c) == \E r \in Request : ChatOf[r] = c /\ (cancel[r] # "none" \/ r \in steer)

\* Mutant: calls under way are not waited for.
DeletableNow(c) == \A r \in OwnedRuns : ChatOf[r] # c

\* _assert_threads_deletable_locked
Deletable(c) == (\A r \in OwnedRuns : ChatOf[r] # c) /\ ~Publishing(c)

DeleteThread(c) ==
    /\ "delete" \in Inputs
    /\ Accepting
    /\ c \notin deleted /\ Deletable(c)
    /\ deleted' = deleted \cup {c}
    /\ LET gone == {r \in Request : ChatOf[r] = c /\ run[r].st \in Terminal}
       IN  /\ run' = [r \in Request |-> IF r \in gone THEN [run[r] EXCEPT !.st = "purged"]
                                                      ELSE run[r]]
           /\ leases' = leases \ gone
           /\ buffered' = [r \in Request |-> IF r \in gone THEN {} ELSE buffered[r]]
    /\ UNCHANGED <<gate, admitted, pcVars, serverVars, replaying, closed, toAbort, fatal>>

Close ==
    /\ "close" \in Inputs
    /\ ~closed
    /\ closed' = TRUE
    /\ toAbort' = {run[r].gen : r \in OwnedRuns} \ {0}
    /\ run' = [r \in Request |-> IF Owned(r) THEN [run[r] EXCEPT !.st = "interrupted"]
                                             ELSE run[r]]
    /\ gate' \in GateWithout(OwnedRuns \cup admitted)
    /\ leases' = leases \ OwnedRuns
    /\ buffered' = [r \in Request |-> IF Owned(r) THEN {} ELSE buffered[r]]
    /\ admitted' = {}
    /\ UNCHANGED <<pcVars, serverVars, replaying, deleted, fatal>>

CloseAborts(g) ==
    /\ g \in toAbort
    /\ toAbort' = toAbort \ {g}
    /\ server' = AbortGeneration(g)
    /\ UNCHANGED <<brokerVars, admitted, pcVars, live, opened, inbox, replaying,
                   deleted, closed, fatal>>

\* _enter_fatal_state_locked, when a handler cannot save the checkpoint.
EnterFatalState ==
    /\ "fatal" \in Inputs
    /\ ~fatal
    /\ fatal' = TRUE
    /\ run' = [r \in Request |-> IF Owned(r) THEN [run[r] EXCEPT !.st = "interrupted"]
                                             ELSE run[r]]
    /\ gate' \in GateWithout(OwnedRuns \cup admitted)
    /\ leases' = leases \ OwnedRuns
    /\ buffered' = [r \in Request |-> {}]
    /\ admitted' = {} /\ replaying' = {}
    /\ server' = IF \E r \in OwnedRuns : run[r].gen = server.gen
                 THEN [server EXCEPT !.up = FALSE] ELSE server
    /\ UNCHANGED <<pcVars, live, opened, inbox, deleted, closed, toAbort>>

-----------------------------------------------------------------------------
WorkerStep(r) ==
    \/ LeaseActive(r) \/ LeaseGone(r) \/ Expired(r) \/ SeesEnd(r)
    \/ Begin(r) \/ ThreadOpens(r) \/ Stale(r) \/ ThreadOpened(r) \/ Dispatch(r)
    \/ TurnStarts(r) \/ TurnStarted(r) \/ TurnOver(r) \/ RequestFails(r)
    \/ Replay(r) \/ ReplayDone(r) \/ After(r)
    \/ Watch(r) \/ SeesRestart(r) \/ LooksAgain(r) \/ Reconcile(r) \/ TimeoutEnds(r)
    \/ Except(r) \/ Abort(r) \/ Failed(r)

CallStep(r) ==
    \/ CancelAborts(r) \/ CancelInterrupts(r) \/ CancelEnds(r)
    \/ SteerAccepted(r) \/ SteerFails(r)

Next ==
    \/ \E r \in Request :
          \/ Admit(r) \/ ReleaseAdmission(r) \/ Submit(r)
          \/ WorkerStep(r) \/ TimesOut(r)
          \/ LeaseTimesOut(r) \/ AccountRefuses(r) \/ DeadlinePasses(r)
          \/ CancelQueued(r) \/ CancelStarted(r) \/ Steer(r) \/ CallStep(r)
          \/ InteractionExpires(r) \/ BufferOverflows(r)
          \/ \E st \in Outcome : ServerFinishes(r, st)
    \/ \E n \in inbox : Completed(n)
    \/ ServerDies \/ Respawn
    \/ \E c \in Chat : DeleteThread(c)
    \/ Close \/ (\E g \in toAbort : CloseAborts(g)) \/ EnterFatalState

Spec == Init /\ [][Next]_vars

(***************************************************************************)
(* Fairness: threads run and requests are answered or time out; a watcher  *)
(* that looks again and again passes the turn's deadline in the end.       *)
(* Nothing is assumed of the app server, of users or of notifications.     *)
(***************************************************************************)
FairSpec ==
    /\ Spec
    /\ \A r \in Request : WF_vars(WorkerStep(r)) /\ SF_vars(TimesOut(r))
    /\ \A r \in Request : WF_vars(ReleaseAdmission(r))

-----------------------------------------------------------------------------
(***************************************************************************)
(* Capacity is exact: a lease of the gate belongs to a pending admission   *)
(* or to a run that is not terminal, and such a run has its lease, active  *)
(* once it is past the queue.  Only a worker whose wait has just timed out *)
(* has lost it.                                                            *)
(***************************************************************************)
LeaseExact ==
    /\ leases = OwnedRuns
    /\ \A r \in Leased : r \in admitted \/ Owned(r)
    /\ admitted \subseteq Leased
    /\ \A r \in OwnedRuns : worker[r] # "expired" => r \in Leased
    /\ \A r \in Request : run[r].st \in Started => r \in gate.active

(***************************************************************************)
(* "Consumers must never see a terminal run while the global gate still    *)
(* counts it as active" (the comment in _terminalize_locked).              *)
(***************************************************************************)
TerminalFreesCapacity ==
    \A r \in Request : run[r].st \in Terminal => r \notin Leased

(***************************************************************************)
(* "An active turn remains the global owner until Codex confirms its       *)
(* terminal notification (or the owning generation is aborted)" (the       *)
(* comment in RuntimeLease.cancel): a turn under way in the app server     *)
(* belongs to the run that has the slot, so that no two are ever run.      *)
(***************************************************************************)
TurnOwned ==
    (server.up /\ ~closed) =>
        \A r \in live : Owned(r) /\ r \in gate.active /\ run[r].gen = server.gen

(***************************************************************************)
(* No run is abandoned: while the broker owns it, its worker is there to   *)
(* end it.                                                                 *)
(***************************************************************************)
OwnedHasWorker == \A r \in OwnedRuns : worker[r] \notin {"none", "done"}

(***************************************************************************)
(* A deleted chat stays quiet: no run, and no call that would still        *)
(* publish for it.                                                         *)
(***************************************************************************)
DeletedIsQuiet ==
    \A c \in deleted : ~Publishing(c) /\ \A r \in OwnedRuns : ChatOf[r] # c

(***************************************************************************)
(* A notification that the turn is over is never lost while its run still  *)
(* waits for it: it is queued, buffered for the replay, or the server is   *)
(* restarting.                                                             *)
(***************************************************************************)
CompletionNotLost ==
    \A r \in Request :
        (Owned(r) /\ run[r].turn = "known" /\ run[r].gen = server.gen /\ server.up)
            => \/ r \in live
               \/ \E n \in inbox : n.run = r /\ n.gen = server.gen
               \/ buffered[r] # {} /\ worker[r] = "replay"

(***************************************************************************)
(* Every run ends, whatever the app server and the user do.                *)
(***************************************************************************)
EveryRunEnds == \A r \in Request : Owned(r) ~> ~Owned(r)
=============================================================================
