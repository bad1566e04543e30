------------------------- MODULE AutomationsProofs --------------------------
(***************************************************************************)
(* Proofs about Automations, for any tasks, handlers and grace, and for    *)
(* any bounds on runs, time, revisions and failures.                       *)
(*                                                                         *)
(* The schedule (KeyOK, PairOK, TimersOK, NextOK): every timer, retry and  *)
(* claim under way for the current revision is due after all that earlier  *)
(* revisions claimed, because what is claimed was due and a change of the  *)
(* automation begins after now.  The dispatch (HandlerOK, LiveOK,          *)
(* QueuedOK): while no claim is dispatched twice at once, a handler's      *)
(* place says how far its record and the broker's run are.                 *)
(***************************************************************************)
EXTENDS Automations, FiniteSetTheorems, TLAPS

-----------------------------------------------------------------------------
(* The invariant.                                                          *)

Rec == [st : {"none"} \cup Active \cup Terminal \cup Skipped, key : Dues, linked : BOOLEAN]
Hand == [pc : {"idle", "dispatch", "admitted", "submitted", "raised"},
         run : 0 .. MaxRuns, for : SUBSET Task]
Job == [pc : {"idle", "claim", "waiting", "broken", "refresh", "apply"}, at : Dues]

\* Claims are numbered without a gap.
Numbered == \E n \in 0 .. MaxRuns : Claimed = 1 .. n

\* What was claimed for an occurrence was due, under a revision that was.
Timed(i) == runs[i].st # "none" /\ runs[i].key.rev # 0
KeyOK(i) == Timed(i) => runs[i].key.due <= now /\ runs[i].key.rev <= auto.rev

\* One claim for each key, and later revisions claim later occurrences.
PairOK(i, j) ==
    Timed(i) /\ Timed(j) =>
        /\ runs[i].key = runs[j].key => i = j
        /\ runs[i].key.rev < runs[j].key.rev => runs[i].key.due < runs[j].key.due

\* An occurrence that may still be claimed, and one whose time has come.
Later(a) ==
    a.rev # 0 => /\ a.rev <= auto.rev
                 /\ \A i \in RunId : Timed(i) /\ runs[i].key.rev < a.rev => runs[i].key.due < a.due
Fired(a) == a.rev # 0 => a.due <= now

\* A task that has a claim under way.
Sent == {"claim", "waiting", "broken"}

TimersOK ==
    /\ Later(timer)
    /\ \A a \in loose : Later(a)
    /\ \A a \in retries : Later(a) /\ Fired(a)
    /\ \A t \in Task : /\ Later(task[t].at)
                       /\ task[t].pc \in Sent => Fired(task[t].at)

NextOK ==
    auto.enabled =>
        \A i \in RunId : Timed(i) /\ runs[i].key.rev < auto.rev => runs[i].key.due < auto.next

Schedule ==
    /\ Numbered /\ NextOK /\ TimersOK
    /\ \A i \in RunId : KeyOK(i)
    /\ \A i, j \in RunId : PairOK(i, j)

\* A claim is active only if nothing else is.
OneActive == \A i, j \in RunId : runs[i].st \in Active /\ runs[j].st \in Active => i = j

\* Records, the broker's runs and the handlers, in any case.
BooksOK ==
    /\ \A i \in RunId : /\ codex[i] # "none" => runs[i].st # "none"
                        /\ runs[i].st = "queued" => ~runs[i].linked
    /\ \A h \in Handler : /\ handler[h].pc = "idle" => handler[h].run = 0
                          /\ handler[h].pc # "idle" => /\ handler[h].run \in RunId
                                                       /\ runs[handler[h].run].st # "none"
    /\ \A h \in Handler : \A t \in handler[h].for : task[t].pc \in {"waiting", "broken"}

\* While no claim is dispatched twice at once: what a handler's place says,
HandlerOK(h) ==
    LET i == handler[h].run
    IN  /\ handler[h].pc \in {"dispatch", "raised"} => runs[i].st = "queued" /\ codex[i] = "none"
        /\ handler[h].pc = "admitted" => runs[i].st = "queued" /\ codex[i] = "admitted"
        /\ handler[h].pc = "submitted" =>
              \/ runs[i].st = "queued" /\ codex[i] \in {"live", "ended"}
              \/ runs[i].st = "completed" /\ runs[i].linked /\ codex[i] = "told"
ApartOK == \A g, h \in Handler : handler[g].run = handler[h].run /\ handler[h].pc # "idle" => g = h

\* and what the record of a run says.
LiveOK(i) == codex[i] \in {"live", "ended"} => runs[i].st \in Active
QueuedOK(i) == runs[i].st = "queued" => \E h \in Handler : handler[h].run = i

Dispatch ==
    /\ ApartOK
    /\ \A h \in Handler : HandlerOK(h)
    /\ \A i \in RunId : LiveOK(i) /\ QueuedOK(i)

\* A running record's end will be reported, unless a restart tore them apart.
RunningOK(i) == runs[i].st = "running" => codex[i] \in {"live", "ended"}

Inv ==
    /\ TypeOK /\ Schedule /\ OneActive /\ BooksOK
    /\ "twice" \notin Inputs => Dispatch
    /\ "twice" \notin Inputs /\ "torn" \notin Inputs => \A i \in RunId : RunningOK(i)

-----------------------------------------------------------------------------
(* The steps of Home Assistant.                                            *)

\* Nothing of the Bridge changes but whom its handlers answer.
LEMMA HomeKeep ==
    ASSUME Inv, UNCHANGED <<auto, runs, codex, now>>, TypeOK',
           \A h \in Handler : /\ handler'[h].pc = handler[h].pc /\ handler'[h].run = handler[h].run
                              /\ \A t \in handler'[h].for : task'[t].pc \in {"waiting", "broken"},
           Later(timer'), \A a \in loose' : Later(a),
           \A a \in retries' : Later(a) /\ Fired(a),
           \A t \in Task : Later(task'[t].at) /\ (task'[t].pc \in Sent => Fired(task'[t].at))
    PROVE  Inv'
    <1>1. Schedule'
        <2>1. /\ Later(timer)' /\ (\A a \in loose : Later(a))'
              /\ (\A a \in retries : Later(a) /\ Fired(a))'
              /\ (\A t \in Task : Later(task[t].at) /\ (task[t].pc \in Sent => Fired(task[t].at)))'
            BY DEF Later, Fired, Timed
        <2>2. TimersOK'
            BY <2>1 DEF TimersOK
        <2>3. Numbered' /\ NextOK'
            BY DEF Inv, Schedule, Numbered, NextOK, Claimed, Timed
        <2>4. (\A i \in RunId : KeyOK(i))' /\ (\A i, j \in RunId : PairOK(i, j))'
            BY DEF Inv, Schedule, KeyOK, PairOK, Timed
        <2> QED
            BY <2>2, <2>3, <2>4 DEF Schedule
    <1>2. OneActive' /\ BooksOK'
        BY DEF Inv, OneActive, BooksOK
    <1>3. Dispatch => Dispatch'
        <2> SUFFICES ASSUME Dispatch PROVE Dispatch'
            OBVIOUS
        <2>1. ApartOK' /\ \A h \in Handler : HandlerOK(h)'
            BY DEF Dispatch, ApartOK, HandlerOK
        <2>2. \A i \in RunId : LiveOK(i)' /\ QueuedOK(i)'
            BY DEF Dispatch, LiveOK, QueuedOK
        <2> QED
            BY <2>1, <2>2 DEF Dispatch
    <1>4. \A i \in RunId : RunningOK(i) => RunningOK(i)'
        BY DEF RunningOK
    <1> QED
        BY <1>1, <1>2, <1>3, <1>4 DEF Inv

\* Task t becomes j.
LEMMA TaskSet ==
    ASSUME TypeOK, NEW t \in Task, NEW j \in Job, task' = [task EXCEPT ![t] = j]
    PROVE  /\ task' \in [Task -> Job] /\ task'[t] = j
           /\ \A u \in Task : u # t => task'[u] = task[u]
    BY DEF TypeOK, Job

LEMMA TaskKeep ==
    ASSUME Inv, NEW t \in Task, NEW j \in Job, task' = [task EXCEPT ![t] = j],
           UNCHANGED <<bridgeVars, now>>,
           timer' \in Dues, loose' \subseteq Dues, retries' \subseteq Dues, recon' \in BOOLEAN,
           failures' \in 0 .. MaxFailures,
           Later(timer'), \A a \in loose' : Later(a), \A a \in retries' : Later(a) /\ Fired(a),
           Later(j.at), j.pc \in Sent => Fired(j.at),
           task[t].pc \notin {"waiting", "broken"} \/ Serving(t) = {}
    PROVE  Inv'
    <1>0. TypeOK /\ Schedule /\ BooksOK /\ UNCHANGED <<auto, runs, codex, handler>>
        BY DEF Inv, bridgeVars
    <1>1. /\ task' \in [Task -> Job] /\ task'[t] = j
          /\ \A u \in Task : u # t => task'[u] = task[u]
        BY <1>0, TaskSet
    <1>2. TypeOK'
        BY <1>0, <1>1 DEF TypeOK, Job
    <1>3. \A h \in Handler : t \notin handler[h].for
        BY <1>0 DEF BooksOK, Serving
    <1>4. \A h \in Handler : \A u \in handler'[h].for : task'[u].pc \in {"waiting", "broken"}
        <2>1. \A h \in Handler : handler[h].for \subseteq Task
            BY <1>0 DEF TypeOK
        <2> QED
            BY <1>0, <1>1, <1>3, <2>1 DEF BooksOK
    <1>5. \A u \in Task : Later(task'[u].at) /\ (task'[u].pc \in Sent => Fired(task'[u].at))
        BY <1>0, <1>1 DEF Schedule, TimersOK
    <1> QED
        BY <1>0, <1>2, <1>4, <1>5, HomeKeep

\* What is always allowed.
LEMMA Basics ==
    /\ NoDue \in Dues /\ NoDue.rev = 0 /\ Later(NoDue) /\ Fired(NoDue)
    /\ Idle \in Job /\ Idle.at = NoDue /\ Idle.pc = "idle"
    /\ [pc |-> "refresh", at |-> NoDue] \in Job
    <1>1. NoDue \in Dues /\ NoDue.rev = 0
        BY AutomationsAssumption DEF NoDue, Dues
    <1>2. /\ Idle \in Job /\ Idle.at = NoDue /\ Idle.pc = "idle"
          /\ [pc |-> "refresh", at |-> NoDue] \in Job
        BY <1>1 DEF Idle, Job
    <1> QED
        BY <1>1, <1>2 DEF Later, Fired

\* What the Bridge answers is later than what earlier revisions claimed.
LEMMA SnapshotLater ==
    ASSUME TypeOK, NextOK
    PROVE  Snapshot \in Dues /\ Later(Snapshot)
    <1>1. CASE auto.exists /\ auto.enabled
        <2>1. Snapshot = [rev |-> auto.rev, due |-> auto.next]
            BY <1>1 DEF Snapshot
        <2>2. auto.rev \in 1 .. MaxRevision /\ auto.next \in 0 .. MaxTime + 1
            BY DEF TypeOK
        <2>3. Snapshot \in Dues /\ Snapshot.rev = auto.rev /\ Snapshot.due = auto.next
              /\ auto.rev <= auto.rev
            BY <2>1, <2>2, AutomationsAssumption DEF Dues
        <2> QED
            BY <1>1, <2>3 DEF Later, NextOK
    <1>2. CASE ~(auto.exists /\ auto.enabled)
        BY <1>2, Basics DEF Snapshot
    <1> QED
        BY <1>1, <1>2

LEMMA FiresStep ==
    ASSUME Inv, NEW t \in Task, Wakes(t)
    PROVE  Inv'
    <1>0. /\ TypeOK /\ TimersOK /\ timer \in Dues /\ loose \subseteq Dues /\ retries \subseteq Dues
          /\ recon \in BOOLEAN /\ failures \in 0 .. MaxFailures
        BY DEF Inv, Schedule, TypeOK
    <1>1. \A a \in Left : a = timer
        BY DEF Left
    <1>2. ASSUME NEW a \in Dues, NEW left \in SUBSET Dues, Fires(t, a, left),
                 Later(a), Fired(a), \A b \in left : Later(b),
                 retries' \subseteq retries, UNCHANGED <<bridgeVars, recon, now, failures>>
          PROVE  Inv'
        <2>1. PICK j \in Job : j.pc = "claim" /\ j.at = a /\ task' = [task EXCEPT ![t] = j]
            <3>1. [pc |-> "claim", at |-> a] \in Job
                BY DEF Job
            <3> QED
                BY <1>2, <3>1 DEF Fires
        <2>2. timer' = NoDue /\ loose' = left /\ task[t].pc = "idle"
            BY <1>2 DEF Fires
        <2> QED
            BY <1>0, <1>2, <2>1, <2>2, Basics, TaskKeep DEF TimersOK
    <1>3. CASE TimerFires(t)
        <2>1. Fires(t, timer, loose) /\ Fired(timer) /\ Later(timer) /\ \A a \in loose : Later(a)
            BY <1>0, <1>3 DEF TimerFires, Fired, TimersOK, TypeOK, Dues
        <2> QED
            BY <1>0, <1>2, <1>3, <2>1 DEF TimerFires
    <1>4. CASE Reconcile(t)
        <2>1. /\ task' = [task EXCEPT ![t] = [pc |-> "refresh", at |-> NoDue]]
              /\ task[t].pc = "idle" /\ recon' = FALSE
              /\ UNCHANGED <<bridgeVars, timer, loose, retries, now, failures>>
            BY <1>4 DEF Reconcile, Asks
        <2>2. PICK j \in Job : j.pc = "refresh" /\ j.at = NoDue /\ task' = [task EXCEPT ![t] = j]
            BY <2>1, Basics
        <2> QED
            BY <1>0, <2>1, <2>2, Basics, TaskKeep DEF TimersOK, Sent
    <1>5. ASSUME NEW a \in loose, LooseFires(t, a) PROVE Inv'
        <2>1. /\ Fires(t, a, (loose \ {a}) \cup Left) /\ Fired(a) /\ a \in Dues
              /\ (loose \ {a}) \cup Left \in SUBSET Dues
              /\ \A b \in (loose \ {a}) \cup Left : Later(b)
            BY <1>0, <1>1, <1>5 DEF LooseFires, Fired, TimersOK, TypeOK, Dues
        <2> QED
            BY <1>0, <1>2, <1>5, <2>1 DEF LooseFires, TimersOK
    <1>6. ASSUME NEW a \in retries, RetryFires(t, a) PROVE Inv'
        <2>1. /\ Fires(t, a, loose \cup Left) /\ Fired(a) /\ Later(a) /\ a \in Dues
              /\ loose \cup Left \in SUBSET Dues
              /\ \A b \in loose \cup Left : Later(b)
            BY <1>0, <1>1, <1>6 DEF RetryFires, TimersOK
        <2> QED
            BY <1>0, <1>2, <1>6, <2>1 DEF RetryFires
    <1> QED
        BY <1>3, <1>4, <1>5, <1>6 DEF Wakes

LEMMA RefreshStep ==
    ASSUME Inv, NEW t \in Task, Reply(t) \/ Refresh(t) \/ RefreshFails(t) \/ Apply(t)
    PROVE  Inv'
    <1>0. /\ TypeOK /\ TimersOK /\ NextOK
          /\ timer \in Dues /\ loose \subseteq Dues /\ retries \subseteq Dues
          /\ recon \in BOOLEAN /\ failures \in 0 .. MaxFailures /\ task \in [Task -> Job]
        BY DEF Inv, Schedule, TypeOK, Job
    <1>1. CASE Reply(t)
        <2>1. /\ Serving(t) = {}
              /\ task' = [task EXCEPT ![t] = [pc |-> "refresh", at |-> NoDue]]
              /\ UNCHANGED <<bridgeVars, timer, loose, retries, recon, now, failures>>
            BY <1>1 DEF Reply, Asks
        <2>2. PICK j \in Job : j.pc = "refresh" /\ j.at = NoDue /\ task' = [task EXCEPT ![t] = j]
            BY <2>1, Basics
        <2>3. /\ Later(j.at) /\ j.pc \notin Sent /\ Later(timer)
              /\ (\A a \in loose : Later(a)) /\ (\A a \in retries : Later(a) /\ Fired(a))
            BY <1>0, <2>2, Basics DEF TimersOK, Sent
        <2> QED
            BY <1>0, <2>1, <2>2, <2>3, TaskKeep
    <1>2. CASE Refresh(t)
        <2>1. /\ task[t].pc = "refresh"
              /\ task' = [task EXCEPT ![t] = [pc |-> "apply", at |-> Snapshot]]
              /\ UNCHANGED <<bridgeVars, timer, loose, retries, recon, now, failures>>
            BY <1>2 DEF Refresh
        <2>2. Snapshot \in Dues /\ Later(Snapshot)
            BY <1>0, SnapshotLater
        <2>3. PICK j \in Job : j.pc = "apply" /\ j.at = Snapshot /\ task' = [task EXCEPT ![t] = j]
            BY <2>1, <2>2 DEF Job
        <2> QED
            BY <1>0, <2>1, <2>2, <2>3, TaskKeep DEF TimersOK, Sent
    <1>3. CASE RefreshFails(t)
        <2>1. /\ task[t].pc = "refresh" /\ failures < MaxFailures /\ failures' = failures + 1
              /\ recon' = TRUE /\ task' = [task EXCEPT ![t] = Idle]
              /\ UNCHANGED <<bridgeVars, timer, loose, retries, now>>
            BY <1>3 DEF RefreshFails
        <2>2. failures' \in 0 .. MaxFailures
            BY <1>0, <2>1, AutomationsAssumption
        <2> QED
            BY <1>0, <2>1, <2>2, Basics, TaskKeep DEF TimersOK, Sent
    <1>4. CASE Apply(t)
        <2>1. /\ task[t].pc = "apply" /\ timer' = task[t].at /\ task' = [task EXCEPT ![t] = Idle]
              /\ UNCHANGED <<bridgeVars, loose, retries, recon, now, failures>>
            BY <1>4 DEF Apply
        <2>2. timer' \in Dues /\ Later(timer')
            BY <1>0, <2>1 DEF TimersOK, Job
        <2> QED
            BY <1>0, <2>1, <2>2, Basics, TaskKeep DEF TimersOK, Sent
    <1> QED
        BY <1>1, <1>2, <1>3, <1>4

\* A connection fails: the claim is repeated later, or the timers are read
\* again; the handler works on for nobody.
LEMMA ConnectionFailsStep ==
    ASSUME Inv, NEW t \in Task, ConnectionFails(t)
    PROVE  Inv'
    <1>0. TypeOK /\ TimersOK /\ BooksOK
        BY DEF Inv, Schedule
    <1>1. /\ task[t].pc \in Sent /\ task' = [task EXCEPT ![t] = Idle]
          /\ handler' = [h \in Handler |-> [handler[h] EXCEPT !.for = @ \ {t}]]
          /\ UNCHANGED <<auto, runs, codex, timer, loose, now>>
        BY DEF ConnectionFails, Sent
    <1>2. failures' \in 0 .. MaxFailures
        BY <1>0, AutomationsAssumption DEF ConnectionFails, TypeOK
    <1>3. /\ recon' \in BOOLEAN /\ retries' \subseteq retries \cup {task[t].at}
        BY <1>0 DEF ConnectionFails, ScheduleRetry, TypeOK
    <1>4. /\ task' \in [Task -> Job] /\ task'[t] = Idle
          /\ \A u \in Task : u # t => task'[u] = task[u]
        BY <1>0, <1>1, TaskSet, Basics
    <1>5. ASSUME NEW h \in Handler
          PROVE  /\ handler'[h] \in Hand /\ handler'[h].pc = handler[h].pc
                 /\ handler'[h].run = handler[h].run /\ handler'[h].for = handler[h].for \ {t}
        <2>1. handler[h] \in Hand /\ handler'[h] = [handler[h] EXCEPT !.for = @ \ {t}]
            BY <1>0, <1>1 DEF TypeOK, Hand
        <2> QED
            BY <2>1 DEF Hand
    <1>6. TypeOK'
        <2>1. handler' \in [Handler -> Hand] /\ task[t].at \in Dues
            BY <1>0, <1>1, <1>5 DEF TypeOK
        <2> QED
            BY <1>0, <1>1, <1>2, <1>3, <1>4, <2>1 DEF TypeOK, Hand, Job
    <1>7. \A h \in Handler : \A u \in handler'[h].for : task'[u].pc \in {"waiting", "broken"}
        <2>1. \A h \in Handler : handler[h].for \subseteq Task
            BY <1>0 DEF TypeOK
        <2> QED
            BY <1>0, <1>4, <1>5, <2>1 DEF BooksOK
    <1>8. /\ Later(timer') /\ (\A a \in loose' : Later(a))
          /\ \A a \in retries' : Later(a) /\ Fired(a)
        BY <1>0, <1>1, <1>3 DEF TimersOK
    <1>9. \A u \in Task : Later(task'[u].at) /\ (task'[u].pc \in Sent => Fired(task'[u].at))
        BY <1>0, <1>4, Basics DEF TimersOK
    <1> QED
        BY <1>1, <1>5, <1>6, <1>7, <1>8, <1>9, HomeKeep

LEMMA HomeAssistantRestartsStep ==
    ASSUME Inv, HomeAssistantRestarts
    PROVE  Inv'
    <1>0. TypeOK /\ NextOK
        BY DEF Inv, Schedule
    <1>1. /\ timer' = Snapshot /\ loose' = {} /\ retries' = {} /\ recon' = FALSE
          /\ task' = [t \in Task |-> Idle]
          /\ handler' = [h \in Handler |-> [handler[h] EXCEPT !.for = {}]]
          /\ UNCHANGED <<auto, runs, codex, now>>
        BY DEF HomeAssistantRestarts
    <1>2. failures' \in 0 .. MaxFailures
        BY <1>0, AutomationsAssumption DEF HomeAssistantRestarts, TypeOK
    <1>3. ASSUME NEW h \in Handler
          PROVE  /\ handler'[h] \in Hand /\ handler'[h].pc = handler[h].pc
                 /\ handler'[h].run = handler[h].run /\ handler'[h].for = {}
        <2>1. handler[h] \in Hand /\ handler'[h] = [handler[h] EXCEPT !.for = {}]
            BY <1>0, <1>1 DEF TypeOK, Hand
        <2> QED
            BY <2>1 DEF Hand
    <1>4. Snapshot \in Dues /\ Later(Snapshot)
        BY <1>0, SnapshotLater
    <1>5. TypeOK'
        <2>1. handler' \in [Handler -> Hand] /\ task' \in [Task -> Job]
            BY <1>1, <1>3, Basics
        <2> QED
            BY <1>0, <1>1, <1>2, <1>4, <2>1 DEF TypeOK, Hand, Job
    <1>6. \A t \in Task : Later(task'[t].at) /\ (task'[t].pc \in Sent => Fired(task'[t].at))
        BY <1>1, Basics
    <1> QED
        BY <1>1, <1>3, <1>4, <1>5, <1>6, HomeKeep

\* What was due stays due.
LEMMA TickStep ==
    ASSUME Inv, Tick
    PROVE  Inv'
    <1>0. TypeOK /\ Schedule
        BY DEF Inv
    <1>1. /\ now' = now + 1 /\ now < MaxTime
          /\ UNCHANGED <<auto, runs, codex, handler, timer, loose, retries, recon, task, failures>>
        BY DEF Tick, bridgeVars, haVars
    <1>2. now \in Nat /\ now' \in 0 .. MaxTime /\ now < now'
        BY <1>0, <1>1, AutomationsAssumption DEF TypeOK
    <1>3. TypeOK'
        BY <1>0, <1>1, <1>2 DEF TypeOK
    <1>4. \A d \in 0 .. MaxTime + 1 : d <= now => d <= now'
        BY <1>2, AutomationsAssumption
    <1>5. (\A i \in RunId : KeyOK(i))'
        <2>1. \A i \in RunId : runs[i].key.due \in 0 .. MaxTime + 1
            BY <1>0 DEF TypeOK, Dues
        <2> QED
            BY <1>0, <1>1, <1>4, <2>1 DEF Schedule, KeyOK, Timed
    <1>6. TimersOK'
        <2>1. \A a \in Dues : (Later(a) => Later(a)') /\ (Fired(a) => Fired(a)')
            BY <1>1, <1>4 DEF Later, Fired, Timed, Dues
        <2>2. /\ timer \in Dues /\ loose \subseteq Dues /\ retries \subseteq Dues
              /\ \A t \in Task : task[t].at \in Dues
            BY <1>0 DEF TypeOK
        <2>3. TimersOK
            BY <1>0 DEF Schedule
        <2>4. /\ Later(timer)' /\ (\A a \in loose' : Later(a)')
              /\ (\A a \in retries' : Later(a)' /\ Fired(a)')
            BY <1>1, <2>1, <2>2, <2>3 DEF TimersOK
        <2>5. \A t \in Task : Later(task[t].at)' /\ (task'[t].pc \in Sent => Fired(task[t].at)')
            BY <1>1, <2>1, <2>2, <2>3 DEF TimersOK
        <2> QED
            BY <2>4, <2>5 DEF TimersOK
    <1>7. Schedule'
        BY <1>0, <1>1, <1>5, <1>6
        DEF Schedule, Numbered, NextOK, PairOK, Timed, Claimed
    <1>8. OneActive' /\ BooksOK'
        BY <1>1 DEF Inv, OneActive, BooksOK
    <1>9. /\ Dispatch => Dispatch'
          /\ \A i \in RunId : RunningOK(i) => RunningOK(i)'
        BY <1>1 DEF Dispatch, ApartOK, HandlerOK, LiveOK, QueuedOK, RunningOK
    <1> QED
        BY <1>3, <1>7, <1>8, <1>9 DEF Inv

-----------------------------------------------------------------------------
(* The steps of the Bridge that claim nothing.                             *)

\* Statuses and links change; keys, timers and tasks' occurrences do not.
LEMMA BridgeKeep ==
    ASSUME Inv, TypeOK', UNCHANGED <<auto, now, timer, loose, retries>>,
           \A i \in RunId : /\ runs'[i].key = runs[i].key
                            /\ runs'[i].st = "none" <=> runs[i].st = "none"
                            /\ runs'[i].st \in Active => runs[i].st \in Active,
           \A t \in Task : task'[t].at = task[t].at /\ (task'[t].pc \in Sent => task[t].pc \in Sent),
           BooksOK', "twice" \notin Inputs => Dispatch',
           "twice" \notin Inputs /\ "torn" \notin Inputs => \A i \in RunId : RunningOK(i)'
    PROVE  Inv'
    <1>0. Schedule
        BY DEF Inv
    <1>1. \A i \in RunId : Timed(i)' <=> Timed(i)
        BY DEF Timed
    <1>2. Claimed' = Claimed
        BY DEF Claimed
    <1>3. \A i \in RunId : KeyOK(i) => KeyOK(i)'
        BY <1>1 DEF KeyOK
    <1>4. \A i, j \in RunId : PairOK(i, j) => PairOK(i, j)'
        BY <1>1 DEF PairOK
    <1>5. NextOK'
        BY <1>0, <1>1 DEF Schedule, NextOK
    <1>6. \A a : (Later(a) => Later(a)') /\ (Fired(a) => Fired(a)')
        BY <1>1 DEF Later, Fired
    <1>7. TimersOK'
        <2>1. TimersOK
            BY <1>0 DEF Schedule
        <2>2. /\ Later(timer)' /\ (\A a \in loose' : Later(a)')
              /\ (\A a \in retries' : Later(a)' /\ Fired(a)')
            BY <1>6, <2>1 DEF TimersOK
        <2>3. \A t \in Task : Later(task[t].at)' /\ (task'[t].pc \in Sent => Fired(task[t].at)')
            BY <1>6, <2>1 DEF TimersOK
        <2> QED
            BY <2>2, <2>3 DEF TimersOK
    <1>8. Schedule'
        BY <1>0, <1>2, <1>3, <1>4, <1>5, <1>7 DEF Schedule, Numbered
    <1>9. OneActive'
        BY DEF Inv, OneActive
    <1> QED
        BY <1>8, <1>9 DEF Inv

\* Handler h moves on with its record i.
LEMMA HandlerKeep ==
    ASSUME Inv, NEW h \in Handler, NEW i \in RunId, handler[h].run = i, handler[h].pc # "idle",
           NEW v \in Hand, handler' = [handler EXCEPT ![h] = v],
           (v.run = i /\ v.pc # "idle") \/ (v.run = 0 /\ v.pc = "idle"), v.for \subseteq handler[h].for,
           runs' \in [RunId -> Rec], runs'[i].key = runs[i].key, runs'[i].st # "none",
           runs'[i].st \in Active => runs[i].st \in Active,
           \A k \in RunId : k # i => runs'[k] = runs[k] /\ codex'[k] = codex[k],
           runs'[i].st = "queued" => ~runs'[i].linked,
           codex' \in [RunId -> {"none", "admitted", "live", "ended", "told"}],
           task' \in [Task -> Job],
           \A t \in Task : task'[t].at = task[t].at /\ (task'[t].pc = task[t].pc
                              \/ (task'[t].pc = "broken" /\ task[t].pc \in {"waiting", "broken"})),
           UNCHANGED <<auto, timer, loose, retries, recon, now, failures>>,
           "twice" \notin Inputs =>
              HandlerOK(h)' /\ LiveOK(i)' /\ (runs'[i].st = "queued" => v.run = i),
           "twice" \notin Inputs /\ "torn" \notin Inputs => RunningOK(i)'
    PROVE  Inv'
    <1>0. TypeOK /\ BooksOK
        BY DEF Inv
    <1>1. /\ handler' \in [Handler -> Hand] /\ handler'[h] = v
          /\ \A g \in Handler : g # h => handler'[g] = handler[g]
        BY <1>0 DEF TypeOK, Hand
    <1>2. TypeOK'
        BY <1>0, <1>1 DEF TypeOK, Hand, Job, Rec
    <1>3. runs[i].st # "none" /\ (\A k \in RunId : k # 0)
        BY <1>0, AutomationsAssumption DEF BooksOK, RunId
    <1>4. BooksOK'
        <2>1. ASSUME NEW k \in RunId
              PROVE  /\ codex'[k] # "none" => runs'[k].st # "none"
                     /\ runs'[k].st = "queued" => ~runs'[k].linked
            BY <1>0, <2>1 DEF BooksOK
        <2>2. ASSUME NEW g \in Handler
              PROVE  /\ handler'[g].pc = "idle" => handler'[g].run = 0
                     /\ handler'[g].pc # "idle" => /\ handler'[g].run \in RunId
                                                   /\ runs'[handler'[g].run].st # "none"
                     /\ \A t \in handler'[g].for : task'[t].pc \in {"waiting", "broken"}
            <3>1. handler[g].for \subseteq Task
                BY <1>0 DEF TypeOK
            <3>2. \A t \in handler[g].for : task'[t].pc \in {"waiting", "broken"}
                BY <1>0, <3>1 DEF BooksOK
            <3>3. CASE g = h
                BY <1>1, <3>2, <3>3
            <3>4. CASE g # h
                BY <1>0, <1>1, <3>2, <3>4 DEF BooksOK
            <3> QED
                BY <3>3, <3>4
        <2> QED
            BY <2>1, <2>2 DEF BooksOK
    <1>5. ASSUME "twice" \notin Inputs PROVE Dispatch'
        <2>0. Dispatch
            BY <1>5 DEF Inv
        <2>1. ASSUME NEW g \in Handler, g # h, handler[g].pc # "idle" PROVE handler[g].run # i
            BY <2>0, <2>1 DEF Dispatch, ApartOK
        <2>2. ApartOK'
            <3> SUFFICES ASSUME NEW f \in Handler, NEW g \in Handler,
                                handler'[f].run = handler'[g].run, handler'[g].pc # "idle"
                         PROVE  f = g
                BY DEF ApartOK
            <3>1. handler'[g].run \in RunId
                BY <1>4 DEF BooksOK, RunId
            <3>2. handler[g].pc # "idle" /\ handler[g].run = handler'[g].run
                BY <1>1
            <3>3. handler[f].run = handler'[f].run
                BY <1>1, <1>3, <3>1
            <3> QED
                BY <2>0, <3>2, <3>3 DEF Dispatch, ApartOK
        <2>3. ASSUME NEW g \in Handler PROVE HandlerOK(g)'
            <3>1. CASE g = h
                BY <1>5, <3>1
            <3>2. CASE g # h /\ handler[g].pc = "idle"
                BY <1>1, <3>2 DEF HandlerOK
            <3>3. CASE g # h /\ handler[g].pc # "idle"
                <4>1. handler[g].run # i /\ handler[g].run \in RunId /\ HandlerOK(g)
                    BY <1>0, <2>0, <2>1, <3>3 DEF BooksOK, Dispatch
                <4>2. /\ handler'[g] = handler[g] /\ runs'[handler[g].run] = runs[handler[g].run]
                      /\ codex'[handler[g].run] = codex[handler[g].run]
                    BY <1>1, <3>3, <4>1
                <4> QED
                    BY <4>1, <4>2 DEF HandlerOK
            <3> QED
                BY <3>1, <3>2, <3>3
        <2>4. ASSUME NEW k \in RunId PROVE LiveOK(k)' /\ QueuedOK(k)'
            <3>1. CASE k = i
                BY <1>1, <1>5, <3>1 DEF QueuedOK
            <3>2. CASE k # i
                <4>1. LiveOK(k) /\ QueuedOK(k)
                    BY <2>0 DEF Dispatch
                <4>2. \A g \in Handler : handler[g].run = k => handler'[g].run = k
                    BY <1>1, <3>2
                <4> QED
                    BY <3>2, <4>1, <4>2 DEF LiveOK, QueuedOK
            <3> QED
                BY <3>1, <3>2
        <2> QED
            BY <2>2, <2>3, <2>4 DEF Dispatch
    <1>6. ASSUME "twice" \notin Inputs, "torn" \notin Inputs, NEW k \in RunId PROVE RunningOK(k)'
        BY <1>6 DEF Inv, RunningOK
    <1>7. \A t \in Task : task'[t].at = task[t].at /\ (task'[t].pc \in Sent => task[t].pc \in Sent)
        BY DEF Sent
    <1>8. \A k \in RunId : /\ runs'[k].key = runs[k].key
                           /\ runs'[k].st = "none" <=> runs[k].st = "none"
                           /\ runs'[k].st \in Active => runs[k].st \in Active
        BY <1>3
    <1> QED
        BY <1>2, <1>4, <1>5, <1>6, <1>7, <1>8, BridgeKeep

LEMMA BecomesEffect ==
    ASSUME TypeOK, NEW h \in Handler, NEW pc \in {"dispatch", "admitted", "submitted", "raised"},
           Becomes(h, pc)
    PROVE  \E v \in Hand : /\ handler' = [handler EXCEPT ![h] = v] /\ handler'[h] = v
                           /\ v.pc = pc /\ v.run = handler[h].run /\ v.for = handler[h].for
    <1>1. handler[h] \in Hand /\ handler' = [handler EXCEPT ![h] = [handler[h] EXCEPT !.pc = pc]]
        BY DEF TypeOK, Hand, Becomes
    <1>2. [handler[h] EXCEPT !.pc = pc] \in Hand
        BY <1>1 DEF Hand
    <1>3. handler'[h] = [handler[h] EXCEPT !.pc = pc]
        BY <1>1 DEF TypeOK
    <1> QED
        BY <1>1, <1>2, <1>3 DEF Hand

LEMMA ReturnsEffect ==
    ASSUME TypeOK, NEW h \in Handler, Returns(h)
    PROVE  \E v \in Hand : /\ handler' = [handler EXCEPT ![h] = v] /\ handler'[h] = v
                           /\ v.pc = "idle" /\ v.run = 0 /\ v.for = {}
    <1>1. AtRest \in Hand /\ AtRest.pc = "idle" /\ AtRest.run = 0 /\ AtRest.for = {}
        BY AutomationsAssumption DEF AtRest, Hand
    <1> QED
        BY <1>1 DEF TypeOK, Returns

LEMMA AdmitStep ==
    ASSUME Inv, NEW h \in Handler, Admit(h) \/ Submit(h)
    PROVE  Inv'
    <1>0. TypeOK /\ BooksOK /\ task \in [Task -> Job] /\ runs \in [RunId -> Rec]
          /\ codex \in [RunId -> {"none", "admitted", "live", "ended", "told"}]
        BY DEF Inv, TypeOK, Job, Rec
    <1>1. /\ handler[h].pc \in {"dispatch", "admitted"}
          /\ UNCHANGED <<auto, runs, timer, loose, retries, recon, task, now, failures>>
        BY DEF Admit, Submit, haVars
    <1>2. PICK i \in RunId : i = handler[h].run
        BY <1>0, <1>1 DEF BooksOK
    <1>3. runs[i].st # "none" /\ (runs[i].st = "queued" => ~runs[i].linked)
        BY <1>0, <1>1, <1>2 DEF BooksOK
    <1>4. PICK p \in {"admitted", "submitted", "raised"},
               c \in {"none", "admitted", "live", "ended", "told"} :
             /\ Becomes(h, p) /\ codex' = [codex EXCEPT ![i] = c]
             /\ handler[h].pc = "dispatch" =>
                   \/ p = "submitted" /\ c = codex[i] /\ c \in {"live", "ended", "told"}
                   \/ p = "admitted" /\ c = "admitted" /\ codex[i] = "none"
                   \/ p = "raised" /\ c = codex[i]
             /\ handler[h].pc = "admitted" =>
                   (p = "submitted" /\ c = "live") \/ (p = "raised" /\ c = "none")
        <2>1. codex' = codex => codex' = [codex EXCEPT ![i] = codex[i]]
            BY <1>0
        <2>2. CASE Admit(h)
            <3>1. handler[h].pc = "dispatch" /\ codex[i] \in {"none", "admitted", "live", "ended", "told"}
                BY <1>0, <2>2 DEF Admit
            <3>2. CASE Becomes(h, "submitted") /\ codex' = codex
                       /\ codex[i] \in {"live", "ended", "told"}
                BY <2>1, <3>1, <3>2
            <3>3. CASE Becomes(h, "admitted") /\ codex' = [codex EXCEPT ![i] = "admitted"]
                       /\ codex[i] = "none"
                BY <3>1, <3>3
            <3>4. CASE Becomes(h, "raised") /\ codex' = codex
                BY <2>1, <3>1, <3>4
            <3> QED
                BY <1>2, <2>2, <3>2, <3>3, <3>4 DEF Admit
        <2>3. CASE Submit(h)
            BY <1>2, <2>3 DEF Submit
        <2> QED
            BY <2>2, <2>3
    <1>5. PICK v \in Hand : /\ handler' = [handler EXCEPT ![h] = v] /\ handler'[h] = v
                            /\ v.pc = p /\ v.run = i /\ v.for = handler[h].for
        BY <1>0, <1>2, <1>4, BecomesEffect
    <1>6. /\ codex' \in [RunId -> {"none", "admitted", "live", "ended", "told"}] /\ codex'[i] = c
          /\ \A k \in RunId : k # i => codex'[k] = codex[k]
        BY <1>0, <1>4
    <1>7. ASSUME "twice" \notin Inputs
          PROVE  HandlerOK(h)' /\ LiveOK(i)' /\ ("torn" \notin Inputs => RunningOK(i)')
        <2>1. HandlerOK(h) /\ LiveOK(i)
            BY <1>7 DEF Inv, Dispatch
        <2>2. runs[i].st = "queued" /\ runs'[i].st = "queued" /\ "queued" \in Active
            BY <1>1, <1>2, <2>1 DEF HandlerOK, Active
        <2>3. handler[h].pc = "dispatch" => codex[i] = "none"
            BY <1>2, <2>1 DEF HandlerOK
        <2> QED
            BY <1>1, <1>4, <1>5, <1>6, <2>2, <2>3 DEF HandlerOK, LiveOK, RunningOK
    <1>8. /\ handler[h].pc # "idle" /\ task' \in [Task -> Job] /\ runs' \in [RunId -> Rec]
          /\ \A k \in RunId : k # i => runs'[k] = runs[k] /\ codex'[k] = codex[k]
          /\ \A t \in Task : task'[t].at = task[t].at /\ task'[t].pc = task[t].pc
          /\ UNCHANGED <<auto, timer, loose, retries, recon, now, failures>>
        BY <1>0, <1>1, <1>6
    <1>9. /\ v.run = i /\ v.pc # "idle" /\ v.for \subseteq handler[h].for
          /\ runs'[i].key = runs[i].key /\ runs'[i].st # "none"
          /\ runs'[i].st \in Active => runs[i].st \in Active
          /\ runs'[i].st = "queued" => ~runs'[i].linked
        BY <1>1, <1>3, <1>5
    <1>10. handler' = [handler EXCEPT ![h] = v] /\ handler[h].run = i
        BY <1>2, <1>5
    <1>11. codex' \in [RunId -> {"none", "admitted", "live", "ended", "told"}]
        BY <1>6
    <1> QED
        BY <1>7, <1>8, <1>9, <1>10, <1>11, HandlerKeep

LEMMA MarkRunningStep ==
    ASSUME Inv, NEW h \in Handler, MarkRunning(h)
    PROVE  Inv'
    <1>0. TypeOK /\ BooksOK /\ task \in [Task -> Job] /\ runs \in [RunId -> Rec]
          /\ codex \in [RunId -> {"none", "admitted", "live", "ended", "told"}]
        BY DEF Inv, TypeOK, Job, Rec
    <1>1. /\ handler[h].pc = "submitted"
          /\ UNCHANGED <<auto, codex, timer, loose, retries, recon, task, now, failures>>
        BY DEF MarkRunning, haVars
    <1>2. PICK i \in RunId : i = handler[h].run
        BY <1>0, <1>1 DEF BooksOK
    <1>3. runs[i] \in Rec /\ runs[i].st # "none" /\ (runs[i].st = "queued" => ~runs[i].linked)
          /\ {"queued", "running"} \subseteq Active
        BY <1>0, <1>1, <1>2 DEF BooksOK, Active
    <1>4. CASE runs[i].st = "queued"
        <2>1. runs' = [runs EXCEPT ![i].st = "running", ![i].linked = TRUE] /\ Returns(h)
            BY <1>2, <1>4 DEF MarkRunning, Terminal
        <2>2. PICK v \in Hand : /\ handler' = [handler EXCEPT ![h] = v] /\ handler'[h] = v
                                /\ v.pc = "idle" /\ v.run = 0 /\ v.for = {}
            BY <1>0, <2>1, ReturnsEffect
        <2>3. /\ runs' \in [RunId -> Rec] /\ runs'[i].st = "running" /\ runs'[i].key = runs[i].key
              /\ \A k \in RunId : k # i => runs'[k] = runs[k]
            <3>1. PICK w \in Rec : /\ runs' = [runs EXCEPT ![i] = w] /\ w.st = "running"
                                   /\ w.key = runs[i].key
                <4>1. [runs[i] EXCEPT !.st = "running", !.linked = TRUE] \in Rec
                    BY <1>3 DEF Rec, Active
                <4>2. runs' = [runs EXCEPT ![i] = [runs[i] EXCEPT !.st = "running", !.linked = TRUE]]
                    BY <1>0, <2>1
                <4> QED
                    BY <1>3, <4>1, <4>2 DEF Rec
            <3> QED
                BY <1>0, <3>1
        <2>4. ASSUME "twice" \notin Inputs
              PROVE  HandlerOK(h)' /\ LiveOK(i)' /\ ("torn" \notin Inputs => RunningOK(i)')
            <3>1. codex[i] \in {"live", "ended"}
                BY <1>1, <1>2, <1>4, <2>4 DEF Inv, Dispatch, HandlerOK
            <3> QED
                BY <1>1, <1>3, <2>2, <2>3, <3>1 DEF HandlerOK, LiveOK, RunningOK
        <2> QED
            BY <1>0, <1>1, <1>2, <1>3, <1>4, <2>2, <2>3, <2>4, HandlerKeep
    <1>5. CASE runs[i].st # "queued"
        <2>1. /\ runs' = runs
              /\ \/ Returns(h) /\ runs[i].st \in Terminal /\ runs[i].linked
                 \/ Becomes(h, "raised") /\ ~(runs[i].st \in Terminal /\ runs[i].linked)
            BY <1>2, <1>5 DEF MarkRunning
        <2>2. PICK v \in Hand : /\ handler' = [handler EXCEPT ![h] = v] /\ handler'[h] = v
                                /\ v.for \subseteq handler[h].for
                                /\ \/ v.run = 0 /\ v.pc = "idle"
                                   \/ /\ v.run = i /\ v.pc = "raised"
                                      /\ ~(runs[i].st \in Terminal /\ runs[i].linked)
            BY <1>0, <1>2, <2>1, ReturnsEffect, BecomesEffect
        <2>3. ASSUME "twice" \notin Inputs
              PROVE  HandlerOK(h)' /\ LiveOK(i)' /\ ("torn" \notin Inputs => RunningOK(i)')
            <3>1. Dispatch /\ HandlerOK(h) /\ LiveOK(i)
                BY <2>3 DEF Inv, Dispatch
            <3>2. runs[i].st = "completed" /\ runs[i].linked /\ codex[i] = "told"
                BY <1>1, <1>2, <1>5, <3>1 DEF HandlerOK
            <3>3. v.pc = "idle" /\ runs'[i].st = "completed" /\ codex'[i] = "told"
                BY <1>1, <2>1, <2>2, <3>2 DEF Terminal
            <3> QED
                BY <2>2, <3>3 DEF HandlerOK, LiveOK, RunningOK
        <2> QED
            BY <1>0, <1>1, <1>2, <1>3, <1>5, <2>1, <2>2, <2>3, HandlerKeep
    <1> QED
        BY <1>4, <1>5

LEMMA BlockStep ==
    ASSUME Inv, NEW h \in Handler, Block(h)
    PROVE  Inv'
    <1>0. TypeOK /\ BooksOK /\ task \in [Task -> Job] /\ runs \in [RunId -> Rec]
          /\ codex \in [RunId -> {"none", "admitted", "live", "ended", "told"}]
        BY DEF Inv, TypeOK, Job, Rec
    <1>1. /\ handler[h].pc = "raised" /\ Complete(handler[h].run, "blocked") /\ Returns(h)
          /\ UNCHANGED <<auto, codex, timer, loose, retries, recon, now, failures>>
          /\ task' = task \/ Broken(handler[h].for)
        BY DEF Block
    <1>2. PICK i \in RunId : i = handler[h].run
        BY <1>0, <1>1 DEF BooksOK
    <1>3. runs[i] \in Rec /\ runs[i].st # "none" /\ (runs[i].st = "queued" => ~runs[i].linked)
          /\ "queued" \in Active /\ "running" \in Active /\ "blocked" \notin Active
        BY <1>0, <1>1, <1>2 DEF BooksOK, Active
    <1>4. /\ runs' \in [RunId -> Rec] /\ runs'[i].key = runs[i].key
          /\ runs'[i].st = IF runs[i].st \in Active THEN "blocked" ELSE runs[i].st
          /\ runs'[i].linked = runs[i].linked
          /\ \A k \in RunId : k # i => runs'[k] = runs[k]
        <2>1. PICK s : s = IF runs[i].st \in Active THEN "blocked" ELSE runs[i].st
            OBVIOUS
        <2>2. runs' = [runs EXCEPT ![i] = [runs[i] EXCEPT !.st = s]]
            BY <1>0, <1>1, <1>2, <2>1 DEF Complete
        <2>3. PICK w \in Rec : /\ w = [runs[i] EXCEPT !.st = s] /\ w.st = s
                               /\ w.key = runs[i].key /\ w.linked = runs[i].linked
            <3>1. s \in {"none"} \cup Active \cup Terminal \cup Skipped
                BY <1>3, <2>1 DEF Rec, Terminal
            <3>2. [runs[i] EXCEPT !.st = s] \in Rec
                BY <1>3, <3>1 DEF Rec
            <3>3. PICK w \in Rec : w = [runs[i] EXCEPT !.st = s]
                BY <3>2
            <3>4. w.st = s /\ w.key = runs[i].key /\ w.linked = runs[i].linked
                BY <1>3, <3>3 DEF Rec
            <3> QED
                BY <3>3, <3>4
        <2> QED
            BY <1>0, <2>1, <2>2, <2>3
    <1>5. runs'[i].st \notin Active /\ runs'[i].st # "none" /\ runs'[i].st # "queued"
          /\ runs'[i].st # "running"
        BY <1>3, <1>4
    <1>6. PICK v \in Hand : /\ handler' = [handler EXCEPT ![h] = v] /\ handler'[h] = v
                            /\ v.pc = "idle" /\ v.run = 0 /\ v.for = {}
        BY <1>0, <1>1, ReturnsEffect
    <1>7. /\ task' \in [Task -> Job]
          /\ \A t \in Task : task'[t].at = task[t].at /\ (task'[t].pc = task[t].pc
                \/ (task'[t].pc = "broken" /\ task[t].pc \in {"waiting", "broken"}))
        <2>1. CASE task' = task
            BY <1>0, <2>1
        <2>2. CASE Broken(handler[h].for)
            <3>1. ASSUME NEW t \in Task
                  PROVE  /\ task'[t] \in Job /\ task'[t].at = task[t].at
                         /\ task'[t].pc = task[t].pc
                            \/ (task'[t].pc = "broken" /\ task[t].pc \in {"waiting", "broken"})
                <4>1. task[t] \in Job
                    BY <1>0
                <4>2. CASE t \in handler[h].for
                    <5>1. task'[t] = [task[t] EXCEPT !.pc = "broken"]
                        BY <2>2, <4>2 DEF Broken
                    <5>2. task[t].pc \in {"waiting", "broken"}
                        BY <1>0, <4>2 DEF BooksOK
                    <5> QED
                        BY <4>1, <5>1, <5>2 DEF Job
                <4>3. CASE t \notin handler[h].for
                    BY <2>2, <4>1, <4>3 DEF Broken
                <4> QED
                    BY <4>2, <4>3
            <3>2. task' = [t \in Task |-> task'[t]]
                BY <2>2 DEF Broken
            <3> QED
                BY <3>1, <3>2
        <2> QED
            BY <1>1, <2>1, <2>2
    <1>8. ASSUME "twice" \notin Inputs
          PROVE  HandlerOK(h)' /\ LiveOK(i)' /\ ("torn" \notin Inputs => RunningOK(i)')
        <2>1. codex'[i] = "none"
            BY <1>1, <1>2, <1>8 DEF Inv, Dispatch, HandlerOK
        <2> QED
            BY <1>5, <1>6, <2>1 DEF HandlerOK, LiveOK, RunningOK
    <1>9. /\ handler[h].pc # "idle" /\ UNCHANGED <<auto, timer, loose, retries, recon, now, failures>>
          /\ \A k \in RunId : k # i => runs'[k] = runs[k] /\ codex'[k] = codex[k]
          /\ runs' \in [RunId -> Rec] /\ codex' \in [RunId -> {"none", "admitted", "live", "ended", "told"}]
        BY <1>0, <1>1, <1>4
    <1>10. /\ runs'[i].key = runs[i].key /\ runs'[i].st # "none" /\ runs'[i].st # "queued"
           /\ runs'[i].st \in Active => runs[i].st \in Active
        BY <1>3, <1>4, <1>5
    <1> QED
        BY <1>2, <1>6, <1>7, <1>8, <1>9, <1>10, HandlerKeep

\* The broker's run ends, and its listener is told.
LEMMA RunEndsStep ==
    ASSUME Inv, NEW i \in RunId, RunEnds(i) \/ CompleteRuntimeRun(i)
    PROVE  Inv'
    <1>0. TypeOK /\ BooksOK /\ runs \in [RunId -> Rec]
          /\ codex \in [RunId -> {"none", "admitted", "live", "ended", "told"}]
        BY DEF Inv, TypeOK, Rec
    <1>1. UNCHANGED <<auto, handler, timer, loose, retries, recon, task, now, failures>>
        BY DEF RunEnds, CompleteRuntimeRun, haVars
    <1>2. PICK c \in {"ended", "told"} :
             /\ codex' = [codex EXCEPT ![i] = c] /\ codex[i] \in {"live", "ended"}
             /\ c = "ended" => runs' = runs
             /\ c = "told" => runs' = [runs EXCEPT ![i] = IF @.st \in Active
                                        THEN [@ EXCEPT !.st = "completed", !.linked = TRUE]
                                        ELSE @]
        BY DEF RunEnds, CompleteRuntimeRun
    <1>3. /\ codex' \in [RunId -> {"none", "admitted", "live", "ended", "told"}] /\ codex'[i] = c
          /\ \A k \in RunId : k # i => codex'[k] = codex[k]
        BY <1>0, <1>2
    <1>4. /\ runs' \in [RunId -> Rec] /\ runs'[i].key = runs[i].key
          /\ \A k \in RunId : k # i => runs'[k] = runs[k]
          /\ c = "ended" => runs'[i] = runs[i]
          /\ c = "told" /\ runs[i].st \in Active => runs'[i].st = "completed" /\ runs'[i].linked
          /\ c = "told" /\ runs[i].st \notin Active => runs'[i] = runs[i]
        <2>1. runs[i] \in Rec
            BY <1>0
        <2>2. PICK w \in Rec : w = [runs[i] EXCEPT !.st = "completed", !.linked = TRUE]
            BY <2>1 DEF Rec, Terminal
        <2>3. w.st = "completed" /\ w.linked /\ w.key = runs[i].key
            BY <2>1, <2>2 DEF Rec
        <2>4. CASE c = "ended"
            BY <1>0, <1>2, <2>4
        <2>5. CASE c = "told" /\ runs[i].st \in Active
            <3>1. runs' = [runs EXCEPT ![i] = w]
                BY <1>2, <2>2, <2>5
            <3> QED
                BY <1>0, <2>3, <2>5, <3>1
        <2>6. CASE c = "told" /\ runs[i].st \notin Active
            <3>1. runs' = runs
                BY <1>0, <1>2, <2>6
            <3> QED
                BY <1>0, <2>6, <3>1
        <2> QED
            BY <2>4, <2>5, <2>6
    <1>5. TypeOK'
        BY <1>0, <1>1, <1>3, <1>4 DEF TypeOK, Rec
    <1>6. /\ runs[i].st # "none"
          /\ "queued" \in Active /\ "running" \in Active
          /\ "completed" \notin Active /\ "none" \notin Active
        BY <1>0, <1>2 DEF BooksOK, Active
    <1>7. BooksOK'
        <2>1. \A k \in RunId : /\ codex'[k] # "none" => runs'[k].st # "none"
                               /\ runs'[k].st = "queued" => ~runs'[k].linked
            BY <1>0, <1>2, <1>3, <1>4, <1>6 DEF BooksOK
        <2>2. \A h \in Handler : handler[h].pc # "idle" => runs'[handler[h].run].st # "none"
            BY <1>0, <1>4, <1>6 DEF BooksOK
        <2> QED
            BY <1>0, <1>1, <2>1, <2>2 DEF BooksOK
    <1>8. ASSUME "twice" \notin Inputs PROVE Dispatch'
        <2>0. Dispatch /\ LiveOK(i)
            BY <1>8 DEF Inv, Dispatch
        <2>1. runs[i].st \in Active
            BY <1>2, <2>0 DEF LiveOK
        <2>2. ASSUME NEW h \in Handler PROVE HandlerOK(h)'
            <3>0. HandlerOK(h)
                BY <2>0 DEF Dispatch
            <3>1. CASE handler[h].pc = "idle"
                BY <1>1, <3>1 DEF HandlerOK
            <3>2. CASE handler[h].run = i
                BY <1>1, <1>2, <1>3, <1>4, <2>1, <3>0, <3>2 DEF HandlerOK
            <3>3. CASE handler[h].pc # "idle" /\ handler[h].run # i
                <4>1. handler[h].run \in RunId
                    BY <1>0, <3>3 DEF BooksOK
                <4>2. /\ runs'[handler[h].run] = runs[handler[h].run]
                      /\ codex'[handler[h].run] = codex[handler[h].run]
                    BY <1>3, <1>4, <3>3, <4>1
                <4> QED
                    BY <1>1, <3>0, <4>2 DEF HandlerOK
            <3> QED
                BY <3>1, <3>2, <3>3
        <2>3. \A k \in RunId : LiveOK(k)' /\ QueuedOK(k)'
            BY <1>1, <1>2, <1>3, <1>4, <1>6, <2>0, <2>1 DEF Dispatch, LiveOK, QueuedOK
        <2>4. ApartOK'
            BY <1>1, <2>0 DEF Dispatch, ApartOK
        <2> QED
            BY <2>2, <2>3, <2>4 DEF Dispatch
    <1>9. ASSUME "twice" \notin Inputs, "torn" \notin Inputs, NEW k \in RunId PROVE RunningOK(k)'
        <2>1. RunningOK(k)
            BY <1>9 DEF Inv
        <2> QED
            BY <1>2, <1>3, <1>4, <1>6, <2>1 DEF RunningOK
    <1>10. \A k \in RunId : /\ runs'[k].key = runs[k].key
                            /\ runs'[k].st = "none" <=> runs[k].st = "none"
                            /\ runs'[k].st \in Active => runs[k].st \in Active
        BY <1>2, <1>4, <1>6
    <1> QED
        BY <1>1, <1>5, <1>7, <1>8, <1>9, <1>10, BridgeKeep

\* A restart leaves no handler, no queued record and no run of the broker.
LEMMA BridgeRestartsStep ==
    ASSUME Inv, BridgeRestarts
    PROVE  Inv'
    <1>0. TypeOK /\ BooksOK /\ runs \in [RunId -> Rec] /\ task \in [Task -> Job]
          /\ codex \in [RunId -> {"none", "admitted", "live", "ended", "told"}]
        BY DEF Inv, TypeOK, Rec, Job
    <1>1. /\ runs' = [i \in RunId |-> Recovered(i)]
          /\ handler' = [h \in Handler |-> AtRest]
          /\ Broken({t \in Task : task[t].pc = "waiting"})
          /\ UNCHANGED <<auto, timer, loose, retries, recon, now>>
          /\ "torn" \in Inputs \/ \A i \in RunId : codex[i] # "ended"
        BY DEF BridgeRestarts
    <1>2. failures' \in 0 .. MaxFailures
        BY <1>0, AutomationsAssumption DEF BridgeRestarts, TypeOK
    <1>3. /\ codex' \in [RunId -> {"none", "admitted", "live", "ended", "told"}]
          /\ \A i \in RunId : codex'[i] \in {"none", "told"} /\ (codex'[i] # "none" => codex[i] # "none")
        <2>1. codex' = [i \in RunId |-> CASE codex[i] = "admitted" -> "none"
                                          [] codex[i] \in {"live", "ended"} -> "told"
                                          [] OTHER -> codex[i]]
            BY DEF BridgeRestarts
        <2>2. ASSUME NEW i \in RunId
              PROVE  codex'[i] \in {"none", "told"} /\ (codex'[i] # "none" => codex[i] # "none")
            <3>1. codex'[i] = CASE codex[i] = "admitted" -> "none"
                                [] codex[i] \in {"live", "ended"} -> "told"
                                [] OTHER -> codex[i]
                BY <2>1
            <3>2. codex[i] \in {"none", "admitted", "live", "ended", "told"}
                BY <1>0
            <3> QED
                BY <3>1, <3>2
        <2> QED
            BY <2>1, <2>2
    <1>4. ASSUME NEW i \in RunId
          PROVE  /\ runs'[i] \in Rec /\ runs'[i].key = runs[i].key
                 /\ runs'[i].st \in {runs[i].st, "interrupted_restart"}
                 /\ runs'[i].st = "none" <=> runs[i].st = "none"
                 /\ runs'[i].st # "queued"
                 /\ runs'[i].st \in Active => runs[i].st \in Active /\ codex[i] # "live"
        <2>1. runs[i] \in Rec /\ runs'[i] = Recovered(i) /\ (runs[i].st = "queued" => ~runs[i].linked)
            BY <1>0, <1>1 DEF BooksOK
        <2>2. "interrupted_restart" \notin Active /\ "none" \notin Active /\ "queued" \in Active
              /\ "interrupted_restart" \in Terminal
            BY DEF Active, Terminal
        <2>3. CASE runs[i].st = "queued" /\ ~runs[i].linked
            <3>1. runs'[i] = [runs[i] EXCEPT !.st = "interrupted_restart"]
                BY <2>1, <2>3 DEF Recovered
            <3> QED
                BY <2>1, <2>2, <2>3, <3>1 DEF Rec
        <2>4. CASE runs[i].st # "queued" /\ codex[i] = "live" /\ runs[i].st \in Active
            <3>1. runs'[i] = [runs[i] EXCEPT !.st = "interrupted_restart", !.linked = TRUE]
                BY <2>1, <2>4 DEF Recovered
            <3> QED
                BY <2>1, <2>2, <2>4, <3>1 DEF Rec
        <2>5. CASE runs[i].st # "queued" /\ ~(codex[i] = "live" /\ runs[i].st \in Active)
            <3>1. runs'[i] = runs[i]
                BY <2>1, <2>5 DEF Recovered
            <3> QED
                BY <2>1, <2>5, <3>1
        <2> QED
            BY <2>1, <2>3, <2>4, <2>5
    <1>5. ASSUME NEW t \in Task
          PROVE  /\ task'[t] \in Job /\ task'[t].at = task[t].at
                 /\ task'[t].pc \in Sent => task[t].pc \in Sent
        <2>1. task[t] \in Job
            BY <1>0
        <2>2. CASE task[t].pc = "waiting"
            <3>1. task'[t] = [task[t] EXCEPT !.pc = "broken"]
                BY <1>1, <2>2 DEF Broken
            <3> QED
                BY <2>1, <2>2, <3>1 DEF Job, Sent
        <2>3. CASE task[t].pc # "waiting"
            BY <1>1, <2>1, <2>3 DEF Broken
        <2> QED
            BY <2>2, <2>3
    <1>6. /\ runs' \in [RunId -> Rec] /\ task' \in [Task -> Job]
        BY <1>1, <1>4, <1>5 DEF Broken
    <1>7. \A h \in Handler : /\ handler'[h].pc = "idle" /\ handler'[h].run = 0
                             /\ handler'[h].for = {} /\ handler'[h] \in Hand
        BY <1>1, AutomationsAssumption DEF AtRest, Hand
    <1>8. TypeOK'
        <2>1. handler' \in [Handler -> Hand]
            BY <1>1, <1>7
        <2> QED
            BY <1>0, <1>1, <1>2, <1>3, <1>6, <2>1 DEF TypeOK, Rec, Job, Hand
    <1>9. BooksOK'
        BY <1>0, <1>3, <1>4, <1>7 DEF BooksOK
    <1>10. Dispatch'
        BY <1>3, <1>4, <1>7 DEF Dispatch, ApartOK, HandlerOK, LiveOK, QueuedOK
    <1>11. ASSUME "twice" \notin Inputs, "torn" \notin Inputs, NEW i \in RunId PROVE RunningOK(i)'
        <2>1. RunningOK(i) /\ codex[i] # "ended"
            BY <1>1, <1>11 DEF Inv
        <2> QED
            BY <1>4, <2>1 DEF RunningOK, Active
    <1> QED
        BY <1>1, <1>4, <1>5, <1>8, <1>9, <1>10, <1>11, BridgeKeep

-----------------------------------------------------------------------------
(* Claims.                                                                 *)

\* The next record is a new one.
LEMMA NextClaim ==
    ASSUME Numbered, NEW new \in RunId, new = Cardinality(Claimed) + 1
    PROVE  runs[new].st = "none" /\ Claimed \cup {new} = 1 .. new
    <1>1. PICK n \in 0 .. MaxRuns : Claimed = 1 .. n
        BY DEF Numbered
    <1>2. n \in Nat
        BY <1>1, AutomationsAssumption
    <1>3. Cardinality(1 .. n) = n
        BY <1>2, FS_Interval
    <1>4. new = n + 1
        BY <1>1, <1>3
    <1>5. new \notin Claimed /\ (1 .. n) \cup {n + 1} = 1 .. (n + 1)
        BY <1>1, <1>2, <1>4
    <1> QED
        BY <1>1, <1>4, <1>5 DEF Claimed

\* A claim is recorded, and dispatched if it is queued.
LEMMA RecordKeep ==
    ASSUME Inv, NEW t \in Task, NEW h \in Handler,
           NEW new \in RunId, new = Cardinality(Claimed) + 1,
           NEW key \in Dues, NEW st \in {"queued"} \cup Skipped, Record(new, key, st),
           st = "queued" => ~HasActive,
           key.rev # 0 => /\ key.rev = auto.rev /\ Later(key) /\ Fired(key) /\ ClaimOf(key) = {},
           auto' \in [exists : BOOLEAN, enabled : BOOLEAN, rev : 1 .. MaxRevision,
                      next : 0 .. MaxTime + 1],
           auto'.rev = auto.rev,
           auto' = auto \/ auto'.next = now + 1,
           NEW j \in Job, task' = [task EXCEPT ![t] = j], Later(j.at), Fired(j.at),
           task[t].pc \in {"idle", "claim"},
           st = "queued" => Begins(h, new, {t}) /\ j.pc = "waiting",
           st # "queued" => UNCHANGED handler,
           UNCHANGED <<codex, timer, loose, retries, recon, now, failures>>
    PROVE  Inv'
    <1>0. TypeOK /\ Schedule /\ OneActive /\ BooksOK /\ runs \in [RunId -> Rec]
          /\ handler \in [Handler -> Hand]
        BY DEF Inv, TypeOK, Rec, Hand
    <1>1. runs[new].st = "none" /\ Claimed \cup {new} = 1 .. new
        BY <1>0, NextClaim DEF Schedule
    <1>2. PICK w \in Rec : /\ w.st = st /\ w.key = key /\ ~w.linked
                           /\ runs' = [runs EXCEPT ![new] = w]
        <2>1. [st |-> st, key |-> key, linked |-> FALSE] \in Rec
            BY DEF Rec, Active
        <2> QED
            BY <2>1 DEF Record
    <1>3. /\ runs' \in [RunId -> Rec] /\ runs'[new] = w
          /\ \A k \in RunId : k # new => runs'[k] = runs[k]
        BY <1>0, <1>2
    <1>4. /\ task' \in [Task -> Job] /\ task'[t] = j
          /\ \A u \in Task : u # t => task'[u] = task[u]
        BY <1>0, TaskSet
    <1>5. PICK b \in Hand : b.pc = "dispatch" /\ b.run = new /\ b.for = {t}
                            /\ (st = "queued" => handler' = [handler EXCEPT ![h] = b])
        <2>1. new \in 0 .. MaxRuns
            BY AutomationsAssumption DEF RunId
        <2>2. [pc |-> "dispatch", run |-> new, for |-> {t}] \in Hand
            BY <2>1 DEF Hand
        <2> QED
            BY <2>2 DEF Begins
    <1>6. /\ handler' \in [Handler -> Hand]
          /\ st = "queued" => handler'[h] = b /\ handler[h].pc = "idle"
          /\ \A g \in Handler : g # h \/ st # "queued" => handler'[g] = handler[g]
        BY <1>0, <1>5 DEF Begins
    <1>7. TypeOK'
        BY <1>0, <1>3, <1>4, <1>6 DEF TypeOK, Rec, Job, Hand
    <1>8. st # "none" /\ st # "running" /\ codex[new] = "none" /\ (st \in Active <=> st = "queued")
        BY <1>0, <1>1 DEF Skipped, BooksOK, Active
    <1>9. /\ \A k \in RunId : k # new => (Timed(k)' <=> Timed(k)) /\ runs'[k].key = runs[k].key
          /\ (Timed(new)' <=> key.rev # 0) /\ runs'[new].key = key
          /\ ~Timed(new)
        BY <1>1, <1>2, <1>3, <1>8 DEF Timed
    <1>10. /\ \A k \in RunId : runs[k].key \in Dues
           /\ \A a \in Dues : a.rev \in Nat /\ a.due \in Nat
           /\ auto.rev \in Nat
        BY <1>0, AutomationsAssumption DEF Rec, Dues, TypeOK
    <1>11. Schedule'
        <2>1. Numbered'
            <3>1. Claimed' = Claimed \cup {new}
                BY <1>1, <1>2, <1>3, <1>8 DEF Claimed
            <3>2. new \in 0 .. MaxRuns
                BY AutomationsAssumption DEF RunId
            <3> QED
                BY <1>1, <3>1, <3>2 DEF Numbered
        <2>2. ASSUME NEW i \in RunId PROVE KeyOK(i)'
            <3>1. KeyOK(i)
                BY <1>0 DEF Schedule
            <3>2. CASE i = new
                BY <1>9, <1>10, <3>2 DEF KeyOK, Fired
            <3>3. CASE i # new
                BY <1>9, <3>1, <3>3 DEF KeyOK
            <3> QED
                BY <3>2, <3>3
        <2>3. ASSUME NEW i \in RunId, NEW k \in RunId PROVE PairOK(i, k)'
            <3>1. PairOK(i, k) /\ KeyOK(k)
                BY <1>0 DEF Schedule
            <3>2. CASE i # new /\ k # new
                BY <1>9, <3>1, <3>2 DEF PairOK
            <3>3. CASE i = new /\ k = new
                BY <1>9, <1>10, <3>3 DEF PairOK
            <3>4. CASE i # new /\ k = new
                <4>1. SUFFICES ASSUME Timed(i), key.rev # 0
                               PROVE  /\ runs[i].key # key
                                      /\ runs[i].key.rev < key.rev => runs[i].key.due < key.due
                    BY <1>9, <3>4 DEF PairOK
                <4>2. runs[i].key # key
                    BY <4>1 DEF ClaimOf, Claimed, Timed
                <4> QED
                    BY <4>1, <4>2 DEF Later
            <3>5. CASE i = new /\ k # new
                <4>1. SUFFICES ASSUME Timed(k), key.rev # 0
                               PROVE  runs[k].key # key /\ ~(key.rev < runs[k].key.rev)
                    BY <1>9, <3>5 DEF PairOK
                <4>2. runs[k].key # key
                    BY <4>1 DEF ClaimOf, Claimed, Timed
                <4>3. runs[k].key.rev <= auto.rev /\ key.rev = auto.rev
                    BY <3>1, <4>1 DEF KeyOK
                <4> QED
                    BY <1>10, <4>2, <4>3
            <3> QED
                BY <3>2, <3>3, <3>4, <3>5
        <2>4. NextOK'
            <3> SUFFICES ASSUME auto'.enabled, NEW i \in RunId, Timed(i)',
                                runs'[i].key.rev < auto'.rev
                         PROVE  runs'[i].key.due < auto'.next
                BY DEF NextOK
            <3>1. i # new
                BY <1>9, <1>10
            <3>2. /\ Timed(i) /\ runs[i].key.rev < auto.rev /\ runs[i].key = runs'[i].key
                  /\ KeyOK(i) /\ NextOK
                BY <1>0, <1>9, <3>1 DEF Schedule
            <3>3. CASE auto' = auto
                BY <3>2, <3>3 DEF NextOK
            <3>4. CASE auto'.next = now + 1
                <4>1. runs[i].key.due <= now /\ runs[i].key.due \in Nat /\ now \in Nat
                    BY <1>0, <1>10, <3>2, AutomationsAssumption DEF KeyOK, TypeOK
                <4> QED
                    BY <3>2, <3>4, <4>1
            <3> QED
                BY <3>3, <3>4
        <2>5. ASSUME NEW a \in Dues PROVE (Later(a) => Later(a)') /\ (Fired(a) => Fired(a)')
            <3>1. Fired(a) => Fired(a)'
                BY DEF Fired
            <3>2. ASSUME Later(a), a.rev # 0, NEW i \in RunId, Timed(i)', runs'[i].key.rev < a.rev
                  PROVE  runs'[i].key.due < a.due
                <4>1. CASE i = new
                    BY <1>9, <1>10, <3>2, <4>1 DEF Later
                <4>2. CASE i # new
                    BY <1>9, <3>2, <4>2 DEF Later
                <4> QED
                    BY <4>1, <4>2
            <3>3. Later(a) => Later(a)'
                BY <3>2 DEF Later
            <3> QED
                BY <3>1, <3>3
        <2>6. TimersOK'
            <3>1. TimersOK
                BY <1>0 DEF Schedule
            <3>2. /\ timer \in Dues /\ loose \subseteq Dues /\ retries \subseteq Dues
                  /\ j.at \in Dues /\ \A u \in Task : task[u].at \in Dues
                BY <1>0 DEF TypeOK, Job
            <3>3. /\ Later(timer)' /\ (\A a \in loose' : Later(a)')
                  /\ (\A a \in retries' : Later(a)' /\ Fired(a)')
                BY <2>5, <3>1, <3>2 DEF TimersOK
            <3>4. ASSUME NEW u \in Task
                  PROVE  Later(task[u].at)' /\ (task'[u].pc \in Sent => Fired(task[u].at)')
                <4>1. PICK a \in Dues : a = task'[u].at
                    BY <1>4, <3>2
                <4>2. Later(a) /\ (task'[u].pc \in Sent => Fired(a))
                    BY <1>4, <3>1, <4>1 DEF TimersOK
                <4>3. Later(a)' /\ (task'[u].pc \in Sent => Fired(a)')
                    BY <2>5, <4>2
                <4> QED
                    BY <4>1, <4>3
            <3> QED
                BY <3>3, <3>4 DEF TimersOK
        <2> QED
            BY <2>1, <2>2, <2>3, <2>4, <2>6 DEF Schedule
    <1>12. OneActive'
        BY <1>0, <1>2, <1>3, <1>8 DEF OneActive, HasActive
    <1>13. BooksOK'
        <2>1. \A k \in RunId : /\ codex'[k] # "none" => runs'[k].st # "none"
                               /\ runs'[k].st = "queued" => ~runs'[k].linked
            BY <1>0, <1>2, <1>3, <1>8 DEF BooksOK
        <2>2. ASSUME NEW g \in Handler
              PROVE  /\ handler'[g].pc = "idle" => handler'[g].run = 0
                     /\ handler'[g].pc # "idle" => /\ handler'[g].run \in RunId
                                                   /\ runs'[handler'[g].run].st # "none"
                     /\ \A u \in handler'[g].for : task'[u].pc \in {"waiting", "broken"}
            <3>1. CASE st = "queued" /\ g = h
                BY <1>2, <1>3, <1>4, <1>5, <1>6, <1>8, <3>1
            <3>2. CASE st # "queued" \/ g # h
                <4>1. handler'[g] = handler[g]
                    BY <1>6, <3>2
                <4>2. handler[g].for \subseteq Task /\ t \notin handler[g].for
                    BY <1>0 DEF TypeOK, BooksOK
                <4> QED
                    BY <1>0, <1>1, <1>3, <1>4, <4>1, <4>2 DEF BooksOK
            <3> QED
                BY <3>1, <3>2
        <2> QED
            BY <2>1, <2>2 DEF BooksOK
    <1>14. ASSUME Dispatch PROVE Dispatch'
        <2>0. ASSUME NEW g \in Handler
              PROVE  handler[g].run # new /\ (\A k \in RunId : k # 0)
            BY <1>0, <1>1, AutomationsAssumption DEF BooksOK, RunId
        <2>1. ApartOK'
            BY <1>5, <1>6, <1>14, <2>0 DEF Dispatch, ApartOK
        <2>2. ASSUME NEW g \in Handler PROVE HandlerOK(g)'
            <3>1. CASE st = "queued" /\ g = h
                BY <1>2, <1>3, <1>5, <1>6, <1>8, <3>1 DEF HandlerOK
            <3>2. CASE (st # "queued" \/ g # h) /\ handler[g].pc = "idle"
                BY <1>6, <3>2 DEF HandlerOK
            <3>3. CASE (st # "queued" \/ g # h) /\ handler[g].pc # "idle"
                <4>1. /\ handler'[g] = handler[g] /\ handler[g].run \in RunId
                      /\ runs'[handler[g].run] = runs[handler[g].run] /\ HandlerOK(g)
                    BY <1>0, <1>3, <1>6, <1>14, <2>0, <3>3 DEF BooksOK, Dispatch
                <4> QED
                    BY <4>1 DEF HandlerOK
            <3> QED
                BY <3>1, <3>2, <3>3
        <2>3. ASSUME NEW k \in RunId PROVE LiveOK(k)' /\ QueuedOK(k)'
            <3>1. CASE k = new
                BY <1>2, <1>3, <1>5, <1>6, <1>8, <3>1 DEF LiveOK, QueuedOK
            <3>2. CASE k # new
                <4>1. LiveOK(k) /\ QueuedOK(k) /\ runs'[k] = runs[k]
                    BY <1>3, <1>14, <3>2 DEF Dispatch
                <4>2. \A g \in Handler : handler[g].run = k => handler'[g].run = k
                    BY <1>0, <1>6, <2>0 DEF BooksOK
                <4> QED
                    BY <4>1, <4>2 DEF LiveOK, QueuedOK
            <3> QED
                BY <3>1, <3>2
        <2> QED
            BY <2>1, <2>2, <2>3 DEF Dispatch
    <1>15. \A k \in RunId : RunningOK(k) => RunningOK(k)'
        BY <1>2, <1>3, <1>8 DEF RunningOK
    <1> QED
        BY <1>7, <1>11, <1>12, <1>13, <1>14, <1>15 DEF Inv

\* A task gives its claim up for a refresh.
LEMMA AsksKeep ==
    ASSUME Inv, NEW t \in Task, task[t].pc \in {"idle", "claim"}, Asks(t),
           UNCHANGED <<bridgeVars, timer, loose, retries, recon, now, failures>>
    PROVE  Inv'
    <1>0. /\ TypeOK /\ TimersOK /\ timer \in Dues /\ loose \subseteq Dues /\ retries \subseteq Dues
          /\ recon \in BOOLEAN /\ failures \in 0 .. MaxFailures
        BY DEF Inv, Schedule, TypeOK
    <1>1. PICK j \in Job : j.pc = "refresh" /\ j.at = NoDue /\ task' = [task EXCEPT ![t] = j]
        BY Basics DEF Asks
    <1> QED
        BY <1>0, <1>1, Basics, TaskKeep DEF TimersOK, Sent

\* A repeated claim is dispatched again: its first dispatch was cut off.
LEMMA RepeatKeep ==
    ASSUME Inv, NEW t \in Task, NEW h \in Handler, NEW i \in RunId, task[t].pc = "claim",
           runs[i].st = "queued", "twice" \in Inputs \/ \A g \in Handler : handler[g].run # i,
           Begins(h, i, {t}), Goes(t, "waiting"),
           UNCHANGED <<auto, runs, codex, timer, loose, retries, recon, now, failures>>
    PROVE  Inv'
    <1>0. TypeOK /\ BooksOK /\ task \in [Task -> Job] /\ handler \in [Handler -> Hand]
        BY DEF Inv, TypeOK, Job, Hand
    <1>1. "twice" \in Inputs
        BY DEF Inv, Dispatch, QueuedOK
    <1>2. PICK j \in Job : j.pc = "waiting" /\ j.at = task[t].at /\ task' = [task EXCEPT ![t] = j]
        <2>1. task[t] \in Job /\ task' = [task EXCEPT ![t] = [task[t] EXCEPT !.pc = "waiting"]]
            BY <1>0 DEF Goes
        <2>2. [task[t] EXCEPT !.pc = "waiting"] \in Job
            BY <2>1 DEF Job
        <2> QED
            BY <2>1, <2>2 DEF Job
    <1>3. /\ task' \in [Task -> Job] /\ task'[t] = j
          /\ \A u \in Task : u # t => task'[u] = task[u]
        BY <1>0, <1>2, TaskSet
    <1>4. PICK b \in Hand : b.pc = "dispatch" /\ b.run = i /\ b.for = {t}
                            /\ handler' = [handler EXCEPT ![h] = b]
        <2>1. i \in 0 .. MaxRuns
            BY AutomationsAssumption DEF RunId
        <2>2. [pc |-> "dispatch", run |-> i, for |-> {t}] \in Hand
            BY <2>1 DEF Hand
        <2> QED
            BY <2>2 DEF Begins
    <1>5. /\ handler' \in [Handler -> Hand] /\ handler'[h] = b
          /\ \A g \in Handler : g # h => handler'[g] = handler[g]
        BY <1>0, <1>4
    <1>6. TypeOK'
        BY <1>0, <1>3, <1>5 DEF TypeOK, Job, Hand
    <1>7. BooksOK'
        <2>1. ASSUME NEW g \in Handler
              PROVE  /\ handler'[g].pc = "idle" => handler'[g].run = 0
                     /\ handler'[g].pc # "idle" => /\ handler'[g].run \in RunId
                                                   /\ runs'[handler'[g].run].st # "none"
                     /\ \A u \in handler'[g].for : task'[u].pc \in {"waiting", "broken"}
            <3>1. CASE g = h
                BY <1>2, <1>3, <1>4, <1>5, <3>1
            <3>2. CASE g # h
                <4>1. handler'[g] = handler[g] /\ handler[g].for \subseteq Task /\ t \notin handler[g].for
                    BY <1>0, <1>5, <3>2 DEF TypeOK, BooksOK
                <4> QED
                    BY <1>0, <1>3, <4>1 DEF BooksOK
            <3> QED
                BY <3>1, <3>2
        <2> QED
            BY <1>0, <2>1 DEF BooksOK
    <1>8. \A u \in Task : task'[u].at = task[u].at /\ (task'[u].pc \in Sent => task[u].pc \in Sent)
        BY <1>2, <1>3 DEF Sent
    <1> QED
        BY <1>1, <1>6, <1>7, <1>8, BridgeKeep

LEMMA StatusOK ==
    ASSUME NEW due, NEW capacity \in BOOLEAN
    PROVE  /\ ClaimStatus(due, capacity) \in {"queued"} \cup Skipped
           /\ ClaimStatus(due, capacity) = "queued" => ~HasActive
    BY DEF ClaimStatus, Skipped

LEMMA ClaimRunStep ==
    ASSUME Inv, NEW t \in Task, NEW h \in Handler, NEW capacity \in BOOLEAN,
           ClaimRun(t, h, capacity)
    PROVE  Inv'
    <1> DEFINE key == task[t].at
               new == Cardinality(Claimed) + 1
               st == ClaimStatus(key.due, capacity)
    <1>0. /\ TypeOK /\ TimersOK /\ NextOK /\ task \in [Task -> Job]
          /\ \A i \in RunId : KeyOK(i)
        BY DEF Inv, Schedule, TypeOK, Job
    <1>1. /\ task[t].pc = "claim"
          /\ UNCHANGED <<codex, timer, loose, retries, recon, now, failures>>
        BY DEF ClaimRun
    <1>2. task[t] \in Job /\ key \in Dues /\ Later(key) /\ Fired(key)
        BY <1>0, <1>1 DEF Job, TimersOK, Sent
    <1>3. CASE \E i \in ClaimOf(key) :
                  /\ runs[i].st = "queued"
                  /\ "twice" \in Inputs \/ \A g \in Handler : handler[g].run # i
                  /\ Begins(h, i, {t}) /\ Goes(t, "waiting") /\ UNCHANGED <<auto, runs>>
        BY <1>1, <1>3, RepeatKeep DEF ClaimOf, Claimed
    <1>4. CASE Asks(t) /\ UNCHANGED <<auto, runs, handler>>
        BY <1>1, <1>4, AsksKeep DEF bridgeVars
    <1>5. CASE /\ ClaimOf(key) = {} /\ auto.exists /\ auto.rev = key.rev /\ new \in RunId
               /\ Record(new, key, st) /\ auto' = [auto EXCEPT !.next = NextAfter(key.due)]
               /\ IF st = "queued" THEN Begins(h, new, {t}) /\ Goes(t, "waiting")
                                   ELSE UNCHANGED handler /\ Asks(t)
        <2>1. /\ key.due \in Nat /\ now \in 0 .. MaxTime /\ auto.rev \in 1 .. MaxRevision
            BY <1>0, <1>2, AutomationsAssumption DEF TypeOK, Dues
        <2>2. key.rev # 0 /\ key.due <= now
            BY <1>2, <1>5, <2>1 DEF Fired
        <2>3. NextAfter(key.due) = now + 1 /\ now + 1 \in 0 .. MaxTime + 1
            BY <2>1, <2>2, AutomationsAssumption DEF NextAfter
        <2>4. /\ auto' \in [exists : BOOLEAN, enabled : BOOLEAN, rev : 1 .. MaxRevision,
                            next : 0 .. MaxTime + 1]
              /\ auto'.rev = auto.rev /\ auto'.next = now + 1
            BY <1>0, <1>5, <2>3 DEF TypeOK
        <2>6. st \in {"queued"} \cup Skipped /\ (st = "queued" => ~HasActive)
            BY StatusOK
        <2>7. PICK j \in Job : /\ task' = [task EXCEPT ![t] = j] /\ Later(j.at) /\ Fired(j.at)
                               /\ st = "queued" => j.pc = "waiting"
            <3>1. CASE st = "queued"
                <4>1. task' = [task EXCEPT ![t] = [task[t] EXCEPT !.pc = "waiting"]]
                    BY <1>0, <1>5, <3>1 DEF Goes
                <4>2. /\ [task[t] EXCEPT !.pc = "waiting"] \in Job
                      /\ [task[t] EXCEPT !.pc = "waiting"].pc = "waiting"
                      /\ [task[t] EXCEPT !.pc = "waiting"].at = key
                    BY <1>2 DEF Job
                <4> QED
                    BY <1>2, <4>1, <4>2
            <3>2. CASE st # "queued"
                BY <1>5, <3>2, Basics DEF Asks
            <3> QED
                BY <3>1, <3>2
        <2>8. st # "queued" => UNCHANGED handler
            BY <1>5
        <2>9. st = "queued" => Begins(h, new, {t})
            BY <1>5
        <2> HIDE DEF key, new, st
        <2> QED
            BY <1>1, <1>2, <1>5, <2>2, <2>4, <2>6, <2>7, <2>8, <2>9, RecordKeep DEF new
    <1> QED
        BY <1>3, <1>4, <1>5 DEF ClaimRun

LEMMA RunNowStep ==
    ASSUME Inv, NEW t \in Task, NEW h \in Handler, NEW capacity \in BOOLEAN,
           RunNow(t, h, capacity)
    PROVE  Inv'
    <1> DEFINE key == [rev |-> 0, due |-> now]
               new == Cardinality(Claimed) + 1
               st == ClaimStatus(now, capacity)
    <1>0. TypeOK
        BY DEF Inv
    <1>1. /\ task[t].pc = "idle" /\ new \in RunId /\ Record(new, key, st)
          /\ task' = [task EXCEPT ![t] = [pc |-> "waiting", at |-> key]]
          /\ IF st = "queued" THEN Begins(h, new, {t}) ELSE UNCHANGED handler
          /\ UNCHANGED <<auto, codex, timer, loose, retries, recon, now, failures>>
        BY DEF RunNow
    <1>2. key \in Dues /\ key.rev = 0
        BY <1>0, AutomationsAssumption DEF TypeOK, Dues
    <1>3. Later(key) /\ Fired(key)
        BY <1>2 DEF Later, Fired
    <1>4. PICK j \in Job : task' = [task EXCEPT ![t] = j] /\ j.pc = "waiting" /\ j.at = key
        <2> HIDE DEF key
        <2>1. [pc |-> "waiting", at |-> key] \in Job
            BY <1>2 DEF Job
        <2> QED
            BY <1>1, <2>1
    <1>5. st \in {"queued"} \cup Skipped /\ (st = "queued" => ~HasActive)
        BY StatusOK
    <1>6. /\ auto' \in [exists : BOOLEAN, enabled : BOOLEAN, rev : 1 .. MaxRevision,
                        next : 0 .. MaxTime + 1]
          /\ auto' = auto
        BY <1>0, <1>1 DEF TypeOK
    <1> HIDE DEF key, new, st
    <1>7. /\ new \in RunId /\ Record(new, key, st) /\ new = Cardinality(Claimed) + 1
          /\ task[t].pc = "idle" /\ Later(j.at) /\ Fired(j.at)
          /\ UNCHANGED <<codex, timer, loose, retries, recon, now, failures>>
        BY <1>1, <1>3, <1>4 DEF new
    <1>8. CASE st = "queued"
        <2>1. Begins(h, new, {t})
            BY <1>1, <1>8
        <2> QED
            BY <1>2, <1>4, <1>5, <1>6, <1>7, <1>8, <2>1, RecordKeep
    <1>9. CASE st # "queued"
        <2>1. UNCHANGED handler
            BY <1>1, <1>9
        <2> QED
            BY <1>2, <1>4, <1>5, <1>6, <1>7, <1>9, <2>1, RecordKeep
    <1> QED
        BY <1>8, <1>9

-----------------------------------------------------------------------------
(* Users.                                                                  *)

\* A change of the automation: what is claimed under the new revision is due
\* after now, and all that was claimed before was due.
LEMMA UserChangesStep ==
    ASSUME Inv, NEW t \in Task, UserChanges(t)
    PROVE  Inv'
    <1>0. /\ TypeOK /\ Schedule /\ OneActive /\ BooksOK /\ TimersOK /\ runs \in [RunId -> Rec]
          /\ task \in [Task -> Job] /\ auto.rev \in Nat /\ now \in Nat
          /\ \A i \in RunId : runs[i].key.rev \in Nat /\ runs[i].key.due \in Nat
        BY AutomationsAssumption DEF Inv, TypeOK, Schedule, Rec, Job, Dues
    <1>1. /\ task[t].pc = "idle" /\ UNCHANGED <<codex, handler, timer, loose, retries, recon, now>>
        BY DEF UserChanges
    <1>2. failures' \in 0 .. MaxFailures
        <2>1. failures' = failures \/ (failures < MaxFailures /\ failures' = failures + 1)
            BY DEF UserChanges
        <2> QED
            BY <1>0, <2>1, AutomationsAssumption DEF TypeOK
    <1>3. /\ task' \in [Task -> Job] /\ \A u \in Task : u # t => task'[u] = task[u]
          /\ (task'[t].pc = "refresh" /\ task'[t].at = NoDue) \/ task'[t] = task[t]
        <2>1. CASE Asks(t)
            <3>1. PICK j \in Job : j.pc = "refresh" /\ j.at = NoDue /\ task' = [task EXCEPT ![t] = j]
                BY <2>1, Basics DEF Asks
            <3> QED
                BY <1>0, <3>1, TaskSet
        <2>2. CASE UNCHANGED task
            BY <1>0, <2>2
        <2> QED
            BY <2>1, <2>2 DEF UserChanges
    <1>4. ASSUME NEW i \in RunId
          PROVE  /\ runs'[i] \in Rec /\ runs'[i].st = runs[i].st /\ runs'[i].linked = runs[i].linked
                 /\ runs'[i].key = runs[i].key \/ runs'[i].key = NoDue
        <2>1. CASE UNCHANGED runs
            BY <1>0, <2>1
        <2>2. CASE runs' = [k \in RunId |-> IF runs[k].st = "none" THEN runs[k]
                                            ELSE [runs[k] EXCEPT !.key = NoDue]]
            <3>1. CASE runs[i].st = "none"
                BY <1>0, <2>2, <3>1
            <3>2. CASE runs[i].st # "none"
                <4>1. runs'[i] = [runs[i] EXCEPT !.key = NoDue] /\ runs[i] \in Rec
                    BY <1>0, <2>2, <3>2
                <4> QED
                    BY <4>1, Basics DEF Rec
            <3> QED
                BY <3>1, <3>2
        <2> QED
            BY <2>1, <2>2 DEF UserChanges
    <1>5. runs' \in [RunId -> Rec]
        <2>1. runs' = [k \in RunId |-> runs'[k]]
            BY <1>0 DEF UserChanges
        <2> QED
            BY <1>4, <2>1
    <1>6. /\ auto' \in [exists : BOOLEAN, enabled : BOOLEAN, rev : 1 .. MaxRevision,
                        next : 0 .. MaxTime + 1]
          /\ auto'.rev \in Nat /\ auto'.rev >= auto.rev
          /\ ~auto'.enabled \/ auto'.next = now + 1
        <2>0. /\ auto \in [exists : BOOLEAN, enabled : BOOLEAN, rev : 1 .. MaxRevision,
                           next : 0 .. MaxTime + 1]
              /\ now + 1 \in 0 .. MaxTime + 1 /\ 0 \in 0 .. MaxTime + 1
            BY <1>0, AutomationsAssumption DEF TypeOK
        <2>1. ASSUME NEW on \in BOOLEAN, auto.rev < MaxRevision,
                     auto' = [auto EXCEPT !.rev = @ + 1, !.enabled = on,
                                          !.next = IF on THEN now + 1 ELSE 0]
              PROVE  /\ auto' \in [exists : BOOLEAN, enabled : BOOLEAN, rev : 1 .. MaxRevision,
                                   next : 0 .. MaxTime + 1]
                     /\ auto'.rev \in Nat /\ auto'.rev >= auto.rev
                     /\ ~auto'.enabled \/ auto'.next = now + 1
            <3>1. auto.rev + 1 \in 1 .. MaxRevision
                BY <1>0, <2>1, AutomationsAssumption
            <3>2. auto'.rev = auto.rev + 1 /\ auto'.enabled = on
                  /\ auto'.next = (IF on THEN now + 1 ELSE 0)
                BY <2>0, <2>1
            <3>3. auto' \in [exists : BOOLEAN, enabled : BOOLEAN, rev : 1 .. MaxRevision,
                             next : 0 .. MaxTime + 1]
                BY <2>0, <2>1, <3>1
            <3> QED
                BY <1>0, <3>2, <3>3
        <2>2. CASE ~auto.enabled /\ auto' = [auto EXCEPT !.exists = FALSE]
            <3>1. auto'.rev = auto.rev /\ auto'.enabled = auto.enabled
                BY <2>0, <2>2
            <3>2. auto' \in [exists : BOOLEAN, enabled : BOOLEAN, rev : 1 .. MaxRevision,
                             next : 0 .. MaxTime + 1]
                BY <2>0, <2>2
            <3>3. auto'.rev \in Nat /\ auto'.rev >= auto.rev
                BY <1>0, <3>1
            <3> QED
                BY <2>2, <3>1, <3>2, <3>3
        <2>3. \/ \E on \in BOOLEAN :
                    /\ auto.rev < MaxRevision
                    /\ auto' = [auto EXCEPT !.rev = @ + 1, !.enabled = on,
                                            !.next = IF on THEN now + 1 ELSE 0]
              \/ ~auto.enabled /\ auto' = [auto EXCEPT !.exists = FALSE]
            BY DEF UserChanges
        <2> QED
            BY <2>1, <2>2, <2>3
    <1>7. TypeOK'
        BY <1>0, <1>1, <1>2, <1>3, <1>5, <1>6 DEF TypeOK, Rec, Job
    <1>8. \A i \in RunId : Timed(i)' => Timed(i) /\ runs'[i].key = runs[i].key
        BY <1>4, Basics DEF Timed
    <1>9. Schedule'
        <2>1. Numbered'
            <3>1. Claimed' = Claimed
                BY <1>4 DEF Claimed
            <3> QED
                BY <1>0, <3>1 DEF Schedule, Numbered
        <2>2. ASSUME NEW i \in RunId, Timed(i)'
              PROVE  /\ runs'[i].key = runs[i].key /\ runs[i].key.due <= now
                     /\ runs[i].key.rev <= auto'.rev
            <3>1. Timed(i) /\ KeyOK(i) /\ runs'[i].key = runs[i].key
                BY <1>0, <1>8, <2>2 DEF Schedule
            <3> QED
                BY <1>0, <1>6, <3>1 DEF KeyOK
        <2>3. \A i \in RunId : KeyOK(i)'
            BY <1>1, <2>2 DEF KeyOK
        <2>4. ASSUME NEW i \in RunId, NEW k \in RunId PROVE PairOK(i, k)'
            BY <1>0, <1>8 DEF Schedule, PairOK
        <2>5. NextOK'
            BY <1>0, <1>6, <2>2 DEF NextOK
        <2>6. ASSUME NEW a \in Dues PROVE (Later(a) => Later(a)') /\ (Fired(a) => Fired(a)')
            <3>1. Fired(a) => Fired(a)'
                BY <1>1 DEF Fired
            <3>2. a.rev \in Nat
                BY AutomationsAssumption DEF Dues
            <3>3. ASSUME Later(a) PROVE Later(a)'
                <4>1. a.rev # 0 => a.rev <= auto'.rev
                    BY <1>0, <1>6, <3>2, <3>3 DEF Later
                <4>2. a.rev # 0 => \A i \in RunId : Timed(i)' /\ runs'[i].key.rev < a.rev =>
                                                       runs'[i].key.due < a.due
                    BY <1>8, <3>3 DEF Later
                <4> QED
                    BY <4>1, <4>2 DEF Later
            <3> QED
                BY <3>1, <3>3
        <2>7. TimersOK'
            <3>1. /\ timer \in Dues /\ loose \subseteq Dues /\ retries \subseteq Dues
                  /\ \A u \in Task : task[u].at \in Dues
                BY <1>0 DEF TypeOK, Job
            <3>2. /\ Later(timer)' /\ (\A a \in loose' : Later(a)')
                  /\ (\A a \in retries' : Later(a)' /\ Fired(a)')
                BY <1>0, <1>1, <2>6, <3>1 DEF TimersOK
            <3>3. ASSUME NEW u \in Task
                  PROVE  Later(task[u].at)' /\ (task'[u].pc \in Sent => Fired(task[u].at)')
                <4>1. PICK a \in Dues : a = task'[u].at
                    BY <1>3, <3>1, Basics
                <4>2. Later(a) /\ (task'[u].pc \in Sent => Fired(a))
                    BY <1>0, <1>3, <4>1, Basics DEF TimersOK
                <4>3. Later(a)' /\ (task'[u].pc \in Sent => Fired(a)')
                    BY <2>6, <4>2
                <4> QED
                    BY <4>1, <4>3
            <3> QED
                BY <3>2, <3>3 DEF TimersOK
        <2> QED
            BY <2>1, <2>3, <2>4, <2>5, <2>7 DEF Schedule
    <1>10. OneActive'
        BY <1>0, <1>4 DEF OneActive
    <1>11. BooksOK'
        <2>1. ASSUME NEW g \in Handler, NEW u \in handler[g].for
              PROVE  task'[u].pc \in {"waiting", "broken"}
            <3>1. u \in Task /\ task[u].pc \in {"waiting", "broken"}
                BY <1>0 DEF TypeOK, BooksOK
            <3> QED
                BY <1>1, <1>3, <3>1
        <2> QED
            BY <1>0, <1>1, <1>4, <2>1 DEF BooksOK
    <1>12. ASSUME Dispatch PROVE Dispatch'
        <2>1. ApartOK'
            BY <1>1, <1>12 DEF Dispatch, ApartOK
        <2>2. ASSUME NEW g \in Handler PROVE HandlerOK(g)'
            <3>1. HandlerOK(g) /\ (handler[g].pc # "idle" => handler[g].run \in RunId)
                BY <1>0, <1>12 DEF Dispatch, BooksOK
            <3> QED
                BY <1>1, <1>4, <3>1 DEF HandlerOK
        <2>3. \A i \in RunId : LiveOK(i)' /\ QueuedOK(i)'
            BY <1>1, <1>4, <1>12 DEF Dispatch, LiveOK, QueuedOK
        <2> QED
            BY <2>1, <2>2, <2>3 DEF Dispatch
    <1>13. \A i \in RunId : RunningOK(i) => RunningOK(i)'
        BY <1>1, <1>4 DEF RunningOK
    <1> QED
        BY <1>7, <1>9, <1>10, <1>11, <1>12, <1>13 DEF Inv

-----------------------------------------------------------------------------
(* The invariant holds.                                                    *)

LEMMA InitInv == Init => Inv
    <1> SUFFICES ASSUME Init PROVE Inv
        OBVIOUS
    <1>1. PICK on \in BOOLEAN :
             /\ auto = [exists |-> TRUE, enabled |-> on, rev |-> 1, next |-> IF on THEN 1 ELSE 0]
             /\ timer = IF on THEN [rev |-> 1, due |-> 1] ELSE NoDue
        BY DEF Init
    <1>2. /\ runs = [i \in RunId |-> NoRun] /\ codex = [i \in RunId |-> "none"]
          /\ handler = [h \in Handler |-> AtRest] /\ now = 0
          /\ loose = {} /\ retries = {} /\ recon = FALSE
          /\ task = [t \in Task |-> Idle] /\ failures = 0
        BY DEF Init
    <1>3. /\ \A i \in RunId : runs[i] \in Rec /\ runs[i].st = "none" /\ codex[i] = "none"
          /\ runs \in [RunId -> Rec]
        BY <1>2, Basics DEF NoRun, Rec
    <1>4. /\ \A h \in Handler : /\ handler[h].pc = "idle" /\ handler[h].run = 0
                                /\ handler[h].for = {}
          /\ handler \in [Handler -> Hand]
        BY <1>2, AutomationsAssumption DEF AtRest, Hand
    <1>5. /\ \A t \in Task : task[t].at = NoDue /\ task[t].pc = "idle"
          /\ task \in [Task -> Job]
        BY <1>2, Basics
    <1>6. timer \in Dues /\ timer.rev <= auto.rev
        <2>1. [rev |-> 1, due |-> 1] \in Dues
            BY AutomationsAssumption DEF Dues
        <2>2. auto.rev = 1
            BY <1>1
        <2> QED
            BY <1>1, <2>1, <2>2, Basics
    <1>7. auto \in [exists : BOOLEAN, enabled : BOOLEAN, rev : 1 .. MaxRevision,
                    next : 0 .. MaxTime + 1]
        BY <1>1, AutomationsAssumption
    <1>8. TypeOK
        <2>1. now \in 0 .. MaxTime /\ failures \in 0 .. MaxFailures
            BY <1>2, AutomationsAssumption
        <2> QED
            BY <1>2, <1>3, <1>4, <1>5, <1>6, <1>7, <2>1 DEF TypeOK, Rec, Hand, Job
    <1>9. \A i \in RunId : ~Timed(i)
        BY <1>3 DEF Timed
    <1>10. Schedule
        <2>1. Numbered
            <3>1. Claimed = {} /\ 1 .. 0 = {} /\ 0 \in 0 .. MaxRuns
                BY <1>3, AutomationsAssumption DEF Claimed
            <3> QED
                BY <3>1 DEF Numbered
        <2>2. TimersOK
            <3>1. Later(timer)
                BY <1>6, <1>9 DEF Later
            <3> QED
                BY <1>2, <1>5, <3>1, Basics DEF TimersOK, Sent
        <2> QED
            BY <1>9, <2>1, <2>2 DEF Schedule, NextOK, KeyOK, PairOK
    <1>11. OneActive /\ BooksOK
        BY <1>3, <1>4 DEF OneActive, BooksOK, Active
    <1>12. Dispatch /\ \A i \in RunId : RunningOK(i)
        BY <1>3, <1>4 DEF Dispatch, ApartOK, HandlerOK, LiveOK, QueuedOK, RunningOK
    <1> QED
        BY <1>8, <1>10, <1>11, <1>12 DEF Inv

LEMMA NextKeeps == Inv /\ [Next]_vars => Inv'
    <1> SUFFICES ASSUME Inv, [Next]_vars PROVE Inv'
        OBVIOUS
    <1>1. ASSUME NEW h \in Handler, HandlerStep(h) PROVE Inv'
        BY <1>1, AdmitStep, MarkRunningStep, BlockStep DEF HandlerStep
    <1>2. ASSUME NEW t \in Task, NEW h \in Handler, NEW capacity \in BOOLEAN, RunNow(t, h, capacity)
          PROVE  Inv'
        BY <1>2, RunNowStep
    <1>3. ASSUME NEW t \in Task, Answered(t) PROVE Inv'
        BY <1>3, ClaimRunStep DEF Answered
    <1>4. ASSUME NEW t \in Task, Reply(t) \/ Refresh(t) \/ Apply(t) \/ RefreshFails(t) PROVE Inv'
        BY <1>4, RefreshStep
    <1>5. ASSUME NEW t \in Task, Wakes(t) PROVE Inv'
        BY <1>5, FiresStep
    <1>6. ASSUME NEW t \in Task, ConnectionFails(t) PROVE Inv'
        BY <1>6, ConnectionFailsStep
    <1>7. ASSUME NEW t \in Task, UserChanges(t) PROVE Inv'
        BY <1>7, UserChangesStep
    <1>8. ASSUME NEW i \in RunId, RunEnds(i) \/ CompleteRuntimeRun(i) PROVE Inv'
        BY <1>8, RunEndsStep
    <1>9. CASE BridgeRestarts \/ HomeAssistantRestarts \/ Tick
        BY <1>9, BridgeRestartsStep, HomeAssistantRestartsStep, TickStep
    <1>10. CASE UNCHANGED vars
        <2>1. UNCHANGED <<auto, runs, codex, handler, now, timer, loose, retries, recon, task, failures>>
            BY <1>10 DEF vars, bridgeVars, haVars
        <2>2. TypeOK /\ TimersOK /\ BooksOK
            BY DEF Inv, Schedule
        <2>3. TypeOK'
            BY <2>1, <2>2 DEF TypeOK
        <2> QED
            BY <2>1, <2>2, <2>3, HomeKeep DEF TimersOK, BooksOK
    <1> QED
        BY <1>1, <1>2, <1>3, <1>4, <1>5, <1>6, <1>7, <1>8, <1>9, <1>10 DEF Next, TaskStep

LEMMA InvHolds == Spec => []Inv
    BY InitInv, NextKeeps, PTL DEF Spec

-----------------------------------------------------------------------------
(* The theorems.                                                           *)

(***************************************************************************)
(* The records of AutomationStore, the scheduler's timers and its tasks    *)
(* keep their types: no due time and no revision leaves its range.         *)
(***************************************************************************)
THEOREM AutomationsTyped == Spec => []TypeOK
    BY InvHolds, PTL DEF Inv

(***************************************************************************)
(* An occurrence is run once, whatever is lost, repeated, overtaken or     *)
(* restarted and however often the automation is changed: claim's table of *)
(* keys refuses a repetition under one revision, and a new revision starts *)
(* after now, where nothing of an earlier one was claimed.                 *)
(***************************************************************************)
THEOREM OccurrencesRunOnce == Spec => []OncePerOccurrence
    <1>1. Inv => OncePerOccurrence
        <2> SUFFICES ASSUME Inv, NEW i \in RunId, NEW j \in RunId,
                            runs[i].key.rev # 0, runs[i].key.due = runs[j].key.due,
                            runs[j].key.rev # 0, codex[i] # "none", codex[j] # "none"
                     PROVE  i = j
            BY DEF OncePerOccurrence
        <2>1. Timed(i) /\ Timed(j) /\ PairOK(i, j) /\ PairOK(j, i)
            BY DEF Inv, BooksOK, Timed, Schedule
        <2>2. PICK a \in Dues, b \in Dues : a = runs[i].key /\ b = runs[j].key
            BY DEF Inv, TypeOK
        <2>3. a.rev \in Nat /\ b.rev \in Nat /\ a.due \in Nat /\ b.due \in Nat /\ a.due = b.due
            BY <2>2, AutomationsAssumption DEF Dues
        <2>4. ~(a.rev < b.rev) /\ ~(b.rev < a.rev)
            BY <2>1, <2>2, <2>3 DEF PairOK
        <2>5. a = b
            BY <2>3, <2>4 DEF Dues
        <2> QED
            BY <2>1, <2>2, <2>5 DEF PairOK
    <1> QED
        BY <1>1, InvHolds, PTL

(***************************************************************************)
(* Runs of one automation do not overlap, provided that a claim which is   *)
(* still being dispatched is not dispatched a second time: claim_run       *)
(* dispatches every queued record it is answered with (the input "twice"). *)
(***************************************************************************)
THEOREM RunsDoNotOverlap ==
    ASSUME "twice" \notin Inputs
    PROVE  Spec => []NoOverlap
    <1>1. Inv => NoOverlap
        BY DEF Inv, Dispatch, LiveOK, OneActive, NoOverlap
    <1> QED
        BY <1>1, InvHolds, PTL

(***************************************************************************)
(* No claim reserves the automation forever: an active record has a        *)
(* handler, or a run of the broker whose end is still to be reported.      *)
(* Besides "twice" it takes that the Bridge does not die between the       *)
(* broker's terminal commit and the listener's save (the input "torn").    *)
(***************************************************************************)
THEOREM ActiveRecordsAreAlive ==
    ASSUME "twice" \notin Inputs, "torn" \notin Inputs
    PROVE  Spec => []ActiveIsAlive
    <1>1. Inv => ActiveIsAlive
        <2> SUFFICES ASSUME Inv, NEW i \in RunId, runs[i].st \in Active
                     PROVE  \/ \E h \in Handler : handler[h].run = i /\ handler[h].pc # "idle"
                            \/ codex[i] \in {"live", "ended"}
            BY DEF ActiveIsAlive
        <2>1. i # 0
            BY AutomationsAssumption DEF RunId
        <2>2. CASE runs[i].st = "queued"
            <3>1. PICK h \in Handler : handler[h].run = i
                BY <2>2 DEF Inv, Dispatch, QueuedOK
            <3> QED
                BY <2>1, <3>1 DEF Inv, BooksOK
        <2>3. CASE runs[i].st = "running"
            BY <2>3 DEF Inv, RunningOK
        <2> QED
            BY <2>2, <2>3 DEF Active
    <1> QED
        BY <1>1, InvHolds, PTL

=============================================================================
