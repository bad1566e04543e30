----------------------------- MODULE Automations -----------------------------
(***************************************************************************)
(* A scheduled automation: Home Assistant owns the timer                   *)
(* (AutomationScheduler), the Bridge owns the definition and the record of *)
(* every claim (AutomationStore), the handler of a claim dispatches it to  *)
(* the broker (claim_run, dispatch_automation), and the broker reports the *)
(* end of the run (automation_run_terminal).  Requests and replies between *)
(* the two get lost, and both sides restart.                               *)
(*                                                                         *)
(* The schedule is an interval of one unit of time, so that occurrences    *)
(* are the numbers 1, 2, ...; the instant `now' stands for the moments     *)
(* from one occurrence to the next.  Fewer runs are claimed than the       *)
(* history keeps, so that _prune_runs removes none.                        *)
(***************************************************************************)
EXTENDS Naturals, FiniteSets

CONSTANTS
    Task,           \* tasks of Home Assistant: fires, retries, refreshes
    Handler,        \* threads of the Bridge that handle a claim
    MaxRuns,        \* bound on claimed runs
    MaxManual,      \* bound on the manual ones of them
    MaxTime,        \* bound on time
    MaxRevision,    \* bound on revisions of the automation
    Grace,          \* the misfire grace, and the scheduler's
    MaxFailures,    \* bound on lost connections, crashes and restarts
    Inputs          \* which of the environment's rarer behaviours happen

ASSUME AutomationsAssumption ==
    /\ MaxRuns \in Nat /\ MaxManual \in Nat /\ MaxTime \in Nat /\ MaxRevision \in Nat \ {0}
    /\ Grace \in Nat /\ MaxFailures \in Nat
    /\ Inputs \subseteq {"twice", "torn", "overtaking", "unanswered", "manual", "user"}

VARIABLES
    auto,       \* the automation's record
    runs,       \* the run records, by order of their claims
    codex,      \* the broker's run of each record's request id
    handler,    \* how far each claim's handler is
    now,        \* the clock of both sides
    timer,      \* _callbacks: the armed timer, or none
    loose,      \* armed timers that are not in _callbacks any more
    retries,    \* claims to be repeated
    recon,      \* _reconciliation_callback
    task,       \* the tasks of Home Assistant
    failures

bridgeVars == <<auto, runs, codex, handler>>
haVars == <<timer, loose, retries, recon, task>>
vars == <<bridgeVars, haVars, now, failures>>

-----------------------------------------------------------------------------
RunId == 1 .. MaxRuns
Active == {"queued", "running"}
\* "completed" stands for "failed" and "cancelled", too.
Terminal == {"completed", "blocked", "interrupted_restart"}
Skipped == {"skipped_overlap", "skipped_capacity", "skipped_misfire", "skipped_paused"}

NoDue == [rev |-> 0, due |-> 0]
Dues == [rev : 0 .. MaxRevision, due : 0 .. MaxTime + 1]
NoRun == [st |-> "none", key |-> NoDue, linked |-> FALSE]
Idle == [pc |-> "idle", at |-> NoDue]
AtRest == [pc |-> "idle", run |-> 0, for |-> {}]

TypeOK ==
    /\ auto \in [exists : BOOLEAN, enabled : BOOLEAN, rev : 1 .. MaxRevision,
                 next : 0 .. MaxTime + 1]
    /\ runs \in [RunId -> [st : {"none"} \cup Active \cup Terminal \cup Skipped,
                           key : Dues, linked : BOOLEAN]]
    /\ codex \in [RunId -> {"none", "admitted", "live", "ended", "told"}]
    /\ handler \in [Handler -> [pc : {"idle", "dispatch", "admitted", "submitted", "raised"},
                                run : 0 .. MaxRuns, for : SUBSET Task]]
    /\ now \in 0 .. MaxTime
    /\ timer \in Dues /\ loose \subseteq Dues /\ retries \subseteq Dues
    /\ recon \in BOOLEAN
    /\ task \in [Task -> [pc : {"idle", "claim", "waiting", "broken", "refresh", "apply"},
                          at : Dues]]
    /\ failures \in 0 .. MaxFailures

Init ==
    /\ \E on \in BOOLEAN :
          /\ auto = [exists |-> TRUE, enabled |-> on, rev |-> 1, next |-> IF on THEN 1 ELSE 0]
          /\ timer = IF on THEN [rev |-> 1, due |-> 1] ELSE NoDue
    /\ runs = [i \in RunId |-> NoRun]
    /\ codex = [i \in RunId |-> "none"]
    /\ handler = [h \in Handler |-> AtRest]
    /\ now = 0
    /\ loose = {} /\ retries = {} /\ recon = FALSE
    /\ task = [t \in Task |-> Idle]
    /\ failures = 0

-----------------------------------------------------------------------------
(***************************************************************************)
(* AutomationStore.                                                        *)
(***************************************************************************)
Claimed == {i \in RunId : runs[i].st # "none"}
ManualRuns == Cardinality({i \in Claimed : runs[i].key.rev = 0})
HasActive == \E i \in RunId : runs[i].st \in Active

\* _next_run_after(max(due_at, now)) and _next_run(now): strictly later.
NextAfter(due) == IF due > now THEN due + 1 ELSE now + 1

\* Mutant: overlap is not looked at.
ClaimStatusNoOverlap(due, capacity) ==
    IF ~auto.enabled THEN "skipped_paused"
    ELSE IF due + Grace < now THEN "skipped_misfire"
    ELSE IF ~capacity THEN "skipped_capacity"
    ELSE "queued"

\* A manual run is due now.
ClaimStatus(due, capacity) ==
    IF ~auto.enabled THEN "skipped_paused"
    ELSE IF due + Grace < now THEN "skipped_misfire"
    ELSE IF HasActive THEN "skipped_overlap"
    ELSE IF ~capacity THEN "skipped_capacity"
    ELSE "queued"

\* Mutant: the idempotency table is not asked.
ClaimOfNone(key) == {}

\* The idempotency table: what is claimed under a key already.
ClaimOf(key) == {i \in Claimed : runs[i].key = key}

\* A new run record.
Record(i, key, st) ==
    runs' = [runs EXCEPT ![i] = [st |-> st, key |-> key, linked |-> FALSE]]

\* complete, which refuses a run that is not active.
Complete(i, st) == runs' = [runs EXCEPT ![i].st = IF @ \in Active THEN st ELSE @]

-----------------------------------------------------------------------------
(***************************************************************************)
(* The handler of a claim: claim_run and dispatch_automation.              *)
(***************************************************************************)
Begins(h, i, for) ==
    /\ handler[h].pc = "idle"
    /\ handler' = [handler EXCEPT ![h] = [pc |-> "dispatch", run |-> i, for |-> for]]
Becomes(h, pc) == handler' = [handler EXCEPT ![h].pc = pc]
Returns(h) == handler' = [handler EXCEPT ![h] = AtRest]
Goes(t, pc) == task' = [task EXCEPT ![t].pc = pc]
Asks(t) == task' = [task EXCEPT ![t] = [pc |-> "refresh", at |-> NoDue]]

\* claim, for the scheduler's task t; what is not dispatched is answered.  A
\* repeated claim reaches a queued run that another handler is dispatching
\* only if "twice" is an input; otherwise it comes after that handler's end.
ClaimRun(t, h, capacity) ==
    /\ task[t].pc = "claim"
    /\ LET key == task[t].at
           old == ClaimOf(key)
           new == Cardinality(Claimed) + 1
           st == ClaimStatus(key.due, capacity)
       IN  \/ /\ old # {}
              /\ \E i \in old :
                    \/ /\ runs[i].st = "queued"
                       /\ "twice" \in Inputs \/ \A g \in Handler : handler[g].run # i
                       /\ Begins(h, i, {t}) /\ Goes(t, "waiting")
                    \/ /\ runs[i].st # "queued"
                       /\ UNCHANGED handler /\ Asks(t)
              /\ UNCHANGED <<auto, runs>>
           \/ /\ old = {}
              /\ ~auto.exists \/ auto.rev # key.rev
              /\ Asks(t)
              /\ UNCHANGED <<auto, runs, handler>>
           \/ /\ old = {}
              /\ auto.exists /\ auto.rev = key.rev
              /\ new \in RunId
              /\ Record(new, key, st)
              /\ auto' = [auto EXCEPT !.next = NextAfter(key.due)]
              /\ IF st = "queued" THEN Begins(h, new, {t}) /\ Goes(t, "waiting")
                                  ELSE UNCHANGED handler /\ Asks(t)
    /\ UNCHANGED <<codex, timer, loose, retries, recon, now, failures>>

\* run_now, for a user's command, which refreshes the timers once answered.
RunNow(t, h, capacity) ==
    /\ "manual" \in Inputs /\ ManualRuns < MaxManual
    /\ task[t].pc = "idle"
    /\ auto.exists
    /\ LET key == [rev |-> 0, due |-> now]
           new == Cardinality(Claimed) + 1
           st == ClaimStatus(now, capacity)
       IN  /\ new \in RunId
           /\ Record(new, key, st)
           /\ task' = [task EXCEPT ![t] = [pc |-> "waiting", at |-> key]]
           /\ IF st = "queued" THEN Begins(h, new, {t}) ELSE UNCHANGED handler
    /\ UNCHANGED <<auto, codex, timer, loose, retries, recon, now, failures>>

\* admit_prompt: a replay of the same request, a reservation, or a refusal
\* (no capacity, not signed in, a bad target, the request pending already).
Admit(h) ==
    /\ handler[h].pc = "dispatch"
    /\ LET i == handler[h].run
       IN  \/ /\ codex[i] \in {"live", "ended", "told"}
              /\ Becomes(h, "submitted") /\ UNCHANGED codex
           \/ /\ codex[i] = "none"
              /\ Becomes(h, "admitted")
              /\ codex' = [codex EXCEPT ![i] = "admitted"]
           \/ Becomes(h, "raised") /\ UNCHANGED codex
    /\ UNCHANGED <<auto, runs, haVars, now, failures>>

\* submit_prompt
Submit(h) ==
    /\ handler[h].pc = "admitted"
    /\ \/ /\ Becomes(h, "submitted")
          /\ codex' = [codex EXCEPT ![handler[h].run] = "live"]
       \/ /\ Becomes(h, "raised")
          /\ codex' = [codex EXCEPT ![handler[h].run] = "none"]
    /\ UNCHANGED <<auto, runs, haVars, now, failures>>

\* mark_running, which raises when the run is over under another link.
MarkRunning(h) ==
    /\ handler[h].pc = "submitted"
    /\ LET i == handler[h].run
       IN  \/ /\ runs[i].st = "queued"
              /\ runs' = [runs EXCEPT ![i].st = "running", ![i].linked = TRUE]
              /\ Returns(h)
           \/ /\ runs[i].st \in Terminal /\ runs[i].linked
              /\ Returns(h) /\ UNCHANGED runs
           \/ /\ runs[i].st # "queued" /\ ~(runs[i].st \in Terminal /\ runs[i].linked)
              /\ Becomes(h, "raised") /\ UNCHANGED runs
    /\ UNCHANGED <<auto, codex, haVars, now, failures>>

Broken(T) ==
    task' = [t \in Task |-> IF t \in T THEN [task[t] EXCEPT !.pc = "broken"] ELSE task[t]]

\* The dispatcher raised: the claim is blocked, unless it is over already,
\* which fails the request with an error that is worth a retry.
Block(h) ==
    /\ handler[h].pc = "raised"
    /\ Complete(handler[h].run, "blocked")
    /\ IF runs[handler[h].run].st \in Active THEN UNCHANGED task ELSE Broken(handler[h].for)
    /\ Returns(h)
    /\ UNCHANGED <<auto, codex, timer, loose, retries, recon, now, failures>>

(***************************************************************************)
(* The broker's run ends; its listener then completes the record, whether  *)
(* or not the handler has linked it yet.                                   *)
(***************************************************************************)
RunEnds(i) ==
    /\ codex[i] = "live"
    /\ codex' = [codex EXCEPT ![i] = "ended"]
    /\ UNCHANGED <<auto, runs, handler, haVars, now, failures>>

\* complete_runtime_run
CompleteRuntimeRun(i) ==
    /\ codex[i] = "ended"
    /\ codex' = [codex EXCEPT ![i] = "told"]
    /\ runs' = [runs EXCEPT ![i] = IF @.st \in Active
                                   THEN [@ EXCEPT !.st = "completed", !.linked = TRUE]
                                   ELSE @]
    /\ UNCHANGED <<auto, handler, haVars, now, failures>>

-----------------------------------------------------------------------------
(***************************************************************************)
(* AutomationScheduler.                                                    *)
(***************************************************************************)
\* _async_fire begins: whatever timer is armed now is forgotten.
Fires(t, at, left) ==
    /\ task[t].pc = "idle"
    /\ task' = [task EXCEPT ![t] = [pc |-> "claim", at |-> at]]
    /\ timer' = NoDue
    /\ loose' = left

TimerFires(t) ==
    /\ timer # NoDue /\ now >= timer.due
    /\ Fires(t, timer, loose)
    /\ UNCHANGED <<bridgeVars, retries, recon, now, failures>>

Left == IF timer = NoDue THEN {} ELSE {timer}

LooseFires(t, at) ==
    /\ at \in loose /\ now >= at.due
    /\ Fires(t, at, (loose \ {at}) \cup Left)
    /\ UNCHANGED <<bridgeVars, retries, recon, now, failures>>

RetryFires(t, at) ==
    /\ at \in retries
    /\ Fires(t, at, loose \cup Left)
    /\ retries' = retries \ {at}
    /\ UNCHANGED <<bridgeVars, recon, now, failures>>

Serving(t) == {h \in Handler : t \in handler[h].for}

\* The reply arrives: the next occurrence is asked for.
Reply(t) ==
    /\ task[t].pc = "waiting" /\ Serving(t) = {}
    /\ Asks(t)
    /\ UNCHANGED <<bridgeVars, timer, loose, retries, recon, now, failures>>

\* Mutant: a claim whose grace has passed is given up.
GiveUp(t) ==
    IF now > task[t].at.due + Grace
    THEN UNCHANGED <<recon, retries>>
    ELSE retries' = retries \cup {task[t].at} /\ UNCHANGED recon

\* _schedule_retry
ScheduleRetry(t) ==
    IF now > task[t].at.due + Grace
    THEN recon' = TRUE /\ UNCHANGED retries
    ELSE retries' = retries \cup {task[t].at} /\ UNCHANGED recon

\* The connection fails before the request or its reply got through, or it
\* times out while the handler works on.  A user's command is not repeated.
ConnectionFails(t) ==
    /\ \/ task[t].pc = "broken" /\ UNCHANGED failures
       \/ /\ task[t].pc \in {"claim", "waiting"}
          /\ failures < MaxFailures
          /\ failures' = failures + 1
    /\ IF task[t].at.rev = 0 THEN UNCHANGED <<recon, retries>> ELSE ScheduleRetry(t)
    /\ task' = [task EXCEPT ![t] = Idle]
    /\ handler' = [h \in Handler |-> [handler[h] EXCEPT !.for = @ \ {t}]]
    /\ UNCHANGED <<auto, runs, codex, timer, loose, now>>

\* scheduler_snapshot, as it is answered.
Snapshot == IF auto.exists /\ auto.enabled THEN [rev |-> auto.rev, due |-> auto.next]
                                           ELSE NoDue

Refresh(t) ==
    /\ task[t].pc = "refresh"
    /\ "overtaking" \in Inputs \/ \A u \in Task : task[u].pc # "apply"
    /\ task' = [task EXCEPT ![t] = [pc |-> "apply", at |-> Snapshot]]
    /\ UNCHANGED <<bridgeVars, timer, loose, retries, recon, now, failures>>

RefreshFails(t) ==
    /\ task[t].pc = "refresh"
    /\ failures < MaxFailures
    /\ failures' = failures + 1
    /\ recon' = TRUE
    /\ task' = [task EXCEPT ![t] = Idle]
    /\ UNCHANGED <<bridgeVars, timer, loose, retries, now>>

\* The timers are armed anew.
Apply(t) ==
    /\ task[t].pc = "apply"
    /\ timer' = task[t].at
    /\ task' = [task EXCEPT ![t] = Idle]
    /\ UNCHANGED <<bridgeVars, loose, retries, recon, now, failures>>

Reconcile(t) ==
    /\ recon /\ task[t].pc = "idle"
    /\ recon' = FALSE
    /\ Asks(t)
    /\ UNCHANGED <<bridgeVars, timer, loose, retries, now, failures>>

-----------------------------------------------------------------------------
(***************************************************************************)
(* Users, restarts and time.                                               *)
(***************************************************************************)
\* update, pause, resume or delete, and the refresh that follows its answer;
\* the answer gets lost only if "unanswered" is an input.
UserChanges(t) ==
    /\ "user" \in Inputs
    /\ auto.exists /\ task[t].pc = "idle"
    /\ \/ \E on \in BOOLEAN :      \* pause and resume; update leaves `enabled'
             /\ auto.rev < MaxRevision
             /\ auto' = [auto EXCEPT !.rev = @ + 1, !.enabled = on,
                                     !.next = IF on THEN now + 1 ELSE 0]
             /\ UNCHANGED runs
       \/ /\ ~auto.enabled /\ ~HasActive
          /\ auto' = [auto EXCEPT !.exists = FALSE]
          /\ runs' = [i \in RunId |-> IF runs[i].st = "none" THEN runs[i]
                                      ELSE [runs[i] EXCEPT !.key = NoDue]]
    /\ \/ Asks(t) /\ UNCHANGED failures
       \/ /\ "unanswered" \in Inputs /\ failures < MaxFailures
          /\ failures' = failures + 1
          /\ UNCHANGED task
    /\ UNCHANGED <<codex, handler, timer, loose, retries, recon, now>>

\* Mutant: a claim that was not linked stays queued.
RecoveredLinked(i) ==
    IF codex[i] = "live" /\ runs[i].st \in Active
    THEN [runs[i] EXCEPT !.st = "interrupted_restart", !.linked = TRUE]
    ELSE runs[i]

\* _recover_runs_after_restart, and then the broker's own recovery, which
\* interrupts its runs and reports them.
Recovered(i) ==
    IF runs[i].st = "queued" /\ ~runs[i].linked
    THEN [runs[i] EXCEPT !.st = "interrupted_restart"]
    ELSE IF codex[i] = "live" /\ runs[i].st \in Active
    THEN [runs[i] EXCEPT !.st = "interrupted_restart", !.linked = TRUE]
    ELSE runs[i]

\* The Bridge dies and starts again.  It may die between the broker's
\* terminal commit and the listener's save only if that is torn.
BridgeRestarts ==
    /\ failures < MaxFailures
    /\ "torn" \in Inputs \/ \A i \in RunId : codex[i] # "ended"
    /\ failures' = failures + 1
    /\ runs' = [i \in RunId |-> Recovered(i)]
    /\ codex' = [i \in RunId |-> CASE codex[i] = "admitted" -> "none"
                                   [] codex[i] \in {"live", "ended"} -> "told"
                                   [] OTHER -> codex[i]]
    /\ handler' = [h \in Handler |-> AtRest]
    /\ Broken({t \in Task : task[t].pc = "waiting"})
    /\ UNCHANGED <<auto, timer, loose, retries, recon, now>>

\* Home Assistant starts again; its set-up asks for the timers, and is over
\* before any other of its tasks begins.
HomeAssistantRestarts ==
    /\ failures < MaxFailures
    /\ failures' = failures + 1
    /\ timer' = Snapshot /\ loose' = {} /\ retries' = {} /\ recon' = FALSE
    /\ task' = [t \in Task |-> Idle]
    /\ handler' = [h \in Handler |-> [handler[h] EXCEPT !.for = {}]]
    /\ UNCHANGED <<auto, runs, codex, now>>

Tick ==
    /\ now < MaxTime
    /\ now' = now + 1
    /\ UNCHANGED <<bridgeVars, haVars, failures>>

-----------------------------------------------------------------------------
HandlerStep(h) == Admit(h) \/ Submit(h) \/ MarkRunning(h) \/ Block(h)

Answered(t) == \E h \in Handler, capacity \in BOOLEAN : ClaimRun(t, h, capacity)

Wakes(t) ==
    \/ TimerFires(t) \/ Reconcile(t)
    \/ (\E at \in loose : LooseFires(t, at)) \/ (\E at \in retries : RetryFires(t, at))

TaskStep(t) == Answered(t) \/ Reply(t) \/ Refresh(t) \/ Apply(t)

Next ==
    \/ \E h \in Handler : HandlerStep(h)
    \/ \E t \in Task, h \in Handler, capacity \in BOOLEAN : RunNow(t, h, capacity)
    \/ \E t \in Task :
          TaskStep(t) \/ Wakes(t) \/ ConnectionFails(t) \/ RefreshFails(t) \/ UserChanges(t)
    \/ \E i \in RunId : RunEnds(i) \/ CompleteRuntimeRun(i)
    \/ BridgeRestarts \/ HomeAssistantRestarts \/ Tick

Spec == Init /\ [][Next]_vars

(***************************************************************************)
(* Fairness: handlers, tasks and timers run; the end of a run is reported. *)
(* A broken connection is noticed.  Nothing is assumed of users or of how  *)
(* long a run takes.                                                       *)
(***************************************************************************)
FairSpec ==
    /\ Spec
    /\ \A h \in Handler : WF_vars(HandlerStep(h))
    /\ \A t \in Task : WF_vars(TaskStep(t)) /\ WF_vars(task[t].pc = "broken" /\ ConnectionFails(t))
    /\ WF_vars(\E t \in Task : Wakes(t))
    /\ \A i \in RunId : WF_vars(CompleteRuntimeRun(i))
    /\ WF_vars(Tick)

-----------------------------------------------------------------------------
(***************************************************************************)
(* Runs of one automation do not overlap: what a second claim finds active *)
(* is skipped ("skipped_overlap"), so the broker has one live run at most. *)
(***************************************************************************)
NoOverlap == \A i, j \in RunId : codex[i] = "live" /\ codex[j] = "live" => i = j

(***************************************************************************)
(* An occurrence is run once, however often its claim is repeated, by      *)
(* retries, by forgotten timers or after a change of the automation.       *)
(***************************************************************************)
OncePerOccurrence ==
    \A i, j \in RunId :
        (/\ runs[i].key.rev # 0 /\ runs[i].key.due = runs[j].key.due
         /\ runs[j].key.rev # 0 /\ codex[i] # "none" /\ codex[j] # "none") => i = j

(***************************************************************************)
(* A claim does not "reserve the automation forever" (the comment of       *)
(* _recover_runs_after_restart): a record is active only while a handler   *)
(* works on it or the broker's run will still be reported.                 *)
(***************************************************************************)
ActiveIsAlive ==
    \A i \in RunId :
        runs[i].st \in Active =>
            \/ \E h \in Handler : handler[h].run = i /\ handler[h].pc # "idle"
            \/ codex[i] \in {"live", "ended"}

(***************************************************************************)
(* An enabled automation is never forgotten: its occurrence is claimed, or *)
(* the automation changes, although replies get lost and either side       *)
(* restarts (or the bound on runs is reached).                             *)
(***************************************************************************)
NeverForgotten ==
    \A d \in 1 .. MaxTime :
        (auto.exists /\ auto.next = d)
            ~> (~auto.exists \/ auto.next # d \/ Claimed = RunId)
=============================================================================
