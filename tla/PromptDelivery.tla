--------------------------- MODULE PromptDelivery ---------------------------
(***************************************************************************)
(* A prompt on its way from the panel's composer to Codex: _sendPrompt and *)
(* its reconciliation in the browser, submit_prompt and the idempotency    *)
(* table in the Bridge.                                                    *)
(*                                                                         *)
(* The panel gives a prompt a client request id and keeps it, per chat, as *)
(* a mutation until it knows that the Bridge owns the prompt: by an answer *)
(* or by the message.created event with that id.  An answer can be lost    *)
(* while the Bridge still works, so several requests with one id can be    *)
(* under way (`call'); each passes two critical sections of the broker     *)
(* with an account check between them.                                     *)
(*                                                                         *)
(* _promptMutation is always null or the selected chat's entry of          *)
(* _promptMutations, so it is not a variable of its own.  The gate's queue *)
(* and cancellation are RuntimeBroker's; here a run that is queued,        *)
(* starting or cancelling is "starting": it takes no prompt.               *)
(***************************************************************************)
EXTENDS Naturals, FiniteSets

CONSTANTS
    Chat,
    Slot,           \* requests that may be under way at one time
    None,           \* no mutation, no call, no run
    MaxIds,         \* bound: client request ids
    MaxFaults       \* bound: lost answers, refusals, failed saves, restarts

ASSUME PromptAssumption ==
    /\ MaxIds \in Nat \ {0} /\ MaxFaults \in Nat
    /\ None \notin Chat /\ None \notin Nat

VARIABLES
    selected,       \* _selectedThreadId
    mutation,       \* _promptMutations
    settled,        \* history: ids the panel takes as delivered
    used,           \* ids given out
    call,           \* the requests under way, and what the panel awaits
    table,          \* request_idempotency in memory
    disk,           \* the same as saved
    journal,        \* message.created events with each id
    turns,          \* how often Codex was given the prompt
    run,            \* the run that owns the chat
    fatal,          \* _fatal_error
    orphaned,       \* history: ids rolled back after their events committed
    faults

panelVars == <<selected, mutation, settled, used>>
bridgeVars == <<table, disk, journal, turns, run, fatal, orphaned>>
vars == <<panelVars, call, bridgeVars, faults>>

Id == 1..MaxIds
Outcomes == {"none", "prompt", "steer", "uncertain"}
Call == [id : Id, chat : Chat, panel : {"await", "reconcile", "gone"},
         bridge : {"arrived", "looked", "steering", "steered", "ok", "error"},
         on : Id \cup {None}]     \* the run a follow-up goes to
Mutation == [id : Id, state : {"sending", "reconciling", "retryable"}]
Run == [id : Id, state : {"starting", "running"}]

\* None is none of the records it stands beside.
ASSUME NoneAssumption == None \notin Call \cup Mutation \cup Run

TypeOK ==
    /\ selected \in Chat
    /\ mutation \in [Chat -> Mutation \cup {None}]
    /\ settled \in SUBSET Id /\ orphaned \in SUBSET Id
    /\ used \in 0..MaxIds
    /\ call \in [Slot -> Call \cup {None}]
    /\ table \in [Id -> Outcomes] /\ disk \in [Id -> Outcomes]
    /\ journal \in [Id -> Nat] /\ turns \in [Id -> Nat]
    /\ run \in [Chat -> Run \cup {None}]
    /\ fatal \in BOOLEAN
    /\ faults \in Nat

Init ==
    /\ selected \in Chat
    /\ mutation = [c \in Chat |-> None]
    /\ settled = {} /\ orphaned = {}
    /\ used = 0
    /\ call = [s \in Slot |-> None]
    /\ table = [i \in Id |-> "none"] /\ disk = [i \in Id |-> "none"]
    /\ journal = [i \in Id |-> 0] /\ turns = [i \in Id |-> 0]
    /\ run = [c \in Chat |-> None]
    /\ fatal = FALSE
    /\ faults = 0

Fault == faults < MaxFaults /\ faults' = faults + 1

-----------------------------------------------------------------------------
(* The panel: _sendPrompt up to its await.                                 *)

Pending(c, i) == mutation[c] # None /\ mutation[c].id = i

\* A call leaves with the id of the chat's mutation.
Post(c, i) ==
    /\ \E s \in Slot : call[s] = None
    /\ LET s == CHOOSE s \in Slot : call[s] = None
       IN  call' = [call EXCEPT ![s] = [id |-> i, chat |-> c, panel |-> "await",
                                        bridge |-> "arrived", on |-> None]]
    /\ mutation' = [mutation EXCEPT ![c] = [id |-> i, state |-> "sending"]]
    /\ UNCHANGED <<selected, settled, bridgeVars, faults>>

Send(c) ==
    /\ selected = c /\ mutation[c] = None /\ used < MaxIds
    /\ used' = used + 1
    /\ Post(c, used')

\* The composer of a chat with a mutation offers nothing but the retry.
Retry(c) ==
    /\ selected = c /\ mutation[c] # None /\ mutation[c].state = "retryable"
    /\ Post(c, mutation[c].id)
    /\ UNCHANGED used

Select(c) ==
    /\ c # selected
    /\ selected' = c
    /\ UNCHANGED <<mutation, settled, used, call, bridgeVars, faults>>

-----------------------------------------------------------------------------
(* The panel: how a mutation ends.                                         *)

Settle(c, i) ==
    IF Pending(c, i)
    THEN /\ mutation' = [mutation EXCEPT ![c] = None]
         /\ settled' = settled \cup {i}
    ELSE UNCHANGED <<mutation, settled>>

\* The end of the panel's side of a call; the slot is free when the Bridge
\* has finished too.
Leave(s) ==
    call' = [call EXCEPT ![s] = IF @.bridge \in {"ok", "error"} THEN None
                                ELSE [@ EXCEPT !.panel = "gone"]]

Success(s) ==
    /\ call[s] # None /\ call[s].panel = "await" /\ call[s].bridge = "ok"
    /\ Settle(call[s].chat, call[s].id)
    /\ Leave(s)
    /\ UNCHANGED <<selected, used, bridgeVars, faults>>

\* Mutant: a call that fails while another chat is shown is only dropped.
FailureUnseen(s) ==
    LET k == call[s] IN
    /\ k # None /\ k.panel = "await"
    /\ \/ k.bridge = "error" /\ UNCHANGED faults
       \/ Fault
    /\ IF Pending(k.chat, k.id) /\ selected = k.chat
       THEN /\ mutation' = [mutation EXCEPT ![k.chat].state = "reconciling"]
            /\ call' = [call EXCEPT ![s].panel = "reconcile"]
       ELSE UNCHANGED mutation /\ Leave(s)
    /\ UNCHANGED <<selected, settled, used, bridgeVars>>

\* The call failed, or its answer was lost: a mutation that is still there
\* is reconciled by a refresh.
Failure(s) ==
    LET k == call[s] IN
    /\ k # None /\ k.panel = "await"
    /\ \/ k.bridge = "error" /\ UNCHANGED faults
       \/ Fault
    /\ IF Pending(k.chat, k.id)
       THEN /\ mutation' = [mutation EXCEPT ![k.chat].state = "reconciling"]
            /\ call' = [call EXCEPT ![s].panel = "reconcile"]
       ELSE UNCHANGED mutation /\ Leave(s)
    /\ UNCHANGED <<selected, settled, used, bridgeVars>>

\* Mutant: the end of the refresh is taken as proof of delivery.
ReconciledBlindly(s) ==
    LET k == call[s] IN
    /\ k # None /\ k.panel = "reconcile"
    /\ Settle(k.chat, k.id)
    /\ Leave(s)
    /\ UNCHANGED <<selected, used, bridgeVars, faults>>

\* The refresh is over: it showed the event, or it failed, was overtaken by
\* a newer one, showed another chat, or found no event.
Reconciled(s) ==
    LET k == call[s] IN
    /\ k # None /\ k.panel = "reconcile"
    /\ \/ /\ selected = k.chat /\ journal[k.id] > 0
          /\ Settle(k.chat, k.id)
       \/ /\ mutation' = IF Pending(k.chat, k.id)
                         THEN [mutation EXCEPT ![k.chat].state = "retryable"]
                         ELSE mutation
          /\ UNCHANGED settled
    /\ Leave(s)
    /\ UNCHANGED <<selected, used, bridgeVars, faults>>

\* A live event, a poll or a refresh shows message.created of the selected
\* chat's mutation, in whatever state that is.
Observe ==
    /\ mutation[selected] # None
    /\ journal[mutation[selected].id] > 0
    /\ Settle(selected, mutation[selected].id)
    /\ UNCHANGED <<selected, used, call, bridgeVars, faults>>

-----------------------------------------------------------------------------
(* The Bridge: submit_prompt.                                              *)

Answer(s, result) ==
    call' = [call EXCEPT ![s] = IF @.panel = "gone" THEN None
                                ELSE [@ EXCEPT !.bridge = result]]
At(s, step) == call[s] # None /\ call[s].bridge = step

\* A request whose id the table knows is answered from the table.
Replay(s) ==
    /\ ~fatal /\ table[call[s].id] # "none"
    /\ Answer(s, IF table[call[s].id] = "uncertain" THEN "error" ELSE "ok")
    /\ UNCHANGED <<panelVars, bridgeVars, faults>>

Refused(s) == Answer(s, "error") /\ UNCHANGED <<panelVars, bridgeVars>>

\* The first critical section.
Look(s) ==
    /\ At(s, "arrived")
    /\ \/ fatal /\ Refused(s) /\ UNCHANGED faults
       \/ Replay(s)
       \/ /\ ~fatal /\ table[call[s].id] = "none"
          /\ call' = [call EXCEPT ![s].bridge = "looked"]
          /\ UNCHANGED <<panelVars, bridgeVars, faults>>

\* A new run, committed with its message.created.
Accept(s) ==
    LET i == call[s].id
        c == call[s].chat
        Stored(m) == [m EXCEPT ![i] = "prompt"]
        Logged == [journal EXCEPT ![i] = @ + 1]
    IN
    /\ run[c] = None
    /\ UNCHANGED <<panelVars, turns>>
    /\ \/ /\ table' = Stored(table) /\ disk' = Stored(disk) /\ journal' = Logged
          /\ run' = [run EXCEPT ![c] = [id |-> i, state |-> "starting"]]
          /\ Answer(s, "ok")
          /\ UNCHANGED <<fatal, orphaned, faults>>
       \* the journal refuses, and the submission is rolled back
       \/ /\ Fault /\ Answer(s, "error")
          /\ UNCHANGED <<table, disk, journal, run, fatal, orphaned>>
       \* the outcome of the commit is unknown
       \/ /\ Fault /\ Answer(s, "error")
          /\ fatal' = TRUE /\ table' = Stored(table)
          /\ \/ disk' = Stored(disk) /\ journal' = Logged
             \/ UNCHANGED <<disk, journal>>
          /\ UNCHANGED <<run, orphaned>>
       \* committed, but the projection or the worker fails: rolled back, and
       \* the rollback's save may fail too
       \/ /\ Fault /\ Answer(s, "error")
          /\ journal' = Logged /\ orphaned' = orphaned \cup {i}
          /\ \/ UNCHANGED <<disk, fatal>>
             \/ disk' = Stored(disk) /\ fatal' = TRUE
          /\ UNCHANGED <<table, run>>

\* A follow-up to the running turn is first saved as uncertain.
BeginSteer(s) ==
    LET Marked(m) == [m EXCEPT ![call[s].id] = "uncertain"] IN
    /\ run[call[s].chat] # None /\ run[call[s].chat].state = "running"
    /\ \/ /\ table' = Marked(table) /\ disk' = Marked(disk)
          /\ call' = [call EXCEPT ![s].bridge = "steering",
                                  ![s].on = run[call[s].chat].id]
          /\ UNCHANGED <<fatal, faults>>
       \/ /\ Fault /\ table' = Marked(table) /\ fatal' = TRUE
          /\ disk' \in {disk, Marked(disk)}
          /\ Answer(s, "error")
    /\ UNCHANGED <<panelVars, journal, turns, run, orphaned>>

\* Mutant: the table is not read again after the account check.
SubmitUnchecked(s) ==
    /\ At(s, "looked")
    /\ \/ fatal /\ Refused(s) /\ UNCHANGED faults
       \/ Fault /\ Refused(s)
       \/ ~fatal /\ (Accept(s) \/ BeginSteer(s))
       \/ /\ run[call[s].chat] # None /\ run[call[s].chat].state = "starting"
          /\ Refused(s) /\ UNCHANGED faults

\* The second critical section, after the account check.
Submit(s) ==
    /\ At(s, "looked")
    /\ \/ fatal /\ Refused(s) /\ UNCHANGED faults
       \/ Fault /\ Refused(s)      \* no account
       \/ Replay(s)
       \/ /\ ~fatal /\ table[call[s].id] = "none"
          /\ \/ Fault /\ Refused(s)      \* the table is full of living chats
             \/ /\ run[call[s].chat] # None /\ run[call[s].chat].state = "starting"
                /\ Refused(s) /\ UNCHANGED faults
             \/ Accept(s) \/ BeginSteer(s)

\* The run whose turn the follow-up names is still the chat's.
OnTarget(s) == run[call[s].chat] # None /\ run[call[s].chat].id = call[s].on

\* turn/steer: the app server takes it if the turn it expects is running.
GiveSteer(s) ==
    /\ At(s, "steering") /\ OnTarget(s)
    /\ turns' = [turns EXCEPT ![call[s].id] = @ + 1]
    /\ call' = [call EXCEPT ![s].bridge = "steered"]
    /\ UNCHANGED <<panelVars, table, disk, journal, run, fatal, orphaned, faults>>

\* Its answer: the outcome is accepted, and saved with message.created
\* unless the journal refuses or the commit's outcome is unknown.
TakeSteer(s) ==
    LET i == call[s].id
        Taken(m) == [m EXCEPT ![i] = "steer"]
        Logged == [journal EXCEPT ![i] = @ + 1]
    IN
    /\ At(s, "steered")
    /\ table' = Taken(table)
    /\ \/ /\ disk' = Taken(disk) /\ journal' = Logged
          /\ Answer(s, "ok")
          /\ UNCHANGED <<fatal, faults>>
       \/ /\ Fault /\ Answer(s, "error")
          /\ UNCHANGED <<disk, journal, fatal>>
       \/ /\ Fault /\ Answer(s, "error") /\ fatal' = TRUE
          /\ \/ disk' = Taken(disk) /\ journal' = Logged
             \/ UNCHANGED <<disk, journal>>
    /\ UNCHANGED <<panelVars, turns, run, orphaned>>

\* No answer, or not the expected turn: the generation is aborted, the run
\* ends and the outcome stays uncertain.
SteerFails(s) ==
    /\ \/ At(s, "steering") /\ ~OnTarget(s) /\ UNCHANGED faults
       \/ (At(s, "steering") \/ At(s, "steered")) /\ Fault
    /\ run' = IF OnTarget(s) THEN [run EXCEPT ![call[s].chat] = None] ELSE run
    /\ Answer(s, "error")
    /\ UNCHANGED <<panelVars, table, disk, journal, turns, fatal, orphaned>>

-----------------------------------------------------------------------------
(* The Bridge: the run itself, and restarts.                               *)

StartTurn(c) ==
    /\ ~fatal /\ run[c] # None /\ run[c].state = "starting"
    /\ run' = [run EXCEPT ![c].state = "running"]
    /\ turns' = [turns EXCEPT ![run[c].id] = @ + 1]
    /\ UNCHANGED <<panelVars, call, table, disk, journal, fatal, orphaned, faults>>

EndRun(c) ==
    /\ run[c] # None
    /\ run' = [run EXCEPT ![c] = None]
    /\ UNCHANGED <<panelVars, call, table, disk, journal, turns, fatal, orphaned, faults>>

\* The process starts again with the saved table; its runs are interrupted,
\* and the panel's open calls fail.
Restart ==
    /\ IF fatal THEN UNCHANGED faults ELSE Fault
    /\ fatal' = FALSE
    /\ table' = disk
    /\ run' = [c \in Chat |-> None]
    /\ call' = [s \in Slot |->
                  IF call[s] = None \/ call[s].panel = "gone" THEN None
                  ELSE [call[s] EXCEPT !.bridge = "error"]]
    /\ UNCHANGED <<panelVars, disk, journal, turns, orphaned>>

BridgeStep(s) == Look(s) \/ Submit(s) \/ GiveSteer(s) \/ TakeSteer(s) \/ SteerFails(s)
PanelStep(s) == Success(s) \/ Failure(s) \/ Reconciled(s)

Next ==
    \/ \E c \in Chat : Send(c) \/ Retry(c) \/ Select(c) \/ StartTurn(c) \/ EndRun(c)
    \/ Observe
    \/ \E s \in Slot : BridgeStep(s) \/ PanelStep(s)
    \/ Restart

Spec == Init /\ [][Next]_vars
FairSpec == Spec /\ \A s \in Slot : WF_vars(BridgeStep(s)) /\ WF_vars(PanelStep(s))

-----------------------------------------------------------------------------
\* However often a request is repeated, by retries that overtake a request
\* still in the Bridge, across refusals, failed saves and restarts: Codex is
\* given a prompt at most once (submit_prompt's two looks at the table), and
\* the chat shows it at most once, unless its run was rolled back after the
\* commit.
PromptOnce ==
    \A i \in Id :
        /\ turns[i] <= 1
        /\ i \notin orphaned => journal[i] <= 1

\* A prompt that the panel takes as delivered, so that the user will not send
\* it again, is in the Bridge's table and survives a restart there; and a
\* follow-up that was taken has reached Codex (_settlePromptMutation against
\* submit_prompt).  The exception is the rollback after the commit, whose
\* event settles a prompt that nobody will run.
SettledIsOwned ==
    /\ \A i \in settled \ orphaned :
          /\ table[i] # "none" /\ disk[i] # "none"
          /\ table[i] = "uncertain" => turns[i] = 1
    /\ \A i \in Id : table[i] = "steer" => turns[i] = 1

\* The composer never stays locked in "sending" or "reconciling": every
\* mutation is settled or offers the retry (_sendPrompt's catch block).
SendAnswered ==
    \A c \in Chat :
        (mutation[c] # None /\ mutation[c].state # "retryable")
            ~> (mutation[c] = None \/ mutation[c].state = "retryable")
=============================================================================
