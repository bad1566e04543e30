------------------------ MODULE PromptDeliveryProofs ------------------------
(***************************************************************************)
(* Proofs about PromptDelivery, for any number of chats, requests under    *)
(* way, client request ids and faults.                                     *)
(***************************************************************************)
EXTENDS PromptDelivery, TLAPS

\* What holds of a prompt that may be taken as delivered.  No step undoes it.
Safe(i) ==
    /\ table[i] # "none" /\ disk[i] # "none"
    /\ "uncertain" \in {table[i], disk[i]} => turns[i] = 1

\* The same of the next state.
SafeNext(i) ==
    /\ table'[i] # "none" /\ disk'[i] # "none"
    /\ "uncertain" \in {table'[i], disk'[i]} => turns'[i] = 1

Steering(s) == call[s] # None /\ call[s].bridge \in {"steering", "steered"}

\* A run is the only one of its prompt, which is in the table and saved.
RunOwns ==
    \A c \in Chat : run[c] # None =>
        /\ table[run[c].id] = "prompt" /\ disk[run[c].id] = "prompt"
        /\ run[c].state = "starting" => turns[run[c].id] = 0
        /\ \A d \in Chat : run[d] # None /\ run[d].id = run[c].id => d = c

\* A follow-up on its way is the only one of its prompt and saved as uncertain.
SteerOwns ==
    \A s \in Slot : Steering(s) =>
        /\ table[call[s].id] = "uncertain" /\ disk[call[s].id] = "uncertain"
        /\ turns[call[s].id] = IF call[s].bridge = "steered" THEN 1 ELSE 0
        /\ call[s].id \notin orphaned => journal[call[s].id] = 0
        /\ \A t \in Slot : Steering(t) /\ call[t].id = call[s].id => t = s

\* The table in memory against the saved one and what Codex was given.
TableExact ==
    \A i \in Id :
        /\ turns[i] \in {0, 1}
        /\ turns[i] = 1 => table[i] # "none" /\ disk[i] # "none"
        /\ "steer" \in {table[i], disk[i]} => turns[i] = 1
        /\ disk[i] = "uncertain" => table[i] \in {"uncertain", "steer"}
        /\ ~fatal /\ table[i] # "none" => disk[i] # "none"

\* What the panel may have seen of a prompt is true of it.
Shown ==
    /\ \A i \in Id \ orphaned :
          /\ journal[i] \in {0, 1}
          /\ i \in settled \/ journal[i] = 1 => Safe(i)
    /\ \A s \in Slot : call[s] # None /\ call[s].bridge = "ok" => Safe(call[s].id)

PromptInv == TypeOK /\ RunOwns /\ SteerOwns /\ TableExact /\ Shown

-----------------------------------------------------------------------------
(* Types, and what a step does to one slot.                                *)

Calls == [Slot -> Call \cup {None}]
Mutations == [Chat -> Mutation \cup {None}]
Tables == [Id -> Outcomes]

\* The Bridge answers a call: it is over for the Bridge, and gone if the panel
\* has left it.
LEMMA AnswerEffect ==
    ASSUME TypeOK, NEW s \in Slot, call[s] # None, NEW r \in {"ok", "error"}, Answer(s, r)
    PROVE  /\ call' \in Calls
           /\ \A t \in Slot \ {s} : call'[t] = call[t]
           /\ \/ call'[s] = None
              \/ call'[s] \in Call /\ call'[s].bridge = r /\ call'[s].id = call[s].id
  BY DEF Answer, TypeOK, Calls, Call

\* The panel leaves a call: the Bridge's side of it goes on.
LEMMA LeaveEffect ==
    ASSUME TypeOK, NEW s \in Slot, call[s] # None, Leave(s)
    PROVE  /\ call' \in Calls
           /\ \A t \in Slot \ {s} : call'[t] = call[t]
           /\ \/ call'[s] = None
              \/ /\ call'[s] \in Call /\ call'[s].bridge = call[s].bridge
                 /\ call'[s].id = call[s].id
  BY DEF Leave, TypeOK, Calls, Call

\* The Bridge's side of a call moves on.
LEMMA AdvanceEffect ==
    ASSUME TypeOK, NEW s \in Slot, call[s] # None,
           NEW r \in {"looked", "steered"}, call' = [call EXCEPT ![s].bridge = r]
    PROVE  /\ call' \in Calls
           /\ \A t \in Slot \ {s} : call'[t] = call[t]
           /\ call'[s] \in Call /\ call'[s].bridge = r /\ call'[s].id = call[s].id
  BY DEF TypeOK, Calls, Call

\* A mutation is settled, or stays.
LEMMA SettleType ==
    ASSUME TypeOK, NEW c \in Chat, NEW i \in Id, Settle(c, i)
    PROVE  /\ mutation' \in Mutations /\ settled' \in SUBSET Id
           /\ settled' \subseteq settled \cup {i}
  BY DEF Settle, TypeOK, Mutations

\* The initial state is well typed.
LEMMA TypeInit == Init => TypeOK
<1> SUFFICES ASSUME Init PROVE TypeOK OBVIOUS
<1>1. used \in 0..MaxIds BY PromptAssumption DEF Init
<1>2. table \in Tables /\ disk \in Tables BY DEF Init, Tables, Outcomes
<1>3. journal \in [Id -> Nat] /\ turns \in [Id -> Nat] /\ faults \in Nat BY DEF Init
<1> QED BY <1>1, <1>2, <1>3 DEF Init, TypeOK, Tables

\* Faults are counted.
LEMMA FaultType == ASSUME TypeOK, Fault \/ UNCHANGED faults PROVE faults' \in Nat
  BY DEF Fault, TypeOK

\* The composer and the selection.
LEMMA ComposerTypes ==
    ASSUME TypeOK, NEW c \in Chat, Send(c) \/ Retry(c) \/ Select(c)
    PROVE  TypeOK'
<1>1. ASSUME NEW i \in Id, Post(c, i)
      PROVE  /\ call' \in Calls /\ mutation' \in Mutations
             /\ UNCHANGED <<selected, settled, bridgeVars, faults>>
  <2>1. PICK s \in Slot :
           call' = [call EXCEPT ![s] = [id |-> i, chat |-> c, panel |-> "await",
                                        bridge |-> "arrived", on |-> None]]
    BY <1>1 DEF Post
  <2>2. /\ [id |-> i, chat |-> c, panel |-> "await", bridge |-> "arrived", on |-> None] \in Call
        /\ [id |-> i, state |-> "sending"] \in Mutation
    BY DEF Call, Mutation
  <2> QED BY <1>1, <2>1, <2>2 DEF Post, TypeOK, Calls, Mutations
<1>2. CASE Send(c)
  <2>1. used' \in Id /\ used' \in 0..MaxIds BY <1>2, PromptAssumption DEF Send, TypeOK, Id
  <2> QED BY <1>1, <1>2, <2>1 DEF Send, TypeOK, bridgeVars, Calls, Mutations
<1>3. CASE Retry(c)
  <2>1. mutation[c].id \in Id BY <1>3 DEF Retry, TypeOK, Mutation
  <2> QED BY <1>1, <1>3, <2>1 DEF Retry, TypeOK, bridgeVars, Calls, Mutations
<1>4. CASE Select(c) BY <1>4 DEF Select, TypeOK, bridgeVars
<1> QED BY <1>2, <1>3, <1>4

\* The panel's side of a call.
LEMMA PanelTypes ==
    ASSUME TypeOK, Observe \/ \E s \in Slot : PanelStep(s)
    PROVE  TypeOK'
<1>1. CASE Observe
  <2>1. selected \in Chat /\ mutation[selected].id \in Id
    BY <1>1 DEF Observe, TypeOK, Mutation
  <2>2. Settle(selected, mutation[selected].id)
        /\ UNCHANGED <<selected, used, call, bridgeVars, faults>>
    BY <1>1 DEF Observe
  <2> QED BY <2>1, <2>2, SettleType DEF TypeOK, bridgeVars, Mutations
<1>2. ASSUME NEW s \in Slot, PanelStep(s) PROVE TypeOK'
  <2> DEFINE k == call[s]
  <2>1. k # None /\ k \in Call /\ k.chat \in Chat /\ k.id \in Id
    BY <1>2 DEF PanelStep, Success, Failure, Reconciled, TypeOK, Call
  <2>2. UNCHANGED <<selected, used, bridgeVars>> /\ faults' \in Nat
    BY <1>2, FaultType DEF PanelStep, Success, Failure, Reconciled
  <2>3. call' \in Calls
    <3>1. CASE Leave(s) BY <2>1, <3>1, LeaveEffect
    <3>2. CASE call' = [call EXCEPT ![s].panel = "reconcile"]
      BY <2>1, <3>2 DEF TypeOK, Calls, Call
    <3> QED BY <1>2, <3>1, <3>2 DEF PanelStep, Success, Failure, Reconciled
  <2>4. mutation' \in Mutations /\ settled' \in SUBSET Id
    <3>1. CASE Settle(k.chat, k.id) BY <2>1, <3>1, SettleType
    <3>2. CASE UNCHANGED <<mutation, settled>> BY <3>2 DEF TypeOK, Mutations
    <3>3. CASE /\ Pending(k.chat, k.id) /\ UNCHANGED settled
               /\ \E r \in {"reconciling", "retryable"} :
                     mutation' = [mutation EXCEPT ![k.chat].state = r]
      BY <2>1, <3>3 DEF Pending, TypeOK, Mutations, Mutation
    <3> QED BY <1>2, <3>1, <3>2, <3>3 DEF PanelStep, Success, Failure, Reconciled
  <2> QED BY <2>2, <2>3, <2>4 DEF TypeOK, bridgeVars, Mutations, Calls
<1> QED BY <1>1, <1>2

\* One entry of a table, of the events or of the turns changes.
LEMMA EntryType ==
    ASSUME TypeOK, NEW i \in Id, NEW r \in Outcomes
    PROVE  /\ [table EXCEPT ![i] = r] \in Tables /\ [disk EXCEPT ![i] = r] \in Tables
           /\ [journal EXCEPT ![i] = @ + 1] \in [Id -> Nat]
           /\ [turns EXCEPT ![i] = @ + 1] \in [Id -> Nat]
  BY DEF TypeOK, Tables

\* submit_prompt.
LEMMA AcceptTypes ==
    ASSUME TypeOK, NEW s \in Slot, call[s] # None, Accept(s) PROVE TypeOK'
<1> DEFINE i == call[s].id
           c == call[s].chat
<1>1. call[s] \in Call /\ i \in Id /\ c \in Chat BY DEF TypeOK, Call
<1>2. call' \in Calls
  <2>1. Answer(s, "ok") \/ Answer(s, "error") BY DEF Accept
  <2> QED BY <2>1, AnswerEffect
<1>3. /\ [table EXCEPT ![i] = "prompt"] \in Tables /\ [disk EXCEPT ![i] = "prompt"] \in Tables
      /\ [journal EXCEPT ![i] = @ + 1] \in [Id -> Nat]
  BY <1>1, EntryType DEF Outcomes
<1>4. /\ table' \in Tables /\ disk' \in Tables /\ journal' \in [Id -> Nat]
  BY <1>3 DEF Accept, TypeOK, Tables
<1>5. run' \in [Chat -> Run \cup {None}]
  <2>1. [id |-> i, state |-> "starting"] \in Run BY <1>1 DEF Run
  <2> QED BY <1>1, <2>1 DEF Accept, TypeOK
<1>6. faults' \in Nat BY FaultType DEF Accept
<1>7. fatal' \in BOOLEAN /\ orphaned' \in SUBSET Id BY <1>1 DEF Accept, TypeOK
<1>8. UNCHANGED <<panelVars, turns>> BY DEF Accept
<1> QED BY <1>2, <1>4, <1>5, <1>6, <1>7, <1>8 DEF TypeOK, panelVars, Calls, Tables

\* A follow-up is saved as uncertain, or its save fails and is fatal.
LEMMA BeginSteerEffect ==
    ASSUME TypeOK, NEW s \in Slot, call[s] # None, BeginSteer(s)
    PROVE  /\ call' \in Calls
           /\ \A t \in Slot \ {s} : call'[t] = call[t]
           /\ \/ /\ call'[s] \in Call /\ call'[s].bridge = "steering"
                 /\ call'[s].id = call[s].id
                 /\ disk' = [disk EXCEPT ![call[s].id] = "uncertain"]
                 /\ UNCHANGED fatal
              \/ /\ call'[s] # None => call'[s].bridge = "error" /\ call'[s] \in Call
                 /\ disk' \in {disk, [disk EXCEPT ![call[s].id] = "uncertain"]}
                 /\ fatal' = TRUE
           /\ table' = [table EXCEPT ![call[s].id] = "uncertain"]
           /\ UNCHANGED <<panelVars, journal, turns, run, orphaned>>
           /\ Fault \/ UNCHANGED faults
<1>1. call[s] \in Call /\ call \in Calls /\ call[s].chat \in Chat BY DEF TypeOK, Call, Calls
<1>2. run[call[s].chat] \in Run /\ run[call[s].chat].id \in Id
  BY <1>1 DEF BeginSteer, TypeOK, Run
<1>3. CASE call' = [call EXCEPT ![s].bridge = "steering", ![s].on = run[call[s].chat].id]
  <2>1. /\ call' \in Calls
        /\ \A t \in Slot \ {s} : call'[t] = call[t]
        /\ call'[s] \in Call /\ call'[s].bridge = "steering" /\ call'[s].id = call[s].id
    BY <1>1, <1>2, <1>3 DEF Calls, Call
  <2>2. ~Answer(s, "error")
    BY <2>1, NoneAssumption, AnswerEffect DEF Call
  <2> QED BY <2>1, <2>2 DEF BeginSteer
<1>4. CASE Answer(s, "error") /\ fatal' = TRUE /\ Fault
           /\ disk' \in {disk, [disk EXCEPT ![call[s].id] = "uncertain"]}
  BY <1>4, AnswerEffect DEF BeginSteer
<1> QED BY <1>3, <1>4 DEF BeginSteer

\* It keeps the types ...
LEMMA BeginSteerTypes ==
    ASSUME TypeOK, NEW s \in Slot, call[s] # None, BeginSteer(s) PROVE TypeOK'
<1>1. call[s].id \in Id BY DEF TypeOK, Call
<1>2. /\ [table EXCEPT ![call[s].id] = "uncertain"] \in Tables
      /\ [disk EXCEPT ![call[s].id] = "uncertain"] \in Tables
  BY <1>1, EntryType DEF Outcomes
<1>3. table' \in Tables /\ disk' \in Tables /\ fatal' \in BOOLEAN
  BY <1>2, BeginSteerEffect DEF TypeOK, Tables
<1>4. faults' \in Nat BY BeginSteerEffect, FaultType
<1> QED BY <1>3, <1>4, BeginSteerEffect DEF TypeOK, panelVars, Calls, Tables

\* ... and so do both critical sections ...
LEMMA SubmitTypes ==
    ASSUME TypeOK, NEW s \in Slot, Look(s) \/ Submit(s) PROVE TypeOK'
<1>1. call[s] # None /\ call[s] \in Call BY DEF Look, Submit, At, TypeOK
<1>2. ASSUME UNCHANGED <<panelVars, bridgeVars>>, call' \in Calls, Fault \/ UNCHANGED faults
      PROVE  TypeOK'
  BY <1>2, FaultType DEF TypeOK, panelVars, bridgeVars, Calls
<1>3. CASE Refused(s) /\ (Fault \/ UNCHANGED faults)
  BY <1>1, <1>2, <1>3, AnswerEffect DEF Refused
<1>4. CASE Replay(s)
  <2>1. Answer(s, "ok") \/ Answer(s, "error") BY <1>4 DEF Replay
  <2> QED BY <1>1, <1>2, <1>4, <2>1, AnswerEffect DEF Replay
<1>5. CASE call' = [call EXCEPT ![s].bridge = "looked"]
           /\ UNCHANGED <<panelVars, bridgeVars, faults>>
  BY <1>1, <1>2, <1>5, AdvanceEffect
<1>6. CASE Accept(s) \/ BeginSteer(s) BY <1>1, <1>6, AcceptTypes, BeginSteerTypes
<1> QED BY <1>3, <1>4, <1>5, <1>6 DEF Look, Submit

\* ... the rest of a follow-up ...
LEMMA SteerTypes ==
    ASSUME TypeOK, NEW s \in Slot, GiveSteer(s) \/ TakeSteer(s) \/ SteerFails(s)
    PROVE  TypeOK'
<1>1. call[s] # None /\ call[s] \in Call /\ call[s].id \in Id /\ call[s].chat \in Chat
  BY DEF GiveSteer, TakeSteer, SteerFails, At, TypeOK, Call
<1>2. CASE GiveSteer(s)
  <2>1. call' \in Calls BY <1>1, <1>2, AdvanceEffect DEF GiveSteer
  <2>2. turns' \in [Id -> Nat] BY <1>1, <1>2 DEF GiveSteer, TypeOK
  <2> QED BY <1>2, <2>1, <2>2 DEF GiveSteer, TypeOK, panelVars, Calls
<1>3. CASE TakeSteer(s)
  <2>1. Answer(s, "ok") \/ Answer(s, "error") BY <1>3 DEF TakeSteer
  <2>2. call' \in Calls BY <1>1, <2>1, AnswerEffect
  <2>3. /\ [table EXCEPT ![call[s].id] = "steer"] \in Tables
        /\ [disk EXCEPT ![call[s].id] = "steer"] \in Tables
        /\ [journal EXCEPT ![call[s].id] = @ + 1] \in [Id -> Nat]
    BY <1>1, EntryType DEF Outcomes
  <2>4. table' \in Tables /\ disk' \in Tables /\ journal' \in [Id -> Nat]
    BY <1>3, <2>3 DEF TakeSteer, TypeOK, Tables
  <2>5. faults' \in Nat /\ fatal' \in BOOLEAN BY <1>3, FaultType DEF TakeSteer, TypeOK
  <2> QED BY <1>3, <2>2, <2>4, <2>5 DEF TakeSteer, TypeOK, panelVars, Calls, Tables
<1>4. CASE SteerFails(s)
  <2>1. call' \in Calls BY <1>1, <1>4, AnswerEffect DEF SteerFails
  <2>2. run' \in [Chat -> Run \cup {None}] BY <1>1, <1>4 DEF SteerFails, TypeOK
  <2>3. faults' \in Nat BY <1>4, FaultType DEF SteerFails
  <2> QED BY <1>4, <2>1, <2>2, <2>3 DEF SteerFails, TypeOK, panelVars, Calls
<1> QED BY <1>2, <1>3, <1>4

\* ... the run and the restart.
LEMMA RunTypes ==
    ASSUME TypeOK, Restart \/ \E c \in Chat : StartTurn(c) \/ EndRun(c)
    PROVE  TypeOK'
<1>1. ASSUME NEW c \in Chat, StartTurn(c) PROVE TypeOK'
  <2>1. run[c] \in Run /\ run[c].id \in Id BY <1>1 DEF StartTurn, TypeOK, Run
  <2>2. run' \in [Chat -> Run \cup {None}] BY <1>1, <2>1 DEF StartTurn, TypeOK, Run
  <2>3. turns' \in [Id -> Nat] BY <1>1, <2>1 DEF StartTurn, TypeOK
  <2> QED BY <1>1, <2>2, <2>3 DEF StartTurn, TypeOK, panelVars
<1>2. ASSUME NEW c \in Chat, EndRun(c) PROVE TypeOK'
  BY <1>2 DEF EndRun, TypeOK, panelVars
<1>3. CASE Restart
  <2>1. \A s \in Slot : call[s] # None => [call[s] EXCEPT !.bridge = "error"] \in Call
    BY DEF TypeOK, Call
  <2>2. call' \in Calls BY <1>3, <2>1 DEF Restart, TypeOK, Calls
  <2>3. faults' \in Nat BY <1>3, FaultType DEF Restart
  <2> QED BY <1>3, <2>2, <2>3 DEF Restart, TypeOK, panelVars, Calls
<1> QED BY <1>1, <1>2, <1>3

\* Every step keeps the types.
LEMMA TypeStep == TypeOK /\ [Next]_vars => TypeOK'
<1> SUFFICES ASSUME TypeOK, [Next]_vars PROVE TypeOK' OBVIOUS
<1>1. CASE UNCHANGED vars BY <1>1 DEF vars, panelVars, bridgeVars, TypeOK
<1>2. CASE Next
  BY <1>2, ComposerTypes, PanelTypes, SubmitTypes, SteerTypes, RunTypes
  DEF Next, BridgeStep
<1> QED BY <1>1, <1>2

-----------------------------------------------------------------------------
(* The invariant.                                                          *)

\* Nothing was sent yet.
LEMMA InvInit == Init => PromptInv
<1> SUFFICES ASSUME Init PROVE PromptInv OBVIOUS
<1>1. TypeOK BY TypeInit
<1>2. RunOwns /\ SteerOwns BY DEF Init, RunOwns, SteerOwns, Steering
<1>3. TableExact BY DEF Init, TableExact
<1>4. Shown BY DEF Init, Shown
<1> QED BY <1>1, <1>2, <1>3, <1>4 DEF PromptInv

\* Steps that leave the Bridge's state alone: a call may be answered with
\* success, and a prompt settled, only if it is safe.
LEMMA QuietStep ==
    ASSUME PromptInv, TypeOK', UNCHANGED bridgeVars,
           \A s \in Slot :
              call'[s] # None /\ call'[s].bridge \in {"steering", "steered", "ok"} =>
                 \/ /\ call[s] # None /\ call'[s].bridge = call[s].bridge
                    /\ call'[s].id = call[s].id
                 \/ call'[s].bridge = "ok" /\ Safe(call'[s].id),
           \A i \in settled' : i \in settled \cup orphaned \/ Safe(i)
    PROVE  PromptInv'
<1>1. UNCHANGED <<table, disk, journal, turns, run, fatal, orphaned>> BY DEF bridgeVars
<1>2. RunOwns' BY <1>1 DEF PromptInv, RunOwns
<1>3. SteerOwns' BY <1>1 DEF PromptInv, SteerOwns, Steering
<1>4. TableExact' BY <1>1 DEF PromptInv, TableExact
<1>5. \A i : Safe(i)' <=> Safe(i) BY <1>1 DEF Safe
<1>6. Shown' BY <1>1, <1>5 DEF PromptInv, Shown
<1> QED BY <1>2, <1>3, <1>4, <1>6 DEF PromptInv

\* The composer, the selection and the panel's side of the calls.
LEMMA ComposerStep ==
    ASSUME PromptInv, TypeOK', NEW c \in Chat, Send(c) \/ Retry(c) \/ Select(c)
    PROVE  PromptInv'
<1>1. ASSUME NEW i, Post(c, i) PROVE PromptInv'
  <2>1. PICK s \in Slot :
           call' = [call EXCEPT ![s] = [id |-> i, chat |-> c, panel |-> "await",
                                        bridge |-> "arrived", on |-> None]]
    BY <1>1 DEF Post
  <2>2. UNCHANGED bridgeVars /\ UNCHANGED settled BY <1>1 DEF Post
  <2>3. \A t \in Slot : call'[t] = call[t] \/ call'[t].bridge = "arrived"
    BY <2>1 DEF PromptInv, TypeOK
  <2> QED BY <2>2, <2>3, QuietStep
<1>2. CASE Select(c)
  <2>1. UNCHANGED bridgeVars /\ UNCHANGED <<settled, call>> BY <1>2 DEF Select
  <2> QED BY <2>1, QuietStep
<1> QED BY <1>1, <1>2 DEF Send, Retry

\* The panel's side of a call settles only what is safe.
LEMMA PanelsStep ==
    ASSUME PromptInv, TypeOK', Observe \/ \E s \in Slot : PanelStep(s)
    PROVE  PromptInv'
<1>1. \A i \in Id : journal[i] > 0 => i \in orphaned \/ Safe(i)
  BY DEF PromptInv, Shown, TypeOK
<1>2. CASE Observe
  <2>1. selected \in Chat /\ mutation[selected].id \in Id
    BY <1>2 DEF Observe, PromptInv, TypeOK, Mutation
  <2>2. UNCHANGED bridgeVars /\ UNCHANGED call BY <1>2 DEF Observe
  <2>3. settled' \subseteq settled \cup {mutation[selected].id}
    BY <1>2 DEF Observe, Settle
  <2> QED BY <1>1, <1>2, <2>1, <2>2, <2>3, QuietStep DEF Observe
<1>3. ASSUME NEW s \in Slot, PanelStep(s) PROVE PromptInv'
  <2> DEFINE k == call[s]
  <2>1. k # None /\ k \in Call /\ k.chat \in Chat /\ k.id \in Id /\ TypeOK
    BY <1>3 DEF PanelStep, Success, Failure, Reconciled, PromptInv, TypeOK, Call
  <2>2. UNCHANGED bridgeVars BY <1>3 DEF PanelStep, Success, Failure, Reconciled
  <2>3. /\ \A t \in Slot \ {s} : call'[t] = call[t]
        /\ \/ call'[s] = None
           \/ call'[s].bridge = k.bridge /\ call'[s].id = k.id
    <3>1. CASE Leave(s) BY <2>1, <3>1, LeaveEffect
    <3>2. CASE call' = [call EXCEPT ![s].panel = "reconcile"]
      BY <2>1, <3>2 DEF TypeOK, Call
    <3> QED BY <1>3, <3>1, <3>2 DEF PanelStep, Success, Failure, Reconciled
  <2>4. \/ UNCHANGED settled
        \/ settled' \subseteq settled \cup {k.id} /\ (k.bridge = "ok" \/ journal[k.id] > 0)
    BY <1>3 DEF PanelStep, Success, Failure, Reconciled, Settle
  <2>5. k.bridge = "ok" => Safe(k.id) BY <2>1 DEF PromptInv, Shown
  <2>6. \A i \in settled' : i \in settled \cup orphaned \/ Safe(i)
    BY <1>1, <2>1, <2>4, <2>5
  <2> QED BY <2>1, <2>2, <2>3, <2>6, QuietStep
<1> QED BY <1>2, <1>3

\* What the panel was shown stays true when safe prompts stay safe.
LEMMA ShownKept ==
    ASSUME PromptInv, UNCHANGED settled, orphaned \subseteq orphaned',
           \A i \in Id : Safe(i) => SafeNext(i),
           \A i \in Id \ orphaned' : \/ journal'[i] = journal[i]
                                     \/ journal[i] = 0 /\ journal'[i] = 1 /\ SafeNext(i),
           \A s \in Slot : call'[s] # None /\ call'[s].bridge = "ok" => SafeNext(call'[s].id)
    PROVE  Shown'
<1>1. \A i \in Id : i \in settled' \/ journal'[i] = 1 => i \in orphaned' \/ SafeNext(i)
  BY DEF PromptInv, Shown
<1>2. \A i \in Id \ orphaned' : journal'[i] \in {0, 1} BY DEF PromptInv, Shown
<1> QED BY <1>1, <1>2 DEF Shown, Safe, SafeNext

\* A prompt the table does not know is nowhere else either.
LEMMA Unknown ==
    ASSUME PromptInv, NEW i \in Id, table[i] = "none"
    PROVE  /\ turns[i] = 0 /\ disk[i] \in {"none", "prompt"}
           /\ i \notin orphaned => journal[i] = 0
           /\ \A c \in Chat : run[c] # None => run[c].id # i
           /\ \A s \in Slot : Steering(s) => call[s].id # i
           /\ \A s \in Slot : call[s] # None /\ call[s].bridge = "ok" => call[s].id # i
           /\ i \in settled => i \in orphaned
           /\ ~Safe(i)
<1>1. turns[i] = 0 BY DEF PromptInv, TableExact
<1>2. disk[i] \in {"none", "prompt"} BY <1>1 DEF PromptInv, TableExact, TypeOK, Outcomes
<1>3. ~Safe(i) BY DEF Safe
<1>4. \A c \in Chat : run[c] # None => run[c].id # i BY DEF PromptInv, RunOwns
<1>5. \A s \in Slot : Steering(s) => call[s].id # i BY DEF PromptInv, SteerOwns
<1>6. /\ i \notin orphaned => journal[i] = 0
      /\ i \in settled => i \in orphaned
      /\ \A s \in Slot : call[s] # None /\ call[s].bridge = "ok" => call[s].id # i
  BY <1>3 DEF PromptInv, Shown
<1> QED BY <1>1, <1>2, <1>3, <1>4, <1>5, <1>6

\* A new run.
LEMMA AcceptStep ==
    ASSUME PromptInv, TypeOK', NEW s \in Slot, At(s, "looked"), Accept(s),
           table[call[s].id] = "none", ~fatal
    PROVE  PromptInv'
<1> DEFINE i == call[s].id
           c == call[s].chat
<1>1. call[s] # None /\ call[s] \in Call /\ i \in Id /\ c \in Chat /\ TypeOK
  BY DEF At, PromptInv, TypeOK, Call
<1>2. /\ \A j \in Id \ {i} : /\ table'[j] = table[j] /\ disk'[j] = disk[j]
                             /\ journal'[j] = journal[j]
      /\ UNCHANGED <<turns, settled>> /\ orphaned' \in {orphaned, orphaned \cup {i}}
  BY <1>1 DEF Accept, TypeOK, panelVars
<1>3. /\ table'[i] \in {"none", "prompt"} /\ disk'[i] \in {disk[i], "prompt"}
      /\ \/ journal'[i] = journal[i]
         \/ /\ journal'[i] = journal[i] + 1
            /\ i \in orphaned' \/ (table'[i] = "prompt" /\ disk'[i] = "prompt")
      /\ table'[i] = "prompt" => disk'[i] = "prompt" \/ fatal'
  <2>1. [table EXCEPT ![i] = "prompt"][i] = "prompt" /\ [disk EXCEPT ![i] = "prompt"][i] = "prompt"
        /\ [journal EXCEPT ![i] = @ + 1][i] = journal[i] + 1
    BY <1>1 DEF TypeOK
  <2> QED BY <2>1 DEF Accept
<1>4. \/ UNCHANGED run
      \/ /\ run' = [run EXCEPT ![c] = [id |-> i, state |-> "starting"]]
         /\ table'[i] = "prompt" /\ disk'[i] = "prompt"
  BY <1>1 DEF Accept, TypeOK
<1>5. /\ \A t \in Slot \ {s} : call'[t] = call[t]
      /\ call'[s] # None =>
           /\ call'[s].bridge \in {"ok", "error"} /\ call'[s].id = i
           /\ call'[s].bridge = "ok" => table'[i] = "prompt" /\ disk'[i] = "prompt"
  <2>1. CASE Answer(s, "error") BY <1>1, <2>1, AnswerEffect
  <2>2. CASE Answer(s, "ok") /\ table'[i] = "prompt" /\ disk'[i] = "prompt"
    BY <1>1, <2>2, AnswerEffect
  <2> QED BY <1>1, <2>1, <2>2 DEF Accept, TypeOK
<1>6. /\ turns[i] = 0 /\ disk[i] \in {"none", "prompt"} /\ (i \notin orphaned => journal[i] = 0)
      /\ ~Safe(i)
      /\ \A d \in Chat : run[d] # None => run[d].id # i
      /\ \A t \in Slot : Steering(t) => call[t].id # i
      /\ \A t \in Slot : call[t] # None /\ call[t].bridge = "ok" => call[t].id # i
  BY <1>1, Unknown
<1>7. RunOwns'
  <2>1. CASE UNCHANGED run
    BY <1>2, <1>6, <2>1 DEF PromptInv, RunOwns, TypeOK, Run
  <2>2. CASE /\ run' = [run EXCEPT ![c] = [id |-> i, state |-> "starting"]]
             /\ table'[i] = "prompt" /\ disk'[i] = "prompt"
    <3>1. /\ run'[c].id = i
          /\ \A d \in Chat \ {c} : run'[d] = run[d]
      BY <1>1, <2>2 DEF TypeOK
    <3>2. \A d \in Chat \ {c} : run[d] # None => run[d].id \in Id \ {i}
      BY <1>6 DEF PromptInv, TypeOK, Run
    <3> QED BY <1>1, <1>2, <1>6, <2>2, <3>1, <3>2 DEF PromptInv, RunOwns
  <2> QED BY <1>4, <2>1, <2>2
<1>8. SteerOwns'
  <2>1. \A t \in Slot : Steering(t)' => /\ Steering(t) /\ call'[t] = call[t]
                                        /\ call[t].id \in Id \ {i}
    BY <1>5, <1>6 DEF Steering, PromptInv, TypeOK, Call
  <2> QED BY <1>2, <2>1 DEF PromptInv, SteerOwns
<1>9. TableExact' BY <1>1, <1>2, <1>3, <1>6 DEF PromptInv, TableExact
<1>10. Shown'
  <2>1. \A j \in Id \ {i} : SafeNext(j) <=> Safe(j) BY <1>2 DEF Safe, SafeNext
  <2>2. table'[i] = "prompt" /\ disk'[i] = "prompt" => SafeNext(i) BY DEF SafeNext
  <2>3. \A j \in Id \ orphaned' : \/ journal'[j] = journal[j]
                                  \/ journal[j] = 0 /\ journal'[j] = 1 /\ SafeNext(j)
    BY <1>2, <1>3, <1>6, <2>2
  <2>4. \A t \in Slot : call'[t] # None /\ call'[t].bridge = "ok" => SafeNext(call'[t].id)
    <3>1. \A t \in Slot \ {s} : call[t] # None /\ call[t].bridge = "ok" =>
                                   call[t].id \in Id \ {i} /\ Safe(call[t].id)
      BY <1>6 DEF PromptInv, TypeOK, Call, Shown
    <3> QED BY <1>5, <2>1, <2>2, <3>1
  <2> QED BY <1>2, <1>6, <2>1, <2>3, <2>4, ShownKept
<1> QED BY <1>7, <1>8, <1>9, <1>10 DEF PromptInv

\* A follow-up is saved as uncertain.
LEMMA BeginSteerStep ==
    ASSUME PromptInv, TypeOK', NEW s \in Slot, At(s, "looked"), BeginSteer(s),
           table[call[s].id] = "none", ~fatal
    PROVE  PromptInv'
<1> DEFINE i == call[s].id
<1>1. call[s] # None /\ call[s] \in Call /\ i \in Id /\ TypeOK
  BY DEF At, PromptInv, TypeOK, Call
<1>2. /\ \A t \in Slot \ {s} : call'[t] = call[t]
      /\ \/ /\ call'[s] \in Call /\ call'[s].bridge = "steering" /\ call'[s].id = i
            /\ disk'[i] = "uncertain"
         \/ /\ call'[s] # None => call'[s].bridge = "error"
            /\ disk'[i] \in {disk[i], "uncertain"} /\ fatal' = TRUE
      /\ table'[i] = "uncertain"
      /\ \A j \in Id \ {i} : table'[j] = table[j] /\ disk'[j] = disk[j]
      /\ UNCHANGED <<settled, journal, turns, run, orphaned>>
  <2>1. /\ \A t \in Slot \ {s} : call'[t] = call[t]
        /\ \/ /\ call'[s] \in Call /\ call'[s].bridge = "steering" /\ call'[s].id = i
              /\ disk' = [disk EXCEPT ![i] = "uncertain"]
           \/ /\ call'[s] # None => call'[s].bridge = "error"
              /\ disk' \in {disk, [disk EXCEPT ![i] = "uncertain"]} /\ fatal' = TRUE
        /\ table' = [table EXCEPT ![i] = "uncertain"]
        /\ UNCHANGED <<panelVars, journal, turns, run, orphaned>>
    BY <1>1, BeginSteerEffect
  <2>2. /\ table \in Tables /\ disk \in Tables BY <1>1 DEF TypeOK, Tables
  <2>3. table'[i] = "uncertain" /\ \A j \in Id \ {i} : table'[j] = table[j]
    BY <1>1, <2>1, <2>2 DEF Tables
  <2>4. /\ disk' = [disk EXCEPT ![i] = "uncertain"] => disk'[i] = "uncertain"
        /\ \A j \in Id \ {i} : disk'[j] = disk[j]
    BY <1>1, <2>1, <2>2 DEF Tables
  <2> QED BY <2>1, <2>3, <2>4 DEF panelVars
<1>3. /\ turns[i] = 0 /\ disk[i] \in {"none", "prompt"} /\ (i \notin orphaned => journal[i] = 0)
      /\ ~Safe(i)
      /\ \A d \in Chat : run[d] # None => run[d].id # i
      /\ \A t \in Slot : Steering(t) => call[t].id # i
      /\ \A t \in Slot : call[t] # None /\ call[t].bridge = "ok" => call[t].id # i
  BY <1>1, Unknown
<1>4. RunOwns' BY <1>2, <1>3 DEF PromptInv, RunOwns, TypeOK, Run
<1>5. SteerOwns'
  <2>1. \A t \in Slot : Steering(t)' /\ t # s => /\ Steering(t) /\ call'[t] = call[t]
                                                 /\ call[t].id \in Id \ {i}
    BY <1>2, <1>3 DEF Steering, PromptInv, TypeOK, Call
  <2>2. Steering(s)' => /\ call'[s].bridge = "steering" /\ call'[s].id = i
                        /\ disk'[i] = "uncertain"
    BY <1>2 DEF Steering
  <2> QED BY <1>2, <1>3, <2>1, <2>2 DEF PromptInv, SteerOwns
<1>6. TableExact' BY <1>1, <1>2, <1>3 DEF PromptInv, TableExact
<1>7. Shown'
  <2>1. \A j \in Id \ {i} : SafeNext(j) <=> Safe(j) BY <1>2 DEF Safe, SafeNext
  <2>2. \A t \in Slot : call'[t] # None /\ call'[t].bridge = "ok" => SafeNext(call'[t].id)
    <3>1. \A t \in Slot \ {s} : call[t] # None /\ call[t].bridge = "ok" =>
                                   call[t].id \in Id \ {i} /\ Safe(call[t].id)
      BY <1>3 DEF PromptInv, TypeOK, Call, Shown
    <3> QED BY <1>2, <2>1, <3>1
  <2> QED BY <1>2, <1>3, <2>1, <2>2, ShownKept
<1> QED BY <1>4, <1>5, <1>6, <1>7 DEF PromptInv

\* The two critical sections.
LEMMA SubmitStep ==
    ASSUME PromptInv, TypeOK', NEW s \in Slot, Look(s) \/ Submit(s) PROVE PromptInv'
<1>1. call[s] # None /\ call[s] \in Call /\ call[s].id \in Id /\ TypeOK
  BY DEF Look, Submit, At, PromptInv, TypeOK, Call
<1>2. ASSUME UNCHANGED <<panelVars, bridgeVars>>,
             \A t \in Slot \ {s} : call'[t] = call[t],
             call'[s] # None =>
                /\ call'[s].bridge \notin {"steering", "steered"}
                /\ call'[s].bridge = "ok" => Safe(call'[s].id)
      PROVE  PromptInv'
  <2>1. UNCHANGED bridgeVars /\ UNCHANGED settled BY <1>2 DEF panelVars
  <2> QED BY <1>2, <2>1, QuietStep
<1>3. CASE Refused(s) BY <1>1, <1>2, <1>3, AnswerEffect DEF Refused
<1>4. CASE Replay(s)
  <2>1. CASE Answer(s, "error") BY <1>1, <1>2, <1>4, <2>1, AnswerEffect DEF Replay
  <2>2. CASE Answer(s, "ok") /\ table[call[s].id] # "uncertain"
    <3>1. Safe(call[s].id) BY <1>1, <1>4, <2>2 DEF Replay, PromptInv, TableExact, Safe
    <3> QED BY <1>1, <1>2, <1>4, <2>2, <3>1, AnswerEffect DEF Replay
  <2> QED BY <1>4, <2>1, <2>2 DEF Replay
<1>5. CASE call' = [call EXCEPT ![s].bridge = "looked"]
           /\ UNCHANGED <<panelVars, bridgeVars>>
  BY <1>1, <1>2, <1>5, AdvanceEffect
<1>6. CASE /\ At(s, "looked") /\ ~fatal /\ table[call[s].id] = "none"
           /\ Accept(s) \/ BeginSteer(s)
  BY <1>6, AcceptStep, BeginSteerStep
<1> QED BY <1>3, <1>4, <1>5, <1>6 DEF Look, Submit

\* turn/steer: Codex is given the follow-up.
LEMMA GiveSteerStep ==
    ASSUME PromptInv, TypeOK', NEW s \in Slot, GiveSteer(s) PROVE PromptInv'
<1> DEFINE i == call[s].id
<1>1. /\ Steering(s) /\ call[s].bridge = "steering" /\ call[s] # None
      /\ call[s] \in Call /\ i \in Id /\ TypeOK
  BY DEF GiveSteer, At, Steering, PromptInv, TypeOK, Call
<1>2. /\ table[i] = "uncertain" /\ disk[i] = "uncertain" /\ turns[i] = 0
      /\ \A t \in Slot : Steering(t) /\ call[t].id = i => t = s
  BY <1>1 DEF PromptInv, SteerOwns
<1>3. turns'[i] = 1 /\ \A j \in Id \ {i} : turns'[j] = turns[j]
  BY <1>1, <1>2 DEF GiveSteer, TypeOK
<1>4. /\ \A t \in Slot \ {s} : call'[t] = call[t]
      /\ call'[s] \in Call /\ call'[s].bridge = "steered" /\ call'[s].id = i
  BY <1>1, AdvanceEffect DEF GiveSteer
<1>5. UNCHANGED <<settled, table, disk, journal, run, fatal, orphaned>>
  BY DEF GiveSteer, panelVars
<1>6. RunOwns' BY <1>2, <1>3, <1>5 DEF PromptInv, RunOwns, TypeOK, Run
<1>7. SteerOwns'
  <2>1. \A t \in Slot : Steering(t)' /\ t # s => /\ Steering(t) /\ call'[t] = call[t]
                                                 /\ call[t].id \in Id \ {i}
    BY <1>2, <1>4 DEF Steering, PromptInv, TypeOK, Call
  <2> QED BY <1>1, <1>2, <1>3, <1>4, <1>5, <2>1 DEF PromptInv, SteerOwns
<1>8. TableExact' BY <1>1, <1>2, <1>3, <1>5 DEF PromptInv, TableExact
<1>9. Shown'
  <2>1. \A j \in Id : Safe(j) => SafeNext(j) BY <1>2, <1>3, <1>5 DEF Safe, SafeNext
  <2>2. \A t \in Slot : call'[t] # None /\ call'[t].bridge = "ok" => SafeNext(call'[t].id)
    <3>1. \A t \in Slot : call[t] # None /\ call[t].bridge = "ok" =>
                             call[t].id \in Id /\ Safe(call[t].id)
      BY DEF PromptInv, TypeOK, Call, Shown
    <3> QED BY <1>4, <2>1, <3>1
  <2> QED BY <1>5, <2>1, <2>2, ShownKept
<1> QED BY <1>6, <1>7, <1>8, <1>9 DEF PromptInv

\* Its acceptance is recorded.
LEMMA TakeSteerStep ==
    ASSUME PromptInv, TypeOK', NEW s \in Slot, TakeSteer(s) PROVE PromptInv'
<1> DEFINE i == call[s].id
<1>1. /\ Steering(s) /\ call[s].bridge = "steered" /\ call[s] # None
      /\ call[s] \in Call /\ i \in Id /\ TypeOK
  BY DEF TakeSteer, At, Steering, PromptInv, TypeOK, Call
<1>2. /\ table[i] = "uncertain" /\ disk[i] = "uncertain" /\ turns[i] = 1
      /\ i \notin orphaned => journal[i] = 0
      /\ \A t \in Slot : Steering(t) /\ call[t].id = i => t = s
  BY <1>1 DEF PromptInv, SteerOwns
<1>3. /\ table'[i] = "steer" /\ disk'[i] \in {"uncertain", "steer"}
      /\ journal'[i] \in {journal[i], journal[i] + 1}
      /\ \A j \in Id \ {i} : /\ table'[j] = table[j] /\ disk'[j] = disk[j]
                             /\ journal'[j] = journal[j]
      /\ ~fatal' => ~fatal
  BY <1>1, <1>2 DEF TakeSteer, TypeOK
<1>4. /\ \A t \in Slot \ {s} : call'[t] = call[t]
      /\ call'[s] # None => call'[s].bridge \in {"ok", "error"} /\ call'[s].id = i
  <2>1. Answer(s, "ok") \/ Answer(s, "error") BY DEF TakeSteer
  <2> QED BY <1>1, <2>1, AnswerEffect
<1>5. UNCHANGED <<settled, turns, run, orphaned>> BY DEF TakeSteer, panelVars
<1>6. RunOwns' BY <1>2, <1>3, <1>5 DEF PromptInv, RunOwns, TypeOK, Run
<1>7. SteerOwns'
  <2>1. \A t \in Slot : Steering(t)' => /\ Steering(t) /\ call'[t] = call[t]
                                        /\ call[t].id \in Id \ {i}
    BY <1>1, <1>2, <1>4 DEF Steering, PromptInv, TypeOK, Call
  <2> QED BY <1>3, <1>5, <2>1 DEF PromptInv, SteerOwns
<1>8. TableExact' BY <1>1, <1>2, <1>3, <1>5 DEF PromptInv, TableExact
<1>9. Shown'
  <2>1. SafeNext(i) BY <1>2, <1>3, <1>5 DEF SafeNext
  <2>2. \A j \in Id : Safe(j) => SafeNext(j) BY <1>3, <1>5, <2>1 DEF Safe, SafeNext
  <2>3. \A j \in Id \ orphaned' : \/ journal'[j] = journal[j]
                                  \/ journal[j] = 0 /\ journal'[j] = 1 /\ SafeNext(j)
    BY <1>2, <1>3, <1>5, <2>1
  <2>4. \A t \in Slot : call'[t] # None /\ call'[t].bridge = "ok" => SafeNext(call'[t].id)
    <3>1. \A t \in Slot : call[t] # None /\ call[t].bridge = "ok" =>
                             call[t].id \in Id /\ Safe(call[t].id)
      BY DEF PromptInv, TypeOK, Call, Shown
    <3> QED BY <1>4, <2>1, <2>2, <3>1
  <2> QED BY <1>5, <2>2, <2>3, <2>4, ShownKept
<1> QED BY <1>6, <1>7, <1>8, <1>9 DEF PromptInv

\* Steps that end runs and answer calls with errors, and change no table.
LEMMA EndingStep ==
    ASSUME PromptInv, TypeOK', UNCHANGED <<settled, table, disk, journal, turns, fatal, orphaned>>,
           \A c \in Chat : run'[c] \in {run[c], None},
           \A s \in Slot : \/ call'[s] = call[s] \/ call'[s] = None
                           \/ call'[s].bridge = "error"
    PROVE  PromptInv'
<1>1. RunOwns' BY DEF PromptInv, RunOwns
<1>2. \A s \in Slot : Steering(s)' => Steering(s) /\ call'[s] = call[s] BY DEF Steering
<1>3. SteerOwns' BY <1>2 DEF PromptInv, SteerOwns
<1>4. TableExact' BY DEF PromptInv, TableExact
<1>5. \A j \in Id : Safe(j) => SafeNext(j) BY DEF Safe, SafeNext
<1>6. \A s \in Slot : call'[s] # None /\ call'[s].bridge = "ok" => SafeNext(call'[s].id)
  <2>1. \A s \in Slot : call[s] # None /\ call[s].bridge = "ok" =>
                           call[s].id \in Id /\ Safe(call[s].id)
    BY DEF PromptInv, TypeOK, Call, Shown
  <2> QED BY <1>5, <2>1
<1>7. Shown' BY <1>5, <1>6, ShownKept
<1> QED BY <1>1, <1>3, <1>4, <1>7 DEF PromptInv

\* A follow-up that fails stays uncertain.
LEMMA SteerFailsStep ==
    ASSUME PromptInv, TypeOK', NEW s \in Slot, SteerFails(s) PROVE PromptInv'
<1>1. call[s] # None /\ call[s] \in Call /\ call[s].chat \in Chat /\ TypeOK
  BY DEF SteerFails, At, PromptInv, TypeOK, Call
<1>2. \A t \in Slot : \/ call'[t] = call[t] \/ call'[t] = None
                      \/ call'[t].bridge = "error"
  BY <1>1, AnswerEffect DEF SteerFails
<1>3. \A c \in Chat : run'[c] \in {run[c], None} BY <1>1 DEF SteerFails, TypeOK
<1>4. UNCHANGED <<settled, table, disk, journal, turns, fatal, orphaned>>
  BY DEF SteerFails, panelVars
<1> QED BY <1>2, <1>3, <1>4, EndingStep

\* The run itself.
LEMMA RunStep ==
    ASSUME PromptInv, TypeOK', NEW c \in Chat, StartTurn(c) \/ EndRun(c) PROVE PromptInv'
<1>1. CASE EndRun(c)
  <2>1. UNCHANGED <<settled, table, disk, journal, turns, fatal, orphaned, call>>
    BY <1>1 DEF EndRun, panelVars
  <2>2. \A d \in Chat : run'[d] \in {run[d], None} BY <1>1 DEF EndRun, PromptInv, TypeOK
  <2> QED BY <2>1, <2>2, EndingStep
<1>2. CASE StartTurn(c)
  <2> DEFINE i == run[c].id
  <2>1. run[c] # None /\ run[c] \in Run /\ i \in Id /\ run[c].state = "starting" /\ TypeOK
    BY <1>2 DEF StartTurn, PromptInv, TypeOK, Run
  <2>2. /\ table[i] = "prompt" /\ disk[i] = "prompt" /\ turns[i] = 0
        /\ \A d \in Chat : run[d] # None /\ run[d].id = i => d = c
    BY <2>1 DEF PromptInv, RunOwns
  <2>3. turns'[i] = 1 /\ \A j \in Id \ {i} : turns'[j] = turns[j]
    BY <1>2, <2>1, <2>2 DEF StartTurn, TypeOK
  <2>4. /\ \A d \in Chat \ {c} : run'[d] = run[d]
        /\ run'[c] \in Run /\ run'[c].id = i /\ run'[c].state = "running"
    BY <1>2, <2>1 DEF StartTurn, TypeOK, Run
  <2>5. UNCHANGED <<settled, table, disk, journal, fatal, orphaned, call>>
    BY <1>2 DEF StartTurn, panelVars
  <2>6. RunOwns'
    <3>1. \A d \in Chat \ {c} : run[d] # None => run[d].id \in Id \ {i}
      BY <2>2 DEF PromptInv, TypeOK, Run
    <3> QED BY <2>1, <2>2, <2>3, <2>4, <2>5, <3>1 DEF PromptInv, RunOwns
  <2>7. SteerOwns'
    <3>1. \A t \in Slot : Steering(t) => call[t].id \in Id \ {i}
      BY <2>2 DEF PromptInv, SteerOwns, Steering, TypeOK, Call
    <3> QED BY <2>3, <2>5, <3>1 DEF PromptInv, SteerOwns, Steering
  <2>8. TableExact' BY <2>1, <2>2, <2>3, <2>5 DEF PromptInv, TableExact
  <2>9. Shown'
    <3>1. \A j \in Id : Safe(j) => SafeNext(j) BY <2>2, <2>3, <2>5 DEF Safe, SafeNext
    <3>2. \A t \in Slot : call'[t] # None /\ call'[t].bridge = "ok" => SafeNext(call'[t].id)
      BY <2>5, <3>1 DEF PromptInv, TypeOK, Call, Shown
    <3> QED BY <2>5, <3>1, <3>2, ShownKept
  <2> QED BY <2>6, <2>7, <2>8, <2>9 DEF PromptInv
<1> QED BY <1>1, <1>2

\* The saved table is what a restart goes on with.
LEMMA RestartStep == ASSUME PromptInv, TypeOK', Restart PROVE PromptInv'
<1>1. /\ UNCHANGED <<settled, disk, journal, turns, orphaned>>
      /\ table' = disk /\ ~fatal' /\ \A c \in Chat : run'[c] = None
  BY DEF Restart, panelVars
<1>2. \A s \in Slot : call'[s] # None => call'[s].bridge = "error"
  BY DEF Restart, PromptInv, TypeOK, Call
<1>3. RunOwns' BY <1>1 DEF RunOwns
<1>4. SteerOwns' BY <1>2 DEF SteerOwns, Steering
<1>5. TableExact' BY <1>1 DEF PromptInv, TableExact
<1>6. \A j \in Id : Safe(j) => SafeNext(j) BY <1>1 DEF Safe, SafeNext
<1>7. Shown' BY <1>1, <1>2, <1>6, ShownKept
<1> QED BY <1>3, <1>4, <1>5, <1>7 DEF PromptInv

\* Every step keeps the invariant.
LEMMA InvStep == PromptInv /\ [Next]_vars => PromptInv'
<1> SUFFICES ASSUME PromptInv, [Next]_vars PROVE PromptInv' OBVIOUS
<1>1. TypeOK' BY TypeStep DEF PromptInv
<1>2. CASE UNCHANGED vars
  <2>1. UNCHANGED bridgeVars /\ UNCHANGED <<settled, call>> BY <1>2 DEF vars, panelVars
  <2> QED BY <1>1, <2>1, QuietStep
<1>3. CASE Next
  BY <1>1, <1>3, ComposerStep, PanelsStep, SubmitStep, GiveSteerStep, TakeSteerStep,
     SteerFailsStep, RunStep, RestartStep
  DEF Next, BridgeStep
<1> QED BY <1>2, <1>3

\* The invariant holds.
LEMMA InvHolds == Spec => []PromptInv
  BY InvInit, InvStep, PTL DEF Spec

-----------------------------------------------------------------------------
(* What it means.                                                          *)

\* Whatever retries, lost answers, refusals, failed saves and restarts there
\* are, Codex is given a prompt at most once, and the chat shows it at most
\* once unless its run was rolled back after the commit: submit_prompt looks
\* at the idempotency table again after the account check.
THEOREM GivenOnce == Spec => []PromptOnce
<1>1. PromptInv => PromptOnce
  BY DEF PromptInv, TableExact, Shown, PromptOnce
<1> QED BY <1>1, InvHolds, PTL

\* A prompt the panel takes as delivered is in the Bridge's table and saved
\* there, and a follow-up that was taken has reached Codex.
THEOREM DeliveredIsOwned == Spec => []SettledIsOwned
<1>1. PromptInv => SettledIsOwned
  <2> SUFFICES ASSUME PromptInv PROVE SettledIsOwned OBVIOUS
  <2>1. \A i \in settled \ orphaned : i \in Id /\ Safe(i) BY DEF PromptInv, Shown, TypeOK
  <2> QED BY <2>1 DEF PromptInv, TableExact, Safe, SettledIsOwned
<1> QED BY <1>1, InvHolds, PTL

=============================================================================
