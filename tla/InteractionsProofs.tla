------------------------- MODULE InteractionsProofs -------------------------
(***************************************************************************)
(* Proofs about Interactions, for any number of panels, interactions,      *)
(* replies, calls and faults.                                              *)
(***************************************************************************)
EXTENDS Interactions, TLAPS

\* A call between its two critical sections.
Busy(s) == call[s] # None /\ call[s].at \in {"claimed", "written", "raised"}

\* Such a call is the only one about its interaction, which carries its claim
\* in memory and as saved; nothing was written before it spends the token.
CallOwns ==
    \A s \in Slot : Busy(s) =>
        /\ owner[call[s].about] = call[s].claim
        /\ disk.owner[call[s].about] = call[s].claim
        /\ call[s].at = "claimed" => given[call[s].about] = <<>>
        /\ call[s].at = "written" => given[call[s].about] = <<call[s].claim>>
        /\ \A t \in Slot : Busy(t) /\ call[t].about = call[s].about => t = s

\* Only the claim that the interaction carries was written, once.
GivenByOwner ==
    \A i \in Interaction : given[i] # <<>> =>
        /\ owner[i] # None
        /\ given[i] = <<owner[i]>>
        /\ disk.owner[i] = owner[i]

\* What a pair of tables, in memory or saved, says of the replies: a claimed
\* interaction is not shown as open or expired, a reply shown was written.
Consistent(st, own) ==
    \A i \in Interaction :
        /\ own[i] # None => st[i] \notin {"absent", "pending", "expired"}
        /\ st[i] \in Reply => own[i] # None /\ given[i] = <<own[i]>>

Tables == Consistent(status, owner) /\ Consistent(disk.status, disk.owner)

InteractionInv ==
    TypeOK /\ CallOwns /\ GivenByOwner /\ Tables /\ TakenWasGiven /\ CancelStopsRun

-----------------------------------------------------------------------------
(* Types.                                                                  *)

\* The initial state is well typed.
LEMMA TypeInit == Init => TypeOK
  BY InteractionsAssumption DEF Init, TypeOK, NoMutation, Status, Pendings, Lists

\* Ending interactions yields statuses.
LEMMA EndedType ==
    ASSUME NEW st \in [Interaction -> Status]
    PROVE  Ended(st) \in [Interaction -> Status]
  BY DEF Ended, Status, Pendings

\* The broker's endings and the restart keep the types.
LEMMA BridgeTypes ==
    ASSUME TypeOK,
           \/ \E i \in Interaction : Request(i) \/ Resolved(i)
           \/ CancelRun \/ EndRun \/ ExpireDue \/ ServerDies \/ Restart
    PROVE  TypeOK'
<1>0. Ended(status) \in [Interaction -> Status] /\ Ended(disk.status) \in [Interaction -> Status]
  BY EndedType DEF TypeOK
<1>1. CASE \E i \in Interaction : Request(i) \/ Resolved(i)
  <2>1. PICK i \in Interaction : Request(i) \/ Resolved(i) BY <1>1
  <2>2. status' \in [Interaction -> Status] /\ token' \in SUBSET Interaction
    BY <2>1, <1>0 DEF Request, Resolved, TypeOK, Status, Pendings
  <2>3. Saved /\ UNCHANGED <<run, owner, live, given, told, panelVars, call, faults>>
    BY <2>1 DEF Request, Resolved
  <2> QED BY <2>2, <2>3 DEF Saved, TypeOK, panelVars
<1>2. CASE CancelRun \/ EndRun \/ ExpireDue
  <2>1. run' \in {"running", "cancelling", "ended"} /\ live' \in BOOLEAN /\ EndInteractions
    BY <1>2 DEF CancelRun, EndRun, ExpireDue, TypeOK
  <2> QED BY <2>1, <1>0 DEF EndInteractions, Saved, TypeOK, panelVars
<1>3. CASE ServerDies BY <1>3 DEF ServerDies, TypeOK, panelVars
<1>4. CASE Restart
  <2>1. call' \in [Slot -> Call \cup {None}]
    <3>1. ASSUME NEW s \in Slot, call[s] # None
          PROVE  [call[s] EXCEPT !.at = "broken"] \in Call
      BY <3>1 DEF TypeOK, Call, Done
    <3>2. \A s \in Slot : call'[s] \in Call \cup {None}
      BY <1>4, <3>1 DEF Restart, TypeOK
    <3> QED BY <1>4, <3>2 DEF Restart
  <2>2. faults' \in 0..MaxFaults BY <1>4, InteractionsAssumption DEF Restart, Fault, TypeOK
  <2> QED BY <1>4, <1>0, <2>1, <2>2 DEF Restart, Saved, TypeOK, panelVars
<1> QED BY <1>1, <1>2, <1>3, <1>4

\* What a call that changes in one slot keeps of the slots' type.
LEMMA CallType ==
    ASSUME TypeOK, NEW s \in Slot, call[s] # None
    PROVE  /\ \A r \in Done : Answer(s, r) => call' \in [Slot -> Call \cup {None}]
           /\ \A r \in {"claimed", "written", "raised"} :
                 [call EXCEPT ![s].at = r] \in [Slot -> Call \cup {None}]
           /\ \A w \in {"confirm", "check", "recheck"} :
                 [call EXCEPT ![s].waits = w] \in [Slot -> Call \cup {None}]
           /\ \A l \in Lists : [call EXCEPT ![s].list = l] \in [Slot -> Call \cup {None}]
           /\ Leave(s) => call' \in [Slot -> Call \cup {None}]
<1>1. call \in [Slot -> Call \cup {None}] /\ call[s] \in Call BY DEF TypeOK
<1>2. ASSUME NEW r \in Done, Answer(s, r) PROVE call' \in [Slot -> Call \cup {None}]
  BY <1>1, <1>2 DEF Answer, Call
<1>3. ASSUME NEW r \in {"claimed", "written", "raised"}
      PROVE  [call EXCEPT ![s].at = r] \in [Slot -> Call \cup {None}]
  BY <1>1 DEF Call
<1>4. ASSUME NEW w \in {"confirm", "check", "recheck"}
      PROVE  [call EXCEPT ![s].waits = w] \in [Slot -> Call \cup {None}]
  BY <1>1 DEF Call
<1>5. ASSUME NEW l \in Lists
      PROVE  [call EXCEPT ![s].list = l] \in [Slot -> Call \cup {None}]
  BY <1>1 DEF Call
<1>6. ASSUME Leave(s) PROVE call' \in [Slot -> Call \cup {None}]
  BY <1>1, <1>6 DEF Leave, Call
<1> QED BY <1>2, <1>3, <1>4, <1>5, <1>6

\* So does a save that fails.
LEMMA FatalType ==
    ASSUME TypeOK, NEW st \in [Interaction -> Status], Fatal(st)
    PROVE  /\ run' \in {"running", "cancelling", "ended"}
           /\ status' \in [Interaction -> Status]
           /\ live' \in BOOLEAN /\ token' \in SUBSET Interaction
           /\ faults' \in 0..MaxFaults
<1>1. Ended(st) \in [Interaction -> Status] BY EndedType
<1>2. faults' \in 0..MaxFaults BY InteractionsAssumption DEF Fatal, Fault, TypeOK
<1> QED BY <1>1, <1>2 DEF Fatal

\* The first critical section keeps the types ...
LEMMA ClaimTypes == ASSUME TypeOK, NEW s \in Slot, Claim(s) PROVE TypeOK'
<1> DEFINE i == call[s].about
           st == [status EXCEPT ![i] = "responding"]
<1>1. /\ call[s] # None /\ i \in Interaction /\ call[s].claim \in Claims
      /\ st \in [Interaction -> Status]
  BY DEF Claim, At, TypeOK, Call, Status, Pendings
<1>2. call' \in [Slot -> Call \cup {None}]
  <2>1. \/ \E r \in Done : Answer(s, r)
        \/ call' = [call EXCEPT ![s].at = "claimed"]
    BY DEF Claim, Known, Repeated, Done
  <2>2. [call EXCEPT ![s].at = "claimed"] \in [Slot -> Call \cup {None}]
    BY <1>1, CallType
  <2>3. ASSUME NEW r \in Done, Answer(s, r) PROVE call' \in [Slot -> Call \cup {None}]
    BY <1>1, <2>3, CallType
  <2> QED BY <2>1, <2>2, <2>3
<1>3. told' \in SUBSET (Interaction \X Claims)
  BY <1>1 DEF Claim, Known, Repeated, TypeOK
<1>4. UNCHANGED <<given, panelVars>> BY DEF Claim
<1>5. CASE UNCHANGED <<run, status, owner, disk, live, token, faults>>
  BY <1>2, <1>3, <1>4, <1>5 DEF TypeOK, panelVars
<1>6. CASE owner' = [owner EXCEPT ![i] = call[s].claim]
           /\ \/ status' = st /\ Saved /\ UNCHANGED <<run, live, token, faults>>
              \/ Fatal(st) /\ disk' \in {disk, [status |-> st, owner |-> owner']}
  <2>1. owner' \in [Interaction -> Claims \cup {None}] BY <1>1, <1>6 DEF TypeOK
  <2>2. CASE status' = st /\ Saved /\ UNCHANGED <<run, live, token, faults>>
    BY <1>1, <1>2, <1>3, <1>4, <2>1, <2>2 DEF TypeOK, Saved, panelVars
  <2>3. CASE Fatal(st) /\ disk' \in {disk, [status |-> st, owner |-> owner']}
    <3>1. disk' \in [status : [Interaction -> Status],
                     owner : [Interaction -> Claims \cup {None}]]
      <4>1. [status |-> st, owner |-> owner'] \in
                [status : [Interaction -> Status], owner : [Interaction -> Claims \cup {None}]]
        BY <1>1, <2>1
      <4> QED BY <2>3, <4>1 DEF TypeOK
    <3> QED BY <1>1, <1>2, <1>3, <1>4, <2>1, <2>3, <3>1, FatalType DEF TypeOK, panelVars
  <2> QED BY <1>6, <2>2, <2>3
<1> QED BY <1>5, <1>6 DEF Claim

\* ... so does the write ...
LEMMA RespondTypes == ASSUME TypeOK, NEW s \in Slot, Respond(s) PROVE TypeOK'
<1>1. call[s] # None /\ call[s].about \in Interaction /\ call[s].claim \in Claims
  BY DEF Respond, At, TypeOK, Call
<1>2. call' \in [Slot -> Call \cup {None}]
  <2>1. /\ [call EXCEPT ![s].at = "written"] \in [Slot -> Call \cup {None}]
        /\ [call EXCEPT ![s].at = "raised"] \in [Slot -> Call \cup {None}]
    BY <1>1, CallType
  <2> QED BY <2>1 DEF Respond
<1>3. given' \in [Interaction -> Seq(Claims)]
  <2>1. given[call[s].about] \in Seq(Claims) BY <1>1 DEF TypeOK
  <2>2. Append(given[call[s].about], call[s].claim) \in Seq(Claims) BY <1>1, <2>1
  <2> QED BY <1>1, <2>2 DEF Respond, TypeOK
<1>4. faults' \in 0..MaxFaults /\ token' \in SUBSET Interaction
  BY InteractionsAssumption DEF Respond, Fault, TypeOK
<1> QED BY <1>2, <1>3, <1>4 DEF Respond, TypeOK, panelVars

\* ... and the second critical section.
LEMMA ConcludeTypes == ASSUME TypeOK, NEW s \in Slot, Conclude(s) PROVE TypeOK'
<1> DEFINE i == call[s].about
           taken == At(s, "written") /\ status[i] = "responding"
           stops == call[s].claim.reply = Cancel /\ run # "ended"
           own == [status EXCEPT ![i] = IF taken THEN call[s].claim.reply
                                        ELSE "outcome_unknown"]
           st == IF stops THEN Ended(own) ELSE own
           Marked == /\ status' = st
                     /\ token' = IF stops THEN {} ELSE token
                     /\ run' = IF stops THEN "cancelling" ELSE run
                     /\ UNCHANGED live
<1>1. call[s] # None /\ i \in Interaction /\ call[s].claim \in Claims
  BY DEF Conclude, At, TypeOK, Call
<1>2. own \in [Interaction -> Status] /\ st \in [Interaction -> Status]
  <2>1. own \in [Interaction -> Status] BY <1>1 DEF TypeOK, Status, Claims
  <2> QED BY <2>1, EndedType
<1>3. call' \in [Slot -> Call \cup {None}]
  <2>1. \E r \in Done : Answer(s, r) BY DEF Conclude, Done
  <2> QED BY <1>1, <2>1, CallType
<1>4. told' \in SUBSET (Interaction \X Claims) BY <1>1 DEF Conclude, TypeOK
<1>5. UNCHANGED <<owner, given, panelVars>> BY DEF Conclude
<1>6. /\ status' \in [Interaction -> Status] /\ live' \in BOOLEAN
      /\ run' \in {"running", "cancelling", "ended"} /\ token' \in SUBSET Interaction
  <2>1. Marked \/ Fatal(st) BY DEF Conclude
  <2>2. CASE Marked BY <1>2, <2>2 DEF TypeOK
  <2>3. CASE Fatal(st) BY <1>2, <2>3, FatalType
  <2> QED BY <2>1, <2>2, <2>3
<1>7. faults' \in 0..MaxFaults
  BY InteractionsAssumption DEF Conclude, Fatal, Fault, TypeOK
<1>8. disk' \in [status : [Interaction -> Status],
                 owner : [Interaction -> Claims \cup {None}]]
  <2>1. Saved \/ disk' \in {disk, [status |-> st, owner |-> owner],
                            [status |-> own, owner |-> owner]}
    BY DEF Conclude
  <2>2. owner \in [Interaction -> Claims \cup {None}] BY DEF TypeOK
  <2>3. \A f \in [Interaction -> Status] : [status |-> f, owner |-> owner] \in
            [status : [Interaction -> Status], owner : [Interaction -> Claims \cup {None}]]
    BY <2>2
  <2>4. disk \in [status : [Interaction -> Status], owner : [Interaction -> Claims \cup {None}]]
    BY DEF TypeOK
  <2>5. CASE Saved
    BY <1>5, <1>6, <2>3, <2>5 DEF Saved
  <2> HIDE DEF st, own
  <2>6. CASE disk' \in {disk, [status |-> st, owner |-> owner],
                        [status |-> own, owner |-> owner]}
    BY <1>2, <2>3, <2>4, <2>6
  <2> QED BY <2>1, <2>5, <2>6
<1> QED BY <1>3, <1>4, <1>5, <1>6, <1>7, <1>8 DEF TypeOK, panelVars

MutationTables == [Panel -> [Interaction -> Mutation \cup {None}]]

\* A panel posts a reply.
LEMMA PostTypes ==
    ASSUME TypeOK, NEW p \in Panel, NEW i \in Interaction, NEW c \in Claims, Post(p, i, c)
    PROVE  /\ call' \in [Slot -> Call \cup {None}] /\ mutation' \in MutationTables
           /\ UNCHANGED <<bridgeVars, open, cards, refresh, faults>>
<1>1. PICK s \in Slot :
         call' = [call EXCEPT ![s] = [panel |-> p, about |-> i, claim |-> c,
                                      at |-> "arrived", waits |-> "answer",
                                      list |-> None]]
  BY DEF Post
<1>2. [panel |-> p, about |-> i, claim |-> c, at |-> "arrived",
       waits |-> "answer", list |-> None] \in Call
  BY DEF Call
<1>3. [claim |-> c, state |-> "sending"] \in Mutation BY DEF Mutation
<1>4. mutation' \in MutationTables BY <1>3 DEF Post, TypeOK, MutationTables
<1> QED BY <1>1, <1>2, <1>4 DEF Post, TypeOK

\* Replacing the list of cards leaves mutations.
LEMMA KeptType ==
    ASSUME TypeOK, NEW p \in Panel, NEW l \in Lists
    PROVE  Kept(p, l) \in [Interaction -> Mutation \cup {None}]
  BY DEF TypeOK, Kept

\* A panel's own steps keep the types ...
LEMMA PanelTypes ==
    ASSUME TypeOK, NEW p \in Panel,
           \/ Open(p) \/ Close(p) \/ ReadList(p) \/ ApplyList(p)
           \/ \E i \in Interaction : Retry(p, i) \/ \E r \in Reply : Choose(p, i, r)
    PROVE  TypeOK'
<1>1. CASE Open(p) BY <1>1 DEF Open, TypeOK, bridgeVars
<1>2. CASE Close(p)
  <2>1. NoMutation \in [Interaction -> Mutation \cup {None}] /\ {} \in Lists
    BY DEF NoMutation, Lists
  <2> QED BY <1>2, <2>1 DEF Close, TypeOK, bridgeVars
<1>3. CASE ReadList(p)
  <2>1. PendingNow \in Lists BY DEF PendingNow, Lists
  <2> QED BY <1>3, <2>1 DEF ReadList, TypeOK, bridgeVars
<1>4. CASE ApplyList(p)
  <2>1. refresh[p] \in Lists BY <1>4 DEF ApplyList, TypeOK
  <2>2. Kept(p, refresh[p]) \in [Interaction -> Mutation \cup {None}] BY <2>1, KeptType
  <2> QED BY <1>4, <2>1, <2>2 DEF ApplyList, TypeOK, bridgeVars
<1>5. ASSUME NEW i \in Interaction, Retry(p, i) PROVE TypeOK'
  <2>1. mutation[p][i].claim \in Claims BY <1>5 DEF Retry, TypeOK, Mutation
  <2>2. Post(p, i, mutation[p][i].claim) /\ UNCHANGED used BY <1>5 DEF Retry
  <2> QED BY <2>1, <2>2, PostTypes DEF TypeOK, bridgeVars, MutationTables
<1>6. ASSUME NEW i \in Interaction, NEW r \in Reply, Choose(p, i, r) PROVE TypeOK'
  <2>1. used' \in 1..MaxIds BY <1>6, InteractionsAssumption DEF Choose, TypeOK
  <2>2. [id |-> used', reply |-> r] \in Claims BY <2>1 DEF Claims
  <2>3. Post(p, i, [id |-> used', reply |-> r]) BY <1>6 DEF Choose
  <2>4. used' \in 0..MaxIds BY <2>1, InteractionsAssumption
  <2> QED BY <2>2, <2>3, <2>4, PostTypes DEF TypeOK, bridgeVars, MutationTables
<1> QED BY <1>1, <1>2, <1>3, <1>4, <1>5, <1>6

\* ... and so do the steps after a call's await.
LEMMA PanelStepTypes == ASSUME TypeOK, NEW s \in Slot, PanelStep(s) PROVE TypeOK'
<1> DEFINE k == call[s]
<1>1. k # None /\ k.panel \in Panel /\ k.about \in Interaction /\ k.claim \in Claims
  BY DEF PanelStep, Returned, Relisted, Settled, TypeOK, Call
<1>2. faults' \in 0..MaxFaults
  <2>1. Fault \/ UNCHANGED faults BY DEF PanelStep, Returned, Relisted, Settled
  <2> QED BY <2>1, InteractionsAssumption DEF Fault, TypeOK
<1>3. CASE Returned(s)
  <2>1. /\ [call EXCEPT ![s].waits = "confirm"] \in [Slot -> Call \cup {None}]
        /\ [call EXCEPT ![s].waits = "check"] \in [Slot -> Call \cup {None}]
        /\ [call EXCEPT ![s].waits = "recheck"] \in [Slot -> Call \cup {None}]
        /\ Leave(s) => call' \in [Slot -> Call \cup {None}]
    BY <1>1, CallType
  <2>2. call' \in [Slot -> Call \cup {None}] BY <1>3, <2>1 DEF Returned
  <2>3. mutation' \in MutationTables
    <3>1. CASE Mine(s)
      <4>1. mutation[k.panel][k.about] \in Mutation BY <1>1, <3>1 DEF Mine, TypeOK
      <4>2. [mutation[k.panel][k.about] EXCEPT !.state = "reconciling"] \in Mutation
        BY <4>1 DEF Mutation
      <4>3. mutation' = [mutation EXCEPT ![k.panel][k.about].state = "reconciling"]
        BY <1>3, <3>1 DEF Returned
      <4>4. mutation \in MutationTables BY DEF TypeOK, MutationTables
      <4> QED BY <1>1, <4>2, <4>3, <4>4 DEF MutationTables
    <3> QED BY <1>3, <3>1 DEF Returned, TypeOK, MutationTables
  <2> QED BY <1>2, <1>3, <2>2, <2>3 DEF Returned, TypeOK, bridgeVars, MutationTables
<1>4. CASE Relisted(s)
  <2>1. PendingNow \in Lists BY DEF PendingNow, Lists
  <2>2. [call EXCEPT ![s].list = PendingNow] \in [Slot -> Call \cup {None}]
    BY <1>1, <2>1, CallType
  <2> QED BY <1>4, <2>2 DEF Relisted, TypeOK, bridgeVars, panelVars
<1>5. CASE Settled(s)
  <2> DEFINE Unlocked(ms) ==
            IF k.waits = "recheck" /\ ms[k.about] # None /\ ms[k.about].claim = k.claim
            THEN [ms EXCEPT ![k.about].state = "retryable"] ELSE ms
  <2>1. call' \in [Slot -> Call \cup {None}]
    <3>1. Leave(s) BY <1>5 DEF Settled
    <3> QED BY <1>1, <3>1, CallType
  <2>2. \A ms \in [Interaction -> Mutation \cup {None}] :
           Unlocked(ms) \in [Interaction -> Mutation \cup {None}]
    <3>1. ASSUME NEW ms \in [Interaction -> Mutation \cup {None}], ms[k.about] # None
          PROVE  [ms[k.about] EXCEPT !.state = "retryable"] \in Mutation
      BY <1>1, <3>1 DEF Mutation
    <3> QED BY <1>1, <3>1
  <2>3. \A ms \in [Interaction -> Mutation \cup {None}] :
           [mutation EXCEPT ![k.panel] = Unlocked(ms)] \in MutationTables
    <3> HIDE DEF Unlocked
    <3> QED BY <1>1, <2>2 DEF TypeOK, MutationTables
  <2>4. k.list # None => k.list \in Lists BY <1>1 DEF TypeOK, Call
  <2>5. mutation' \in MutationTables
    <3>1. mutation[k.panel] \in [Interaction -> Mutation \cup {None}] BY <1>1 DEF TypeOK
    <3>2. k.list # None => Kept(k.panel, k.list) \in [Interaction -> Mutation \cup {None}]
      BY <1>1, <2>4, KeptType
    <3>3. \/ UNCHANGED mutation
          \/ k.list # None /\ mutation' = [mutation EXCEPT ![k.panel] = Unlocked(Kept(k.panel, k.list))]
          \/ mutation' = [mutation EXCEPT ![k.panel] = Unlocked(mutation[k.panel])]
      BY <1>5 DEF Settled
    <3> HIDE DEF Unlocked
    <3>4. CASE UNCHANGED mutation BY <3>4 DEF TypeOK, MutationTables
    <3>5. CASE k.list # None /\ mutation' = [mutation EXCEPT ![k.panel] = Unlocked(Kept(k.panel, k.list))]
      BY <2>3, <3>2, <3>5
    <3>6. CASE mutation' = [mutation EXCEPT ![k.panel] = Unlocked(mutation[k.panel])]
      BY <2>3, <3>1, <3>6
    <3> QED BY <3>3, <3>4, <3>5, <3>6
  <2>6. cards' \in [Panel -> Lists] BY <1>1, <1>5, <2>4 DEF Settled, TypeOK
  <2>7. UNCHANGED <<bridgeVars, open, refresh, used>> BY <1>5 DEF Settled
  <2> QED BY <1>2, <2>1, <2>5, <2>6, <2>7 DEF TypeOK, bridgeVars, MutationTables
<1> QED BY <1>3, <1>4, <1>5 DEF PanelStep

\* Every step keeps the types.
LEMMA TypeStep == TypeOK /\ [Next]_vars => TypeOK'
<1> SUFFICES ASSUME TypeOK, [Next]_vars PROVE TypeOK' OBVIOUS
<1>1. CASE UNCHANGED vars BY <1>1 DEF vars, bridgeVars, panelVars, TypeOK
<1>2. CASE Next
  BY <1>2, BridgeTypes, ClaimTypes, RespondTypes, ConcludeTypes, PanelTypes, PanelStepTypes
  DEF Next, BridgeStep
<1> QED BY <1>1, <1>2

-----------------------------------------------------------------------------
(* The invariant.                                                          *)

\* Nobody has asked yet.
LEMMA InvInit == Init => InteractionInv
<1> SUFFICES ASSUME Init PROVE InteractionInv OBVIOUS
<1>1. TypeOK BY TypeInit
<1>2. CallOwns BY DEF Init, CallOwns, Busy
<1>3. GivenByOwner BY DEF Init, GivenByOwner
<1>4. Tables BY InteractionsAssumption DEF Init, Tables, Consistent, NoMutation
<1>5. TakenWasGiven BY DEF Init, TakenWasGiven
<1>6. CancelStopsRun BY DEF Init, CancelStopsRun
<1> QED BY <1>1, <1>2, <1>3, <1>4, <1>5, <1>6 DEF InteractionInv

\* An ending never shows a claimed interaction as expired.
LEMMA EndedConsistent ==
    ASSUME NEW st \in [Interaction -> Status], NEW own, Consistent(st, own)
    PROVE  Consistent(Ended(st), own)
  BY InteractionsAssumption DEF Ended, Consistent

\* No call has got between its critical sections.
NoneEnters ==
    \A s \in Slot : Busy(s)' =>
        /\ Busy(s) /\ call'[s].at = call[s].at
        /\ call'[s].about = call[s].about /\ call'[s].claim = call[s].claim

\* And none has left them.
NoneLeaves ==
    \A s \in Slot : Busy(s) =>
        /\ call'[s] # None /\ call'[s].at = call[s].at /\ call'[s].about = call[s].about

\* Steps that neither claim nor write.
LEMMA QuietStep ==
    ASSUME InteractionInv, TypeOK', NoneEnters,
           UNCHANGED <<owner, given>>, disk'.owner \in {disk.owner, owner},
           Tables', TakenWasGiven', CancelStopsRun'
    PROVE  InteractionInv'
<1>1. CallOwns' BY DEF InteractionInv, CallOwns, NoneEnters
<1>2. GivenByOwner' BY DEF InteractionInv, GivenByOwner
<1> QED BY <1>1, <1>2 DEF InteractionInv

\* A stopped run stays stopped while no call concludes and nothing is written.
LEMMA StillStopped ==
    ASSUME CancelStopsRun, NoneLeaves, UNCHANGED given,
           run' = "running" => run = "running"
    PROVE  CancelStopsRun'
  BY DEF CancelStopsRun, NoneLeaves, Busy

\* Tables that do not change stay consistent.
LEMMA TablesKept ==
    ASSUME Tables, UNCHANGED <<status, owner, disk, given>> PROVE Tables'
  BY DEF Tables, Consistent

\* One pair of tables, saved.
LEMMA TablesSaved ==
    ASSUME NEW st, NEW own, Consistent(st, own), UNCHANGED given,
           status' = st, owner' = own, Saved
    PROVE  Tables'
  BY DEF Tables, Consistent, Saved

\* Requests, and everything that ends interactions without a claim.
LEMMA EndingStep ==
    ASSUME InteractionInv, TypeOK',
           \/ \E i \in Interaction : Request(i) \/ Resolved(i)
           \/ CancelRun \/ EndRun \/ ExpireDue \/ ServerDies
    PROVE  InteractionInv'
<1>0. TypeOK /\ Consistent(status, owner) /\ Tables BY DEF InteractionInv, Tables
<1>1. UNCHANGED <<owner, given, told, call>> /\ (run' = "running" => run = "running")
  BY DEF Request, Resolved, CancelRun, EndRun, ExpireDue, ServerDies, EndInteractions
<1>2. NoneEnters /\ NoneLeaves BY <1>1 DEF NoneEnters, NoneLeaves, Busy
<1>3. CancelStopsRun' BY <1>1, <1>2, StillStopped DEF InteractionInv
<1>4. TakenWasGiven' BY <1>1 DEF InteractionInv, TakenWasGiven
<1>5. disk'.owner \in {disk.owner, owner}
  BY <1>1 DEF Request, Resolved, CancelRun, EndRun, ExpireDue, ServerDies, EndInteractions, Saved
<1>6. Tables'
  <2>1. Consistent(Ended(status), owner) BY <1>0, EndedConsistent DEF TypeOK
  <2>2. ASSUME NEW i \in Interaction, Request(i) PROVE Tables'
    <3>1. Consistent([status EXCEPT ![i] = "pending"], owner)
      BY <1>0, <2>2, InteractionsAssumption DEF Consistent, Request, TypeOK
    <3> QED BY <1>1, <2>2, <3>1, TablesSaved DEF Request
  <2>3. ASSUME NEW i \in Interaction, Resolved(i) PROVE Tables'
    <3>1. Consistent([status EXCEPT ![i] = Ended(status)[i]], owner)
      BY <1>0, <2>1, <2>3 DEF Consistent, TypeOK
    <3> QED BY <1>1, <2>3, <3>1, TablesSaved DEF Resolved
  <2>4. CASE CancelRun \/ EndRun \/ ExpireDue
    BY <1>1, <2>1, <2>4, TablesSaved DEF CancelRun, EndRun, ExpireDue, EndInteractions
  <2>5. CASE ServerDies BY <1>0, <2>5, TablesKept DEF ServerDies
  <2> QED BY <2>2, <2>3, <2>4, <2>5
<1> QED BY <1>1, <1>2, <1>3, <1>4, <1>5, <1>6, QuietStep

\* Another process continues from the saved tables.
LEMMA RestartStep == ASSUME InteractionInv, TypeOK', Restart PROVE InteractionInv'
<1>1. \A s \in Slot : ~Busy(s)' BY DEF Restart, Busy, Done, InteractionInv, TypeOK, Call
<1>2. CallOwns' BY <1>1 DEF CallOwns
<1>3. GivenByOwner' BY DEF InteractionInv, GivenByOwner, Restart, Saved
<1>4. Tables'
  <2>1. Consistent(Ended(disk.status), disk.owner)
    BY EndedConsistent DEF InteractionInv, Tables, TypeOK
  <2> QED BY <2>1, TablesSaved DEF Restart
<1>5. TakenWasGiven' BY DEF InteractionInv, TakenWasGiven, Restart
<1>6. CancelStopsRun' BY DEF CancelStopsRun, Restart
<1> QED BY <1>2, <1>3, <1>4, <1>5, <1>6 DEF InteractionInv

\* What a panel does leaves the Bridge's promise alone ...
LEMMA PanelsAreQuiet ==
    ASSUME InteractionInv, TypeOK', UNCHANGED bridgeVars, NoneEnters, NoneLeaves
    PROVE  InteractionInv'
<1>1. UNCHANGED <<run, status, owner, disk, given, told>> BY DEF bridgeVars
<1>2. Tables' BY <1>1, TablesKept DEF InteractionInv
<1>3. TakenWasGiven' BY <1>1 DEF InteractionInv, TakenWasGiven
<1>4. CancelStopsRun' BY <1>1, StillStopped DEF InteractionInv
<1> QED BY <1>1, <1>2, <1>3, <1>4, QuietStep

\* ... when it opens, closes, lists or posts ...
LEMMA PanelCalls ==
    ASSUME InteractionInv, TypeOK', NEW p \in Panel,
           \/ Open(p) \/ Close(p) \/ ReadList(p) \/ ApplyList(p)
           \/ \E i \in Interaction : Retry(p, i) \/ \E r \in Reply : Choose(p, i, r)
    PROVE  InteractionInv'
<1>1. CASE Open(p) \/ Close(p) \/ ReadList(p) \/ ApplyList(p)
  <2>1. UNCHANGED bridgeVars /\ UNCHANGED call
    BY <1>1 DEF Open, Close, ReadList, ApplyList
  <2>2. NoneEnters /\ NoneLeaves BY <2>1 DEF NoneEnters, NoneLeaves, Busy
  <2> QED BY <2>1, <2>2, PanelsAreQuiet
<1>2. ASSUME NEW i \in Interaction, NEW c, Post(p, i, c) PROVE InteractionInv'
  <2>1. PICK s \in Slot :
           /\ call[s] = None
           /\ call' = [call EXCEPT ![s] = [panel |-> p, about |-> i, claim |-> c,
                                           at |-> "arrived", waits |-> "answer",
                                           list |-> None]]
    BY <1>2 DEF Post
  <2>2. NoneEnters /\ NoneLeaves
    BY <2>1 DEF NoneEnters, NoneLeaves, Busy, InteractionInv, TypeOK
  <2> QED BY <1>2, <2>2, PanelsAreQuiet DEF Post
<1> QED BY <1>1, <1>2 DEF Retry, Choose

\* ... and when its call returns.
LEMMA PanelStepCalls ==
    ASSUME InteractionInv, TypeOK', NEW s \in Slot, PanelStep(s)
    PROVE  InteractionInv'
<1>1. UNCHANGED bridgeVars BY DEF PanelStep, Returned, Relisted, Settled
<1>2. call[s] \in Call /\ call \in [Slot -> Call \cup {None}]
  BY DEF PanelStep, Returned, Relisted, Settled, InteractionInv, TypeOK
<1>3. /\ \A t \in Slot \ {s} : call'[t] = call[t]
      /\ \/ call'[s] = None /\ call[s].at \in Done
         \/ /\ call'[s] \in Call /\ call'[s].at = call[s].at
            /\ call'[s].about = call[s].about /\ call'[s].claim = call[s].claim
  <2>1. CASE Leave(s) BY <1>2, <2>1 DEF Leave, Call
  <2>2. CASE \E w \in {"confirm", "check", "recheck"} : call' = [call EXCEPT ![s].waits = w]
    BY <1>2, <2>2 DEF Call
  <2>3. CASE Relisted(s)
    <3>1. PendingNow \in Lists BY DEF PendingNow, Lists
    <3> QED BY <1>2, <2>3, <3>1 DEF Relisted, Call
  <2> QED BY <2>1, <2>2, <2>3 DEF PanelStep, Returned, Settled
<1>4. NoneEnters /\ NoneLeaves
  BY <1>2, <1>3, NoneAssumption DEF NoneEnters, NoneLeaves, Busy, Done
<1> QED BY <1>1, <1>4, PanelsAreQuiet

\* The write: by the only call about the interaction, once.
LEMMA RespondStep ==
    ASSUME InteractionInv, TypeOK', NEW s \in Slot, Respond(s)
    PROVE  InteractionInv'
<1> DEFINE i == call[s].about
           c == call[s].claim
<1>1. /\ Busy(s) /\ call[s].at = "claimed" /\ call[s] \in Call
      /\ i \in Interaction /\ c \in Claims /\ c # None
  BY NoneAssumption DEF Respond, At, Busy, InteractionInv, TypeOK, Call
<1>2. owner[i] = c /\ disk.owner[i] = c /\ given[i] = <<>>
  BY <1>1 DEF InteractionInv, CallOwns
<1>3. /\ \A j \in Interaction \ {i} : given'[j] = given[j]
      /\ given'[i] = <<>> \/ given'[i] = <<c>>
      /\ call'[s].at = "written" => given'[i] = <<c>>
  BY <1>1, <1>2 DEF Respond, InteractionInv, TypeOK, Call
<1>4. /\ \A t \in Slot \ {s} : call'[t] = call[t]
      /\ call'[s] # None /\ call'[s].at \in {"written", "raised"}
      /\ call'[s].about = i /\ call'[s].claim = c
  <2>1. \E r \in {"written", "raised"} : call' = [call EXCEPT ![s].at = r]
    BY DEF Respond
  <2>2. call \in [Slot -> Call \cup {None}] BY DEF InteractionInv, TypeOK
  <2>3. /\ \A t \in Slot \ {s} : call'[t] = call[t]
        /\ call'[s] \in Call /\ call'[s].at \in {"written", "raised"}
        /\ call'[s].about = i /\ call'[s].claim = c
    BY <1>1, <2>1, <2>2 DEF Call
  <2> QED BY <2>3, NoneAssumption
<1>5. UNCHANGED <<run, status, owner, disk, told>> BY DEF Respond
<1>6. \A t \in Slot : Busy(t)' <=> Busy(t) BY <1>1, <1>4 DEF Busy
<1>7. CallOwns'
  <2> SUFFICES ASSUME NEW t \in Slot, Busy(t)'
               PROVE  /\ owner'[call'[t].about] = call'[t].claim
                      /\ disk'.owner[call'[t].about] = call'[t].claim
                      /\ call'[t].at = "claimed" => given'[call'[t].about] = <<>>
                      /\ call'[t].at = "written" => given'[call'[t].about] = <<call'[t].claim>>
                      /\ \A u \in Slot : Busy(u)' /\ call'[u].about = call'[t].about => u = t
    BY DEF CallOwns
  <2>1. CASE t = s
    <3>1. \A u \in Slot : Busy(u)' /\ call'[u].about = i => u = s
      BY <1>1, <1>4, <1>6 DEF InteractionInv, CallOwns
    <3> QED BY <1>2, <1>3, <1>4, <1>5, <2>1, <3>1
  <2>2. CASE t # s
    <3>1. call[t].about # i /\ call[t].about \in Interaction
      BY <1>1, <1>6, <2>2 DEF InteractionInv, CallOwns, Busy, TypeOK, Call
    <3>2. call'[t] = call[t] /\ given'[call[t].about] = given[call[t].about]
      BY <1>3, <1>4, <2>2, <3>1
    <3>3. \A u \in Slot : Busy(u)' /\ call'[u].about = call[t].about => u = t
      BY <1>4, <1>6, <3>1 DEF InteractionInv, CallOwns
    <3> QED BY <1>5, <1>6, <3>2, <3>3 DEF InteractionInv, CallOwns
  <2> QED BY <2>1, <2>2
<1>8. GivenByOwner' BY <1>1, <1>2, <1>3, <1>5 DEF InteractionInv, GivenByOwner
<1>9. status[i] \notin Reply /\ disk.status[i] \notin Reply /\ \A t \in told : t[1] # i
  BY <1>1, <1>2 DEF InteractionInv, Tables, Consistent, TakenWasGiven
<1>10. Tables' BY <1>3, <1>5, <1>9 DEF InteractionInv, Tables, Consistent
<1>11. TakenWasGiven'
  <2>1. \A t \in told : t[1] \in Interaction BY DEF InteractionInv, TypeOK
  <2> QED BY <1>3, <1>5, <1>9, <2>1 DEF InteractionInv, TakenWasGiven
<1>12. CancelStopsRun'
  <2> SUFFICES ASSUME NEW j \in Interaction,
                      given'[j] # <<>>, given'[j][1].reply = Cancel,
                      \A t \in Slot : ~(/\ call'[t] # None /\ call'[t].about = j
                                        /\ call'[t].at \in {"written", "raised"})
               PROVE  run' # "running"
    BY DEF CancelStopsRun
  <2>1. j # i BY <1>4
  <2>2. \A t \in Slot : ~(/\ call[t] # None /\ call[t].about = j
                          /\ call[t].at \in {"written", "raised"})
    BY <1>1, <1>4, <2>1
  <2> QED BY <1>3, <1>5, <2>1, <2>2 DEF InteractionInv, CancelStopsRun
<1> QED BY <1>7, <1>8, <1>10, <1>11, <1>12 DEF InteractionInv

\* An answered call is no longer between its critical sections.
LEMMA AnsweredCall ==
    ASSUME TypeOK, NEW s \in Slot, call[s] # None, NEW r \in Done, Answer(s, r)
    PROVE  NoneEnters /\ ~Busy(s)' /\ \A t \in Slot \ {s} : call'[t] = call[t]
<1>1. call[s] \in Call /\ call \in [Slot -> Call \cup {None}] BY DEF TypeOK
<1>2. ~Busy(s)' /\ \A t \in Slot \ {s} : call'[t] = call[t]
  BY <1>1 DEF Answer, Busy, Call, Done
<1> QED BY <1>2 DEF NoneEnters, Busy

\* Consistent tables in memory and on disk.
LEMMA TablesFrom ==
    ASSUME Consistent(status', owner'), Consistent(disk'.status, disk'.owner), UNCHANGED given
    PROVE  Tables'
  BY DEF Tables, Consistent

\* The first critical section: only an unclaimed interaction is claimed.
LEMMA ClaimStep ==
    ASSUME InteractionInv, TypeOK', NEW s \in Slot, Claim(s)
    PROVE  InteractionInv'
<1> DEFINE i == call[s].about
           c == call[s].claim
           st == [status EXCEPT ![i] = "responding"]
<1>1. /\ call[s] # None /\ call[s] \in Call /\ call[s].at = "arrived" /\ ~Busy(s)
      /\ i \in Interaction /\ c \in Claims /\ c # None /\ TypeOK
  BY NoneAssumption DEF Claim, At, Busy, InteractionInv, TypeOK, Call
<1>2. UNCHANGED given BY DEF Claim
<1>3. CASE /\ Known(s) \/ Repeated(s)
           /\ UNCHANGED <<run, status, owner, disk, live, token, faults>>
  <2>1. \E r \in Done : Answer(s, r) BY <1>3 DEF Known, Repeated, Done
  <2>2. NoneEnters /\ NoneLeaves
    BY <1>1, <2>1, AnsweredCall DEF NoneLeaves, Busy
  <2>3. Tables' BY <1>2, <1>3, TablesKept DEF InteractionInv
  <2>4. CancelStopsRun' BY <1>2, <1>3, <2>2, StillStopped DEF InteractionInv
  <2>5. TakenWasGiven'
    <3>1. CASE Known(s) BY <1>2, <3>1 DEF Known, InteractionInv, TakenWasGiven
    <3>2. CASE Repeated(s)
      <4>1. given[i] = <<c>>
        BY <1>1, <3>2 DEF Repeated, InteractionInv, Tables, Consistent
      <4> QED BY <1>2, <3>2, <4>1 DEF Repeated, InteractionInv, TakenWasGiven
    <3> QED BY <1>3, <3>1, <3>2
  <2> QED BY <1>2, <1>3, <2>2, <2>3, <2>4, <2>5, QuietStep
<1>4. CASE /\ owner[i] = None /\ run = "running" /\ status[i] = "pending"
           /\ owner' = [owner EXCEPT ![i] = c]
           /\ UNCHANGED told
           /\ \/ /\ status' = st /\ Saved
                 /\ call' = [call EXCEPT ![s].at = "claimed"]
                 /\ UNCHANGED run
              \/ /\ Fatal(st)
                 /\ disk' \in {disk, [status |-> st, owner |-> owner']}
                 /\ Answer(s, "broken")
  <2>1. given[i] = <<>> /\ \A t \in Slot : Busy(t) => call[t].about # i
    <3>1. \A t \in Slot : Busy(t) => call[t].claim # None
      BY NoneAssumption DEF Busy, InteractionInv, TypeOK, Call
    <3> QED BY <1>1, <1>4, <3>1 DEF InteractionInv, GivenByOwner, CallOwns
  <2>2. owner'[i] = c /\ \A j \in Interaction \ {i} : owner'[j] = owner[j]
    BY <1>1, <1>4 DEF TypeOK
  <2>3. st \in [Interaction -> Status] /\ Consistent(st, owner')
    <3>1. st \in [Interaction -> Status] BY <1>1 DEF TypeOK, Status, Pendings
    <3>2. "responding" \notin Reply BY InteractionsAssumption
    <3> QED BY <1>1, <2>2, <3>1, <3>2 DEF Consistent, InteractionInv, Tables, TypeOK
  <2>4. disk'.owner = owner' \/ disk' = disk
    <3> HIDE DEF st
    <3>1. CASE Saved BY <3>1 DEF Saved
    <3>2. CASE disk' \in {disk, [status |-> st, owner |-> owner']} BY <3>2
    <3> QED BY <1>4, <3>1, <3>2
  <2>5. /\ \A t \in Slot \ {s} : call'[t] = call[t]
        /\ \/ Busy(s)' /\ call'[s].at = "claimed" /\ call'[s].about = i
              /\ call'[s].claim = c /\ disk'.owner = owner'
           \/ ~Busy(s)'
    <3>1. CASE call' = [call EXCEPT ![s].at = "claimed"] /\ Saved
      BY <1>1, <3>1 DEF TypeOK, Call, Busy, Saved
    <3>2. CASE Answer(s, "broken")
      <4>1. "broken" \in Done BY DEF Done
      <4> QED BY <1>1, <3>2, <4>1, AnsweredCall
    <3> QED BY <1>4, <3>1, <3>2
  <2>6. \A t \in Slot : Busy(t)' /\ t # s =>
           /\ Busy(t) /\ call'[t] = call[t]
           /\ call[t].about # i /\ call[t].about \in Interaction
    BY <2>1, <2>5 DEF Busy, InteractionInv, TypeOK, Call
  <2>7. CallOwns'
    <3> SUFFICES ASSUME NEW t \in Slot, Busy(t)'
                 PROVE  /\ owner'[call'[t].about] = call'[t].claim
                        /\ disk'.owner[call'[t].about] = call'[t].claim
                        /\ call'[t].at = "claimed" => given'[call'[t].about] = <<>>
                        /\ call'[t].at = "written" => given'[call'[t].about] = <<call'[t].claim>>
                        /\ \A u \in Slot : Busy(u)' /\ call'[u].about = call'[t].about => u = t
      BY DEF CallOwns
    <3>1. CASE t = s
      <4>1. \A u \in Slot : Busy(u)' /\ call'[u].about = i => u = s BY <2>6
      <4> QED BY <1>2, <2>1, <2>2, <2>5, <3>1, <4>1
    <3>2. CASE t # s
      <4>1. /\ owner[call[t].about] = call[t].claim
            /\ disk.owner[call[t].about] = call[t].claim
            /\ call[t].at = "claimed" => given[call[t].about] = <<>>
            /\ call[t].at = "written" => given[call[t].about] = <<call[t].claim>>
            /\ \A u \in Slot : Busy(u) /\ call[u].about = call[t].about => u = t
        BY <2>6, <3>2 DEF InteractionInv, CallOwns
      <4>2. /\ owner'[call'[t].about] = call'[t].claim
            /\ disk'.owner[call'[t].about] = call'[t].claim
        BY <2>2, <2>4, <2>6, <3>2, <4>1
      <4>3. \A u \in Slot : Busy(u)' /\ call'[u].about = call'[t].about => u = t
        BY <2>5, <2>6, <3>2, <4>1
      <4> QED BY <1>2, <2>6, <3>2, <4>1, <4>2, <4>3
    <3> QED BY <3>1, <3>2
  <2>8. GivenByOwner'
    BY <1>1, <1>2, <2>1, <2>2, <2>4 DEF InteractionInv, GivenByOwner
  <2>9. Tables'
    <3>1. Consistent(Ended(st), owner')
      <4> HIDE DEF st
      <4> QED BY <2>3, EndedConsistent
    <3>2. CASE status' = st /\ Saved
      BY <1>2, <2>3, <3>2, TablesFrom DEF Saved
    <3>3. CASE Fatal(st) /\ disk' \in {disk, [status |-> st, owner |-> owner']}
      <4>1. Consistent(disk'.status, disk'.owner)
        <5> HIDE DEF st
        <5>1. Consistent(disk.status, disk.owner) BY DEF InteractionInv, Tables
        <5> QED BY <2>3, <3>3, <5>1
      <4> QED BY <1>2, <3>1, <3>3, <4>1, TablesFrom DEF Fatal
    <3> QED BY <1>4, <3>2, <3>3
  <2>10. TakenWasGiven' BY <1>2, <1>4 DEF InteractionInv, TakenWasGiven
  <2>11. CancelStopsRun'
    <3>1. NoneLeaves BY <1>1, <2>5 DEF NoneLeaves, Busy
    <3> QED BY <1>2, <1>4, <3>1, StillStopped DEF InteractionInv, Fatal
  <2> QED BY <2>7, <2>8, <2>9, <2>10, <2>11 DEF InteractionInv
<1> QED BY <1>3, <1>4 DEF Claim

\* The second critical section.
LEMMA ConcludeStep ==
    ASSUME InteractionInv, TypeOK', NEW s \in Slot, Conclude(s)
    PROVE  InteractionInv'
<1> DEFINE i == call[s].about
           c == call[s].claim
           taken == At(s, "written") /\ status[i] = "responding"
           stops == c.reply = Cancel /\ run # "ended"
           own == [status EXCEPT ![i] = IF taken THEN c.reply ELSE "outcome_unknown"]
           st == IF stops THEN Ended(own) ELSE own
<1>1. /\ call[s] # None /\ call[s] \in Call /\ Busy(s) /\ TypeOK
      /\ call[s].at \in {"written", "raised"}
      /\ i \in Interaction /\ c \in Claims /\ c # None
  BY NoneAssumption DEF Conclude, At, Busy, InteractionInv, TypeOK, Call
<1>2. /\ owner[i] = c /\ disk.owner[i] = c
      /\ taken => given[i] = <<c>>
      /\ given[i] # <<>> => given[i] = <<c>>
  BY <1>1 DEF InteractionInv, CallOwns, GivenByOwner, At
<1>3. UNCHANGED <<owner, given>> BY DEF Conclude
<1>4. NoneEnters /\ \A t \in Slot \ {s} : call'[t] = call[t]
  <2>1. \E r \in Done : Answer(s, r) BY DEF Conclude, Done
  <2> QED BY <1>1, <2>1, AnsweredCall
<1>5. st \in [Interaction -> Status] /\ Consistent(st, owner) /\ Consistent(own, owner)
  <2>1. own \in [Interaction -> Status] BY <1>1 DEF TypeOK, Status, Claims
  <2>2. Consistent(own, owner)
    <3>1. c.reply \in Reply BY <1>1 DEF Claims
    <3> QED BY <1>1, <1>2, <3>1, InteractionsAssumption
            DEF Consistent, InteractionInv, Tables, TypeOK
  <2>3. Ended(own) \in [Interaction -> Status] /\ Consistent(Ended(own), owner)
    <3> HIDE DEF own
    <3> QED BY <2>1, <2>2, EndedType, EndedConsistent
  <2> QED BY <2>1, <2>2, <2>3
<1>6. /\ status' = st \/ Fatal(st)
      /\ Saved \/ disk' \in {disk, [status |-> st, owner |-> owner],
                             [status |-> own, owner |-> owner]}
  BY DEF Conclude
<1>7. disk'.owner \in {disk.owner, owner}
  <2> HIDE DEF st, own
  <2> QED BY <1>3, <1>6 DEF Saved
<1>8. Tables'
  <2> HIDE DEF st, own
  <2>1. Consistent(Ended(st), owner) BY <1>5, EndedConsistent
  <2>2. Consistent(disk.status, disk.owner) BY DEF InteractionInv, Tables
  <2>3. Consistent(status', owner') BY <1>3, <1>5, <1>6, <2>1 DEF Fatal
  <2>4. Consistent(disk'.status, disk'.owner) BY <1>5, <1>6, <2>2, <2>3 DEF Saved
  <2> QED BY <1>3, <2>3, <2>4, TablesFrom
<1>9. TakenWasGiven'
  <2>1. told' = told \/ (taken /\ told' = told \cup {<<i, c>>}) BY DEF Conclude
  <2> QED BY <1>2, <1>3, <2>1 DEF InteractionInv, TakenWasGiven
<1>10. CancelStopsRun'
  <2>1. /\ run' = "running" => run = "running"
        /\ c.reply = Cancel => run' # "running"
    BY DEF Conclude, Fatal
  <2> SUFFICES ASSUME NEW j \in Interaction,
                      given'[j] # <<>>, given'[j][1].reply = Cancel,
                      \A t \in Slot : ~(/\ call'[t] # None /\ call'[t].about = j
                                        /\ call'[t].at \in {"written", "raised"})
               PROVE  run' # "running"
    BY DEF CancelStopsRun
  <2>2. CASE j = i BY <1>2, <1>3, <2>1, <2>2
  <2>3. CASE j # i
    <3>1. \A t \in Slot : ~(/\ call[t] # None /\ call[t].about = j
                            /\ call[t].at \in {"written", "raised"})
      BY <1>1, <1>4, <2>3
    <3> QED BY <1>3, <2>1, <3>1 DEF InteractionInv, CancelStopsRun
  <2> QED BY <2>2, <2>3
<1> QED BY <1>3, <1>4, <1>7, <1>8, <1>9, <1>10, QuietStep

\* Every step keeps the invariant.
LEMMA InvStep == InteractionInv /\ [Next]_vars => InteractionInv'
<1> SUFFICES ASSUME InteractionInv, [Next]_vars PROVE InteractionInv' OBVIOUS
<1>1. TypeOK' BY TypeStep DEF InteractionInv
<1>2. CASE UNCHANGED vars
  <2>1. UNCHANGED bridgeVars /\ UNCHANGED call BY <1>2 DEF vars
  <2>2. NoneEnters /\ NoneLeaves BY <2>1 DEF NoneEnters, NoneLeaves, Busy
  <2> QED BY <1>1, <2>1, <2>2, PanelsAreQuiet
<1>3. CASE Next
  BY <1>1, <1>3, EndingStep, RestartStep, ClaimStep, RespondStep, ConcludeStep,
     PanelCalls, PanelStepCalls
  DEF Next, BridgeStep
<1> QED BY <1>2, <1>3

\* The invariant holds.
LEMMA InvHolds == Spec => []InteractionInv
  BY InvInit, InvStep, PTL DEF Spec

-----------------------------------------------------------------------------
(* What it means.                                                          *)

\* Codex is given one reply at most, the claimed one, and an interaction whose
\* reply may have reached it is never shown as open or merely expired: the
\* claim is saved before respond, whatever panels, expiry, refusals of the
\* journal and restarts come between.
THEOREM OneReply == Spec => []AnswerIsClaimed
<1>1. InteractionInv => AnswerIsClaimed
  <2> SUFFICES ASSUME InteractionInv, NEW i \in Interaction, given[i] # <<>>
               PROVE  /\ given[i] = <<owner[i]>> /\ disk.owner[i] = owner[i]
                      /\ {status[i], disk.status[i]} \cap {"pending", "expired"} = {}
    BY DEF AnswerIsClaimed
  <2>1. owner[i] # None /\ given[i] = <<owner[i]>> /\ disk.owner[i] = owner[i]
    BY DEF InteractionInv, GivenByOwner
  <2> QED BY <2>1 DEF InteractionInv, Tables, Consistent
<1> QED BY <1>1, InvHolds, PTL

\* A reply the Bridge reports as taken, at once or to a repeated call, is the
\* one that was written to Codex.
THEOREM ReportedWasWritten == Spec => []TakenWasGiven
  BY InvHolds, PTL DEF InteractionInv

\* After Codex was told to cancel and the call has concluded, the run is no
\* longer running, however the write and the saves went.
THEOREM CancelEndsRun == Spec => []CancelStopsRun
  BY InvHolds, PTL DEF InteractionInv

=============================================================================
