---------------------------- MODULE Interactions ----------------------------
(***************************************************************************)
(* Codex asks for an approval or an answer, and somebody replies: the      *)
(* interactions of one run, from the app server's request to the reply     *)
(* written back, with the panels that show them.                           *)
(*                                                                         *)
(* The broker's decide_approval and answer_user_input claim an             *)
(* interaction under the lock, write the reply without it and conclude     *)
(* under it again.  In between the interaction may time out, be withdrawn  *)
(* by the app server or end with its run, and the process may stop.        *)
(* Several panels may reply to one card, repeat a call whose answer was    *)
(* lost, and read the list of pending interactions at any moment.          *)
(*                                                                         *)
(* accept, decline and answer differ only in wording and are all replies   *)
(* other than Cancel; policy (what is denied without asking) is left out.  *)
(***************************************************************************)
EXTENDS Naturals, Sequences, FiniteSets

CONSTANTS
    Panel,          \* browser tabs that show the chat
    Interaction,
    Reply, Cancel,  \* Cancel is the reply that also stops the run
    Slot,           \* calls that may be under way at one time
    None,
    MaxIds,         \* bound: client request ids
    MaxFaults       \* bound: lost answers, failed writes and saves, restarts

ASSUME InteractionsAssumption ==
    /\ Cancel \in Reply
    /\ MaxIds \in Nat \ {0} /\ MaxFaults \in Nat
    /\ Reply \cap {"absent", "pending", "responding",
                   "expired", "outcome_unknown"} = {}

VARIABLES
    run,            \* status of the run that asks
    status, owner,  \* RuntimeInteractionState, and who claimed the response
    disk,           \* the same as saved
    live,           \* the run's app-server generation is the current one
    token,          \* the app-server client's _server_requests
    given,          \* history: replies written to Codex
    told,           \* history: claims the Bridge answered with success
    open,           \* panels whose selected chat is this one
    cards,          \* _pendingInteractions
    mutation,       \* _interactionMutations
    refresh,        \* a list a panel has read and not yet applied
    used,           \* client request ids given out
    call,           \* the calls under way
    faults

bridgeVars == <<run, status, owner, disk, live, token, given, told>>
panelVars == <<open, cards, mutation, refresh, used>>
vars == <<bridgeVars, panelVars, call, faults>>

Pendings == {"pending", "responding"}
Status == Pendings \cup {"absent", "expired", "outcome_unknown"} \cup Reply
Done == {"ok", "known", "broken"}     \* how a call ends in the Bridge
Claims == [id : 1..MaxIds, reply : Reply]
Lists == SUBSET Interaction
Mutation == [claim : Claims, state : {"sending", "reconciling", "retryable"}]
Call == [panel : Panel, about : Interaction, claim : Claims,
         \* the Bridge's side: "known" errors carry an interaction error code
         at : {"arrived", "claimed", "written", "raised"} \cup Done,
         \* the panel's side
         waits : {"answer", "confirm", "check", "recheck", "gone"},
         list : Lists \cup {None}]

\* None is none of the records it stands beside.
ASSUME NoneAssumption == None \notin Claims \cup Mutation \cup Call

TypeOK ==
    /\ run \in {"running", "cancelling", "ended"}
    /\ status \in [Interaction -> Status]
    /\ owner \in [Interaction -> Claims \cup {None}]
    /\ disk \in [status : [Interaction -> Status],
                 owner : [Interaction -> Claims \cup {None}]]
    /\ live \in BOOLEAN /\ token \in SUBSET Interaction
    /\ given \in [Interaction -> Seq(Claims)]
    /\ told \in SUBSET (Interaction \X Claims)
    /\ open \in SUBSET Panel
    /\ cards \in [Panel -> Lists]
    /\ mutation \in [Panel -> [Interaction -> Mutation \cup {None}]]
    /\ refresh \in [Panel -> Lists \cup {None}]
    /\ used \in 0..MaxIds /\ faults \in 0..MaxFaults
    /\ call \in [Slot -> Call \cup {None}]

NoMutation == [i \in Interaction |-> None]

Init ==
    /\ run = "running" /\ live = TRUE /\ token = {}
    /\ status = [i \in Interaction |-> "absent"]
    /\ owner = NoMutation
    /\ disk = [status |-> status, owner |-> owner]
    /\ given = [i \in Interaction |-> <<>>] /\ told = {}
    /\ open = Panel
    /\ cards = [p \in Panel |-> {}]
    /\ mutation = [p \in Panel |-> NoMutation]
    /\ refresh = [p \in Panel |-> None]
    /\ used = 0 /\ faults = 0
    /\ call = [s \in Slot |-> None]

Fault == faults < MaxFaults /\ faults' = faults + 1
PendingNow == {i \in Interaction : status[i] = "pending"}
Saved == disk' = [status |-> status', owner |-> owner']

-----------------------------------------------------------------------------
(* The broker: what becomes of an interaction nobody will reply to.        *)

\* Mutant: a reply that may have been written is shown as expired.
EndedAsExpired(st) ==
    [i \in Interaction |-> IF st[i] \in Pendings THEN "expired" ELSE st[i]]

\* A pending one expires; of one being answered the outcome is not known.
Ended(st) ==
    [i \in Interaction |-> CASE st[i] = "pending" -> "expired"
                             [] st[i] = "responding" -> "outcome_unknown"
                             [] OTHER -> st[i]]

\* The app server asks, and the request is kept for a deferred response.
Request(i) ==
    /\ status[i] = "absent" /\ run = "running" /\ live
    /\ status' = [status EXCEPT ![i] = "pending"]
    /\ token' = token \cup {i}
    /\ UNCHANGED <<run, owner, live, given, told, panelVars, call, faults>>
    /\ Saved

\* serverRequest/resolved: the app server no longer waits.
Resolved(i) ==
    /\ live /\ status[i] \in Pendings
    /\ status' = [status EXCEPT ![i] = Ended(status)[i]]
    /\ token' = token \ {i}
    /\ UNCHANGED <<run, owner, live, given, told, panelVars, call, faults>>
    /\ Saved

EndInteractions ==
    /\ status' = Ended(status) /\ token' = {}
    /\ UNCHANGED <<owner, given, told, panelVars, call, faults>>
    /\ Saved

CancelRun ==
    /\ run = "running"
    /\ run' = "cancelling" /\ EndInteractions
    /\ UNCHANGED live

\* The turn completes or fails, or a changed generation is reconciled.
EndRun ==
    /\ run # "ended"
    /\ run' = "ended" /\ EndInteractions
    /\ UNCHANGED live

\* An interaction is past its expiry: seen by the watchdog, by a claim or by
\* a list of the pending ones.  The run fails with it.
ExpireDue ==
    /\ \E i \in Interaction : status[i] \in Pendings
    /\ run' = "ended" /\ live' = FALSE /\ EndInteractions

\* The app server dies or is aborted; the broker will learn of it.
ServerDies ==
    /\ live
    /\ live' = FALSE /\ token' = {}
    /\ UNCHANGED <<run, status, owner, disk, given, told, panelVars, call, faults>>

\* Another process continues with the saved state.
Restart ==
    /\ Fault
    /\ run' = "ended" /\ live' = FALSE /\ token' = {}
    /\ status' = Ended(disk.status) /\ owner' = disk.owner /\ Saved
    /\ call' = [s \in Slot |->
                  CASE call[s] = None \/ call[s].waits = "gone" -> None
                    [] call[s].at \in Done -> call[s]
                    [] OTHER -> [call[s] EXCEPT !.at = "broken"]]
    /\ UNCHANGED <<given, told, panelVars>>

-----------------------------------------------------------------------------
(* The broker: decide_approval and answer_user_input.                      *)

At(s, step) == call[s] # None /\ call[s].at = step

Answer(s, result) ==
    call' = [call EXCEPT ![s] = IF @.waits = "gone" THEN None
                                ELSE [@ EXCEPT !.at = result]]

\* A claim that cannot be made, or was made before.
Known(s) ==
    LET i == call[s].about
        mine == owner[i] = call[s].claim
    IN
    /\ \/ owner[i] # None /\ ~(mine /\ status[i] \in Reply)
       \/ owner[i] = None /\ (run # "running" \/ status[i] # "pending" \/ ~live)
    /\ Answer(s, "known")
    /\ UNCHANGED told

Repeated(s) ==
    LET i == call[s].about IN
    /\ owner[i] = call[s].claim /\ status[i] \in Reply
    /\ Answer(s, "ok") /\ told' = told \cup {<<i, call[s].claim>>}

\* The state cannot be saved: whatever was under way ends in memory.
Fatal(st) ==
    /\ Fault
    /\ run' = "ended" /\ live' = FALSE /\ token' = {}
    /\ status' = Ended(st)

\* The first critical section.  A generation that has failed and is not yet
\* replaced does not stop the claim.
Claim(s) ==
    LET i == call[s].about IN
    /\ At(s, "arrived")
    /\ \/ /\ Known(s) \/ Repeated(s)
          /\ UNCHANGED <<run, status, owner, disk, live, token, faults>>
       \/ /\ owner[i] = None /\ run = "running" /\ status[i] = "pending"
          /\ owner' = [owner EXCEPT ![i] = call[s].claim]
          /\ UNCHANGED told
          /\ LET st == [status EXCEPT ![i] = "responding"] IN
             \/ /\ status' = st /\ Saved
                /\ call' = [call EXCEPT ![s].at = "claimed"]
                /\ UNCHANGED <<run, live, token, faults>>
             \/ /\ Fatal(st)
                /\ disk' \in {disk, [status |-> st, owner |-> owner']}
                /\ Answer(s, "broken")
    /\ UNCHANGED <<given, panelVars>>

\* Without the lock: the token is spent, then the reply is written.
Respond(s) ==
    LET i == call[s].about
        Written == given' = [given EXCEPT ![i] = Append(@, call[s].claim)]
        Goes(step) == call' = [call EXCEPT ![s].at = step]
    IN
    /\ At(s, "claimed")
    /\ token' = token \ {i}
    /\ \/ i \in token /\ Written /\ Goes("written") /\ UNCHANGED faults
       \/ i \in token /\ Fault /\ (Written \/ UNCHANGED given) /\ Goes("raised")
       \/ i \notin token /\ Goes("raised") /\ UNCHANGED <<given, faults>>
    /\ UNCHANGED <<run, status, owner, disk, live, told, panelVars>>

\* Mutant: the reply that was written is reported as taken, whatever has
\* become of the write.
ConcludeBlindly(s) ==
    LET i == call[s].about IN
    /\ At(s, "written") \/ At(s, "raised")
    /\ status' = [status EXCEPT ![i] = call[s].claim.reply]
    /\ Answer(s, "ok") /\ told' = told \cup {<<i, call[s].claim>>}
    /\ UNCHANGED <<run, live, token, owner, given, panelVars, faults>> /\ Saved

\* Mutant: the run is not marked when the outcome of its cancellation is
\* unknown.
ConcludeUnmarked(s) ==
    LET i == call[s].about
        taken == At(s, "written") /\ status[i] = "responding"
        stops == call[s].claim.reply = Cancel /\ run # "ended" /\ taken
        own == [status EXCEPT ![i] = IF taken THEN call[s].claim.reply
                                     ELSE "outcome_unknown"]
    IN
    /\ At(s, "written") \/ At(s, "raised")
    /\ status' = IF stops THEN Ended(own) ELSE own
    /\ token' = IF stops THEN {} ELSE token
    /\ run' = IF stops THEN "cancelling" ELSE run
    /\ told' = IF taken THEN told \cup {<<i, call[s].claim>>} ELSE told
    /\ Answer(s, IF taken THEN "ok" ELSE "known")
    /\ UNCHANGED <<live, owner, given, panelVars, faults>> /\ Saved

\* The second critical section: the reply counts only if the write returned
\* and nothing has ended the interaction meanwhile.  Cancel marks the run in
\* every case, and saves that before the reply's own event is journalled, but
\* after an unknown outcome is saved.  The journal may refuse the event of
\* the reply or those of the interactions that end with the run, and the
\* chat's document may not be written; or a save of the state fails.  No
\* prompt of the chat is queued beside its active run.
Conclude(s) ==
    LET i == call[s].about
        taken == At(s, "written") /\ status[i] = "responding"
        stops == call[s].claim.reply = Cancel /\ run # "ended"
        own == [status EXCEPT ![i] = IF taken THEN call[s].claim.reply
                                     ELSE "outcome_unknown"]
        st == IF stops THEN Ended(own) ELSE own
        Marked == /\ status' = st
                  /\ token' = IF stops THEN {} ELSE token
                  /\ run' = IF stops THEN "cancelling" ELSE run
                  /\ UNCHANGED live
        Image(f) == [status |-> f, owner |-> owner]
    IN
    /\ At(s, "written") \/ At(s, "raised")
    /\ UNCHANGED <<owner, given, panelVars>>
    /\ \/ /\ Marked /\ Saved /\ UNCHANGED faults
          /\ Answer(s, IF taken THEN "ok" ELSE "known")
          /\ told' = IF taken THEN told \cup {<<i, call[s].claim>>} ELSE told
       \/ /\ Marked /\ Fault /\ Answer(s, "broken")
          /\ \/ taken /\ (stops => st # own) /\ disk' = disk
             \/ stops /\ disk' = Image(st)
             \/ ~taken /\ stops /\ disk' = Image(own)
          /\ UNCHANGED told
       \/ /\ Fatal(st) /\ Answer(s, "known")
          /\ \/ disk' \in {disk, Image(st)}
             \/ ~taken /\ stops /\ disk' = Image(own)
          /\ UNCHANGED told

-----------------------------------------------------------------------------
(* A panel: _submitInteractionResponse up to its await.                    *)

Post(p, i, c) ==
    /\ \E s \in Slot : call[s] = None
    /\ LET s == CHOOSE s \in Slot : call[s] = None
       IN  call' = [call EXCEPT ![s] = [panel |-> p, about |-> i, claim |-> c,
                                        at |-> "arrived", waits |-> "answer",
                                        list |-> None]]
    /\ mutation' = [mutation EXCEPT ![p][i] = [claim |-> c, state |-> "sending"]]
    /\ UNCHANGED <<bridgeVars, open, cards, refresh, faults>>

Choose(p, i, r) ==
    /\ i \in cards[p] /\ mutation[p][i] = None /\ used < MaxIds
    /\ used' = used + 1
    /\ Post(p, i, [id |-> used', reply |-> r])

\* Only the original reply can be repeated, under its own id.
Retry(p, i) ==
    /\ i \in cards[p] /\ mutation[p][i] # None
    /\ mutation[p][i].state = "retryable"
    /\ Post(p, i, mutation[p][i].claim)
    /\ UNCHANGED used

\* Another chat is selected: _retireThreadInteractionState.
Close(p) ==
    /\ p \in open
    /\ open' = open \ {p}
    /\ cards' = [cards EXCEPT ![p] = {}]
    /\ mutation' = [mutation EXCEPT ![p] = NoMutation]
    /\ UNCHANGED <<bridgeVars, refresh, used, call, faults>>

Open(p) ==
    /\ p \notin open
    /\ open' = open \cup {p}
    /\ UNCHANGED <<bridgeVars, cards, mutation, refresh, used, call, faults>>

-----------------------------------------------------------------------------
(* A panel: lists of pending interactions.                                 *)

\* Mutant: a card that leaves keeps its mutation.
KeptAll(p, items) == mutation[p]

\* _replacePendingInteractions: a card that leaves takes its mutation along.
Kept(p, items) ==
    [i \in Interaction |-> IF i \in cards[p] \ items THEN None ELSE mutation[p][i]]

\* A poll, a live event or the expiry timer reads the list and, later,
\* applies it.
ReadList(p) ==
    /\ p \in open /\ refresh[p] = None
    /\ refresh' = [refresh EXCEPT ![p] = PendingNow]
    /\ UNCHANGED <<bridgeVars, open, cards, mutation, used, call, faults>>

ApplyList(p) ==
    /\ refresh[p] # None
    /\ refresh' = [refresh EXCEPT ![p] = None]
    /\ IF p \in open
       THEN /\ cards' = [cards EXCEPT ![p] = refresh[p]]
            /\ mutation' = [mutation EXCEPT ![p] = Kept(p, refresh[p])]
       ELSE UNCHANGED <<cards, mutation>>
    /\ UNCHANGED <<bridgeVars, open, used, call, faults>>

-----------------------------------------------------------------------------
(* A panel: _submitInteractionResponse after its await.                    *)

\* The mutation the call was made for is still the card's.
Mine(s) ==
    LET m == mutation[call[s].panel][call[s].about]
    IN  m # None /\ m.claim = call[s].claim

Leave(s) ==
    call' = [call EXCEPT ![s] = IF @.at \in Done THEN None
                                ELSE [@ EXCEPT !.waits = "gone"]]

\* The call returned, failed, or its answer was lost.
Returned(s) ==
    LET k == call[s]
        Check(how) == call' = [call EXCEPT ![s].waits = how]
    IN
    /\ k # None /\ k.waits = "answer"
    /\ \/ k.at \in Done /\ UNCHANGED faults
       \/ Fault
    /\ IF Mine(s)
       THEN /\ mutation' = [mutation EXCEPT ![k.panel][k.about].state = "reconciling"]
            /\ \/ k.at = "ok" /\ faults' = faults /\ Check("confirm")
               \/ k.at = "known" /\ faults' = faults /\ Check("check")
               \/ (k.at = "broken" \/ faults' # faults) /\ Check("recheck")
       ELSE Leave(s) /\ UNCHANGED mutation
    /\ UNCHANGED <<bridgeVars, open, cards, refresh, used>>

\* The list is read again ...
Relisted(s) ==
    /\ call[s] # None /\ call[s].waits \in {"confirm", "check", "recheck"}
    /\ call[s].list = None
    /\ call' = [call EXCEPT ![s].list = PendingNow]
    /\ UNCHANGED <<bridgeVars, panelVars, faults>>

\* ... and applied if the chat is shown.  A card that stays is unlocked only
\* if the failure said nothing about the interaction; a list that cannot be
\* read leaves the card.
Settled(s) ==
    LET k == call[s]
        Unlocked(ms) ==
            IF k.waits = "recheck" /\ ms[k.about] # None /\ ms[k.about].claim = k.claim
            THEN [ms EXCEPT ![k.about].state = "retryable"] ELSE ms
        After(ms) == mutation' = [mutation EXCEPT ![k.panel] = Unlocked(ms)]
    IN
    /\ k # None /\ k.waits \in {"confirm", "check", "recheck"}
    /\ \/ k.panel \notin open /\ UNCHANGED <<cards, mutation, faults>>
       \/ /\ k.panel \in open /\ k.list # None
          /\ cards' = [cards EXCEPT ![k.panel] = k.list]
          /\ After(Kept(k.panel, k.list)) /\ UNCHANGED faults
       \/ /\ k.panel \in open /\ k.list = None
          /\ Fault /\ After(mutation[k.panel]) /\ UNCHANGED cards
    /\ Leave(s)
    /\ UNCHANGED <<bridgeVars, open, refresh, used>>

-----------------------------------------------------------------------------
BridgeStep(s) == Claim(s) \/ Respond(s) \/ Conclude(s)
PanelStep(s) == Returned(s) \/ Relisted(s) \/ Settled(s)

Next ==
    \/ \E i \in Interaction : Request(i) \/ Resolved(i)
    \/ CancelRun \/ EndRun \/ ExpireDue \/ ServerDies \/ Restart
    \/ \E s \in Slot : BridgeStep(s) \/ PanelStep(s)
    \/ \E p \in Panel : Open(p) \/ Close(p) \/ ReadList(p) \/ ApplyList(p)
    \/ \E p \in Panel, i \in Interaction :
          Retry(p, i) \/ \E r \in Reply : Choose(p, i, r)

Spec == Init /\ [][Next]_vars
FairSpec ==
    /\ Spec
    /\ \A s \in Slot : WF_vars(BridgeStep(s)) /\ WF_vars(PanelStep(s))
    /\ \A p \in Panel : WF_vars(ReadList(p)) /\ WF_vars(ApplyList(p))
    /\ WF_vars(ExpireDue)

-----------------------------------------------------------------------------
\* Codex is given at most one reply to a request, and it is the reply of the
\* claim that the interaction carries, in memory and as saved: no other panel,
\* retry, expiry or restart replaces it.  An interaction whose reply may have
\* reached Codex is never shown as merely expired (_claim_interaction_locked
\* saves before respond, and every ending tells "responding" from "pending").
AnswerIsClaimed ==
    \A i \in Interaction : given[i] # <<>> =>
        /\ given[i] = <<owner[i]>> /\ disk.owner[i] = owner[i]
        /\ {status[i], disk.status[i]} \cap {"pending", "expired"} = {}

\* Whoever the Bridge told that a reply was taken, at once or on a retry, its
\* reply is the one Codex was given (decide_approval's check after the
\* write, _claim_interaction_locked's replay).
TakenWasGiven == \A t \in told : given[t[1]] = <<t[2]>>

\* Once Codex was told to cancel and the call is over, the run does not go on
\* as running, whatever the outcome of the write
\* (_mark_run_cancelling_for_interaction_locked).
CancelStopsRun ==
    \A i \in Interaction :
        (/\ given[i] # <<>> /\ given[i][1].reply = Cancel
         /\ \A s \in Slot : ~(/\ call[s] # None /\ call[s].about = i
                              /\ call[s].at \in {"written", "raised"}))
        => run # "running"

\* A card does not stay locked: a reply that is being sent or reconciled ends
\* with the card gone or with the retry offered, because every interaction
\* ends and every panel lists again (_scheduleInteractionExpiryRefresh).
CardUnlocks ==
    \A p \in Panel, i \in Interaction :
        (mutation[p][i] # None /\ mutation[p][i].state # "retryable")
            ~> (mutation[p][i] = None \/ mutation[p][i].state = "retryable")
=============================================================================
