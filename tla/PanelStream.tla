---------------------------- MODULE PanelStream ----------------------------
(***************************************************************************)
(* The browser panel (codex-bridge-panel.js, event-stream.js) following    *)
(* one chat through Home Assistant: a subscription of the EventBroker for  *)
(* live events, get_events requests that read the Bridge's journal past    *)
(* the broker, and a poll timer.  It composes EventFanout, whose           *)
(* subscription Mine belongs to this panel.                                *)
(*                                                                         *)
(* The panel names its chat by thread_id, so the integration serves it in  *)
(* compatibility mode (websocket_api.py): get_events returns the bare list *)
(* of the first page, a snapshot_required becomes an event whose sequence  *)
(* is the cursor, a stream_status becomes an event without a sequence, and *)
(* heartbeats are dropped.                                                 *)
(*                                                                         *)
(* The snapshot epoch admits the answer of the newest refresh or poll      *)
(* only, so one request is kept.  Selecting another chat rebuilds all of   *)
(* this state and is left out, and so is a restart of Home Assistant.      *)
(***************************************************************************)
EXTENDS EventFanout

CONSTANTS
    Mine,       \* the panel's subscription
    Thread,     \* the chat it shows
    PageLimit,  \* events in one get_events answer
    NoFloor     \* the cursorFloor of a refresh that gives none

ASSUME PanelAssumption ==
    /\ Mine \in Subscriber /\ Thread \in Scope
    /\ Filter[Mine] = {Thread}
    /\ PageLimit \in Nat \ {0}
    /\ NoFloor \notin Nat

VARIABLES
    seen,       \* _eventStream.cursor, which _sequence repeats
    shown,      \* cursors of the events in the transcript
    needs,      \* _eventStream.needsSnapshot
    link,       \* the subscription as the panel sees it
    request     \* the current get_events request

panelVars == <<seen, shown, needs, link, request>>
fanoutVars == <<journalVars, brokerVars, sub, got, failures>>
allVars == <<fanoutVars, panelVars>>

-----------------------------------------------------------------------------
LinkStates == {"none", "pending", "active", "waiting"}
NoLink == [state |-> "none", after |-> 0]
NoRequest == [kind |-> "none"]
Answer == [gone : {FALSE}, page : SUBSET Cursor] \cup [gone : {TRUE}, snapshot : Cursor]

PanelTypeOK ==
    /\ seen \in Cursor
    /\ shown \subseteq Cursor
    /\ needs \in BOOLEAN
    /\ link \in [state : LinkStates, after : Cursor]
    /\ request \in {NoRequest}
         \cup [kind : {"refresh"}, floor : Cursor \cup {NoFloor}]
         \cup [kind : {"refreshed"}, floor : Cursor \cup {NoFloor}, answer : Answer]
         \cup [kind : {"poll"}, after : Cursor] \cup [kind : {"polled"}, answer : Answer]

Refresh(floorCursor) == [kind |-> "refresh", floor |-> floorCursor]

PanelInit ==
    /\ Init
    /\ seen = 0 /\ shown = {} /\ needs = FALSE
    /\ link = NoLink
    /\ request = Refresh(NoFloor)

\* _stopEventSubscription: the generation moves on, so nothing of the old
\* subscription is heard again; a new one is a new object.
FreshSub == [state |-> "new", after |-> 0, queue |-> <<>>]
StopSubscription ==
    /\ link' = NoLink
    /\ sub' = [sub EXCEPT ![Mine] = FreshSub]
    /\ got' = [got EXCEPT ![Mine] = {}]

KeepSubscription == UNCHANGED <<link, sub, got>>
RestOfFanout == UNCHANGED <<journalVars, brokerVars, failures>>

-----------------------------------------------------------------------------
(* Requests to Home Assistant.                                             *)

\* ws_get_events in compatibility mode: the first page, has_more dropped, or
\* the snapshot event in place of a 410.
GetEvents(after) ==
    IF after < floor[Thread]
    THEN [gone |-> TRUE, snapshot |-> Larger(snapTo[Thread], floor[Thread])]
    ELSE LET rows == {c \in Of(Thread) : c > after}
         IN  [gone |-> FALSE,
              page |-> {c \in rows : Cardinality({d \in rows : d <= c}) <= PageLimit}]

AnswerRequest ==
    /\ \/ request.kind = "refresh"
          /\ request' = [kind |-> "refreshed", floor |-> request.floor,
                         answer |-> GetEvents(0)]
       \/ request.kind = "poll"
          /\ request' = [kind |-> "polled", answer |-> GetEvents(request.after)]
    /\ UNCHANGED <<seen, shown, needs, link, sub, got>>
    /\ RestOfFanout

\* A request fails: the panel keeps what it has until the next poll.
LoseAnswer ==
    /\ request # NoRequest
    /\ failures < MaxFailures
    /\ failures' = failures + 1
    /\ request' = NoRequest
    /\ UNCHANGED <<journalVars, brokerVars, sub, got, seen, shown, needs, link>>

\* ws_subscribe_events, with the cursor the panel had when it asked; the
\* panel's promise resolves.
OpenSubscription ==
    /\ link.state = "pending"
    /\ Subscribe(Mine, link.after)
    /\ link' = [link EXCEPT !.state = "active"]
    /\ UNCHANGED <<seen, shown, needs, request>>

\* ws_subscribe_events is refused or lost: _scheduleEventReconnect waits, and
\* subscribes again from the cursor the panel has by then.
SubscriptionFails ==
    /\ link.state = "pending"
    /\ failures < MaxFailures
    /\ failures' = failures + 1
    /\ link' = [link EXCEPT !.state = "waiting"]
    /\ UNCHANGED <<journalVars, brokerVars, sub, got, seen, shown, needs, request>>

Reconnect ==
    /\ link.state = "waiting"
    /\ link' = [state |-> "pending", after |-> seen]
    /\ UNCHANGED <<fanoutVars, seen, shown, needs, request>>

\* The user asks for a refresh; the subscription stays until it is applied.
UserRefresh ==
    /\ request = NoRequest
    /\ request' = Refresh(NoFloor)
    /\ UNCHANGED <<seen, shown, needs>> /\ KeepSubscription /\ RestOfFanout

\* _refreshActiveThread, after its requests: the transcript is replaced and
\* a subscription started from the new cursor.
HighestOf(answer) ==
    IF answer.gone THEN answer.snapshot
    ELSE IF answer.page = {} THEN 0 ELSE Max(answer.page)

RefreshCursor(answer, floorCursor) ==
    IF floorCursor = NoFloor THEN HighestOf(answer)
    ELSE Larger(HighestOf(answer), floorCursor)

ApplyRefresh ==
    /\ request.kind = "refreshed"
    /\ shown' = IF request.answer.gone THEN {} ELSE request.answer.page
    /\ seen' = RefreshCursor(request.answer, request.floor)
    /\ needs' = FALSE
    /\ request' = NoRequest
    /\ link' = [state |-> "pending", after |-> seen']
    /\ sub' = [sub EXCEPT ![Mine] = FreshSub]
    /\ got' = [got EXCEPT ![Mine] = {}]
    /\ RestOfFanout

\* _runPollTick: recover from a snapshot boundary, or fetch events unless the
\* subscription is believed to bring them.  Either way the epoch moves on,
\* which abandons a refresh that is under way.
PollTick ==
    /\ request.kind \in {"none", "refresh", "refreshed"}
    /\ IF needs
       THEN request' = Refresh(seen) /\ StopSubscription
       ELSE /\ request' = IF link.state = "active" THEN NoRequest
                          ELSE [kind |-> "poll", after |-> seen]
            /\ KeepSubscription
    /\ UNCHANGED <<seen, shown, needs>>
    /\ RestOfFanout

\* Mutant: the boundary does not wait for the refresh.
BoundaryTrusted(c) ==
    /\ seen' = c
    /\ request' = Refresh(c)
    /\ StopSubscription
    /\ UNCHANGED <<shown, needs>>

\* A boundary at cursor c: nothing later is trusted until a refresh.
Boundary(c) ==
    /\ seen' = c
    /\ needs' = TRUE
    /\ request' = Refresh(c)
    /\ StopSubscription
    /\ UNCHANGED shown

\* The poll's answer, through acceptEvents.
ApplyPoll ==
    /\ request.kind = "polled"
    /\ LET answer == request.answer
       IN  IF answer.gone /\ answer.snapshot > seen
           THEN Boundary(answer.snapshot)
           ELSE LET new == IF answer.gone THEN {} ELSE {c \in answer.page : c > seen}
                IN  /\ shown' = shown \cup new
                    /\ seen' = Max({seen} \cup new)
                    /\ request' = NoRequest
                    /\ UNCHANGED needs
                    /\ KeepSubscription
    /\ RestOfFanout

-----------------------------------------------------------------------------
(* Live events: _forward_v1 takes an envelope, the panel accepts or drops  *)
(* it (_handleSubscribedEvent, acceptEvent).                               *)

\* Mutant: an old envelope moves the cursor back.
AcceptedAnything(env) == env.type \in {"event", "snapshot_required"}

\* parseEvent refuses what has no sequence; acceptEvent what is not new.
Accepted(env) == env.type \in {"event", "snapshot_required"} /\ env.cursor > seen

Deliver ==
    /\ link.state = "active"
    /\ sub[Mine].state \in {"open", "closing"}
    /\ sub[Mine].queue # <<>>
    /\ LET env == Head(sub[Mine].queue)
       IN  \/ /\ ~Accepted(env)
              /\ HandOver(Mine)
              /\ UNCHANGED panelVars
           \/ /\ Accepted(env)
              /\ env.type = "event" /\ ~needs
              /\ HandOver(Mine)
              /\ shown' = shown \cup {env.cursor}
              /\ seen' = env.cursor
              /\ UNCHANGED <<needs, link, request>>
           \/ /\ Accepted(env)
              /\ env.type = "snapshot_required"
              /\ Boundary(env.cursor)
              /\ RestOfFanout

PanelStep ==
    \/ AnswerRequest \/ OpenSubscription \/ Reconnect \/ ApplyRefresh \/ ApplyPoll
    \/ PollTick \/ Deliver

Upstream ==
    /\ \/ \E p \in Scope : Append1(p)
       \/ BrokerStep
       \/ LoseReply
       \/ StopStream
    /\ UNCHANGED panelVars

PanelNext ==
    Upstream \/ PanelStep \/ UserRefresh \/ LoseAnswer \/ SubscriptionFails

PanelSpec == PanelInit /\ [][PanelNext]_allVars

(***************************************************************************)
(* Fairness: the broker and the Bridge answer as in EventFanout; the       *)
(* browser runs the handlers of what arrives, and its poll timer fires.    *)
(* A tick may interrupt a refresh, so the answers and their handlers are   *)
(* strongly fair: a request takes less than a poll interval again and      *)
(* again.                                                                  *)
(***************************************************************************)
PanelFairSpec ==
    /\ PanelSpec
    /\ WF_allVars(BrokerStep /\ UNCHANGED panelVars)
    /\ WF_allVars(OpenSubscription)
    /\ WF_allVars(Reconnect)
    /\ WF_allVars(Deliver)
    /\ WF_allVars(PollTick)
    /\ SF_allVars(AnswerRequest)
    /\ SF_allVars(ApplyRefresh \/ ApplyPoll)

-----------------------------------------------------------------------------
(***************************************************************************)
(* What the panel shows is complete up to its cursor: outside a recovery,  *)
(* every event of the chat that the journal holds up to the panel's cursor *)
(* is in the transcript.  The cursor is where the next request and the     *)
(* next subscription start, so an event below it that is not shown is not  *)
(* asked for again.  "A full get_events replay is authoritative" (the      *)
(* comment in _refreshActiveThread).                                       *)
(***************************************************************************)
TranscriptComplete ==
    ~needs => \A c \in Of(Thread) : c <= seen => c \in shown

(***************************************************************************)
(* When the broker has given up, the panel goes over to polling: "Bridge   *)
(* live updates stopped; polling will retry." (the compatibility event of  *)
(* _forward_v1).  _runPollTick fetches events only while the panel does    *)
(* not believe in its subscription.                                        *)
(***************************************************************************)
PollingRetries ==
    (stream = "stopped" /\ link.state = "active") ~> (link.state # "active")

(***************************************************************************)
(* The panel's cursor moves backwards only when a refresh replaces the     *)
(* whole transcript, never by an envelope or a poll that arrives late.     *)
(***************************************************************************)
CursorOnlyRewoundByRefresh ==
    [][seen' < seen => request.kind = "refreshed" /\ request' = NoRequest]_allVars
=============================================================================
