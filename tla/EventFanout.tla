---------------------------- MODULE EventFanout ----------------------------
(***************************************************************************)
(* How a journal event of the Bridge reaches the subscribers in Home       *)
(* Assistant: the cursors of the journal (event_store.py), its replay and  *)
(* wait reads, the one EventBroker of the integration that follows the     *)
(* journal (event_broker.py), and its bounded subscriptions.               *)
(*                                                                         *)
(* BridgeEventStore.replay reads the floor, the rows and MAX(cursor) in    *)
(* three statements of an autocommit connection, so appends, retention and *)
(* purges of other threads fall between them: three steps here.  The       *)
(* EventBroker runs on one event loop; what it does between two awaits is  *)
(* one step, and the await in _persist_cursor separates moving the cursor  *)
(* over a gap from telling the subscribers.                                *)
(*                                                                         *)
(* An event is its cursor and its scope.  Byte budgets are left out: each  *)
(* stands beside a count budget and is enforced the same way.              *)
(***************************************************************************)
EXTENDS Naturals, Sequences, FiniteSets, FiniteSetsExt, SequencesExt

CONSTANTS
    Scope,          \* the scopes of the journal (threads, auth, runtime)
    Subscriber,     \* the subscriptions that may be opened, each once
    Filter,         \* Filter[s]: the scopes subscription s asks for
    MaxEvents,      \* bound on the events ever appended
    MaxPerScope,    \* retention: max_events_per_thread
    BatchLimit,     \* max_batch_events
    HistorySize,    \* EventBroker history_size
    QueueSize,      \* EventBroker queue_size
    MaxFailures     \* bound on lost replies and restarts of Home Assistant

ASSUME BoundsAssumption ==
    /\ {MaxEvents, MaxPerScope, BatchLimit, HistorySize, QueueSize} \subseteq Nat \ {0}
    /\ MaxFailures \in Nat
    /\ Scope # {}
    /\ Filter \in [Subscriber -> SUBSET Scope]

VARIABLES
    scopeOf,    \* scopeOf[c]: scope of the event with cursor c, deleted or not
    live,       \* cursors of the rows of the events table
    floor,      \* minimum_cursor of every scope
    snapTo,     \* snapshot_cursor of every scope
    call,       \* the request of the broker to the Bridge, and how far it is
    cursor,     \* EventBroker._cursor
    persisted,  \* the cursor in Home Assistant's Store
    history,    \* EventBroker._history
    notice,     \* a gap is recorded, its snapshot_required not yet published
    stream,     \* EventBroker._run: following, or stopped for good
    replay,     \* _run's replay flag: the next request is a replay, not a wait
    retrying,   \* _run's retry count is not zero
    sub,        \* the subscriptions
    got,        \* cursors of the events each subscription has handed over
    failures    \* lost replies and restarts so far

journalVars == <<scopeOf, live, floor, snapTo>>
brokerVars == <<call, cursor, persisted, history, notice, stream, replay, retrying>>
vars == <<journalVars, brokerVars, sub, got, failures>>

-----------------------------------------------------------------------------
Cursor == 0 .. MaxEvents
Idle == [stage |-> "idle"]

EventEnv(c) == [type |-> "event", cursor |-> c]
EventEnvs(cs) == [i \in DOMAIN cs |-> EventEnv(cs[i])]
SnapshotEnv(c) == [type |-> "snapshot_required", cursor |-> c]
HeartbeatEnv(c) == [type |-> "heartbeat", cursor |-> c]
StatusEnv(c) == [type |-> "stream_status", cursor |-> c]
Envelope == [type : {"event", "snapshot_required", "heartbeat", "stream_status"},
             cursor : Cursor]

\* state: "new", "open", "closing" (one last envelope to hand over), "closed".
SubStates == {"new", "open", "closing", "closed"}
Subscription == [state : SubStates, after : Cursor, queue : Seq(Envelope)]

\* A batch as the Bridge returns it.
Batch == [events : Seq(Cursor), next : Cursor, minimum : Cursor, heartbeat : BOOLEAN]

Calls ==
    {Idle}
    \cup [stage : {"floor"}, wait : BOOLEAN]
    \cup [stage : {"rows"}, wait : BOOLEAN, minimum : Cursor]
    \cup [stage : {"max"}, wait : BOOLEAN, minimum : Cursor, rows : Seq(Cursor)]
    \cup [stage : {"reply"}, batch : Batch, more : BOOLEAN]
    \cup [stage : {"gone"}, minimum : Cursor, snapshot : Cursor]

TypeOK ==
    /\ scopeOf \in Seq(Scope) /\ Len(scopeOf) <= MaxEvents
    /\ live \subseteq 1 .. Len(scopeOf)
    /\ floor \in [Scope -> Cursor]
    /\ snapTo \in [Scope -> Cursor]
    /\ call \in Calls
    /\ cursor \in Cursor /\ persisted \in Cursor
    /\ history \in Seq(Cursor) /\ Len(history) <= HistorySize
    /\ notice \in BOOLEAN
    /\ stream \in {"following", "stopped"}
    /\ replay \in BOOLEAN /\ retrying \in BOOLEAN
    /\ sub \in [Subscriber -> Subscription]
    /\ \A s \in Subscriber : Len(sub[s].queue) <= QueueSize
    /\ got \in [Subscriber -> SUBSET Cursor]
    /\ failures \in 0 .. MaxFailures

Init ==
    /\ scopeOf = <<>>
    /\ live = {}
    /\ floor = [p \in Scope |-> 0]
    /\ snapTo = [p \in Scope |-> 0]
    /\ call = Idle
    /\ cursor = 0 /\ persisted = 0
    /\ history = <<>>
    /\ notice = FALSE
    /\ stream = "following"
    /\ replay = TRUE /\ retrying = FALSE
    /\ sub = [s \in Subscriber |-> [state |-> "new", after |-> 0, queue |-> <<>>]]
    /\ got = [s \in Subscriber |-> {}]
    /\ failures = 0

\* The members of a finite set of numbers in ascending order, and the entries
\* of a sequence at a set of positions, in their order.
Ascending(S) ==
    CHOOSE q \in [1 .. Cardinality(S) -> S] : \A i, j \in DOMAIN q : i < j => q[i] < q[j]
Pick(seq, places) ==
    LET at == Ascending(places) IN [k \in DOMAIN at |-> seq[at[k]]]

Larger(a, b) == IF a > b THEN a ELSE b
Of(p) == {c \in live : scopeOf[c] = p}
Floor == Max({floor[p] : p \in Scope})
MaxLive == IF live = {} THEN 0 ELSE Max(live)

-----------------------------------------------------------------------------
(* The journal.                                                            *)

\* _append: the next cursor (AUTOINCREMENT, and a rolled back transaction
\* gives its cursor back), then _enforce_scope_retention in the same
\* transaction.
Append1(p) ==
    LET c == Len(scopeOf) + 1
        kept == Of(p) \cup {c}
        dropped == IF Cardinality(kept) > MaxPerScope THEN {Min(kept)} ELSE {}
    IN  /\ c <= MaxEvents
        /\ scopeOf' = Append(scopeOf, p)
        /\ live' = (live \cup {c}) \ dropped
        /\ floor' = [floor EXCEPT ![p] = Max({@} \cup dropped)]
        /\ snapTo' = [snapTo EXCEPT ![p] = IF dropped = {} THEN @ ELSE Larger(@, c)]
        /\ UNCHANGED <<brokerVars, sub, got, failures>>

\* purge_thread: a deleted chat's rows go, its floor stays.
PurgeThread(p) ==
    /\ Of(p) # {}
    /\ live' = live \ Of(p)
    /\ floor' = [floor EXCEPT ![p] = Larger(@, Max(Of(p)))]
    /\ snapTo' = [snapTo EXCEPT ![p] = Larger(@, Max(Of(p)))]
    /\ UNCHANGED <<scopeOf, brokerVars, sub, got, failures>>

-----------------------------------------------------------------------------
(* The read of the broker, on the Bridge side.                             *)

BridgeReads == UNCHANGED <<journalVars, cursor, persisted, history, notice,
                           stream, replay, retrying, sub, got, failures>>

\* Mutant: the loop ends with the first lost reply.
AskUntilFailure ==
    /\ stream = "following"
    /\ call = Idle /\ ~notice /\ ~retrying
    /\ call' = [stage |-> "floor", wait |-> ~replay]
    /\ BridgeReads

\* EventBroker._run calls async_replay_events or async_wait_events.
Ask ==
    /\ stream = "following"
    /\ call = Idle /\ ~notice
    /\ call' = [stage |-> "floor", wait |-> ~replay]
    /\ BridgeReads

\* replay, first statement: _cursor_floor, and the 410 answer.
ReadFloor ==
    /\ call.stage = "floor"
    /\ call' = IF cursor < Floor
               THEN [stage |-> "gone", minimum |-> Floor, snapshot |-> Max({snapTo[p] : p \in Scope})]
               ELSE [stage |-> "rows", wait |-> call.wait, minimum |-> Floor]
    /\ BridgeReads

\* replay, second statement: the rows after the cursor, one past the limit.
ReadRows ==
    /\ call.stage = "rows"
    /\ LET after == {c \in live : c > cursor}
           rows == Ascending(after)
       IN  call' = [stage |-> "max", wait |-> call.wait, minimum |-> call.minimum,
                    rows |-> SubSeq(rows, 1, IF Len(rows) > BatchLimit + 1
                                             THEN BatchLimit + 1 ELSE Len(rows))]
    /\ BridgeReads

\* replay, third statement: MAX(cursor), which an empty batch turns into its
\* next_cursor.  wait() goes round again until there is something or its
\* deadline passes.
NextCursor(events) ==
    IF events # <<>> THEN Last(events) ELSE Larger(cursor, MaxLive)

ReadMax ==
    /\ call.stage = "max"
    /\ LET more == Len(call.rows) > BatchLimit
           events == IF more THEN Front(call.rows) ELSE call.rows
           batch(h) == [events |-> events, next |-> NextCursor(events),
                        minimum |-> call.minimum, heartbeat |-> h]
       IN  IF events = <<>> /\ call.wait
           THEN \/ call' = [stage |-> "floor", wait |-> TRUE]
                \/ call' = [stage |-> "reply", batch |-> batch(TRUE), more |-> FALSE]
           ELSE call' = [stage |-> "reply", batch |-> batch(FALSE), more |-> more]
    /\ BridgeReads

-----------------------------------------------------------------------------
(* Subscriptions.                                                          *)

\* Mutant: the client's own cursor is ignored.
MatchesByScope(s, c) == scopeOf[c] \in Filter[s]

Matches(s, c) == c > sub[s].after /\ scopeOf[c] \in Filter[s]

\* _replace_then_close: everything queued is dropped for one last envelope.
ReplaceThenClose(x, env) ==
    IF x.state = "open"
    THEN [x EXCEPT !.state = "closing", !.queue = <<env>>]
    ELSE x

\* _put, or the overflow snapshot when the queue is full.
PutOrOverflow(x, env, c) ==
    IF x.state # "open" THEN x
    ELSE IF Len(x.queue) < QueueSize
    THEN [x EXCEPT !.queue = Append(@, env)]
    ELSE ReplaceThenClose(x, SnapshotEnv(c))

\* _publish_event for one event after another: a subscription takes those that
\* match while its queue has room, and the first one beyond ends it.  The
\* broker's cursor is the event's when it is published.
PublishEvents(s, events) ==
    LET x == sub[s]
        matching == Pick(events, {i \in DOMAIN events : Matches(s, events[i])})
        room == QueueSize - Len(x.queue)
    IN  IF x.state # "open" THEN x
        ELSE IF Len(matching) <= room
        THEN [x EXCEPT !.queue = @ \o EventEnvs(matching)]
        ELSE ReplaceThenClose(x, SnapshotEnv(matching[room + 1]))

\* subscribe, with _replay_history.
Subscribe(s, after) ==
    /\ sub[s].state = "new"
    /\ LET opened == [sub[s] EXCEPT !.state = "open", !.after = after]
           gap == ReplaceThenClose(opened, SnapshotEnv(cursor))
           matching == Pick(history, {i \in DOMAIN history :
                                 history[i] > after /\ scopeOf[history[i]] \in Filter[s]})
       IN  sub' = [sub EXCEPT ![s] =
              IF after >= cursor THEN opened
              ELSE IF history = <<>> \/ Last(history) # cursor
                      \/ after < Head(history) - 1
              THEN gap
              ELSE IF Len(matching) > QueueSize THEN gap
              ELSE [opened EXCEPT !.queue = EventEnvs(matching)]]
    /\ UNCHANGED <<journalVars, brokerVars, got, failures>>

\* EventSubscription.get by the forwarding task of the WebSocket.
HandOver(s) ==
    /\ sub[s].state \in {"open", "closing"}
    /\ sub[s].queue # <<>>
    /\ LET env == Head(sub[s].queue)
       IN  got' = [got EXCEPT ![s] = IF env.type = "event" THEN @ \cup {env.cursor} ELSE @]
    /\ sub' = [sub EXCEPT ![s].queue = Tail(@),
                          ![s].state = IF @ = "closing" THEN "closed" ELSE "open"]
    /\ UNCHANGED <<journalVars, brokerVars, failures>>

\* EventSubscription.close: the WebSocket goes away.
Unsubscribe(s) ==
    /\ sub[s].state \in {"open", "closing"}
    /\ sub' = [sub EXCEPT ![s].state = "closed", ![s].queue = <<>>]
    /\ UNCHANGED <<journalVars, brokerVars, got, failures>>

-----------------------------------------------------------------------------
(* The broker.                                                             *)

Fresh(batch) ==
    Pick(batch.events, {i \in DOMAIN batch.events : batch.events[i] > cursor})

\* Mutant: an empty batch is never a gap.
GapBetweenEvents(batch) ==
    LET fresh == Fresh(batch)
    IN  cursor < batch.minimum \/ (fresh # <<>> /\ Head(fresh) > cursor + 1)

\* The gap tests of _consume: the cursor is below the floor, the first fresh
\* event or the next_cursor of an empty batch skips something, or a later
\* event does.
Gap(batch) ==
    LET fresh == Fresh(batch)
    IN  \/ cursor < batch.minimum
        \/ fresh # <<>> /\ Head(fresh) > cursor + 1
        \/ fresh = <<>> /\ batch.next > cursor

\* The longest prefix of the fresh events without a hole.
Dense(events) ==
    LET holes == {i \in 2 .. Len(events) : events[i] > events[i - 1] + 1}
    IN  IF holes = {} THEN events ELSE SubSeq(events, 1, Min(holes) - 1)

\* _append_history for one event after another.
Remember(events) ==
    LET all == history \o events
    IN  SubSeq(all, IF Len(all) > HistorySize THEN Len(all) - HistorySize + 1 ELSE 1, Len(all))

\* _persist_cursor: a failing Store is ignored and keeps what it had.
Persist(c) == persisted' \in {persisted, c}

\* A gap: the cursor moves, the history goes, and after the await of
\* _persist_cursor the subscribers are told.
JumpTo(c) ==
    /\ cursor' = c
    /\ Persist(c)
    /\ history' = <<>>
    /\ notice' = TRUE

\* What a batch without a gap sends: its events, a heartbeat, and the news
\* that a broken connection is back.
Publish(s, batch, fresh, c) ==
    LET x == PublishEvents(s, fresh)
        y == IF batch.heartbeat THEN PutOrOverflow(x, HeartbeatEnv(c), c) ELSE x
    IN  IF retrying THEN PutOrOverflow(y, StatusEnv(c), c) ELSE y

\* Mutant: after a gap the broker goes on from the floor of the reply.
GapTargetFloor(batch) == batch.minimum

\* Where the cursor goes over a gap.
GapTarget(batch) == Max({cursor, batch.minimum, batch.next})

\* _consume, and the bookkeeping of _run behind it.
Consume ==
    /\ call.stage = "reply"
    /\ LET batch == call.batch
           fresh == Fresh(batch)
           dense == Dense(fresh)
       IN  IF Gap(batch)
           THEN /\ JumpTo(GapTarget(batch))
                /\ UNCHANGED sub
           ELSE IF dense # fresh
           THEN /\ JumpTo(Larger(Last(dense), batch.next))
                /\ sub' = [s \in Subscriber |-> PublishEvents(s, dense)]
           ELSE /\ cursor' = Larger(cursor, batch.next)
                /\ Persist(cursor')
                /\ history' = Remember(fresh)
                /\ sub' = [s \in Subscriber |-> Publish(s, batch, fresh, cursor')]
                /\ UNCHANGED notice
    /\ call' = Idle
    /\ replay' = call.more
    /\ retrying' = FALSE
    /\ UNCHANGED <<journalVars, stream, got, failures>>

\* _recover_snapshot, after the 410 answer.
RecoverSnapshot ==
    /\ call.stage = "gone"
    /\ JumpTo(Max({cursor, call.snapshot, call.minimum}))
    /\ call' = Idle
    /\ replay' = TRUE
    /\ retrying' = FALSE
    /\ UNCHANGED <<journalVars, stream, sub, got, failures>>

\* _publish_snapshot, after the await of _persist_cursor.
PublishSnapshot ==
    /\ notice
    /\ notice' = FALSE
    /\ sub' = [s \in Subscriber |-> ReplaceThenClose(sub[s], SnapshotEnv(cursor))]
    /\ UNCHANGED <<journalVars, call, cursor, persisted, history, stream, replay,
                   retrying, got, failures>>

\* The reply or the request is lost (BridgeApiConnectionError): the broker
\* says "reconnecting" and asks again from the cursor it has.
LoseReply ==
    /\ call # Idle
    /\ failures < MaxFailures
    /\ failures' = failures + 1
    /\ call' = Idle
    /\ replay' = TRUE
    /\ retrying' = TRUE
    /\ sub' = [s \in Subscriber |-> PutOrOverflow(sub[s], StatusEnv(cursor), cursor)]
    /\ UNCHANGED <<journalVars, cursor, persisted, history, notice, stream, got>>

\* An answer the broker cannot go on from (authentication, protocol, upstream
\* error): the status replaces what is queued and _run returns.
StopStream ==
    /\ call # Idle
    /\ failures < MaxFailures
    /\ failures' = failures + 1
    /\ call' = Idle
    /\ stream' = "stopped"
    /\ sub' = [s \in Subscriber |-> ReplaceThenClose(sub[s], StatusEnv(cursor))]
    /\ UNCHANGED <<journalVars, cursor, persisted, history, notice, replay, retrying, got>>

\* Home Assistant restarts, or reloads the config entry: the broker goes on
\* from the stored cursor and every subscription is gone.
RestartHomeAssistant ==
    /\ failures < MaxFailures
    /\ failures' = failures + 1
    /\ cursor' = persisted
    /\ history' = <<>>
    /\ notice' = FALSE
    /\ call' = Idle
    /\ stream' = "following"
    /\ replay' = TRUE
    /\ retrying' = FALSE
    /\ sub' = [s \in Subscriber |->
                 IF sub[s].state \in {"open", "closing"}
                 THEN [sub[s] EXCEPT !.state = "closed", !.queue = <<>>] ELSE sub[s]]
    /\ UNCHANGED <<journalVars, persisted, got>>

-----------------------------------------------------------------------------
BridgeStep == \E p \in Scope : Append1(p) \/ PurgeThread(p)

BrokerStep ==
    \/ Ask \/ ReadFloor \/ ReadRows \/ ReadMax
    \/ Consume \/ RecoverSnapshot \/ PublishSnapshot

FailureStep == LoseReply \/ StopStream \/ RestartHomeAssistant

SubscriberStep ==
    \E s \in Subscriber :
        \/ \E after \in 0 .. Len(scopeOf) : Subscribe(s, after)
        \/ HandOver(s)
        \/ Unsubscribe(s)

Next == BridgeStep \/ BrokerStep \/ FailureStep \/ SubscriberStep

Spec == Init /\ [][Next]_vars

(***************************************************************************)
(* Fairness: the broker's task keeps asking and the Bridge keeps answering *)
(* (losing a reply is an action of its own, and bounded), and the          *)
(* forwarding task of a WebSocket keeps taking envelopes.                  *)
(***************************************************************************)
FairSpec ==
    /\ Spec
    /\ WF_vars(BrokerStep)
    /\ \A s \in Subscriber : WF_vars(HandOver(s))

-----------------------------------------------------------------------------
Queued(s) == {sub[s].queue[i].cursor : i \in {j \in DOMAIN sub[s].queue :
                                                sub[s].queue[j].type = "event"}}

(***************************************************************************)
(* No event is lost in silence: an open subscription has been handed, or   *)
(* has in its queue, every event of its filter between its starting point  *)
(* and the broker's cursor, including the events that retention and purges *)
(* have deleted since.  A subscription that missed one has been closed     *)
(* with a snapshot_required.  The Bridge's replay alone does not give      *)
(* this: an append between its second and its third statement moves        *)
(* next_cursor past an event that no batch contains.                       *)
(***************************************************************************)
NoSilentLoss ==
    ~notice =>
        \A s \in Subscriber : sub[s].state = "open" =>
            \A c \in 1 .. cursor : Matches(s, c) => c \in got[s] \cup Queued(s)

(***************************************************************************)
(* Once and in order: what is queued is in cursor order, above everything  *)
(* handed over and above the subscription's starting point, also when the  *)
(* broker follows the journal a second time after a restart.               *)
(***************************************************************************)
OnceInOrder ==
    \A s \in Subscriber : LET q == sub[s].queue IN
        \A i \in DOMAIN q : q[i].type = "event" =>
            /\ q[i].cursor > sub[s].after
            /\ \A c \in got[s] : c < q[i].cursor
            /\ \A j \in 1 .. i - 1 : q[j].type = "event" => q[j].cursor < q[i].cursor

(***************************************************************************)
(* The snapshot a client is sent to names a cursor at which it has already *)
(* everything: never below an event it was handed.                         *)
(***************************************************************************)
SnapshotNeverBehind ==
    \A s \in Subscriber : \A i \in DOMAIN sub[s].queue :
        sub[s].queue[i].type = "snapshot_required" =>
            \A c \in got[s] : c <= sub[s].queue[i].cursor

(***************************************************************************)
(* The broker follows: an event of an open subscription's filter is handed *)
(* over, or the subscription is ended, or the broker has given up.         *)
(***************************************************************************)
EventuallyHandedOver ==
    \A s \in Subscriber, c \in 1 .. MaxEvents :
        (sub[s].state = "open" /\ c <= Len(scopeOf) /\ c > sub[s].after
            /\ scopeOf[c] \in Filter[s])
        ~> (c \in got[s] \/ sub[s].state # "open" \/ stream = "stopped")
=============================================================================
