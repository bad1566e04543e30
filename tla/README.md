# A TLA+ model of the Home Assistant Codex Bridge

This directory specifies the parts of the Codex Bridge that are hard to get
right: who may run a turn, what happens to a prompt when the app server dies,
how state and events are committed together, how events reach the browser, how
a prompt, a reply to an approval and an upload leave it, and how a scheduled
automation is run once. Each module names the code it models in
its comments; `PROJECT.json` maps each definition to its source lines. Paths
below are relative to `src/`; `S/` is `bridge_service/src/codex_bridge_service/`
and `H/` is `custom_components/codex_bridge/`.

## 1. The system

A browser panel (`frontend/src/`) talks over Home Assistant's WebSocket to the
integration (`H/`), which talks over HTTP to the Bridge service (`S/`, FastAPI
with threads), which supervises one Codex app-server process.

| Component | State it keeps | Operations | Talks to | What is hard |
|---|---|---|---|---|
| Runtime gate `S/runtime_gate.py` | leases, FIFO queue, active counter, auth/config mutation | reserve, wait, cancel, release, mutations, close | broker, auth, MCP | cancel drops the lock between its look and its effect; stale handles |
| Runtime broker `S/runtime_broker.py` | runs, leases, pending admissions, workers, buffered callbacks | admit, submit, worker steps, cancel, steer, callbacks, delete, close | gate, app server, outbox | every app-server request is made outside the lock; generations change meanwhile |
| App-server client `S/codex_app_server.py` | generation, pending requests, callback queue | request, notify, abort, respawn, close | broker, auth, MCP | late answers, full callback queue, dead generations |
| Durable outbox `S/event_store.py`, `S/runtime_state.py` | outbox rows, documents with markers, journal | prepare, apply, finalize, reconcile | broker, storage | a crash between any two writes; an exception with the process going on |
| Event journal `S/event_store.py` | rows, scope floors, tombstones, budgets | append, replay, wait, prune, purge, import | routes, HA event broker | replay reads in three statements; retention moves under a reader |
| HA event broker `H/event_broker.py` | cursor, history, subscriptions | poll loop, publish, subscribe, stop | journal, panel | gaps, overflow, restarts with a stale cursor |
| Panel event stream `frontend/src/event-stream.js`, `codex-bridge-panel.js` | cursor, epoch, transcript | subscribe, refresh, poll, accept | HA event broker, journal | two sources of one stream, answers out of order |
| Automations `S/automations.py`, `S/routes/automations.py`, `S/app.py` | definition, next occurrence, run records, idempotency | claim, dispatch, link, complete, recover | broker, HA scheduler | two durable writes per run; repeated claims |
| HA scheduler `H/automation_scheduler.py` | timers, retries, reconciliation | fire, retry, refresh, reconcile | automations | lost replies, refreshes that interleave with fires |
| Prompt delivery `codex-bridge-panel.js`, `S/routes/prompts.py`, `submit_prompt` | the composer's mutations; the idempotency table | send, retry, reconcile, observe; look, submit, steer, roll back | panel, broker, journal | a lost answer while the Bridge still works; a rollback after the commit |
| Interactions `codex-bridge-panel.js`, `S/routes/approvals.py`, `S/runtime_broker.py` | cards and mutations; claims, response tokens | request, claim, respond, conclude, expire, withdraw, list | panel, broker, app server | the reply is written outside the lock; lists are read before and applied after |
| Uploads `frontend/src/uploads.js`, `S/storage.py`, `S/routes/uploads.py` | session manifest, chunks, attachment | create, put, complete, cancel, reap, delete chat | panel, storage, outbox | five durable writes per completion; bodies streamed outside the lock |
| Auth coordinator `S/auth_coordinator.py` | operation, active login, auth lease | login, cancel, logout, status, notifications | gate, app server | every read is outside the lock; notifications make it stale |
| Browser broker `S/browser_broker.py` | sessions, slots being torn down | open, invoke, close | broker, worker | a close races the next open |
| MCP, capabilities, model catalogue | definitions, authorities | config mutations, probes | gate, app server | config mutation against live turns |
| Projects, chats, artifacts, quotas `S/storage.py`, `S/resource_limits.py` | documents, reservations | create, archive, delete, publish | outbox, broker | deletion against live runs; quota ledgers |

What makes them correct, in one line each: the gate's accounting is exact and
no slot is idle while a prompt waits; a turn under way always has its owner;
every run ends and then frees its capacity; documents and events take effect
together, once; no event is lost without a snapshot notice; the transcript
equals the journal once the panel is up to date; an occurrence runs at most
once, without overlap, and is never forgotten; Codex gets a prompt and a reply
once, and the panel believes only what the Bridge owns; an attachment has its
file, and an upload reported as done was attached once.

`PROJECT.json` lists every component with its status and, under `hazards`, the
lines where these things can go wrong with the properties that watch them.

## 2. Modules

**RuntimeGate** (`S/runtime_gate.py`). Any number of lease objects and owners.
`Release` may be called on any handle at any time, twice too. `RuntimeLease.cancel`
is two actions (`CancelLook`, `CancelFinish`), because the code looks under the
condition, drops it and takes it again. `BrokerLockFree` says who can get in
between: the broker holds its own lock around the call. `wait_until_active` is a
sleeping and a woken state with a deadline.

**RuntimeBroker** (`S/runtime_broker.py`). One action is what happens under one
acquisition of the broker's lock; requests to the app server lie between two
actions. Runs, admissions, leases, the worker's program counter, the callback
inbox, buffered callbacks and the app server's generation and live turns are
variables; which turn is really live in the app server is visible to the
properties only. The gate is `RuntimeGate` with one slot, seen through the calls
the broker makes. `Inputs` selects what the environment does besides prompts and
restarts, so that each run stays small.

**AtomicCommit / DurableOutbox** (`S/event_store.py`, `S/runtime_state.py`,
`S/storage.py`). `AtomicCommit` is the promise: an operation's documents and its
events take effect in one step. `DurableOutbox` is the code: the row, each
document replacement and the finalizing transaction are steps of their own, with
crashes, restarts, exceptions that leave the process running, reconciliation at
start and at the next commit, and plain saves that write a document without a
marker. Bytes are abstracted to who wrote a document and at which revision.

**EventFanout** (`S/event_store.py`, `H/event_broker.py`). The journal's
retention, purge and three-statement replay; the HA broker's loop (replay, gap,
history, persisted cursor), bounded subscriptions that overflow, reconnects,
stop and restart. Byte budgets are folded into counts. Filtering a sequence is
`Pick` of a set of positions, and the rows of a query are `Ascending`: sorting and
filtering stated by what they return, which TLC evaluates and proofs can use.

**PanelStream** EXTENDS EventFanout (`frontend/src/`, `H/websocket_api.py`). One
open chat: the WebSocket subscription in compatibility mode, with the reconnection
after a refused one, refresh, poll tick, request epochs, `acceptEvent`. A poll and a
subscription carry the cursor the panel had when it asked.

**Automations** (`S/automations.py`, `S/routes/automations.py`, `S/app.py`,
`H/automation_scheduler.py`). One automation with an interval of one time unit.
Home Assistant's tasks (fire, retry, refresh in two steps: read and apply), the
Bridge's claim handler with its steps (claim, admit, submit, mark running, or
blocked), the broker's run as a small state, the terminal listener, restarts of
either side, user changes and manual runs.

**UploadStore / ResumableUpload** (`S/storage.py`, `S/routes/uploads.py`,
`frontend/src/uploads.js`). `UploadStore` is the Bridge's side: each durable write
of an operation (manifest, chunk, renamed file, thread document with its event)
is an action, with crashes and raising writes, before or after their rename,
between any two; chunks are streamed outside the lock while the reaper runs. The
deletion of a chat is as fine: a session's published file, its chunks and parts one
by one, its manifest, then the chat's events, its document and the tree. Only the
reaper at the start of a creation is one step, since nothing that an open session
claims is among what it unlinks. A commit that fails after its row
was written is finished later, or written over by a commit that started from an older
document: an attachment of an upload whose answer was unsure may be lost so.
`ResumableUpload` EXTENDS it with the panel's calls: create or resume, PUT with
reconciliation and three attempts, complete and confirm, abort and cancel, over a
connection that loses answers.

**PromptDelivery** (`codex-bridge-panel.js`, `submit_prompt`). The composer's
mutation per chat (sending, reconciling, retryable), the calls under way with the
panel's and the Bridge's side of each, the idempotency table in memory and as
saved, the journal's `message.created` and what Codex was given. A slot of `call`
outlives the panel's interest in it, so that a retry can overtake the request it
repeats. The commit of a new run has all its endings: refused, uncertain, rolled
back after the commit; a follow-up is saved as uncertain before it is sent.

**Interactions** (`codex-bridge-panel.js`, `S/runtime_broker.py`,
`S/codex_app_server.py`). The approvals and questions of one run. The broker's
part is three steps (`Claim`, `Respond`, `Conclude`) with the lock dropped for the
middle one, so expiry, withdrawal, cancellation, the end of the run, the death of
the app server and a restart fall between them; `disk` is the saved state, and
`token` the app-server client's single-use response tokens. The panel's part is
its cards, its mutations and its lists, each read in one step and applied in a
later one. All replies but Cancel are alike.

The `MC*` modules give constants for TLC and define nothing else.

## 3. Runs

| Run | Instance | What it shows |
|---|---|---|
| `gate` | 3 leases, 3 owners, 1 slot, queue of 2 | counter, queue and owner table exact (`TablesExact`); mutations exclude prompts; no idle slot beside a waiter; FIFO; only a release ends an active lease; every waiter is answered |
| `fanout` | 2 events, 2 chats, history 1, queue 1, 2 failures | no event lost in silence, none twice or out of order, no snapshot notice behind what was handed over; everything is handed over in the end |
| `panel` | 3 events, 1 failure, all of a chat on one page | outside a recovery the transcript is complete up to the panel's cursor; only a refresh rewinds the cursor |
| `outbox` | 3 operations on 2 documents, 3 failures, exceptions allowed | the journal holds each applied operation once; no divergence; events only after their documents |
| `outbox_crash` | as above, crashes only | implements `AtomicCommit`; every commit and start ends |
| `broker` | 2 prompts, 2 chats, 1 generation; admission, cancel, delete, close, fatal | leases exact; a live turn has its owner and the slot; a deleted chat stays quiet |
| `broker_restart` | 2 prompts, 2 generations; deadlines, account changes, full buffers, steering, interactions | a terminal run has freed its slot; a started run has its worker; a completion is not lost; every run ends |
| `uploads` | 2 calls, 2 upload ids, 2 chunks, room for 1 session, 2 faults | an attachment is always backed by its file and a reachable session; success means attached once; the retries absorb what they promise to; every call ends |
| `prompts` | 2 prompts, 2 chats, 2 calls under way, 2 faults | Codex is given a prompt once and the chat shows it once; what the panel takes as delivered is owned and saved; the composer never stays locked |
| `interactions` | 1 approval, 2 replies, 2 calls under way, 1 fault | Codex gets one reply, the claimed one, and it is never shown as expired; what was reported as taken was given; a cancel stops the run; no card stays locked |
| `panel_stopped` | as `panel` | expected to fail, see below |
| `automations` | 2 tasks, 2 runs, 1 manual, 2 occurrences, 2 revisions, 1 failure | no overlap, once per occurrence, no claim outlives its run, no occurrence is forgotten |

Why these bounds: one slot and two prompts are the smallest case with a waiter,
a third lease gives a stale handle beside them; two generations are one restart;
two documents with overlapping operations are needed for a divergence, and three
failures for a crash during recovery from a failed recovery; a history and a
queue of one make gaps and overflows happen with two events; an automation needs
two occurrences for an overlap and one failure for a lost reply, and starts
either enabled or paused so that two revisions hold a resume as well as a pause.
Two calls under way are a request and the retry that overtakes it, two faults a
lost answer and the failure of what it hid. In `interactions` one panel that
leaves the chat and comes back replies under a second id, as a second tab would;
two panels, or two approvals, multiply the states beyond five minutes (safety was
checked once with each, without a violation). Deadlock is not checked
where a system may come to rest (everything bounded has been used up).

### Where the code and its own words differ

`panel_stopped` is expected to fail and is a finding in `PROJECT.json`: the
forwarder says "polling will retry" when the HA broker stops, in an event the
panel refuses to parse; the panel goes on believing in its subscription and does
not poll for events.

The model shows more of the kind, without a run of its own; each is a hazard with
a note, and the passing runs leave the cause out by a bound or an input:

- *Outbox*: an exception after the row was committed leaves it pending in a live
  process; a later plain save of the document (`S/storage.py:2401`) is then
  overwritten by the older operation, against the comment in `commit_operation`.
  `NewerStateSurvives` fails with the constants of `MCDurableOutbox.cfg` and one
  failure.
- *Broker*: `_watch_turn` compares the generation outside the lock; after a
  restart in between, the reconciliation interrupts a run of the new generation
  and frees its slot while its turn is under way (`TurnOwned` fails with two
  generations and no inputs; `broker` has one generation, and `broker_restart`
  does not check it). A journal refusal inside `_terminalize_locked` leaves a
  terminal run with the gate's slot (`TerminalFreesCapacity` fails with one
  prompt, one generation and `Inputs = {"refuse"}`).
- *Composer*: a rollback after the commit publishes a `message.created` whose run
  does not exist; the panel takes it as delivery. `PromptOnce` and
  `SettledIsOwned` name the exception (`orphaned`), so no property watches that
  hazard.
- *Uploads*: the deletion of a chat unlinks the chunks of a session before its
  manifest (`S/storage.py:2169`, `2173`) and marks nothing first, unlike the
  cancellation, whose tombstone is written first so that a crash leaves "never an
  active manifest that incorrectly claims they are available for completion"
  (`S/storage.py:3553-3555`). A crash or a failing unlink in between leaves just that
  in a chat that is still there; a later completion finds the chunk missing. The
  comment is about the cancellation, where it holds: `UploadBacked` says it of chats
  whose deletion has not begun. A commit left pending when its chat is deleted brings
  the document back when it is reconciled (`S/event_store.py:2191`).
- *Approval cards*: `_replacePendingInteractions` deletes the mutation with its
  card, so the notices at `codex-bridge-panel.js:6896-6908` (unknown outcome, no
  longer pending) cannot be reached: the card disappears without a word.

- *Automations*, inputs left out of the passing run. `twice`: a second request
  for a claim that is being dispatched is refused as pending and records the
  claim as blocked while its run is live; a later claim then overlaps it
  (`NoOverlap` fails). `torn`: a crash between the broker's terminal commit and
  the listener's save leaves a linked claim running, and recovery settles only
  unlinked ones (`ActiveIsAlive` fails). `unanswered`: a resume whose answer is
  lost is not followed by a refresh, and `overtaking`: two refreshes applied in
  the opposite order of their reads (with three revisions) leave an enabled
  automation without a timer (`NeverForgotten` fails).
- *Panel*: with a chat longer than one `get_events` page the newest events are
  missing after a snapshot boundary until they are fetched again; once retention
  has dropped an event of the chat a refresh is answered with the snapshot event
  alone, and the events still in the journal are not fetched; and a snapshot notice
  at or below the panel's cursor is dropped by `acceptEvent`.

### Fairness

Liveness properties use weak fairness of steps that a running thread or event
loop takes by itself. Strong fairness appears where a step is disabled and
enabled again: a lease's owner releases it (`ReleaseActive`: the broker releases
in a `finally`), the deadline of a watched turn passes (`TimesOut`: the watcher
looks at the clock in each round), and the panel's requests are answered within
a poll interval again and again. Nothing is assumed of users, of Codex, of
notifications or of how long a run takes. In `Automations` a broken connection
is noticed and Home Assistant's timers fire. In `ResumableUpload`, `PromptDelivery`
and `Interactions` every call is answered or fails, as Home Assistant's WebSocket
client and the HTTP client's timeouts see to; in `Interactions` the watchdog looks
for expired interactions in each round, and a panel with cards lists again when
its expiry timer fires.

## 4. Proofs

**RuntimeGateProofs**, for every set of leases and owners and every pair of limits
(`ASSUME` in `RuntimeGate`: the limits are naturals, at least one slot).
`GateSafety` states type correctness, `CapacityExact`, `MutationExclusive`,
`WorkConserving`, `QueueExact` and `OwnerTableExact`. None is inductive alone:
that no prompt waits beside a free slot needs the exact counter, which needs the
queue to be duplicate-free and to hold just the queued leases. `GateInv` adds
`LeaseShape` (which kind of lease is found where; a closed gate has no queue) and
`CancelWindow` (the lease between the two steps of a cancel is a prompt's and is
not active). `ActiveEndsOnlyByRelease` follows from `CancelWindow`: with the
broker's lock held nothing can promote the lease inside the window.
`PromotedInOrder` (the action property `FifoPromotion`) rests on
`FinishLockedQueue`: whatever `_finish_locked` finishes, no lease behind the head of
the queue becomes active. The argument goes by lemmas on removing from the queue
(`WithoutAtProperties`), on what finishing a prompt does (`FinishPromptEffect`), and
one preservation lemma per operation.

**DurableOutboxProofs**, for every set of operations and documents and any number
of failures. `OutboxInv` strengthens the invariants by `Control` (what each stage
of the lock holder knows) and `Newer` (a pending operation is newer than its
documents unless it is what is in them), from which `NeverDiverged` follows.
`OutboxSafety` is that, and includes that the dirty flag is sound
(`ReconciledIsProof`). `CrashAtomicity` shows that with `CanRaise = FALSE` the
outbox implements `AtomicCommit`: `Undisturbed` says that the documents of a
pending operation are its own or what it was made from, hence no conflict, and
every step is a step of `AtomicCommit` or a stutter under the refinement mapping.
`EventsFollowState` (the action property `StateBeforeEvents`) holds with exceptions
and plain saves too. It needs `Origins`: what a document holds, and what an operation
was made from, comes from an operation that has a row or from a save already made, so
a later operation or save never brings back what an operation was made from.

**PromptDeliveryProofs**, for any number of chats, requests under way, ids and
faults. `GivenOnce` and `DeliveredIsOwned` state `PromptOnce` and `SettledIsOwned`.
The idea of `PromptInv` is `Safe(i)`: the prompt is in the table and on disk, and if
either says "uncertain" Codex has it. No step undoes it, a restart included, so it is
enough that the panel settles only what is safe (`Shown`). That a prompt is given
once needs that a run, and a follow-up on its way, is the only one of its prompt and
that the table knows it (`RunOwns`, `SteerOwns`), and how the table in memory may
differ from the saved one (`TableExact`): an id the table does not know is nowhere
else either (lemma `Unknown`), which is what the second look at the table relies on.

**InteractionsProofs**, for any number of panels, interactions, replies, calls and
faults. `OneReply`, `ReportedWasWritten` and `CancelEndsRun` state the three
invariants of the run. `InteractionInv` adds `CallOwns` (a call between its two
critical sections is the only one about its interaction, which carries its claim in
memory and as saved), `GivenByOwner`, and `Tables`: in memory and on disk alike a
claimed interaction is never open or expired and a reply that is shown was written.
The latter is what makes a restart, which continues from the saved tables, harmless.

**ResumableUploadProofs**, for any number of uploads, requests, callers, chunks,
retries, crashes and raising writes. `StoreBacked` proves `UploadBacked` of the
store alone, under requests that arrive in any order; `AttachmentsBacked`,
`SuccessAttachedOnce` and `RetriesCharged` are about the store under the panel's
calls. `UploadBacked` is about chats whose deletion has not begun (section 3), except
that the indices of an open manifest are always the first ones. A durable write is right only for what the steps before it established, so
`StoreInv` says what each step may rely on while its operation holds the lock
(`OpOK`), what a session's manifest, chunks, file, attachment and event owe to each
other (`SessionOK`), what a writer that streams outside the lock keeps (`WriterOK`),
and that a request is in one place (`OnePlace`). `ClientInv` ties a call to the one
request it awaits and to what its answer can say. `ChargeInv` counts faults: a chunk
that is sent again either landed, or was cost by a fault of its own, or its upload
was cancelled or its chat's deletion asked for (`DeletionInv`). Lemmas first say what a step under the lock does to a
session; each operation then cites one of them.

**RuntimeBrokerProofs**, for any requests, chats, queue length, generations and
inputs. `Always` holds whatever the journal does: the gate has one active lease and a
bounded queue (`GateOK`), a lease has an admission or a run behind it (`Holder`),
the worker's program counter tells how far its run and its turn are (`PlaceOK`), a
started run has the slot (`ActiveOK`), a turn is started once (`OnceOK`), its
completion is kept for the worker that waits for it (`CompletionOK`) and a deleted
chat stays quiet (`QuietOK`). Every way in which runs end goes through one lemma
(`Ends`), as all of them go through `_terminalize_locked`. From `Always` follow
`BrokerTyped`, `DeletedStaysQuiet` and `CompletionKept`, for every input.
`LeasesExact`, `TerminalIsFree` and `WorkersStay` assume `"refuse" \notin Inputs`: a
journal that refuses a terminal event leaves a terminal run with its lease
(hazard at `S/runtime_broker.py:2912`). `FirstTurnsOwned` proves `TurnOwned` up to
the first replacement of the app server (`FirstOK`), which is as far as it holds: after
one, a worker may reconcile a generation it compared before it took the lock
(section 3).

**AutomationsProofs**, for any tasks, handlers, grace and bounds (at least one
revision, the one `create` makes). Two arguments. `Schedule`: all that was claimed
was due, and every timer, retry and claim of the current revision is due later than
whatever earlier revisions claimed, because a change of the automation starts after
now. With the table of keys this gives `OccurrencesRunOnce`, with every input:
repeated, overtaken, lost and forgotten requests alike. `Dispatch`: a handler's place
tells how far its record and the broker's run are, and a queued record has just one
handler. This needs `"twice" \notin Inputs`, since `claim_run` dispatches a queued
record again for whoever repeats its claim (hazard at `S/routes/automations.py:198`),
and gives `RunsDoNotOverlap`. `ActiveRecordsAreAlive` needs also
`"torn" \notin Inputs`: a crash between the broker's terminal commit and the
listener's save leaves a running record that nobody completes (hazard at
`S/automations.py:137`). These hypotheses are sets of inputs that the passing run
satisfies; they mark where the code itself stops keeping the property.

**EventStreamProofs**, for every set of scopes and subscribers, every filter and
every bound (`ASSUME` in `EventFanout`: the bounds are positive and there is a
scope). `FanoutSafety` is `FanoutInv`, from which `NothingLostInSilence`,
`HandedOnceInOrder`, `SnapshotsAreAhead` and `FanoutTypes` follow. Its core is
`Good`: a subscription is complete, in order and not ahead with respect to a cursor
`h` up to which everything was published. While no jump is pending `h` is the
broker's cursor; between a jump and its snapshot, with the await of
`_persist_cursor` in between, `h` is where the broker was, and a subscription opened
in that window is good up to the new cursor. The journal's reads need no
consistency for this: it is enough that rows come in ascending order and that a
batch ends with its last event (`CallOK`), since the gap tests of `_consume` leave
only a run of cursors without a hole to publish (lemmas `NoGap`,
`DenseProperties`), which is also why the history is a run that ends with the
cursor. `PanelSafety` adds the panel: `PanelShape` keeps its cursor within the
journal and not behind what its subscription started from or handed over, and
`Complete` says that an answer under way has everything up to the cursor it will
set. `RewoundByRefreshOnly` holds without conditions. `WholeChatIsShown` proves
`TranscriptComplete` in every state in which nothing of the chat was dropped by
retention and the chat fits one page (`WholeChat`), as it does in the `panel` run;
beyond that it does not hold, see section 3. What sorting, filtering and the longest
prefix without a hole return for sequences of every length is proved by induction
over sets of numbers (`LeastNumber`, `SetInduction`), which rest on the library's
well-founded order of the naturals and need no operator as a parameter.

The proofs about prompts, interactions and uploads rest on the assumption that
`None` is none of the records it stands beside. The inductive invariants were
model-checked on the instances of their runs first.

Only model-checked: the liveness properties (fairness and ENABLED are out of the
prover's reach): `WaiterAnswered`, `EventuallyHandedOver`, `LockReleased`,
`EveryRunEnds`, `NeverForgotten`, `UploadEnds`, `SendAnswered`, `CardUnlocks`. Every
safety property of the passing runs is the subject of a theorem; where a theorem has
a condition (inputs left out, the first generation, a whole chat) the property fails
without it, as section 3 describes.

## 5. Not modelled

Formatting, validation of payloads, file-system safety, image bytes, rendering,
configuration and packaging: they have no protocol. The external-legacy profile
(`S/runner.py`): the Home Assistant runtime refuses it. Calendar arithmetic (an
interval stands for every schedule) and the pruning of the automation history.
The retry policy of Home Assistant's config entries. In the new modules: drafts
(what the composer's text field holds), digests, path rules and quota arithmetic
of uploads, the policy that denies a request without asking, and the wording and
layout of cards. Everything else not modelled is in the plan.

Most of the repository's JavaScript is outside any model: the built bundle
`H/frontend/codex-bridge-panel.js` repeats `frontend/src/`, and
`H/frontend/codex-bridge-pdf-worker.js` is a third-party PDF library. Of the
panel's own source, the larger part builds DOM nodes, dialogs, styles and view
models from state it is given (`info-center.js`, `desktop-features.js`,
`safe-dom.js`, `run-activity.js`, most of `codex-bridge-panel.js`); the parts that
keep state across an await (event stream, composer, cards, uploads) are modelled.

## 6. Plan

In order:

1. **AuthCoordinator** with the gate's auth mutation: operations, the active
   login and its generation, reads outside the lock, notifications, close.
   Properties: a stale read never publishes a ready account; the auth lease is
   held exactly while an operation or a login needs it; a late callback of an old
   generation is inert; every operation ends. Invariants to be proved.
2. **AppServerClient**: request ids, pending futures, retirement on timeout, the
   bounded callback dispatcher, response tokens, MCP start-up states. Properties:
   each request has one outcome; no callback of a dead generation; overflow fails
   the generation.
3. **BrowserBroker**: one Chromium slot, late closes, an owner's sessions closed at
   the end of its turn.
4. **EventJournal** (writers): operation keys, tombstones, retention, the
   completion reserve; an operation key is answered alike for as long as it is
   kept.
5. **Quotas** and **StorageAdmission**: reservations sum to the ledger; a chat is
   not deleted under a live run; the publication of artifacts after a run.
6. Proofs: the coordinator's lease invariant, and the safety invariants of each
   module that is added.

As modules are added, runs of one component are merged where one instance can ask
all its questions.
