---------------------------- MODULE UploadStore ----------------------------
(***************************************************************************)
(* Resumable upload sessions of one chat in the Bridge (storage.py,        *)
(* routes/uploads.py).  A session is a manifest on disk, a directory of    *)
(* chunk files, and in the end one published file plus an attachment in    *)
(* the chat's document.                                                    *)
(*                                                                         *)
(* Every operation runs under _upload_mutation_lock (`op' is its holder),  *)
(* so operations do not interleave; but each is a sequence of durable      *)
(* writes, and the process can die, or a write can raise, between any two  *)
(* of them.  A write that raises may have replaced the file or not         *)
(* (atomic_write_bytes fsyncs the directory after the rename).  Streaming  *)
(* a chunk's body happens without the lock (`writers').                    *)
(*                                                                         *)
(* All chunks come from the same file, so a digest never differs; bytes    *)
(* corrupted on disk are left out.                                         *)
(***************************************************************************)
EXTENDS Naturals, FiniteSets

CONSTANTS
    Upload,         \* the upload ids that may be generated
    Request,        \* HTTP requests that may be under way at one time
    None,           \* no upload, no request, no operation
    Chunks,         \* total_chunks of the file
    SessionLimit,   \* _UPLOAD_SESSION_LIMIT
    TerminalLimit,  \* _UPLOAD_TERMINAL_SESSION_LIMIT
    MaxFaults       \* bound: writes that raise, crashes, lost answers

ASSUME UploadAssumption ==
    /\ Chunks \in Nat \ {0}
    /\ SessionLimit \in Nat /\ TerminalLimit \in Nat /\ MaxFaults \in Nat
    /\ None \notin Upload /\ None \notin Request

VARIABLES
    manifest,       \* .sessions/<id>.json: status and received
    chunks,         \* the <index>.chunk files on disk, per upload
    parts,          \* the requests whose .part file is on disk
    file,           \* the uploads whose published file is on disk
    attachments,    \* the uploads attached in the chat's document, as last written
    added,          \* attachment.added events in the journal, per upload
    late,           \* the save that raised but stays pending in the outbox
    unsure,         \* history: uploads whose save was ever pending
    live,           \* the chat's document exists
    deleting,       \* history: delete_thread has begun
    inbox,          \* requests not yet looked at
    writers,        \* open _UploadChunkWriter objects
    op,             \* the operation that holds _upload_mutation_lock
    answer,         \* what each request was answered
    faults          \* faults so far

diskVars == <<manifest, chunks, parts, file>>
chatVars == <<attachments, added, late, unsure, live, deleting>>
storeVars == <<diskVars, chatVars, inbox, writers, op, answer, faults>>

-----------------------------------------------------------------------------
Index == 0..(Chunks - 1)
NoManifest == [status |-> "absent", received |-> {}]
Gone == [status |-> "gone", received |-> {}]    \* removed; its id is never reused
Open == {"active", "publishing"}
Closed == {"completed", "cancelled"}
Manifest == [status : {"absent", "gone"} \cup Open \cup Closed,
             received : SUBSET Index]

\* The classes of answers that the client tells apart: 2xx, the ones it may
\* reconcile (409 and 5xx) and the final ones (400, 404, 413).
Codes == {"none", "ok", "retry", "fatal"}
Answer == [code : Codes, upload : Upload \cup {None}, view : Manifest]
NoAnswer == [code |-> "none", upload |-> None, view |-> NoManifest]

RequestKinds == {"create", "get", "put", "complete", "cancel", "delete"}
Message == [req : Request, kind : RequestKinds, upload : Upload \cup {None},
            index : Index]
Writer == [req : Request, upload : Upload, index : Index]
Steps == {"record", "announce", "publish", "save", "settle", "clear",
          "tombstone", "undo", "forget",
          "sessions", "manifest", "purge", "chat", "tree"}
Op == [req : Request, kind : RequestKinds, upload : Upload \cup {None},
       index : Index, step : Steps]

ASSUME NoneAssumption == None \notin Op

TypeOK ==
    /\ manifest \in [Upload -> Manifest]
    /\ chunks \in [Upload -> SUBSET Index]
    /\ parts \in SUBSET Request
    /\ file \in SUBSET Upload
    /\ attachments \in SUBSET Upload
    /\ added \in [Upload -> Nat]
    /\ late \in SUBSET Upload /\ unsure \in SUBSET Upload
    /\ live \in BOOLEAN /\ deleting \in BOOLEAN
    /\ inbox \in SUBSET Message
    /\ writers \in SUBSET Writer
    /\ op \in Op \cup {None}
    /\ answer \in [Request -> Answer]
    /\ faults \in Nat

StoreInit ==
    /\ manifest = [u \in Upload |-> NoManifest]
    /\ chunks = [u \in Upload |-> {}]
    /\ parts = {} /\ file = {}
    /\ attachments = {} /\ late = {} /\ unsure = {}
    /\ added = [u \in Upload |-> 0]
    /\ live = TRUE /\ deleting = FALSE
    /\ inbox = {} /\ writers = {} /\ op = None
    /\ answer = [r \in Request |-> NoAnswer]
    /\ faults = 0

-----------------------------------------------------------------------------
(* Building blocks.                                                        *)

Status(u) == manifest[u].status
Received(u) == manifest[u].received
Exists(u) == Status(u) \in Open \cup Closed
Fault == faults < MaxFaults /\ faults' = faults + 1

Reply(r, code, u, view) ==
    answer' = [answer EXCEPT ![r] = [code |-> code, upload |-> u, view |-> view]]
Refuse(r, code) == Reply(r, code, None, NoManifest)

\* _write_upload_session_locked of a manifest.
Write(u, m) == manifest' = [manifest EXCEPT ![u] = m]

\* The same write raising, before or after the rename took effect.
WriteRaises(u, m) == Fault /\ (Write(u, m) \/ UNCHANGED manifest)

\* The operation goes on with its next durable step, or gives up the lock.
Goto(step) == op' = [op EXCEPT !.step = step]
Done == op' = None
Holder == IF op = None THEN None ELSE op.req

\* The operation raises: the route answers 5xx, or 413 when the quota refused.
Raise(r) == Done /\ \E code \in {"retry", "fatal"} : Refuse(r, code)

\* The files of the session's directory: its chunks, and the parts of open
\* writers too.
PartsOf(u) == {w.req : w \in {x \in writers : x.upload = u}}
Emptied(u) == chunks[u] = {} /\ parts \cap PartsOf(u) = {}

\* A request reaches an operation only when the lock is free.
Take(q, kind) == op = None /\ q \in inbox /\ q.kind = kind /\ inbox' = inbox \ {q}

Hold(q, step) ==
    op' = [req |-> q.req, kind |-> q.kind, upload |-> q.upload,
           index |-> q.index, step |-> step]

\* load_thread and _read_upload_session_locked.
Known(u) == live /\ u # None /\ Exists(u)

-----------------------------------------------------------------------------
(* create_upload_session.                                                  *)

\* _reap_terminal_upload_sessions_locked: the terminal sessions lose their
\* payload, `old' of them (the ones beyond TerminalLimit, in the order of
\* their random ids) their manifest; open sessions keep the chunks of their
\* manifest and the parts of open writers.  It is one step: it takes nothing
\* that an open session claims, whichever of its unlinks is the last.
Terminal == {u \in Upload : Status(u) \in Closed}
Excess == IF Cardinality(Terminal) > TerminalLimit
          THEN Cardinality(Terminal) - TerminalLimit ELSE 0
Reaped(old) ==
    [u \in Upload |-> IF u \in old THEN Gone
                      ELSE IF u \in Terminal
                           THEN [manifest[u] EXCEPT !.received = {}]
                           ELSE manifest[u]]
KeptChunks(u) == IF Status(u) \in Open THEN chunks[u] \cap Received(u) ELSE {}
KeptParts(old) ==
    {w.req : w \in {x \in writers :
        /\ x.req \in parts
        /\ Exists(x.upload) /\ x.upload \notin old
        /\ Status(x.upload) \in Closed => Received(x.upload) = {}}}
Reap(old) ==
    /\ chunks' = [u \in Upload |-> KeptChunks(u)]
    /\ parts' = KeptParts(old)

Remaining(old) == Cardinality({u \in Upload : Exists(u)} \ old)

Create(q) ==
    /\ Take(q, "create")
    /\ UNCHANGED <<file, chatVars, writers, op>>
    /\ \/ /\ ~live
          /\ Refuse(q.req, "fatal")
          /\ UNCHANGED <<manifest, chunks, parts, faults>>
       \/ /\ live
          /\ \E old \in SUBSET Terminal :
                /\ Cardinality(old) = Excess
                /\ Reap(old)
                /\ IF Remaining(old) >= SessionLimit
                   THEN /\ manifest' = Reaped(old)
                        /\ Refuse(q.req, "fatal")
                        /\ UNCHANGED faults
                   ELSE \E u \in Upload :
                        LET fresh == [status |-> "active", received |-> {}]
                            with == [Reaped(old) EXCEPT ![u] = fresh]
                        IN  /\ Status(u) = "absent"
                            /\ \/ /\ manifest' = with
                                  /\ Reply(q.req, "ok", u, fresh)
                                  /\ UNCHANGED faults
                               \/ /\ Fault
                                  /\ manifest' \in {with, Reaped(old)}
                                  /\ Refuse(q.req, "retry")

\* get_upload_session.
Get(q) ==
    /\ Take(q, "get")
    /\ IF Known(q.upload)
       THEN Reply(q.req, "ok", q.upload, manifest[q.upload])
       ELSE Refuse(q.req, "fatal")
    /\ UNCHANGED <<diskVars, chatVars, writers, op, faults>>

\* Any request can be refused before it does anything: no quota (413), a
\* reservation in conflict (409), an I/O error (500).
RefuseRequest(q) ==
    /\ op = None /\ q \in inbox
    /\ inbox' = inbox \ {q}
    /\ Fault
    /\ \E code \in {"retry", "fatal"} : Refuse(q.req, code)
    /\ UNCHANGED <<diskVars, chatVars, writers, op>>

-----------------------------------------------------------------------------
(* begin_upload_chunk and _UploadChunkWriter.                              *)

Begin(q) ==
    LET u == q.upload IN
    /\ Take(q, "put")
    /\ UNCHANGED <<manifest, chunks, file, chatVars, op, faults>>
    /\ \/ /\ ~Known(u)
          /\ Refuse(q.req, "fatal")
          /\ UNCHANGED <<parts, writers>>
       \/ /\ Known(u)
          /\ Status(u) # "active" \/ (q.index \notin Received(u)
                                      /\ Received(u) # 0..(q.index - 1))
          /\ Refuse(q.req, "retry")
          /\ UNCHANGED <<parts, writers>>
       \/ /\ Known(u) /\ Status(u) = "active" /\ q.index \in Received(u)
          /\ IF q.index \in chunks[u]
             THEN Reply(q.req, "ok", u, manifest[u])
             ELSE Refuse(q.req, "retry")
          /\ UNCHANGED <<parts, writers>>
       \/ /\ Known(u) /\ Status(u) = "active"
          /\ q.index \notin Received(u) /\ Received(u) = 0..(q.index - 1)
          /\ writers' = writers \cup {[req |-> q.req, upload |-> u, index |-> q.index]}
          /\ parts' = parts \cup {q.req}
          /\ UNCHANGED answer

\* The connection breaks while the body is streamed: abort().
AbortChunk(w) ==
    /\ w \in writers /\ op = None
    /\ Fault
    /\ writers' = writers \ {w} /\ parts' = parts \ {w.req}
    /\ Refuse(w.req, "retry")
    /\ UNCHANGED <<manifest, chunks, file, chatVars, inbox, op>>

\* finish(): the session is read again under the lock, and the part becomes
\* the chunk only if the session is still active and this chunk its next.
FinishRefused(w) ==
    /\ w \in writers /\ op = None
    /\ \/ ~(Status(w.upload) = "active")
       \/ w.index \in Received(w.upload) \/ Received(w.upload) # 0..(w.index - 1)
       \/ w.req \notin parts
    /\ writers' = writers \ {w} /\ parts' = parts \ {w.req}
    /\ Refuse(w.req, IF Exists(w.upload) THEN "retry" ELSE "fatal")
    /\ UNCHANGED <<manifest, chunks, file, chatVars, inbox, op, faults>>

FinishChunk(w) ==
    /\ w \in writers /\ op = None
    /\ Status(w.upload) = "active"
    /\ w.index \notin Received(w.upload) /\ Received(w.upload) = 0..(w.index - 1)
    /\ w.req \in parts
    /\ writers' = writers \ {w} /\ parts' = parts \ {w.req}
    /\ chunks' = [chunks EXCEPT ![w.upload] = @ \cup {w.index}]
    /\ op' = [req |-> w.req, kind |-> "put", upload |-> w.upload,
              index |-> w.index, step |-> "record"]
    /\ UNCHANGED <<manifest, file, chatVars, inbox, answer, faults>>

\* The chunk enters the manifest; when that write raises,
\* _rollback_finish_failure keeps the chunk exactly if the manifest has it.
RecordChunk ==
    LET u == op.upload
        m == [manifest[u] EXCEPT !.received = @ \cup {op.index}]
    IN  /\ op # None /\ op.step = "record"
        /\ \/ /\ Write(u, m)
              /\ Reply(op.req, "ok", u, m)
              /\ Done
              /\ UNCHANGED <<chunks, faults>>
           \/ /\ WriteRaises(u, m)
              /\ chunks' = IF manifest' # manifest THEN chunks
                           ELSE [chunks EXCEPT ![u] = @ \ {op.index}]
              /\ Raise(op.req)
        /\ UNCHANGED <<parts, file, chatVars, inbox, writers>>

-----------------------------------------------------------------------------
(* complete_upload_session: announce (the manifest says "publishing" and    *)
(* names the attachment), publish (the assembled file takes its name),      *)
(* save (the chat's document and attachment.added, through the outbox),     *)
(* settle (the manifest says "completed"), clear (the chunks go).           *)

Complete(q) ==
    LET u == q.upload IN
    /\ Take(q, "complete")
    /\ UNCHANGED <<diskVars, chatVars, writers, faults>>
    /\ \/ /\ ~Known(u)
          /\ Refuse(q.req, "fatal") /\ UNCHANGED op
       \/ /\ Known(u) /\ u \in attachments
          /\ IF u \in file THEN Hold(q, "settle") /\ UNCHANGED answer
                           ELSE Refuse(q.req, "retry") /\ UNCHANGED op
       \/ /\ Known(u) /\ u \notin attachments
          /\ Status(u) \notin Open \/ Received(u) # Index
          /\ Refuse(q.req, "retry") /\ UNCHANGED op
       \/ /\ Known(u) /\ u \notin attachments
          /\ Status(u) \in Open /\ Received(u) = Index
          /\ IF u \in file THEN Hold(q, "save") /\ UNCHANGED answer
             ELSE IF Received(u) \subseteq chunks[u]
                  THEN Hold(q, "announce") /\ UNCHANGED answer
                  ELSE Refuse(q.req, "retry") /\ UNCHANGED op

Announce ==
    LET u == op.upload
        m == [manifest[u] EXCEPT !.status = "publishing"]
    IN  /\ op # None /\ op.step = "announce"
        /\ \/ Write(u, m) /\ Goto("publish") /\ UNCHANGED <<answer, faults>>
           \/ WriteRaises(u, m) /\ Raise(op.req)
        /\ UNCHANGED <<chunks, parts, file, chatVars, inbox, writers>>

\* The rename can raise; so can the quota commit after it, and then the file
\* is unlinked again and the manifest rewritten as active, unless one of
\* these raises too.
Publish ==
    LET u == op.upload IN
    /\ op # None /\ op.step = "publish"
    /\ \/ /\ file' = file \cup {u}
          /\ Goto("save")
          /\ UNCHANGED <<manifest, answer, faults>>
       \/ /\ Fault
          /\ \/ file' \in {file, file \cup {u}} /\ UNCHANGED manifest
             \/ file' = file /\ Write(u, [manifest[u] EXCEPT !.status = "active"])
          /\ Raise(op.req)
    /\ UNCHANGED <<chunks, parts, chatVars, inbox, writers>>

\* The outbox commits the document and the event together, after it has
\* finished the row that was pending.  The new document is built from the
\* one read before that, so it does not have what the pending row attached.
Journalled(s) == [v \in Upload |-> added[v] + (IF v \in s THEN 1 ELSE 0)]

Reconciled ==
    /\ attachments' = attachments \cup late
    /\ added' = Journalled(late)
    /\ late' = {}

\* Mutant: the event is journalled after the document, not with it.
SaveThenEvent ==
    /\ op # None /\ op.step = "save"
    /\ attachments' = attachments \cup {op.upload}
    /\ \/ /\ added' = Journalled(late \cup ({op.upload} \ attachments))
          /\ Goto("settle") /\ UNCHANGED <<answer, faults>>
       \/ Fault /\ Raise(op.req) /\ added' = Journalled(late)
    /\ late' = {} /\ UNCHANGED <<diskVars, unsure, live, deleting, inbox, writers>>

\* A commit that raises has done nothing, or finished the pending row only,
\* or everything, or its own row stays pending with the document replaced or
\* not.
Save ==
    LET u == op.upload
        Commit == /\ attachments' = attachments \cup {u}
                  /\ added' = [Journalled(late) EXCEPT ![u] = @ + 1]
                  /\ late' = {} /\ UNCHANGED unsure
    IN  /\ op # None /\ op.step = "save"
        /\ \/ /\ u \in attachments
              /\ Goto("settle")
              /\ UNCHANGED <<attachments, added, late, unsure, answer, faults>>
           \/ /\ u \notin attachments
              /\ Commit /\ Goto("settle") /\ UNCHANGED <<answer, faults>>
           \/ /\ u \notin attachments
              /\ Fault /\ Raise(op.req)
              /\ \/ Commit
                 \/ UNCHANGED <<attachments, added, late, unsure>>
                 \/ Reconciled /\ UNCHANGED unsure
                 \/ /\ attachments' \in {attachments \cup late, attachments \cup {u}}
                    /\ added' = Journalled(late)
                    /\ late' = {u} /\ unsure' = unsure \cup {u}
        /\ UNCHANGED <<diskVars, live, deleting, inbox, writers>>

\* Another commit of the process finishes the pending one first, and if it
\* is one of this chat, writes over it.  _apply_writes makes the document of
\* a chat that was deleted meanwhile again.
ApplyLate ==
    /\ late # {}
    /\ \/ Reconciled /\ live' = TRUE
       \/ /\ live /\ UNCHANGED <<attachments, live>>
          /\ added' = Journalled(late) /\ late' = {}
    /\ UNCHANGED <<diskVars, unsure, deleting, inbox, writers, op, answer, faults>>

\* Also the end of a cancellation that finds the upload attached.
Settle ==
    LET u == op.upload
        m == [manifest[u] EXCEPT !.status = "completed"]
    IN  /\ op # None /\ op.step = "settle"
        /\ \/ Write(u, m) /\ Goto("clear") /\ UNCHANGED <<answer, faults>>
           \/ WriteRaises(u, m) /\ Raise(op.req)
        /\ UNCHANGED <<chunks, parts, file, chatVars, inbox, writers>>

\* _clear_upload_payload_locked unlinks the files one by one: under a
\* completion, a cancellation or the deletion of the chat.
UnlinkPayload ==
    LET u == op.upload IN
    /\ op # None /\ op.step \in {"clear", "forget", "manifest"}
    /\ \/ /\ \E i \in chunks[u] : chunks' = [chunks EXCEPT ![u] = @ \ {i}]
          /\ UNCHANGED parts
       \/ /\ \E r \in parts \cap PartsOf(u) : parts' = parts \ {r}
          /\ UNCHANGED chunks
    /\ UNCHANGED <<manifest, file, chatVars, inbox, writers, op, answer, faults>>

Clear ==
    /\ op # None /\ op.step = "clear"
    /\ \/ /\ Emptied(op.upload)
          /\ Reply(op.req, "ok", op.upload, manifest[op.upload]) /\ Done
          /\ UNCHANGED faults
       \/ Fault /\ Raise(op.req)
    /\ UNCHANGED <<diskVars, chatVars, inbox, writers>>

-----------------------------------------------------------------------------
(* cancel_upload_session: an upload that is already attached is settled     *)
(* instead; otherwise tombstone, undo (the published file goes), forget     *)
(* (the chunks go, then the manifest drops its received indices).           *)

\* Mutant: a "publishing" session is cancelled without looking for its
\* attachment in the chat.
CancelPublished(q) ==
    LET u == q.upload IN
    /\ Take(q, "cancel")
    /\ UNCHANGED <<diskVars, chatVars, writers, faults>>
    /\ IF Known(u) /\ Status(u) \in Open
       THEN Hold(q, "tombstone") /\ UNCHANGED answer
       ELSE Refuse(q.req, "fatal") /\ UNCHANGED op

Cancel(q) ==
    LET u == q.upload IN
    /\ Take(q, "cancel")
    /\ file' = IF Known(u) /\ Status(u) = "cancelled" THEN file \ {u} ELSE file
    /\ UNCHANGED <<manifest, chunks, parts, chatVars, writers, faults>>
    /\ \/ /\ ~Known(u)
          /\ Refuse(q.req, "fatal") /\ UNCHANGED op
       \/ /\ Known(u) /\ Status(u) = "publishing" /\ u \in attachments
          /\ IF u \in file THEN Hold(q, "settle") /\ UNCHANGED answer
                           ELSE Refuse(q.req, "retry") /\ UNCHANGED op
       \/ /\ Known(u) /\ Status(u) \in Open
          /\ ~(Status(u) = "publishing" /\ u \in attachments)
          /\ Hold(q, "tombstone") /\ UNCHANGED answer
       \/ /\ Known(u) /\ Status(u) \in Closed /\ Received(u) # {}
          /\ Hold(q, "undo") /\ UNCHANGED answer
       \/ /\ Known(u) /\ Status(u) \in Closed /\ Received(u) = {}
          /\ Reply(q.req, "ok", u, manifest[u]) /\ UNCHANGED op

Tombstone ==
    LET u == op.upload
        m == [manifest[u] EXCEPT !.status = "cancelled"]
    IN  /\ op # None /\ op.step = "tombstone"
        /\ \/ Write(u, m) /\ Goto("undo") /\ UNCHANGED <<answer, faults>>
           \/ WriteRaises(u, m) /\ Raise(op.req)
        /\ UNCHANGED <<chunks, parts, file, chatVars, inbox, writers>>

\* _rollback_published_upload_locked of a cancelled upload.
Undo ==
    LET u == op.upload IN
    /\ op # None /\ op.step = "undo"
    /\ \/ /\ file' = IF Status(u) = "cancelled" THEN file \ {u} ELSE file
          /\ Goto("forget")
          /\ UNCHANGED <<answer, faults>>
       \/ Fault /\ Raise(op.req) /\ UNCHANGED file
    /\ UNCHANGED <<manifest, chunks, parts, chatVars, inbox, writers>>

Forget ==
    LET u == op.upload
        m == [manifest[u] EXCEPT !.received = {}]
    IN  /\ op # None /\ op.step = "forget"
        /\ \/ /\ Emptied(u)
              /\ Write(u, m) /\ Reply(op.req, "ok", u, m) /\ Done /\ UNCHANGED faults
           \/ /\ Emptied(u) \/ UNCHANGED manifest
              /\ WriteRaises(u, m) /\ Raise(op.req)
        /\ UNCHANGED <<chunks, parts, file, chatVars, inbox, writers>>

-----------------------------------------------------------------------------
(* delete_thread: the chat's sessions one after another (the published file *)
(* of a "publishing" one, the files of its directory one by one, its        *)
(* manifest), the chat's events, its document, and what is left of its      *)
(* upload tree.                                                             *)

Delete(q) ==
    /\ Take(q, "delete")
    /\ UNCHANGED <<diskVars, attachments, added, late, unsure, live, writers, faults>>
    /\ IF live THEN Hold(q, "sessions") /\ deleting' = TRUE /\ UNCHANGED answer
               ELSE Refuse(q.req, "fatal") /\ UNCHANGED <<op, deleting>>

DeleteSession(u) ==
    /\ op # None /\ op.step = "sessions" /\ Exists(u)
    /\ file' = IF Status(u) = "publishing" THEN file \ {u} ELSE file
    /\ op' = [op EXCEPT !.upload = u, !.step = "manifest"]
    /\ UNCHANGED <<manifest, chunks, parts, chatVars, inbox, writers, answer, faults>>

DeleteManifest ==
    /\ op # None /\ op.step = "manifest" /\ Emptied(op.upload)
    /\ Write(op.upload, Gone)
    /\ op' = [op EXCEPT !.upload = None, !.step = "sessions"]
    /\ UNCHANGED <<chunks, parts, file, chatVars, inbox, writers, answer, faults>>

\* purge_thread, the unlinking of the document, _remove_upload_tree_locked.
DeleteChat ==
    /\ op # None
    /\ \/ /\ op.step = "sessions" /\ \A u \in Upload : ~Exists(u)
          /\ Goto("purge")
          /\ UNCHANGED <<file, added, live, answer>>
       \/ /\ op.step = "purge"
          /\ added' = [u \in Upload |-> 0]
          /\ Goto("chat")
          /\ UNCHANGED <<file, live, answer>>
       \/ /\ op.step = "chat"
          /\ live' = FALSE
          /\ Goto("tree")
          /\ UNCHANGED <<file, added, answer>>
       \/ /\ op.step = "tree"
          /\ \E u \in file : file' = file \ {u}
          /\ UNCHANGED <<added, live, op, answer>>
       \/ /\ op.step = "tree" /\ file = {}
          /\ Reply(op.req, "ok", None, NoManifest) /\ Done
          /\ UNCHANGED <<file, added, live>>
    /\ UNCHANGED <<manifest, chunks, parts, attachments, late, unsure, deleting,
                   inbox, writers, faults>>

\* A step of the deletion raises; what it removed stays removed.
DeleteRaises ==
    /\ op # None /\ op.kind = "delete"
    /\ Fault /\ Raise(op.req)
    /\ UNCHANGED <<diskVars, chatVars, inbox, writers>>

-----------------------------------------------------------------------------
\* The process dies and starts again: the lock, the writers and the requests
\* are gone, the outbox finishes what was pending.  The part files left on
\* disk have names nobody uses again.
Crash ==
    /\ Fault
    /\ op' = None /\ writers' = {} /\ parts' = {} /\ inbox' = {}
    /\ Reconciled
    /\ live' = (live \/ late # {})
    /\ UNCHANGED <<manifest, chunks, file, unsure, deleting, answer>>

Send(q) ==
    /\ q.req \notin {x.req : x \in inbox} \cup {w.req : w \in writers}
    /\ q.req # Holder
    /\ inbox' = inbox \cup {q}
    /\ answer' = [answer EXCEPT ![q.req] = NoAnswer]
    /\ UNCHANGED <<diskVars, chatVars, writers, op, faults>>

Handle(q) ==
    \/ Create(q) \/ Get(q) \/ Begin(q) \/ Complete(q) \/ Cancel(q) \/ Delete(q)
    \/ RefuseRequest(q)

Proceed ==
    \/ RecordChunk \/ Announce \/ Publish \/ Save \/ Settle \/ UnlinkPayload \/ Clear
    \/ Tombstone \/ Undo \/ Forget
    \/ \E u \in Upload : DeleteSession(u)
    \/ DeleteManifest \/ DeleteChat \/ DeleteRaises

StoreStep ==
    \/ \E q \in inbox : Handle(q)
    \/ \E w \in writers : FinishChunk(w) \/ FinishRefused(w) \/ AbortChunk(w)
    \/ Proceed
    \/ ApplyLate

StoreNext == StoreStep \/ Crash \/ \E q \in Message : Send(q)

StoreSpec == StoreInit /\ [][StoreNext]_storeVars

-----------------------------------------------------------------------------
(* What the store promises.                                                *)

\* An open session has received a prefix of the file's chunks.  Until the
\* deletion of the chat begins, it also has every chunk that its manifest
\* claims, and an open writer of an active session still has its part; an
\* attachment of the chat has its published file, and a completed session is
\* attached: whatever crash or raising write came between two of the durable
\* steps (complete, cancel, the reaper of create, _rollback_finish_failure).
\* delete_thread unlinks chunks while the manifest still claims them, and the
\* chat outlives a deletion that raises; a save left pending in the outbox can
\* be overtaken by a cancellation, or be written over: the exceptions are a
\* chat whose deletion began and, for attachments, an upload whose save was
\* ever pending.
UploadBacked ==
    \A u \in Upload :
        /\ Status(u) \in Open => \E n \in 0..Chunks : Received(u) = 0..(n - 1)
        /\ ~deleting =>
              /\ Status(u) \in Open => Received(u) \subseteq chunks[u]
              /\ \A w \in writers :
                    w.upload = u /\ Status(u) = "active" => w.req \in parts
              /\ Status(u) = "completed" => u \in attachments
        /\ ~deleting /\ u \notin unsure => (u \in attachments => u \in file)
=============================================================================
