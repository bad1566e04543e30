----------------------- MODULE ResumableUploadProofs -----------------------
(***************************************************************************)
(* Proofs about ResumableUpload and the UploadStore below it.              *)
(*                                                                         *)
(* StoreInv says what each step of an operation may rely on while it holds *)
(* _upload_mutation_lock, and what is on disk when nobody holds it: the    *)
(* properties of the store alone are not inductive, because a durable      *)
(* write is right only for what the steps before it established.           *)
(* ClientInv ties each call of uploadResumableFile to the one request it   *)
(* awaits: where that request is, whose session it is about and what its   *)
(* answer can say.  ChargeInv counts the faults behind every chunk that is *)
(* sent again; DeletionInv adds that a deletion, which takes chunks and    *)
(* parts from sessions that still claim them, was asked for.               *)
(***************************************************************************)
EXTENDS ResumableUpload, FiniteSetTheorems, TLAPS

-----------------------------------------------------------------------------
(* The store.                                                              *)

\* A request is in one place: the inbox, a writer, or the lock's holder.
OnePlace ==
    /\ \A q1, q2 \in inbox : q1.req = q2.req => q1 = q2
    /\ \A w1, w2 \in writers : w1.req = w2.req => w1 = w2
    /\ \A q \in inbox, w \in writers : q.req # w.req
    /\ op # None => /\ \A q \in inbox : q.req # op.req
                    /\ \A w \in writers : w.req # op.req

\* One session, its chunks, its file, its attachment and its event.
SessionOK(u) ==
    /\ Status(u) \in Open => \E n \in 0..Chunks : Received(u) = 0..(n - 1)
    /\ ~deleting => (Status(u) \in Open => Received(u) \subseteq chunks[u])
    /\ Status(u) = "publishing" => Received(u) = Index
    /\ Status(u) \in {"absent", "active"} => u \notin file
    /\ ~deleting => (Status(u) = "completed" => u \in attachments)
    /\ ~deleting /\ u \notin unsure =>
          /\ u \in attachments => u \in file
          /\ u \in attachments => Status(u) \in {"publishing", "completed", "gone"}
          /\ added[u] = IF u \in attachments THEN 1 ELSE 0

WriterOK(w) ==
    /\ Status(w.upload) # "absent"
    /\ ~deleting => (Status(w.upload) \in Open => w.req \in parts)

\* What the operation under the lock has established before its next step.
OpOK ==
    op # None =>
        /\ op.step \in {"sessions", "manifest", "purge", "chat", "tree"} =>
              op.kind = "delete" /\ deleting
        /\ op.step \notin {"sessions", "manifest", "purge", "chat", "tree"} =>
              op.kind # "delete" /\ op.upload \in Upload
        /\ op.step = "manifest" => op.upload \in Upload /\ Exists(op.upload)
        /\ op.step = "record" =>
              /\ op.kind = "put"
              /\ Status(op.upload) = "active"
              /\ Received(op.upload) = 0..(op.index - 1)
              /\ op.index \in chunks[op.upload]
        /\ op.step \in {"announce", "publish", "save"} =>
              /\ op.kind = "complete"
              /\ op.upload \in attachments => op.upload \in unsure
              /\ Status(op.upload) \in Open
              /\ Received(op.upload) = Index
        /\ op.step \in {"announce", "publish"} => op.upload \notin file
        /\ op.step \in {"publish", "save"} => Status(op.upload) = "publishing"
        /\ op.step = "save" => op.upload \in file
        /\ op.step \in {"settle", "clear"} =>
              /\ op.kind \in {"complete", "cancel"}
              /\ op.upload \in attachments
              /\ Exists(op.upload)
        /\ op.step = "clear" => Status(op.upload) = "completed"
        /\ op.step \in {"tombstone", "undo", "forget"} => op.kind = "cancel"
        /\ op.step = "tombstone" =>
              /\ Status(op.upload) \in Open
              /\ op.upload \in attachments => deleting \/ op.upload \in unsure
        /\ op.step \in {"undo", "forget"} => Status(op.upload) \in Closed

StoreInv ==
    /\ TypeOK
    /\ OnePlace
    /\ \A u \in Upload : SessionOK(u)
    /\ \A w \in writers : WriterOK(w)
    /\ OpOK
    /\ late \subseteq unsure
    /\ ~live => deleting

-----------------------------------------------------------------------------
(* The calls.                                                              *)

ClientTypeOK ==
    /\ pc \in [Client -> PcStates]
    /\ session \in [Client -> [id : Upload \cup {None}, view : Manifest]]
    /\ index \in [Client -> Index]
    /\ attempt \in [Client -> Nat]
    /\ waiting \in [Client -> Request \cup {None}]
    /\ why \in [Client -> {"none", "no_session", "invalid_session", "session_cancelled",
                           "refused", "exhausted", "unconfirmed", "aborted"}]

\* The kind of request that a call awaits in each state.
Sought(state) ==
    CASE state = "creating" -> "create"
      [] state = "putting" -> "put"
      [] state = "completing" -> "complete"
      [] OTHER -> "get"

\* Request r is under way: in the inbox, streamed by a writer, or the holder's.
\* A deletion is about no one upload: it goes through all of them.
InFlight(r, k, u, i) ==
    \/ \E q \in inbox : /\ q.req = r /\ q.kind = k /\ q.index = i
                        /\ k = "delete" \/ q.upload = u
    \/ \E w \in writers : w.req = r /\ k = "put" /\ w.upload = u /\ w.index = i
    \/ /\ op # None /\ op.req = r /\ op.kind = k /\ op.index = i
       /\ k = "delete" \/ op.upload = u

\* A request in flight, of that kind and about that upload and chunk, is the
\* one that c awaits.
About(c, kind, u, i) ==
    /\ kind = Sought(pc[c])
    /\ pc[c] \notin {"creating", "resuming"} => u = session[c].id
    /\ pc[c] = "putting" => i = index[c]

\* An answer says what is so: a completed session is attached.
AnswerOK(r) ==
    answer[r].code = "ok" /\ answer[r].view.status = "completed" /\ ~deleting =>
        answer[r].upload \in attachments

CallOK(c) ==
    /\ pc[c] \in Awaiting <=> waiting[c] # None
    /\ \A r \in Request : r = waiting[c] =>
          /\ \A k \in RequestKinds, u \in Upload \cup {None}, i \in Index :
                InFlight(r, k, u, i) => About(c, k, u, i)
          /\ answer[r].code = "ok" =>
                /\ pc[c] \notin {"creating", "resuming"} => answer[r].upload = session[c].id
                /\ pc[c] = "completing" => answer[r].view.status = "completed"
    /\ pc[c] = "done" /\ ~deleting => session[c].id \in attachments

ClientInv ==
    /\ ClientTypeOK
    /\ \A c, d \in Client : waiting[c] = waiting[d] /\ waiting[c] # None => c = d
    /\ \A r \in Request : AnswerOK(r)
    /\ \A c \in Client : CallOK(c)

-----------------------------------------------------------------------------
(* The faults behind a retry.                                              *)

Disturbed == userActs \cap {"cancel", "delete"} # {}

\* Chunk i has reached the session, or the session is past taking chunks.
Landed(u, i) ==
    \/ Status(u) \in {"completed", "cancelled", "gone"}
    \/ Status(u) \in Open /\ i \in Received(u)

\* The session has the first n chunks, or is past taking chunks.
Ahead(u, n) ==
    \/ Status(u) \in {"completed", "cancelled", "gone"}
    \/ Status(u) \in Open /\ 0..(n - 1) \subseteq Received(u)

\* Every attempt so far, and the next one, stands for a fault of its own.
Charged(c) == Disturbed \/ attempt[c] + 1 <= faults

ViewLanded(v, i) == v.status \in {"completed", "cancelled"} \/ i \in v.received

Sending == {"putting", "put", "check", "checking"}

\* Request r was neither answered nor is it under way: its process died.
Dropped(r) ==
    /\ answer[r].code = "none"
    /\ \A k \in RequestKinds, u \in Upload \cup {None}, i \in Index : ~InFlight(r, k, u, i)

ChargeOK(c) ==
    /\ pc[c] \in Sending \cup {"loop"} => session[c].id \in Upload
    /\ pc[c] = "loop" => Ahead(session[c].id, FirstMissing(session[c].view))
    /\ pc[c] \in Sending => /\ Disturbed \/ attempt[c] <= faults
                            /\ Ahead(session[c].id, index[c])
    /\ pc[c] \in {"check", "checking"} => Charged(c) \/ Landed(session[c].id, index[c])
    /\ \A r \in Request : r = waiting[c] =>
          /\ pc[c] = "putting" /\ (answer[r].code = "retry" \/ Dropped(r)) =>
                Charged(c) \/ Landed(session[c].id, index[c])
          /\ pc[c] = "checking" /\ (answer[r].code = "retry" \/ Dropped(r)) => Charged(c)
          /\ pc[c] = "checking" /\ answer[r].code = "ok" =>
                Charged(c) \/ ViewLanded(answer[r].view, index[c])
    /\ why[c] = "exhausted" => faults > RetryAttempts \/ Disturbed

\* What an answer says of a session is still so, or the session went further.
ViewOK(r) ==
    answer[r].code = "ok" =>
        /\ answer[r].view.status = "active" =>
              /\ answer[r].upload \in Upload
              /\ Ahead(answer[r].upload, FirstMissing(answer[r].view))
        /\ answer[r].view.status = "cancelled" => Disturbed

\* A deletion that began, or will, was asked for by the user.
DeletionInv == deleting \/ (\E q \in inbox : q.kind = "delete") => Disturbed

ChargeInv ==
    /\ \A c \in Client : ChargeOK(c)
    /\ \A r \in Request : ViewOK(r)
    /\ \A r \in Request, u \in Upload \cup {None}, i \in Index :
          InFlight(r, "cancel", u, i) => Disturbed
    /\ \A u \in Upload : Status(u) = "cancelled" => Disturbed

-----------------------------------------------------------------------------
(* What the building blocks do.                                            *)

\* A manifest with another status, or other indices, is a manifest.
LEMMA NewManifest ==
    ASSUME NEW m \in Manifest
    PROVE  /\ \A s \in {"absent", "gone"} \cup Open \cup Closed :
                 LET n == [m EXCEPT !.status = s]
                 IN  n \in Manifest /\ n.status = s /\ n.received = m.received
           /\ \A i \in SUBSET Index :
                 LET n == [m EXCEPT !.received = i]
                 IN  n \in Manifest /\ n.status = m.status /\ n.received = i
    BY DEF Manifest

\* _write_upload_session_locked changes one manifest.
LEMMA WriteEffect ==
    ASSUME TypeOK, NEW u \in Upload, NEW m \in Manifest, Write(u, m)
    PROVE  /\ manifest' \in [Upload -> Manifest]
           /\ manifest'[u] = m
           /\ \A v \in Upload : v # u => manifest'[v] = manifest[v]
    BY DEF TypeOK, Write

\* The write that raises leaves the old manifest or the new one.
LEMMA WriteRaisesEffect ==
    ASSUME TypeOK, NEW u \in Upload, NEW m \in Manifest, WriteRaises(u, m)
    PROVE  /\ manifest' \in [Upload -> Manifest]
           /\ manifest'[u] = m \/ manifest'[u] = manifest[u]
           /\ \A v \in Upload : v # u => manifest'[v] = manifest[v]
           /\ faults' \in Nat /\ faults' = faults + 1
    BY WriteEffect DEF TypeOK, WriteRaises, Fault

\* The holder goes on to its next step.
LEMMA GotoEffect ==
    ASSUME op \in Op, NEW s \in Steps, Goto(s)
    PROVE  /\ op' \in Op /\ op' # None
           /\ op'.req = op.req /\ op'.kind = op.kind
           /\ op'.upload = op.upload /\ op'.index = op.index
           /\ op'.step = s
    BY NoneAssumption DEF Op, Goto

\* An answer is recorded for one request.
LEMMA ReplyEffect ==
    ASSUME TypeOK, NEW r \in Request, NEW code \in Codes,
           NEW u \in Upload \cup {None}, NEW view \in Manifest,
           Reply(r, code, u, view)
    PROVE  /\ answer' \in [Request -> Answer]
           /\ answer'[r].code = code /\ answer'[r].upload = u /\ answer'[r].view = view
           /\ \A s \in Request : s # r => answer'[s] = answer[s]
    <1> DEFINE a == [code |-> code, upload |-> u, view |-> view]
    <1>1. a \in Answer
        BY DEF Answer
    <1>2. answer' = [answer EXCEPT ![r] = a]
        BY DEF Reply
    <1> HIDE DEF a
    <1>3. answer' \in [Request -> Answer] /\ answer'[r] = a
        BY <1>1, <1>2 DEF TypeOK
    <1>4. \A s \in Request : s # r => answer'[s] = answer[s]
        BY <1>2 DEF TypeOK
    <1> QED
        BY <1>3, <1>4 DEF a

\* A refusal carries no session.
LEMMA RefuseEffect ==
    ASSUME TypeOK, NEW r \in Request, NEW code \in Codes, Refuse(r, code)
    PROVE  /\ answer' \in [Request -> Answer]
           /\ answer'[r].code = code /\ answer'[r].view = NoManifest
           /\ \A s \in Request : s # r => answer'[s] = answer[s]
    <1>1. NoManifest \in Manifest
        BY DEF NoManifest, Manifest
    <1> QED
        BY <1>1, ReplyEffect DEF Refuse

\* An operation that raises gives up the lock with such a refusal.
LEMMA RaiseEffect ==
    ASSUME TypeOK, NEW r \in Request, Raise(r)
    PROVE  /\ op' = None
           /\ answer' \in [Request -> Answer]
           /\ answer'[r].code \in {"retry", "fatal"} /\ answer'[r].view = NoManifest
           /\ \A s \in Request : s # r => answer'[s] = answer[s]
    <1>1. PICK code \in {"retry", "fatal"} : Refuse(r, code)
        BY DEF Raise
    <1>2. code \in Codes
        BY DEF Codes
    <1> QED
        BY <1>1, <1>2, RefuseEffect DEF Raise, Done

-----------------------------------------------------------------------------
(* StoreInv: what does not depend on the action.                           *)

\* The parts of StoreInv that a step of the holder leaves alone.
HolderFrame == UNCHANGED <<inbox, writers, live, deleting>>

\* A holder that goes on under its own request, or leaves, keeps requests apart.
LEMMA OnePlaceFrame ==
    ASSUME OnePlace, UNCHANGED <<inbox, writers>>,
           op' = None \/ (op # None /\ op'.req = op.req)
    PROVE  OnePlace'
    BY DEF OnePlace

\* A session of which nothing changed stays right.
LEMMA SessionFrame ==
    ASSUME NEW u \in Upload, SessionOK(u), manifest'[u] = manifest[u],
           chunks'[u] = chunks[u], u \in file' <=> u \in file,
           UNCHANGED <<attachments, added, unsure, deleting>>
    PROVE  SessionOK(u)'
    BY DEF SessionOK, Status, Received

\* Nothing of the store changes but answers and the count of faults.
LEMMA AnswerOnly ==
    ASSUME StoreInv, UNCHANGED <<diskVars, chatVars, inbox, writers, op>>,
           answer' \in [Request -> Answer], faults' \in Nat
    PROVE  StoreInv'
    <1> USE DEF StoreInv, diskVars, chatVars
    <1>1. TypeOK'
        BY DEF TypeOK
    <1>2. OnePlace'
        BY DEF OnePlace
    <1>3. \A u \in Upload : SessionOK(u)'
        BY DEF SessionOK, Status, Received
    <1>4. \A w \in writers' : WriterOK(w)'
        BY DEF WriterOK, Status
    <1>5. OpOK'
        BY DEF OpOK, Status, Received, Exists
    <1> QED
        BY <1>1, <1>2, <1>3, <1>4, <1>5

-----------------------------------------------------------------------------
(* StoreInv: the requests, taken while nobody holds the lock.              *)

\* A request taken from the inbox leaves the others apart.
LEMMA TakeEffect ==
    ASSUME StoreInv, NEW q, NEW kind, Take(q, kind)
    PROVE  /\ q \in Message /\ q.req \in Request /\ q.upload \in Upload \cup {None}
           /\ q.index \in Index /\ q.kind = kind
           /\ op = None /\ inbox' \in SUBSET Message /\ inbox' \subseteq inbox
           /\ q \in inbox /\ q \notin inbox'
           /\ \A p \in inbox' : p.req # q.req
           /\ \A w \in writers : w.req # q.req
    BY DEF StoreInv, TypeOK, OnePlace, Take, Message

\* A request that only reads, or is refused, disturbs nothing.
LEMMA TakeOnly ==
    ASSUME StoreInv, NEW q \in inbox, inbox' = inbox \ {q},
           UNCHANGED <<diskVars, chatVars, writers, op>>,
           answer' \in [Request -> Answer], faults' \in Nat
    PROVE  StoreInv'
    <1> USE DEF StoreInv, diskVars, chatVars
    <1>1. TypeOK'
        BY DEF TypeOK
    <1>2. OnePlace'
        BY DEF OnePlace
    <1>3. \A u \in Upload : SessionOK(u)'
        BY DEF SessionOK, Status, Received
    <1>4. \A w \in writers' : WriterOK(w)'
        BY DEF WriterOK, Status
    <1>5. OpOK'
        BY DEF OpOK, Status, Received, Exists
    <1> QED
        BY <1>1, <1>2, <1>3, <1>4, <1>5

\* get_upload_session.
LEMMA GetStep ==
    ASSUME StoreInv, NEW q, Get(q)
    PROVE  StoreInv'
    <1>1. Take(q, "get")
        BY DEF Get
    <1>2. /\ q \in inbox /\ inbox' = inbox \ {q} /\ q.req \in Request
          /\ q.upload \in Upload \cup {None}
        BY <1>1, TakeEffect DEF Take
    <1>3. TypeOK
        BY DEF StoreInv
    <1>4. answer' \in [Request -> Answer]
        <2>1. CASE Known(q.upload)
            <3>1. q.upload \in Upload /\ manifest[q.upload] \in Manifest
                BY <1>2, <1>3, <2>1 DEF Known, TypeOK
            <3> QED
                BY <1>2, <1>3, <2>1, <3>1, ReplyEffect DEF Get, Codes
        <2>2. CASE ~Known(q.upload)
            BY <1>2, <1>3, <2>2, RefuseEffect DEF Get, Codes
        <2> QED
            BY <2>1, <2>2
    <1> QED
        BY <1>2, <1>3, <1>4, TakeOnly DEF Get, TypeOK

\* Any request refused before it does anything.
LEMMA RefuseRequestStep ==
    ASSUME StoreInv, NEW q, RefuseRequest(q)
    PROVE  StoreInv'
    <1>1. TypeOK /\ q \in inbox /\ q.req \in Request
        BY DEF StoreInv, TypeOK, RefuseRequest, Message
    <1>2. PICK code \in {"retry", "fatal"} : Refuse(q.req, code)
        BY DEF RefuseRequest
    <1>3. answer' \in [Request -> Answer]
        BY <1>1, <1>2, RefuseEffect DEF Codes
    <1> QED
        BY <1>1, <1>3, TakeOnly DEF RefuseRequest, TypeOK, Fault

\* The operation that takes the lock has its request and its session.
LEMMA HoldEffect ==
    ASSUME NEW q \in Message, NEW s \in Steps, Hold(q, s)
    PROVE  /\ op' \in Op /\ op' # None
           /\ op'.req = q.req /\ op'.kind = q.kind
           /\ op'.upload = q.upload /\ op'.index = q.index
           /\ op'.step = s
    BY NoneAssumption DEF Op, Hold, Message

\* A request that takes the lock, or is answered at once, and writes nothing
\* but perhaps the removal of a cancelled upload's file.
LEMMA HoldStep ==
    ASSUME StoreInv, NEW q, NEW kind, Take(q, kind),
           UNCHANGED <<manifest, chunks, parts, chatVars, writers, faults>>,
           answer' \in [Request -> Answer],
           op' \in Op \cup {None}, op' # None => op'.req = q.req,
           file' = file \/ (q.upload \in Upload /\ Status(q.upload) = "cancelled"
                            /\ file' = file \ {q.upload}),
           OpOK'
    PROVE  StoreInv'
    <1> USE DEF StoreInv, chatVars
    <1>0. /\ op = None /\ inbox' \in SUBSET Message /\ inbox' \subseteq inbox
          /\ \A p \in inbox' : p.req # q.req
          /\ \A w \in writers : w.req # q.req
        BY TakeEffect
    <1>1. TypeOK'
        BY <1>0 DEF TypeOK
    <1>2. OnePlace'
        BY <1>0 DEF OnePlace
    <1>3. \A u \in Upload : SessionOK(u)'
        BY DEF SessionOK, Status, Received
    <1>4. \A w \in writers' : WriterOK(w)'
        BY DEF WriterOK, Status
    <1> QED
        BY <1>1, <1>2, <1>3, <1>4

\* complete_upload_session up to its first durable step.
LEMMA CompleteStep ==
    ASSUME StoreInv, NEW q, Complete(q)
    PROVE  StoreInv'
    <1>1. Take(q, "complete")
        BY DEF Complete
    <1>2. /\ q \in Message /\ q.req \in Request /\ q.upload \in Upload \cup {None}
          /\ q.kind = "complete" /\ op = None
        BY <1>1, TakeEffect
    <1>3. TypeOK
        BY DEF StoreInv
    <1>4. UNCHANGED <<manifest, chunks, parts, file, chatVars, writers, faults>>
        BY DEF Complete, diskVars
    <1>5. CASE UNCHANGED op /\ \E code \in {"fatal", "retry"} : Refuse(q.req, code)
        <2>1. answer' \in [Request -> Answer]
            BY <1>2, <1>3, <1>5, RefuseEffect DEF Codes
        <2>2. OpOK'
            BY <1>2, <1>5 DEF OpOK
        <2> QED
            BY <1>1, <1>2, <1>4, <1>5, <2>1, <2>2, HoldStep
    <1>6. ASSUME NEW s \in {"settle", "save", "announce"}, Hold(q, s), UNCHANGED answer,
                 q.upload \in Upload, Exists(q.upload),
                 s = "settle" => q.upload \in attachments,
                 s # "settle" => /\ q.upload \notin attachments
                                 /\ Status(q.upload) \in Open /\ Received(q.upload) = Index
                                 /\ q.upload \in file <=> s = "save"
          PROVE  StoreInv'
        <2>1. /\ op' \in Op /\ op' # None /\ op'.req = q.req /\ op'.kind = q.kind
              /\ op'.upload = q.upload /\ op'.step = s
            BY <1>2, <1>6, HoldEffect DEF Steps
        <2>2. SessionOK(q.upload)
            BY <1>6 DEF StoreInv
        <2>3. s = "save" => Status(q.upload) = "publishing"
            BY <1>6, <2>2 DEF SessionOK, Open
        <2>4. OpOK'
            BY <1>2, <1>4, <1>6, <2>1, <2>3 DEF OpOK, Status, Received, Exists, chatVars
        <2>5. answer' \in [Request -> Answer]
            BY <1>3, <1>6 DEF TypeOK
        <2> QED
            BY <1>1, <1>4, <2>1, <2>4, <2>5, HoldStep
    <1> QED
        BY <1>2, <1>5, <1>6 DEF Complete, Known, Exists

\* cancel_upload_session up to its first durable step.
LEMMA CancelStep ==
    ASSUME StoreInv, NEW q, Cancel(q)
    PROVE  StoreInv'
    <1>1. Take(q, "cancel")
        BY DEF Cancel
    <1>2. /\ q \in Message /\ q.req \in Request /\ q.upload \in Upload \cup {None}
          /\ q.kind = "cancel" /\ op = None
        BY <1>1, TakeEffect
    <1>3. TypeOK
        BY DEF StoreInv
    <1>4. UNCHANGED <<manifest, chunks, parts, chatVars, writers, faults>>
        BY DEF Cancel
    <1>5. file' = file \/ (q.upload \in Upload /\ Status(q.upload) = "cancelled"
                           /\ file' = file \ {q.upload})
        BY <1>2 DEF Cancel, Known
    <1>6. CASE UNCHANGED op /\ answer' \in [Request -> Answer]
        <2>1. OpOK'
            BY <1>2, <1>6 DEF OpOK
        <2> QED
            BY <1>1, <1>2, <1>4, <1>5, <1>6, <2>1, HoldStep
    <1>7. CASE UNCHANGED op /\ \E code \in {"fatal", "retry"} : Refuse(q.req, code)
        BY <1>2, <1>3, <1>6, <1>7, RefuseEffect DEF Codes
    <1>8. CASE UNCHANGED op /\ Known(q.upload) /\ Reply(q.req, "ok", q.upload, manifest[q.upload])
        <2>1. q.upload \in Upload /\ manifest[q.upload] \in Manifest
            BY <1>2, <1>3, <1>8 DEF Known, TypeOK
        <2> QED
            BY <1>2, <1>3, <1>6, <1>8, <2>1, ReplyEffect DEF Codes
    <1>9. ASSUME NEW s \in {"settle", "tombstone", "undo"}, Hold(q, s), UNCHANGED answer,
                 q.upload \in Upload, Exists(q.upload),
                 s = "settle" => q.upload \in attachments,
                 s = "tombstone" => /\ Status(q.upload) \in Open
                                    /\ ~(Status(q.upload) = "publishing"
                                         /\ q.upload \in attachments),
                 s = "undo" => Status(q.upload) \in Closed
          PROVE  StoreInv'
        <2>1. /\ op' \in Op /\ op' # None /\ op'.req = q.req /\ op'.kind = q.kind
              /\ op'.upload = q.upload /\ op'.step = s
            BY <1>2, <1>9, HoldEffect DEF Steps
        <2>2. SessionOK(q.upload)
            BY <1>9 DEF StoreInv
        <2>3. s = "tombstone" /\ q.upload \in attachments => deleting \/ q.upload \in unsure
            BY <1>9, <2>2 DEF SessionOK, Open
        <2>4. OpOK'
            BY <1>2, <1>4, <1>9, <2>1, <2>3 DEF OpOK, Status, Received, Exists, chatVars
        <2>5. answer' \in [Request -> Answer]
            BY <1>3, <1>9 DEF TypeOK
        <2> QED
            BY <1>1, <1>4, <1>5, <2>1, <2>4, <2>5, HoldStep
    <1> QED
        BY <1>2, <1>7, <1>8, <1>9 DEF Cancel, Known, Exists

\* delete_thread takes the lock and marks the chat.
LEMMA DeleteStep ==
    ASSUME StoreInv, NEW q, Delete(q)
    PROVE  StoreInv'
    <1>1. Take(q, "delete")
        BY DEF Delete
    <1>2. /\ q \in Message /\ q \in inbox /\ inbox' = inbox \ {q} /\ q.req \in Request
          /\ q.kind = "delete" /\ op = None
          /\ inbox' \in SUBSET Message /\ inbox' \subseteq inbox
          /\ \A p \in inbox' : p.req # q.req
          /\ \A w \in writers : w.req # q.req
        BY <1>1, TakeEffect DEF Take
    <1>3. TypeOK
        BY DEF StoreInv
    <1>4. CASE ~live
        <2>1. answer' \in [Request -> Answer]
            BY <1>2, <1>3, <1>4, RefuseEffect DEF Delete, Codes
        <2> QED
            BY <1>2, <1>3, <1>4, <2>1, TakeOnly DEF Delete, chatVars, TypeOK
    <1>5. CASE live
        <2>1. /\ op' \in Op /\ op' # None /\ op'.req = q.req /\ op'.kind = "delete"
              /\ op'.step = "sessions"
            BY <1>2, <1>5, HoldEffect DEF Delete, Steps
        <2>2. deleting' = TRUE /\ UNCHANGED <<manifest, chunks, parts, file, attachments,
                    added, late, unsure, live, writers, faults, answer>>
            BY <1>5 DEF Delete, diskVars
        <2>3. TypeOK'
            BY <1>2, <1>3, <2>1, <2>2 DEF TypeOK
        <2>4. OnePlace'
            BY <1>2, <2>1, <2>2 DEF StoreInv, OnePlace
        <2>5. \A u \in Upload : SessionOK(u)'
            BY <2>2 DEF StoreInv, SessionOK, Status, Received
        <2>6. \A w \in writers' : WriterOK(w)'
            BY <2>2 DEF StoreInv, WriterOK, Status
        <2>7. OpOK'
            BY <2>1, <2>2 DEF OpOK
        <2> QED
            BY <2>2, <2>3, <2>4, <2>5, <2>6, <2>7 DEF StoreInv
    <1> QED
        BY <1>4, <1>5

\* What the reaper leaves of every session.
LEMMA ReapEffect ==
    ASSUME StoreInv, NEW old \in SUBSET Terminal, Reap(old)
    PROVE  /\ Reaped(old) \in [Upload -> Manifest]
           /\ chunks' \in [Upload -> SUBSET Index] /\ parts' \in SUBSET Request
           /\ \A u \in Upload :
                 /\ Status(u) \in Open \cup {"absent", "gone"} => Reaped(old)[u] = manifest[u]
                 /\ Status(u) \in Closed =>
                       Reaped(old)[u].status \in {Status(u), "gone"}
                 /\ Status(u) \in Open => chunks'[u] = chunks[u] \cap Received(u)
           /\ ~deleting =>
                 \A w \in writers : Status(w.upload) \in Open => w.req \in parts'
    <1> USE DEF StoreInv, TypeOK
    <1>1. Gone \in Manifest
        BY DEF Gone, Manifest
    <1>2. ASSUME NEW u \in Upload
          PROVE  /\ Reaped(old)[u] \in Manifest
                 /\ Status(u) \in Open \cup {"absent", "gone"} => Reaped(old)[u] = manifest[u]
                 /\ Status(u) \in Closed => Reaped(old)[u].status \in {Status(u), "gone"}
        <2>1. {} \in SUBSET Index /\ manifest[u] \in Manifest
            OBVIOUS
        <2>2. /\ [manifest[u] EXCEPT !.received = {}] \in Manifest
              /\ [manifest[u] EXCEPT !.received = {}].status = Status(u)
            BY <2>1, NewManifest DEF Status
        <2>3. Reaped(old)[u] = IF u \in old THEN Gone
                               ELSE IF u \in Terminal
                                    THEN [manifest[u] EXCEPT !.received = {}]
                                    ELSE manifest[u]
            BY DEF Reaped
        <2>4. u \in Terminal <=> Status(u) \in Closed
            BY DEF Terminal
        <2>5. Gone.status = "gone"
            BY DEF Gone
        <2> QED
            BY <1>1, <2>1, <2>2, <2>3, <2>4, <2>5 DEF Open, Closed
    <1>3. Reaped(old) \in [Upload -> Manifest]
        <2>1. Reaped(old) = [u \in Upload |-> Reaped(old)[u]]
            BY DEF Reaped
        <2> QED
            BY <1>2, <2>1
    <1>4. /\ chunks' \in [Upload -> SUBSET Index]
          /\ \A u \in Upload : Status(u) \in Open => chunks'[u] = chunks[u] \cap Received(u)
        BY DEF Reap, KeptChunks
    <1>5. parts' \in SUBSET Request
        BY DEF Reap, KeptParts, Writer
    <1>6. ASSUME ~deleting, NEW w \in writers, Status(w.upload) \in Open
          PROVE  w.req \in parts'
        <2>1. w.upload \in Upload /\ w.req \in parts
            BY <1>6 DEF WriterOK, Writer
        <2>2. Exists(w.upload) /\ w.upload \notin old /\ Status(w.upload) \notin Closed
            BY <1>6, <2>1 DEF Exists, Terminal, Open, Closed
        <2> QED
            BY <2>1, <2>2 DEF Reap, KeptParts
    <1> QED
        BY <1>2, <1>3, <1>4, <1>5, <1>6

\* create_upload_session: the reaper, and a fresh session or none.
LEMMA CreateStep ==
    ASSUME StoreInv, NEW q, Create(q)
    PROVE  StoreInv'
    <1>1. Take(q, "create")
        BY DEF Create
    <1>2. /\ q \in Message /\ q \in inbox /\ inbox' = inbox \ {q} /\ q.req \in Request
          /\ op = None /\ inbox' \in SUBSET Message /\ inbox' \subseteq inbox
        BY <1>1, TakeEffect DEF Take
    <1>3. TypeOK
        BY DEF StoreInv
    <1>4. UNCHANGED <<file, chatVars, writers, op>>
        BY DEF Create
    <1>5. CASE ~live
        <2>1. Refuse(q.req, "fatal") /\ UNCHANGED <<manifest, chunks, parts, faults>>
            BY <1>5 DEF Create
        <2>2. answer' \in [Request -> Answer]
            BY <1>2, <1>3, <2>1, RefuseEffect DEF Codes
        <2> QED
            BY <1>2, <1>3, <1>4, <2>1, <2>2, TakeOnly DEF diskVars, TypeOK
    <1>6. CASE live
        <2> DEFINE fresh == [status |-> "active", received |-> {}]
        <2>0. fresh \in Manifest /\ fresh.status = "active" /\ fresh.received = {}
            BY DEF Manifest, Open
        <2> HIDE DEF fresh
        <2>1. PICK old \in SUBSET Terminal :
                /\ Reap(old)
                /\ \/ /\ manifest' = Reaped(old) /\ Refuse(q.req, "fatal") /\ UNCHANGED faults
                   \/ \E u \in Upload :
                        /\ Status(u) = "absent"
                        /\ \/ /\ manifest' = [Reaped(old) EXCEPT ![u] = fresh]
                              /\ Reply(q.req, "ok", u, fresh)
                              /\ UNCHANGED faults
                           \/ /\ Fault
                              /\ manifest' \in {[Reaped(old) EXCEPT ![u] = fresh], Reaped(old)}
                              /\ Refuse(q.req, "retry")
            BY <1>6 DEF Create, fresh
        <2>2. /\ Reaped(old) \in [Upload -> Manifest]
              /\ chunks' \in [Upload -> SUBSET Index] /\ parts' \in SUBSET Request
              /\ \A u \in Upload :
                    /\ Status(u) \in Open \cup {"absent", "gone"} => Reaped(old)[u] = manifest[u]
                    /\ Status(u) \in Closed =>
                          Reaped(old)[u].status \in {Status(u), "gone"}
                    /\ Status(u) \in Open => chunks'[u] = chunks[u] \cap Received(u)
              /\ ~deleting =>
                    \A w \in writers : Status(w.upload) \in Open => w.req \in parts'
            BY <2>1, ReapEffect
        <2>3. answer' \in [Request -> Answer] /\ faults' \in Nat
            <3>1. faults' \in Nat
                BY <1>3, <2>1 DEF TypeOK, Fault
            <3>2. CASE \E code \in Codes : Refuse(q.req, code)
                BY <1>2, <1>3, <3>1, <3>2, RefuseEffect
            <3>3. ASSUME NEW u \in Upload, Reply(q.req, "ok", u, fresh)
                  PROVE  answer' \in [Request -> Answer]
                BY <1>2, <1>3, <2>0, <3>3, ReplyEffect DEF Codes
            <3> QED
                BY <2>1, <3>1, <3>2, <3>3 DEF Codes
        <2>4. \A u \in Upload : \/ manifest'[u] = Reaped(old)[u]
                                \/ Status(u) = "absent" /\ manifest'[u] = fresh
            BY <2>1, <2>2
        <2>5. manifest' \in [Upload -> Manifest]
            BY <2>0, <2>1, <2>2
        <2>6. TypeOK'
            BY <1>2, <1>3, <1>4, <2>2, <2>3, <2>5 DEF TypeOK, chatVars
        <2>7. OnePlace'
            BY <1>2, <1>4 DEF StoreInv, OnePlace
        <2>8. ASSUME NEW u \in Upload
              PROVE  SessionOK(u)'
            <3>0. SessionOK(u) /\ manifest[u] \in Manifest
                BY <1>3 DEF StoreInv, TypeOK
            <3>1. CASE Status(u) = "absent" /\ manifest'[u] = fresh
                <4>1. Received(u)' = 0..(0 - 1) /\ 0 \in 0..Chunks /\ Received(u)' = {}
                    BY <3>1, <2>0, UploadAssumption DEF Received
                <4>2. Status(u)' = "active"
                    BY <3>1, <2>0 DEF Status
                <4> QED
                    BY <1>4, <3>0, <3>1, <4>1, <4>2 DEF SessionOK, chatVars, Open, Status, Received
            <3>2. CASE manifest'[u] = Reaped(old)[u] /\ Status(u) \in Open
                BY <1>4, <2>2, <3>0, <3>2 DEF SessionOK, chatVars, Status, Received
            <3>3. CASE manifest'[u] = Reaped(old)[u] /\ Status(u) \notin Open
                <4>1. Status(u)' \in {Status(u), "gone"}
                    BY <2>2, <3>0, <3>3 DEF Status, Manifest
                <4> QED
                    BY <1>4, <3>0, <3>3, <4>1 DEF SessionOK, chatVars, Open
            <3> QED
                BY <2>4, <3>1, <3>2, <3>3
        <2>9. ASSUME NEW w \in writers'
              PROVE  WriterOK(w)'
            <3>1. w \in writers /\ WriterOK(w) /\ w.upload \in Upload
                BY <1>3, <1>4 DEF StoreInv, TypeOK, Writer
            <3>2. manifest'[w.upload] = Reaped(old)[w.upload] /\ manifest[w.upload] \in Manifest
                BY <1>3, <2>4, <3>1 DEF WriterOK, TypeOK
            <3>3. /\ Status(w.upload)' # "absent"
                  /\ Status(w.upload)' \in Open => Status(w.upload) \in Open
                BY <2>2, <3>1, <3>2 DEF WriterOK, Status, Manifest, Open, Closed
            <3> QED
                BY <1>4, <2>2, <3>1, <3>3 DEF WriterOK, Status, chatVars
        <2>10. OpOK'
            BY <1>2, <1>4 DEF OpOK
        <2> QED
            BY <1>4, <2>6, <2>7, <2>8, <2>9, <2>10 DEF StoreInv, chatVars
    <1> QED
        BY <1>5, <1>6

-----------------------------------------------------------------------------
(* StoreInv: the chunks.                                                   *)

\* begin_upload_chunk: answered at once, or a writer with its part.
LEMMA BeginStep ==
    ASSUME StoreInv, NEW q, Begin(q)
    PROVE  StoreInv'
    <1>1. Take(q, "put")
        BY DEF Begin
    <1>2. /\ q \in Message /\ q \in inbox /\ inbox' = inbox \ {q} /\ q.req \in Request
          /\ q.upload \in Upload \cup {None} /\ q.index \in Index
          /\ op = None /\ inbox' \in SUBSET Message /\ inbox' \subseteq inbox
          /\ \A p \in inbox' : p.req # q.req
          /\ \A w \in writers : w.req # q.req
        BY <1>1, TakeEffect DEF Take
    <1>3. TypeOK
        BY DEF StoreInv
    <1>4. UNCHANGED <<manifest, chunks, file, chatVars, op, faults>>
        BY DEF Begin
    <1>5. CASE UNCHANGED <<parts, writers>> /\ answer' \in [Request -> Answer]
        BY <1>2, <1>3, <1>4, <1>5, TakeOnly DEF diskVars, TypeOK
    <1>6. CASE UNCHANGED <<parts, writers>> /\ \E code \in {"fatal", "retry"} : Refuse(q.req, code)
        BY <1>2, <1>3, <1>5, <1>6, RefuseEffect DEF Codes
    <1>7. CASE /\ UNCHANGED <<parts, writers>> /\ Known(q.upload)
               /\ Reply(q.req, "ok", q.upload, manifest[q.upload])
        <2>1. q.upload \in Upload /\ manifest[q.upload] \in Manifest
            BY <1>2, <1>3, <1>7 DEF Known, TypeOK
        <2> QED
            BY <1>2, <1>3, <1>5, <1>7, <2>1, ReplyEffect DEF Codes
    <1>8. CASE /\ Known(q.upload) /\ Status(q.upload) = "active"
               /\ writers' = writers \cup {[req |-> q.req, upload |-> q.upload,
                                            index |-> q.index]}
               /\ parts' = parts \cup {q.req} /\ UNCHANGED answer
        <2> DEFINE new == [req |-> q.req, upload |-> q.upload, index |-> q.index]
        <2>1. new \in Writer /\ new.req = q.req /\ new.upload = q.upload
            BY <1>2, <1>8 DEF Writer, Known
        <2>2. writers' = writers \cup {new}
            BY <1>8
        <2> HIDE DEF new
        <2>3. TypeOK'
            BY <1>2, <1>3, <1>4, <1>8, <2>1, <2>2 DEF TypeOK, chatVars
        <2>4. OnePlace'
            BY <1>2, <1>4, <2>1, <2>2 DEF StoreInv, OnePlace
        <2>5. \A u \in Upload : SessionOK(u)'
            BY <1>4 DEF StoreInv, SessionOK, Status, Received, chatVars
        <2>6. \A w \in writers' : WriterOK(w)'
            BY <1>4, <1>8, <2>1, <2>2 DEF StoreInv, WriterOK, Status, Open, chatVars
        <2>7. OpOK'
            BY <1>2, <1>4 DEF OpOK
        <2> QED
            BY <1>4, <2>3, <2>4, <2>5, <2>6, <2>7 DEF StoreInv, chatVars
    <1> QED
        BY <1>6, <1>7, <1>8 DEF Begin

\* abort(), or a finish() that is refused: the writer and its part go.
LEMMA WriterGone ==
    ASSUME StoreInv, NEW w \in writers, op = None,
           writers' = writers \ {w}, parts' = parts \ {w.req},
           UNCHANGED <<manifest, chunks, file, chatVars, inbox, op>>,
           faults' \in Nat, NEW code \in Codes, Refuse(w.req, code)
    PROVE  StoreInv'
    <1>1. TypeOK /\ w.req \in Request
        BY DEF StoreInv, TypeOK, Writer
    <1>2. answer' \in [Request -> Answer]
        BY <1>1, RefuseEffect
    <1>3. TypeOK'
        BY <1>1, <1>2 DEF TypeOK, chatVars
    <1>4. OnePlace'
        BY DEF StoreInv, OnePlace
    <1>5. \A u \in Upload : SessionOK(u)'
        BY DEF StoreInv, SessionOK, Status, Received, chatVars
    <1>6. \A x \in writers' : WriterOK(x)'
        BY DEF StoreInv, WriterOK, Status, OnePlace, chatVars
    <1>7. OpOK'
        BY DEF OpOK
    <1> QED
        BY <1>3, <1>4, <1>5, <1>6, <1>7 DEF StoreInv, chatVars

\* The connection breaks while the body is streamed.
LEMMA AbortChunkStep ==
    ASSUME StoreInv, NEW w, AbortChunk(w)
    PROVE  StoreInv'
    <1>1. faults' \in Nat
        BY DEF StoreInv, TypeOK, AbortChunk, Fault
    <1> QED
        BY <1>1, WriterGone DEF AbortChunk, Codes

\* finish() finds the session past its chunk.
LEMMA FinishRefusedStep ==
    ASSUME StoreInv, NEW w, FinishRefused(w)
    PROVE  StoreInv'
    <1>1. faults' \in Nat
        BY DEF StoreInv, TypeOK, FinishRefused
    <1>2. PICK code \in Codes : Refuse(w.req, code)
        BY DEF FinishRefused, Codes
    <1> QED
        BY <1>1, <1>2, WriterGone DEF FinishRefused

\* finish() renames the part and keeps the lock for the manifest.
LEMMA FinishChunkStep ==
    ASSUME StoreInv, NEW w, FinishChunk(w)
    PROVE  StoreInv'
    <1>1. /\ w \in writers /\ op = None /\ w.req \in Request /\ w.upload \in Upload
          /\ w.index \in Index
        BY DEF StoreInv, TypeOK, Writer, FinishChunk
    <1>2. /\ writers' = writers \ {w} /\ parts' = parts \ {w.req}
          /\ chunks' = [chunks EXCEPT ![w.upload] = @ \cup {w.index}]
          /\ UNCHANGED <<manifest, file, chatVars, inbox, answer, faults>>
        BY DEF FinishChunk
    <1>3. /\ op' \in Op /\ op'.req = w.req /\ op'.kind = "put" /\ op'.upload = w.upload
          /\ op'.index = w.index /\ op'.step = "record"
        BY <1>1 DEF FinishChunk, Op, RequestKinds, Steps
    <1>4. /\ chunks' \in [Upload -> SUBSET Index]
          /\ w.index \in chunks'[w.upload]
          /\ \A u \in Upload : chunks[u] \subseteq chunks'[u]
        BY <1>1, <1>2 DEF StoreInv, TypeOK
    <1>5. TypeOK'
        BY <1>2, <1>3, <1>4 DEF StoreInv, TypeOK, chatVars
    <1>6. OnePlace'
        BY <1>1, <1>2, <1>3 DEF StoreInv, OnePlace
    <1>7. \A u \in Upload : SessionOK(u)'
        BY <1>2, <1>4 DEF StoreInv, SessionOK, Status, Received, chatVars
    <1>8. \A x \in writers' : WriterOK(x)'
        BY <1>1, <1>2 DEF StoreInv, WriterOK, Status, OnePlace, chatVars
    <1>9. OpOK'
        BY <1>1, <1>2, <1>3, <1>4 DEF OpOK, Status, Received, FinishChunk
    <1> QED
        BY <1>2, <1>5, <1>6, <1>7, <1>8, <1>9 DEF StoreInv, chatVars

-----------------------------------------------------------------------------
(* StoreInv: the durable steps of the holder.                              *)

\* What every holder knows of itself.
LEMMA HolderFacts ==
    ASSUME StoreInv, op # None
    PROVE  /\ TypeOK /\ op \in Op /\ op.req \in Request /\ op.index \in Index
           /\ op.upload \in Upload \cup {None}
           /\ op.step \notin {"sessions", "manifest", "purge", "chat", "tree"} =>
                 /\ op.upload \in Upload /\ op.kind # "delete"
                 /\ manifest[op.upload] \in Manifest /\ SessionOK(op.upload)
    BY DEF StoreInv, TypeOK, OpOK, Op

\* A step of the holder on its own session: what is left to show for it.
LEMMA HolderStep ==
    ASSUME StoreInv, op # None, TypeOK',
           UNCHANGED <<inbox, writers, live, deleting>>,
           op' = None \/ op'.req = op.req,
           late' \subseteq unsure',
           \A u \in Upload : SessionOK(u)',
           \A w \in writers : WriterOK(w)',
           OpOK'
    PROVE  StoreInv'
    BY OnePlaceFrame DEF StoreInv

\* The holder leaves and writes nothing.
LEMMA LeaveStep ==
    ASSUME StoreInv, op # None, op' = None, answer' \in [Request -> Answer], faults' \in Nat,
           UNCHANGED <<diskVars, chatVars, inbox, writers>>
    PROVE  StoreInv'
    <1>1. TypeOK'
        BY DEF StoreInv, TypeOK, diskVars, chatVars
    <1>2. \A v \in Upload : SessionOK(v)'
        BY DEF StoreInv, SessionOK, Status, Received, diskVars, chatVars
    <1>3. \A w \in writers : WriterOK(w)'
        BY DEF StoreInv, WriterOK, Status, diskVars, chatVars
    <1>4. OpOK'
        BY DEF OpOK
    <1>5. late' \subseteq unsure' /\ UNCHANGED <<live, deleting>>
        BY DEF StoreInv, chatVars
    <1> QED
        BY <1>1, <1>2, <1>3, <1>4, <1>5, HolderStep

\* The chunk enters the manifest, or is rolled back.
LEMMA RecordChunkStep ==
    ASSUME StoreInv, RecordChunk
    PROVE  StoreInv'
    <1> DEFINE u == op.upload
               m == [manifest[u] EXCEPT !.received = @ \cup {op.index}]
    <1>1. /\ op # None /\ op.step = "record"
          /\ UNCHANGED <<parts, file, chatVars, inbox, writers>>
        BY DEF RecordChunk
    <1>2. /\ TypeOK /\ u \in Upload /\ op.req \in Request /\ op.index \in Index
          /\ manifest[u] \in Manifest /\ SessionOK(u)
        BY <1>1, HolderFacts
    <1>3. /\ Status(u) = "active" /\ Received(u) = 0..(op.index - 1)
          /\ op.index \in chunks[u]
        BY <1>1 DEF StoreInv, OpOK
    <1>4. m \in Manifest /\ m.status = "active" /\ m.received = 0..op.index
        <2>1. Received(u) \cup {op.index} = 0..op.index /\ 0..op.index \subseteq Index
            BY <1>2, <1>3, UploadAssumption DEF Index
        <2>2. m = [manifest[u] EXCEPT !.received = 0..op.index]
            BY <2>1 DEF Received
        <2> HIDE DEF m
        <2>3. 0..op.index \in SUBSET Index
            BY <2>1
        <2> QED
            BY <1>2, <1>3, <2>2, <2>3, NewManifest DEF Status
    <1>5. /\ op' = None
          /\ manifest' \in [Upload -> Manifest] /\ chunks' \in [Upload -> SUBSET Index]
          /\ answer' \in [Request -> Answer] /\ faults' \in Nat
          /\ \A v \in Upload : v # u => manifest'[v] = manifest[v] /\ chunks'[v] = chunks[v]
          /\ \/ manifest'[u] = m /\ chunks'[u] = chunks[u]
             \/ manifest'[u] = manifest[u] /\ chunks'[u] = chunks[u] \ {op.index}
        <2>1. CASE Write(u, m) /\ Reply(op.req, "ok", u, m) /\ Done /\ UNCHANGED <<chunks, faults>>
            <3>1. answer' \in [Request -> Answer]
                BY <1>2, <1>4, <2>1, ReplyEffect DEF Codes
            <3> QED
                BY <1>2, <1>4, <2>1, <3>1, WriteEffect DEF Done, TypeOK
        <2>2. CASE /\ WriteRaises(u, m)
                   /\ chunks' = IF manifest' # manifest THEN chunks
                                ELSE [chunks EXCEPT ![u] = @ \ {op.index}]
                   /\ Raise(op.req)
            <3>1. /\ manifest' \in [Upload -> Manifest] /\ faults' \in Nat
                  /\ \A v \in Upload : v # u => manifest'[v] = manifest[v]
                BY <1>2, <1>4, <2>2, WriteRaisesEffect
            <3>2. op' = None /\ answer' \in [Request -> Answer]
                BY <1>2, <2>2, RaiseEffect
            <3>3. manifest' = manifest \/ (manifest'[u] = m /\ manifest' # manifest)
                BY <1>2, <2>2 DEF WriteRaises, Write, TypeOK
            <3> QED
                BY <1>2, <2>2, <3>1, <3>2, <3>3 DEF TypeOK
        <2> QED
            BY <2>1, <2>2 DEF RecordChunk
    <1> HIDE DEF u, m
    <1>6. TypeOK'
        BY <1>1, <1>2, <1>5 DEF TypeOK, chatVars
    <1>7. ASSUME NEW v \in Upload PROVE SessionOK(v)'
        <2>0. SessionOK(v)
            BY DEF StoreInv
        <2>1. CASE v # u
            BY <1>1, <1>5, <2>0, <2>1, SessionFrame DEF chatVars
        <2>2. CASE v = u /\ manifest'[u] = m /\ chunks'[u] = chunks[u]
            <3>1. Received(v)' = 0..((op.index + 1) - 1) /\ op.index + 1 \in 0..Chunks
                BY <1>2, <1>4, <2>2, UploadAssumption DEF Received, Index
            <3>2. ~deleting => Received(v)' \subseteq chunks'[v]
                BY <1>2, <1>3, <1>4, <2>2, <2>0 DEF SessionOK, Received, Status, Open, Index
            <3>3. Status(v)' = "active" /\ Status(v) = "active"
                BY <1>3, <1>4, <2>2 DEF Status
            <3> QED
                BY <1>1, <2>0, <3>1, <3>2, <3>3 DEF SessionOK, chatVars
        <2>3. CASE v = u /\ manifest'[u] = manifest[u] /\ chunks'[u] = chunks[u] \ {op.index}
            <3>1. op.index \notin Received(v)
                BY <1>2, <1>3, <2>3 DEF Index
            <3> QED
                BY <1>1, <2>0, <2>3, <3>1 DEF SessionOK, Status, Received, chatVars
        <2> QED
            BY <1>5, <2>1, <2>2, <2>3
    <1>8. ASSUME NEW w \in writers PROVE WriterOK(w)'
        <2>1. WriterOK(w) /\ w.upload \in Upload
            BY <1>2 DEF StoreInv, TypeOK, Writer
        <2>2. Status(w.upload)' = Status(w.upload)
            BY <1>3, <1>4, <1>5, <2>1 DEF Status
        <2> QED
            BY <1>1, <2>1, <2>2 DEF WriterOK, chatVars
    <1>9. OpOK'
        BY <1>5 DEF OpOK
    <1>10. late' \subseteq unsure' /\ UNCHANGED <<live, deleting>>
        BY <1>1 DEF StoreInv, chatVars
    <1> QED
        BY <1>1, <1>5, <1>6, <1>7, <1>8, <1>9, <1>10, HolderStep

\* A step whose one write gives the session another status.
StatusWrite(s, next) ==
    /\ op # None
    /\ \/ /\ Write(op.upload, [manifest[op.upload] EXCEPT !.status = s])
          /\ Goto(next) /\ UNCHANGED <<answer, faults>>
       \/ /\ WriteRaises(op.upload, [manifest[op.upload] EXCEPT !.status = s])
          /\ Raise(op.req)
    /\ UNCHANGED <<chunks, parts, file, chatVars, inbox, writers>>

\* Such a step leaves the indices and the other sessions alone.
LEMMA StatusWriteEffect ==
    ASSUME StoreInv, NEW s \in Open \cup Closed, NEW next \in Steps, op.upload \in Upload,
           StatusWrite(s, next)
    PROVE  /\ TypeOK'
           /\ \A v \in Upload : /\ Received(v)' = Received(v)
                                /\ v # op.upload => Status(v)' = Status(v)
                                /\ Status(v)' \in {Status(v), s}
           /\ \/ op' = None
              \/ /\ op' # None /\ op'.req = op.req /\ op'.kind = op.kind
                 /\ op'.upload = op.upload /\ op'.step = next
                 /\ Status(op.upload)' = s
           /\ HolderFrame
           /\ UNCHANGED <<chunks, parts, file, attachments, added, late, unsure>>
    <1> DEFINE u == op.upload
               m == [manifest[u] EXCEPT !.status = s]
    <1>1. op # None /\ UNCHANGED <<chunks, parts, file, chatVars, inbox, writers>>
        BY DEF StatusWrite
    <1>2. TypeOK /\ op.req \in Request /\ op \in Op /\ u \in Upload /\ manifest[u] \in Manifest
        BY <1>1, HolderFacts DEF TypeOK
    <1>3. m \in Manifest /\ m.status = s /\ m.received = Received(u)
        BY <1>2, NewManifest DEF Received
    <1>4. CASE Write(u, m) /\ Goto(next) /\ UNCHANGED <<answer, faults>>
        <2> HIDE DEF m, u
        <2>1. /\ manifest' \in [Upload -> Manifest] /\ manifest'[u] = m
              /\ \A v \in Upload : v # u => manifest'[v] = manifest[v]
            BY <1>2, <1>3, <1>4, WriteEffect
        <2>2. /\ op' \in Op /\ op' # None /\ op'.req = op.req /\ op'.kind = op.kind
              /\ op'.upload = op.upload /\ op'.step = next
            BY <1>2, <1>4, GotoEffect
        <2>3. TypeOK'
            BY <1>1, <1>2, <1>4, <2>1, <2>2 DEF TypeOK, chatVars
        <2>4. manifest'[u].status = s
            BY <1>3, <2>1
        <2> QED
            BY <1>1, <1>3, <2>1, <2>2, <2>3, <2>4 DEF Status, Received, HolderFrame, chatVars, u
    <1>5. CASE WriteRaises(u, m) /\ Raise(op.req)
        <2> HIDE DEF m, u
        <2>1. /\ manifest' \in [Upload -> Manifest]
              /\ manifest'[u] = m \/ manifest'[u] = manifest[u]
              /\ \A v \in Upload : v # u => manifest'[v] = manifest[v]
              /\ faults' \in Nat
            BY <1>2, <1>3, <1>5, WriteRaisesEffect
        <2>2. op' = None /\ answer' \in [Request -> Answer]
            BY <1>2, <1>5, RaiseEffect
        <2>3. TypeOK'
            BY <1>1, <1>2, <2>1, <2>2 DEF TypeOK, chatVars
        <2> QED
            BY <1>1, <1>3, <2>1, <2>2, <2>3 DEF Status, Received, HolderFrame, chatVars, u
    <1> QED
        BY <1>4, <1>5 DEF StatusWrite

\* The manifest says "publishing" before the file takes its name.
LEMMA AnnounceStep ==
    ASSUME StoreInv, Announce
    PROVE  StoreInv'
    <1>1. op # None /\ op.step = "announce" /\ StatusWrite("publishing", "publish")
        BY DEF Announce, StatusWrite
    <1>2. /\ op.upload \in Upload /\ op.kind = "complete" /\ (op.upload \in attachments => op.upload \in unsure)
          /\ Status(op.upload) \in Open /\ Received(op.upload) = Index
          /\ op.upload \notin file
        BY <1>1 DEF StoreInv, OpOK
    <1>3. /\ TypeOK'
          /\ \A v \in Upload : /\ Received(v)' = Received(v)
                               /\ v # op.upload => Status(v)' = Status(v)
                               /\ Status(v)' \in {Status(v), "publishing"}
          /\ \/ op' = None
             \/ /\ op' # None /\ op'.req = op.req /\ op'.kind = op.kind
                /\ op'.upload = op.upload /\ op'.step = "publish"
                /\ Status(op.upload)' = "publishing"
          /\ HolderFrame
          /\ UNCHANGED <<chunks, parts, file, attachments, added, late, unsure>>
        BY <1>1, <1>2, StatusWriteEffect DEF Open, Steps
    <1>4. \A v \in Upload : SessionOK(v)'
        BY <1>2, <1>3 DEF StoreInv, SessionOK, HolderFrame, Open
    <1>5. \A w \in writers : WriterOK(w)'
        BY <1>2, <1>3 DEF StoreInv, WriterOK, TypeOK, Writer, Open, HolderFrame
    <1>6. OpOK'
        <2> SUFFICES ASSUME op' # None PROVE OpOK'
            BY DEF OpOK
        <2> QED
            BY <1>2, <1>3 DEF OpOK, Open
    <1> QED
        BY <1>1, <1>3, <1>4, <1>5, <1>6, HolderStep DEF StoreInv, HolderFrame

\* The manifest says "completed" once the attachment is saved.
LEMMA SettleStep ==
    ASSUME StoreInv, Settle
    PROVE  StoreInv'
    <1>1. op # None /\ op.step = "settle" /\ StatusWrite("completed", "clear")
        BY DEF Settle, StatusWrite
    <1>2. /\ op.upload \in Upload /\ op.kind \in {"complete", "cancel"}
          /\ op.upload \in attachments
        BY <1>1 DEF StoreInv, OpOK
    <1>3. /\ TypeOK'
          /\ \A v \in Upload : /\ Received(v)' = Received(v)
                               /\ v # op.upload => Status(v)' = Status(v)
                               /\ Status(v)' \in {Status(v), "completed"}
          /\ \/ op' = None
             \/ /\ op' # None /\ op'.req = op.req /\ op'.kind = op.kind
                /\ op'.upload = op.upload /\ op'.step = "clear"
                /\ Status(op.upload)' = "completed"
          /\ HolderFrame
          /\ UNCHANGED <<chunks, parts, file, attachments, added, late, unsure>>
        BY <1>1, <1>2, StatusWriteEffect DEF Closed, Steps
    <1>4. \A v \in Upload : SessionOK(v)'
        BY <1>2, <1>3 DEF StoreInv, SessionOK, HolderFrame, Open
    <1>5. \A w \in writers : WriterOK(w)'
        BY <1>2, <1>3 DEF StoreInv, WriterOK, TypeOK, Writer, Open, HolderFrame
    <1>6. OpOK'
        <2> SUFFICES ASSUME op' # None PROVE OpOK'
            BY DEF OpOK
        <2> QED
            BY <1>2, <1>3 DEF OpOK, Exists, Closed
    <1> QED
        BY <1>1, <1>3, <1>4, <1>5, <1>6, HolderStep DEF StoreInv, HolderFrame

\* The manifest says "cancelled" before anything is removed.
LEMMA TombstoneStep ==
    ASSUME StoreInv, Tombstone
    PROVE  StoreInv'
    <1>1. op # None /\ op.step = "tombstone" /\ StatusWrite("cancelled", "undo")
        BY DEF Tombstone, StatusWrite
    <1>2. /\ op.upload \in Upload /\ op.kind = "cancel" /\ Status(op.upload) \in Open
          /\ op.upload \in attachments => deleting \/ op.upload \in unsure
        BY <1>1 DEF StoreInv, OpOK
    <1>3. /\ TypeOK'
          /\ \A v \in Upload : /\ Received(v)' = Received(v)
                               /\ v # op.upload => Status(v)' = Status(v)
                               /\ Status(v)' \in {Status(v), "cancelled"}
          /\ \/ op' = None
             \/ /\ op' # None /\ op'.req = op.req /\ op'.kind = op.kind
                /\ op'.upload = op.upload /\ op'.step = "undo"
                /\ Status(op.upload)' = "cancelled"
          /\ HolderFrame
          /\ UNCHANGED <<chunks, parts, file, attachments, added, late, unsure>>
        BY <1>1, <1>2, StatusWriteEffect DEF Closed, Steps
    <1>4. \A v \in Upload : SessionOK(v)'
        BY <1>2, <1>3 DEF StoreInv, SessionOK, HolderFrame, Open
    <1>5. \A w \in writers : WriterOK(w)'
        BY <1>2, <1>3 DEF StoreInv, WriterOK, TypeOK, Writer, Open, HolderFrame
    <1>6. OpOK'
        <2> SUFFICES ASSUME op' # None PROVE OpOK'
            BY DEF OpOK
        <2> QED
            BY <1>2, <1>3 DEF OpOK, Closed
    <1> QED
        BY <1>1, <1>3, <1>4, <1>5, <1>6, HolderStep DEF StoreInv, HolderFrame

\* The assembled file takes its name, or the announcement is taken back.
LEMMA PublishStep ==
    ASSUME StoreInv, Publish
    PROVE  StoreInv'
    <1> DEFINE u == op.upload
               m == [manifest[u] EXCEPT !.status = "active"]
    <1>1. /\ op # None /\ op.step = "publish"
          /\ UNCHANGED <<chunks, parts, chatVars, inbox, writers>>
        BY DEF Publish
    <1>2. /\ TypeOK /\ op \in Op /\ u \in Upload /\ op.req \in Request
          /\ manifest[u] \in Manifest /\ SessionOK(u)
        BY <1>1, HolderFacts
    <1>3. /\ op.kind = "complete" /\ (u \in attachments => u \in unsure)
          /\ Status(u) = "publishing" /\ Received(u) = Index /\ u \notin file
        BY <1>1 DEF StoreInv, OpOK
    <1>4. m \in Manifest /\ m.status = "active" /\ m.received = Received(u)
        BY <1>2, NewManifest DEF Received, Open
    <1>5. /\ manifest' \in [Upload -> Manifest] /\ answer' \in [Request -> Answer]
          /\ faults' \in Nat /\ file' \in SUBSET Upload
          /\ \A v \in Upload : v # u => /\ manifest'[v] = manifest[v]
                                        /\ v \in file' <=> v \in file
          /\ \/ manifest'[u] = manifest[u]
             \/ manifest'[u] = m /\ u \notin file'
          /\ \/ op' = None
             \/ /\ op' \in Op /\ op' # None /\ op'.req = op.req /\ op'.kind = op.kind
                /\ op'.upload = u /\ op'.step = "save" /\ u \in file'
                /\ manifest'[u] = manifest[u]
        <2>1. CASE file' = file \cup {u} /\ Goto("save") /\ UNCHANGED <<manifest, answer, faults>>
            BY <1>2, <2>1, GotoEffect DEF TypeOK, Steps
        <2>2. CASE /\ Fault /\ Raise(op.req)
                   /\ file' \in {file, file \cup {u}} /\ UNCHANGED manifest
            BY <1>2, <2>2, RaiseEffect DEF TypeOK, Fault
        <2>3. CASE Fault /\ Raise(op.req) /\ file' = file /\ Write(u, m)
            <3>1. /\ manifest' \in [Upload -> Manifest] /\ manifest'[u] = m
                  /\ \A v \in Upload : v # u => manifest'[v] = manifest[v]
                BY <1>2, <1>4, <2>3, WriteEffect
            <3> QED
                BY <1>2, <1>3, <2>3, <3>1, RaiseEffect DEF TypeOK, Fault
        <2> QED
            BY <2>1, <2>2, <2>3 DEF Publish
    <1> HIDE DEF u, m
    <1>6. TypeOK'
        BY <1>1, <1>2, <1>5 DEF TypeOK, chatVars
    <1>7. ASSUME NEW v \in Upload PROVE SessionOK(v)'
        <2>0. SessionOK(v)
            BY DEF StoreInv
        <2>1. CASE v # u
            BY <1>1, <1>5, <2>0, <2>1, SessionFrame DEF chatVars
        <2>2. CASE v = u
            <3>1. Received(v)' = Received(v) /\ (Status(v)' = Status(v) \/ (Status(v)' = "active" /\ v \notin file'))
                BY <1>4, <1>5, <2>2 DEF Status, Received
            <3> QED
                BY <1>1, <1>3, <2>0, <2>2, <3>1 DEF SessionOK, chatVars, Open
        <2> QED
            BY <2>1, <2>2
    <1>8. ASSUME NEW w \in writers PROVE WriterOK(w)'
        <2>1. WriterOK(w) /\ w.upload \in Upload
            BY <1>2 DEF StoreInv, TypeOK, Writer
        <2>2. Status(w.upload)' # Status(w.upload) => Status(w.upload) \in Open /\ Status(w.upload)' = "active"
            BY <1>3, <1>4, <1>5, <2>1 DEF Status, Open
        <2> QED
            BY <1>1, <2>1, <2>2 DEF WriterOK, Open, chatVars
    <1>9. OpOK'
        <2> SUFFICES ASSUME op' # None PROVE OpOK'
            BY DEF OpOK
        <2> QED
            BY <1>1, <1>3, <1>5 DEF OpOK, Status, Received, Open, chatVars
    <1>10. late' \subseteq unsure' /\ UNCHANGED <<live, deleting>>
        BY <1>1 DEF StoreInv, chatVars
    <1> QED
        BY <1>1, <1>5, <1>6, <1>7, <1>8, <1>9, <1>10, HolderStep

\* The document and the event are committed together, or stay pending.
LEMMA SaveStep ==
    ASSUME StoreInv, Save
    PROVE  StoreInv'
    <1> DEFINE u == op.upload
               Commit == /\ attachments' = attachments \cup {u}
                         /\ added' = [Journalled(late) EXCEPT ![u] = @ + 1]
                         /\ late' = {} /\ UNCHANGED unsure
    <1>1. /\ op # None /\ op.step = "save"
          /\ UNCHANGED <<manifest, chunks, parts, file, live, deleting, inbox, writers>>
        BY DEF Save, diskVars
    <1>2. TypeOK /\ op \in Op /\ u \in Upload /\ op.req \in Request
        BY <1>1, HolderFacts
    <1>3. /\ op.kind = "complete" /\ (u \in attachments => u \in unsure)
          /\ Status(u) = "publishing" /\ u \in file
        BY <1>1 DEF StoreInv, OpOK
    <1>4. /\ Journalled(late) \in [Upload -> Nat]
          /\ \A v \in Upload \ late : Journalled(late)[v] = added[v]
        BY <1>2 DEF Journalled, TypeOK
    <1>5. ASSUME Commit, u \notin attachments
          PROVE  /\ attachments' \in SUBSET Upload /\ added' \in [Upload -> Nat]
                 /\ u \in attachments' /\ late' = {} /\ unsure' = unsure
                 /\ attachments \subseteq attachments'
                 /\ added'[u] = Journalled(late)[u] + 1
                 /\ \A v \in Upload \ late : v # u =>
                       /\ added'[v] = added[v]
                       /\ v \in attachments' <=> v \in attachments
        BY <1>2, <1>4, <1>5 DEF TypeOK
    <1>6. CASE Commit /\ u \notin attachments
        <2> HIDE DEF u, Commit
        <2>1. /\ answer' \in [Request -> Answer] /\ faults' \in Nat
              /\ \/ op' = None
                 \/ /\ op' \in Op /\ op' # None /\ op'.req = op.req /\ op'.kind = op.kind
                    /\ op'.upload = u /\ op'.step = "settle"
            <3>1. CASE Goto("settle") /\ UNCHANGED <<answer, faults>>
                BY <1>2, <3>1, GotoEffect DEF TypeOK, Steps, u
            <3>2. CASE Fault /\ Raise(op.req)
                BY <1>2, <3>2, RaiseEffect DEF TypeOK, Fault
            <3> QED
                BY <3>1, <3>2 DEF Save
        <2>2. TypeOK'
            BY <1>1, <1>2, <1>5, <1>6, <2>1 DEF TypeOK
        <2>3. ASSUME NEW v \in Upload PROVE SessionOK(v)'
            <3>0. SessionOK(v) /\ late \subseteq unsure
                BY DEF StoreInv
            <3>1. CASE v = u
                BY <1>1, <1>3, <1>4, <1>5, <1>6, <3>0, <3>1 DEF SessionOK, Status, Received
            <3>2. CASE v # u
                BY <1>1, <1>5, <1>6, <3>0, <3>2, <1>2 DEF SessionOK, Status, Received, TypeOK
            <3> QED
                BY <3>1, <3>2
        <2>4. \A w \in writers : WriterOK(w)'
            BY <1>1 DEF StoreInv, WriterOK, Status
        <2>5. OpOK'
            <3> SUFFICES ASSUME op' # None PROVE OpOK'
                BY DEF OpOK
            <3> QED
                BY <1>1, <1>2, <1>3, <1>5, <1>6, <2>1 DEF OpOK, Status, Exists, Open
        <2> QED
            BY <1>1, <1>5, <1>6, <2>1, <2>2, <2>3, <2>4, <2>5, HolderStep
    <1>7. CASE Goto("settle") /\ u \in attachments
               /\ UNCHANGED <<attachments, added, late, unsure, answer, faults>>
        <2>1. /\ op' \in Op /\ op' # None /\ op'.req = op.req /\ op'.kind = op.kind
              /\ op'.upload = u /\ op'.step = "settle"
            BY <1>2, <1>7, GotoEffect DEF Steps
        <2> HIDE DEF u
        <2>2. TypeOK'
            BY <1>1, <1>2, <1>7, <2>1 DEF TypeOK
        <2>3. \A v \in Upload : SessionOK(v)'
            BY <1>1, <1>7 DEF StoreInv, SessionOK, Status, Received
        <2>4. \A w \in writers : WriterOK(w)'
            BY <1>1 DEF StoreInv, WriterOK, Status
        <2>5. OpOK'
            BY <1>1, <1>2, <1>3, <1>7, <2>1 DEF OpOK, Status, Exists, Open
        <2> QED
            BY <1>1, <1>7, <2>1, <2>2, <2>3, <2>4, <2>5, HolderStep DEF StoreInv
    <1>8. CASE /\ Fault /\ Raise(op.req)
               /\ \/ UNCHANGED <<attachments, added, late, unsure>>
                  \/ Reconciled /\ UNCHANGED unsure
                  \/ /\ attachments' \in {attachments \cup late, attachments \cup {u}}
                     /\ added' = Journalled(late)
                     /\ late' = {u} /\ unsure' = unsure \cup {u}
        <2>1. op' = None /\ answer' \in [Request -> Answer] /\ faults' \in Nat
            BY <1>2, <1>8, RaiseEffect DEF TypeOK, Fault
        <2>2. /\ late' \in SUBSET Upload /\ unsure' \in SUBSET Upload /\ unsure \subseteq unsure'
              /\ attachments' \in SUBSET Upload /\ added' \in [Upload -> Nat]
              /\ attachments \subseteq attachments' /\ late' \subseteq unsure'
              /\ \A v \in Upload \ unsure' : /\ v \in attachments' <=> v \in attachments
                                             /\ added'[v] = added[v]
            <3>0. late \subseteq unsure
                BY DEF StoreInv
            <3>1. CASE UNCHANGED <<attachments, added, late, unsure>>
                BY <1>2, <3>0, <3>1 DEF TypeOK
            <3>2. CASE Reconciled /\ UNCHANGED unsure
                BY <1>2, <1>4, <3>0, <3>2 DEF TypeOK, Reconciled
            <3>3. CASE /\ attachments' \in {attachments \cup late, attachments \cup {u}}
                       /\ added' = Journalled(late)
                       /\ late' = {u} /\ unsure' = unsure \cup {u}
                <4> HIDE DEF u
                <4> QED
                    BY <1>2, <1>4, <3>0, <3>3 DEF TypeOK
            <3> QED
                BY <1>8, <3>1, <3>2, <3>3
        <2>3. TypeOK'
            BY <1>1, <1>2, <2>1, <2>2 DEF TypeOK
        <2>4. \A v \in Upload : SessionOK(v)'
            BY <1>1, <2>2 DEF StoreInv, SessionOK, Status, Received
        <2>5. \A w \in writers : WriterOK(w)'
            BY <1>1 DEF StoreInv, WriterOK, Status
        <2>6. OpOK'
            BY <2>1 DEF OpOK
        <2> QED
            BY <1>1, <2>1, <2>2, <2>3, <2>4, <2>5, <2>6, HolderStep
    <1> QED
        BY <1>6, <1>7, <1>8 DEF Save

\* One file of a closed session's directory goes, or of a deleted chat's.
LEMMA UnlinkPayloadStep ==
    ASSUME StoreInv, UnlinkPayload
    PROVE  StoreInv'
    <1> DEFINE u == op.upload
    <1>1. /\ op # None /\ op.step \in {"clear", "forget", "manifest"}
          /\ UNCHANGED <<manifest, file, chatVars, inbox, writers, op, answer, faults>>
        BY DEF UnlinkPayload
    <1>2. TypeOK /\ u \in Upload /\ (deleting \/ Status(u) \in Closed)
        BY <1>1, HolderFacts DEF StoreInv, OpOK, Closed
    <1>3. /\ chunks' \in [Upload -> SUBSET Index] /\ parts' \in SUBSET Request
          /\ \A v \in Upload : v # u => chunks'[v] = chunks[v]
          /\ \A w \in writers : w.upload # u /\ w.req \in parts => w.req \in parts'
        <2>1. CASE UNCHANGED parts /\ \E i \in chunks[u] : chunks' = [chunks EXCEPT ![u] = @ \ {i}]
            BY <1>2, <2>1 DEF TypeOK
        <2>2. CASE UNCHANGED chunks /\ \E r \in parts \cap PartsOf(u) : parts' = parts \ {r}
            BY <1>2, <2>2 DEF TypeOK, PartsOf, StoreInv, OnePlace
        <2> QED
            BY <2>1, <2>2 DEF UnlinkPayload
    <1> HIDE DEF u
    <1>4. TypeOK'
        BY <1>1, <1>2, <1>3 DEF TypeOK, chatVars
    <1>5. \A v \in Upload : SessionOK(v)'
        BY <1>1, <1>2, <1>3 DEF StoreInv, SessionOK, Status, Received, chatVars, Open, Closed
    <1>6. \A w \in writers : WriterOK(w)'
        BY <1>1, <1>2, <1>3 DEF StoreInv, WriterOK, Status, Open, Closed, chatVars
    <1>7. OpOK'
        BY <1>1 DEF StoreInv, OpOK, Status, Received, Exists, chatVars
    <1>8. late' \subseteq unsure' /\ UNCHANGED <<live, deleting>>
        BY <1>1 DEF StoreInv, chatVars
    <1> QED
        BY <1>1, <1>4, <1>5, <1>6, <1>7, <1>8, HolderStep

\* A completion, or a cancellation that found the attachment, ends.
LEMMA ClearStep ==
    ASSUME StoreInv, Clear
    PROVE  StoreInv'
    <1> DEFINE u == op.upload
    <1>1. op # None /\ op.step = "clear" /\ UNCHANGED <<diskVars, chatVars, inbox, writers>>
        BY DEF Clear
    <1>2. TypeOK /\ u \in Upload /\ op.req \in Request /\ manifest[u] \in Manifest
        BY <1>1, HolderFacts
    <1>3. op' = None /\ answer' \in [Request -> Answer] /\ faults' \in Nat
        <2>1. CASE Reply(op.req, "ok", u, manifest[u]) /\ Done /\ UNCHANGED faults
            <3>1. answer' \in [Request -> Answer]
                BY <1>2, <2>1, ReplyEffect DEF Codes
            <3> QED
                BY <1>2, <2>1, <3>1 DEF Done, TypeOK
        <2>2. CASE Fault /\ Raise(op.req)
            BY <1>2, <2>2, RaiseEffect DEF TypeOK, Fault
        <2> QED
            BY <2>1, <2>2 DEF Clear
    <1> QED
        BY <1>1, <1>3, LeaveStep

\* The published file of a cancelled upload goes.
LEMMA UndoStep ==
    ASSUME StoreInv, Undo
    PROVE  StoreInv'
    <1> DEFINE u == op.upload
    <1>1. /\ op # None /\ op.step = "undo"
          /\ UNCHANGED <<manifest, chunks, parts, chatVars, inbox, writers>>
        BY DEF Undo
    <1>2. TypeOK /\ op \in Op /\ u \in Upload /\ op.req \in Request
        BY <1>1, HolderFacts
    <1>3. Status(u) \in Closed /\ op.kind = "cancel"
        BY <1>1 DEF StoreInv, OpOK
    <1>4. /\ answer' \in [Request -> Answer] /\ faults' \in Nat
          /\ file' = file \/ (file' = file \ {u} /\ Status(u) = "cancelled")
          /\ \/ op' = None
             \/ /\ op' \in Op /\ op' # None /\ op'.req = op.req /\ op'.kind = op.kind
                /\ op'.upload = u /\ op'.step = "forget"
        <2>1. CASE /\ file' = IF Status(u) = "cancelled" THEN file \ {u} ELSE file
                   /\ Goto("forget") /\ UNCHANGED <<answer, faults>>
            BY <1>2, <2>1, GotoEffect DEF TypeOK, Steps
        <2>2. CASE Fault /\ Raise(op.req) /\ UNCHANGED file
            BY <1>2, <2>2, RaiseEffect DEF TypeOK, Fault
        <2> QED
            BY <2>1, <2>2 DEF Undo
    <1> HIDE DEF u
    <1>5. TypeOK'
        BY <1>1, <1>2, <1>4 DEF TypeOK, chatVars
    <1>6. \A v \in Upload : SessionOK(v)'
        BY <1>1, <1>3, <1>4 DEF StoreInv, SessionOK, Status, Received, chatVars, Open, Closed
    <1>7. \A w \in writers : WriterOK(w)'
        BY <1>1 DEF StoreInv, WriterOK, Status, chatVars
    <1>8. OpOK'
        <2> SUFFICES ASSUME op' # None PROVE OpOK'
            BY DEF OpOK
        <2> QED
            BY <1>1, <1>2, <1>3, <1>4 DEF OpOK, Status
    <1>9. late' \subseteq unsure' /\ UNCHANGED <<live, deleting>>
        BY <1>1 DEF StoreInv, chatVars
    <1> QED
        BY <1>1, <1>4, <1>5, <1>6, <1>7, <1>8, <1>9, HolderStep

\* The manifest of a closed session drops its indices.
LEMMA ForgetStep ==
    ASSUME StoreInv, Forget
    PROVE  StoreInv'
    <1> DEFINE u == op.upload
               m == [manifest[u] EXCEPT !.received = {}]
    <1>1. /\ op # None /\ op.step = "forget"
          /\ UNCHANGED <<chunks, parts, file, chatVars, inbox, writers>>
        BY DEF Forget
    <1>2. TypeOK /\ u \in Upload /\ op.req \in Request /\ manifest[u] \in Manifest
        BY <1>1, HolderFacts
    <1>3. Status(u) \in Closed
        BY <1>1 DEF StoreInv, OpOK
    <1>4. m \in Manifest /\ m.status = Status(u)
        BY <1>2, NewManifest DEF Status
    <1>5. /\ op' = None /\ manifest' \in [Upload -> Manifest]
          /\ answer' \in [Request -> Answer] /\ faults' \in Nat
          /\ \A v \in Upload : v # u => manifest'[v] = manifest[v]
          /\ manifest'[u].status = Status(u)
        <2>1. CASE Write(u, m) /\ Reply(op.req, "ok", u, m) /\ Done /\ UNCHANGED faults
            <3> HIDE DEF m
            <3>1. answer' \in [Request -> Answer]
                BY <1>2, <1>4, <2>1, ReplyEffect DEF Codes
            <3> QED
                BY <1>2, <1>4, <2>1, <3>1, WriteEffect DEF Done, TypeOK
        <2>2. CASE WriteRaises(u, m) /\ Raise(op.req)
            <3> HIDE DEF m
            <3>1. op' = None /\ answer' \in [Request -> Answer]
                BY <1>2, <2>2, RaiseEffect
            <3> QED
                BY <1>2, <1>4, <2>2, <3>1, WriteRaisesEffect DEF Status
        <2> QED
            BY <2>1, <2>2 DEF Forget
    <1> HIDE DEF u, m
    <1>6. TypeOK'
        BY <1>1, <1>2, <1>5 DEF TypeOK, chatVars
    <1>7. ASSUME NEW v \in Upload PROVE SessionOK(v)'
        <2>1. SessionOK(v) /\ Status(v)' = Status(v)
            BY <1>5 DEF StoreInv, Status
        <2> QED
            BY <1>1, <1>3, <1>5, <2>1 DEF SessionOK, Received, chatVars, Open, Closed
    <1>8. \A w \in writers : WriterOK(w)'
        BY <1>1, <1>5, <1>2 DEF StoreInv, WriterOK, Status, TypeOK, Writer, chatVars
    <1>9. OpOK'
        BY <1>5 DEF OpOK
    <1>10. late' \subseteq unsure' /\ UNCHANGED <<live, deleting>>
        BY <1>1 DEF StoreInv, chatVars
    <1> QED
        BY <1>1, <1>5, <1>6, <1>7, <1>8, <1>9, <1>10, HolderStep

\* delete_thread turns to one session and removes what that one published.
LEMMA DeleteSessionStep ==
    ASSUME StoreInv, NEW u \in Upload, DeleteSession(u)
    PROVE  StoreInv'
    <1>1. /\ op # None /\ op.step = "sessions" /\ Exists(u)
          /\ file' = file \/ file' = file \ {u}
          /\ op' = [op EXCEPT !.upload = u, !.step = "manifest"]
          /\ UNCHANGED <<manifest, chunks, parts, chatVars, inbox, writers, answer, faults>>
        BY DEF DeleteSession
    <1>2. TypeOK /\ op \in Op /\ deleting /\ op.kind = "delete"
        BY <1>1, HolderFacts DEF StoreInv, OpOK
    <1>3. /\ op' \in Op /\ op' # None /\ op'.req = op.req /\ op'.kind = "delete"
          /\ op'.upload = u /\ op'.step = "manifest"
        BY <1>1, <1>2, NoneAssumption DEF Op, Steps
    <1>4. TypeOK'
        BY <1>1, <1>2, <1>3 DEF TypeOK, chatVars
    <1>5. \A v \in Upload : SessionOK(v)'
        BY <1>1, <1>2 DEF StoreInv, SessionOK, Status, Received, chatVars
    <1>6. \A w \in writers : WriterOK(w)'
        BY <1>1 DEF StoreInv, WriterOK, Status, chatVars
    <1>7. OpOK'
        BY <1>1, <1>2, <1>3 DEF OpOK, Exists, Status, chatVars
    <1>8. late' \subseteq unsure' /\ UNCHANGED <<live, deleting>>
        BY <1>1 DEF StoreInv, chatVars
    <1> QED
        BY <1>1, <1>3, <1>4, <1>5, <1>6, <1>7, <1>8, HolderStep

\* delete_thread removes the manifest of the session it emptied.
LEMMA DeleteManifestStep ==
    ASSUME StoreInv, DeleteManifest
    PROVE  StoreInv'
    <1>1. /\ op # None /\ op.step = "manifest" /\ Write(op.upload, Gone)
          /\ op' = [op EXCEPT !.upload = None, !.step = "sessions"]
          /\ UNCHANGED <<chunks, parts, file, chatVars, inbox, writers, answer, faults>>
        BY DEF DeleteManifest
    <1>2. /\ TypeOK /\ op \in Op /\ deleting /\ op.kind = "delete" /\ op.upload \in Upload
          /\ Gone \in Manifest /\ Gone.status = "gone"
        BY <1>1, HolderFacts DEF StoreInv, OpOK, Gone, Manifest
    <1>3. /\ op' \in Op /\ op' # None /\ op'.req = op.req /\ op'.kind = "delete"
          /\ op'.step = "sessions"
        BY <1>1, <1>2, NoneAssumption DEF Op, Steps
    <1>4. /\ manifest' \in [Upload -> Manifest] /\ manifest'[op.upload] = Gone
          /\ \A v \in Upload : v # op.upload => manifest'[v] = manifest[v]
        BY <1>1, <1>2, WriteEffect
    <1>5. TypeOK'
        BY <1>1, <1>2, <1>3, <1>4 DEF TypeOK, chatVars
    <1>6. \A v \in Upload : SessionOK(v)'
        BY <1>1, <1>2, <1>4 DEF StoreInv, SessionOK, Status, Received, chatVars, Open
    <1>7. \A w \in writers : WriterOK(w)'
        BY <1>1, <1>2, <1>4 DEF StoreInv, WriterOK, Status, chatVars, TypeOK, Writer
    <1>8. OpOK'
        BY <1>1, <1>2, <1>3 DEF OpOK, chatVars
    <1>9. late' \subseteq unsure' /\ UNCHANGED <<live, deleting>>
        BY <1>1 DEF StoreInv, chatVars
    <1> QED
        BY <1>1, <1>3, <1>5, <1>6, <1>7, <1>8, <1>9, HolderStep

\* delete_thread removes the chat's events, its document and the rest of its
\* tree.
LEMMA DeleteChatStep ==
    ASSUME StoreInv, DeleteChat
    PROVE  StoreInv'
    <1>1. /\ op # None
          /\ UNCHANGED <<manifest, chunks, parts, attachments, late, unsure, deleting,
                         inbox, writers, faults>>
        BY DEF DeleteChat
    <1>2. TypeOK /\ OnePlace /\ op \in Op /\ op.req \in Request
        BY <1>1, HolderFacts DEF StoreInv
    <1>3. op.step \in {"sessions", "purge", "chat", "tree"} /\ deleting /\ op.kind = "delete"
        BY <1>1 DEF DeleteChat, StoreInv, OpOK
    <1>4. /\ op' = None \/ (op' \in Op /\ op' # None /\ op'.req = op.req /\ op'.kind = "delete"
                            /\ op'.step \in {"sessions", "purge", "chat", "tree"})
          /\ answer' \in [Request -> Answer]
        <2>1. ASSUME NEW s \in {"purge", "chat", "tree"}, Goto(s), UNCHANGED answer
              PROVE  /\ op' \in Op /\ op' # None /\ op'.req = op.req /\ op'.kind = "delete"
                     /\ op'.step \in {"sessions", "purge", "chat", "tree"}
                     /\ answer' \in [Request -> Answer]
            BY <1>2, <1>3, <2>1, GotoEffect DEF Steps, TypeOK
        <2>2. CASE UNCHANGED <<op, answer>>
            BY <1>1, <1>2, <1>3, <2>2 DEF TypeOK
        <2>3. CASE Reply(op.req, "ok", None, NoManifest) /\ Done
            <3>1. NoManifest \in Manifest
                BY DEF NoManifest, Manifest
            <3> QED
                BY <1>2, <2>3, <3>1, ReplyEffect DEF Codes, Done
        <2> QED
            BY <2>1, <2>2, <2>3 DEF DeleteChat
    <1>5. /\ file' \subseteq file
          /\ UNCHANGED live \/ live' = FALSE
          /\ UNCHANGED added \/ added' = [u \in Upload |-> 0]
        BY DEF DeleteChat
    <1>6. TypeOK'
        <2>0. live' \in BOOLEAN
            BY <1>2, <1>5 DEF TypeOK
        <2>1. added' \in [Upload -> Nat]
            <3>1. CASE UNCHANGED added
                BY <1>2, <3>1 DEF TypeOK
            <3>2. CASE added' = [u \in Upload |-> 0]
                BY <3>2
            <3> QED
                BY <1>5, <3>1, <3>2
        <2>2. file' \in SUBSET Upload
            BY <1>2, <1>5 DEF TypeOK
        <2> QED
            BY <1>1, <1>2, <1>4, <2>0, <2>1, <2>2 DEF TypeOK
    <1>7. OnePlace'
        BY <1>1, <1>2, <1>4, OnePlaceFrame
    <1>8. \A v \in Upload : SessionOK(v)'
        BY <1>1, <1>3, <1>5 DEF StoreInv, SessionOK, Status, Received
    <1>9. \A w \in writers' : WriterOK(w)'
        BY <1>1 DEF StoreInv, WriterOK, Status
    <1>10. OpOK'
        BY <1>1, <1>3, <1>4 DEF OpOK
    <1>11. late' \subseteq unsure' /\ deleting'
        BY <1>1, <1>3 DEF StoreInv
    <1> QED
        BY <1>6, <1>7, <1>8, <1>9, <1>10, <1>11 DEF StoreInv

\* A step of the deletion raises.
LEMMA DeleteRaisesStep ==
    ASSUME StoreInv, DeleteRaises
    PROVE  StoreInv'
    <1>1. /\ op # None /\ Fault /\ Raise(op.req)
          /\ UNCHANGED <<diskVars, chatVars, inbox, writers>>
        BY DEF DeleteRaises
    <1>2. TypeOK /\ op.req \in Request
        BY <1>1, HolderFacts
    <1>3. op' = None /\ answer' \in [Request -> Answer] /\ faults' \in Nat
        BY <1>1, <1>2, RaiseEffect DEF TypeOK, Fault
    <1> QED
        BY <1>1, <1>3, LeaveStep

-----------------------------------------------------------------------------
(* StoreInv: pending saves, a crash, a new request.                        *)

\* What the outbox applies late belongs to uploads in `unsure'.
LEMMA LateEffect ==
    ASSUME StoreInv, attachments' \in {attachments, attachments \cup late},
           added' = Journalled(late), UNCHANGED <<manifest, chunks, file, unsure, deleting>>
    PROVE  /\ attachments' \in SUBSET Upload /\ added' \in [Upload -> Nat]
           /\ \A u \in Upload : SessionOK(u)'
    <1>1. attachments' \in SUBSET Upload /\ added' \in [Upload -> Nat]
        BY DEF StoreInv, TypeOK, Journalled
    <1>2. ASSUME NEW u \in Upload PROVE SessionOK(u)'
        <2>1. SessionOK(u) /\ late \subseteq unsure
            BY DEF StoreInv
        <2>2. u \notin late => added'[u] = added[u] /\ (u \in attachments' <=> u \in attachments)
            BY DEF StoreInv, TypeOK, Journalled
        <2> QED
            BY <2>1, <2>2 DEF SessionOK, Status, Received
    <1> QED
        BY <1>1, <1>2

\* Another commit finishes the pending one.
LEMMA ApplyLateStep ==
    ASSUME StoreInv, ApplyLate
    PROVE  StoreInv'
    <1>1. /\ attachments' \in {attachments, attachments \cup late} /\ added' = Journalled(late)
          /\ late' = {} /\ live' \in {live, TRUE}
          /\ UNCHANGED <<manifest, chunks, parts, file, unsure, deleting, inbox, writers,
                         op, answer, faults>>
        BY DEF ApplyLate, Reconciled, diskVars
    <1>2. /\ attachments' \in SUBSET Upload /\ added' \in [Upload -> Nat]
          /\ \A u \in Upload : SessionOK(u)'
        BY <1>1, LateEffect
    <1>3. TypeOK'
        <2>1. live' \in BOOLEAN
            BY <1>1 DEF StoreInv, TypeOK
        <2> QED
            BY <1>1, <1>2, <2>1 DEF StoreInv, TypeOK
    <1>4. OnePlace'
        BY <1>1 DEF StoreInv, OnePlace
    <1>5. \A w \in writers' : WriterOK(w)'
        BY <1>1 DEF StoreInv, WriterOK, Status
    <1>6. OpOK'
        BY <1>1 DEF StoreInv, OpOK, Status, Received, Exists
    <1>7. ~live' => deleting'
        <2>1. (live' <=> live) \/ live'
            BY <1>1
        <2> QED
            BY <1>1, <2>1 DEF StoreInv
    <1> QED
        BY <1>1, <1>2, <1>3, <1>4, <1>5, <1>6, <1>7 DEF StoreInv

\* The process dies: nothing but the disk is left.
LEMMA CrashStep ==
    ASSUME StoreInv, Crash
    PROVE  StoreInv'
    <1>1. /\ op' = None /\ writers' = {} /\ parts' = {} /\ inbox' = {}
          /\ attachments' = attachments \cup late /\ added' = Journalled(late) /\ late' = {}
          /\ live' = (live \/ late # {})
          /\ UNCHANGED <<manifest, chunks, file, unsure, deleting, answer>>
          /\ faults' = faults + 1
        BY DEF Crash, Fault, Reconciled
    <1>2. /\ attachments' \in SUBSET Upload /\ added' \in [Upload -> Nat]
          /\ \A u \in Upload : SessionOK(u)'
        BY <1>1, LateEffect
    <1>3. TypeOK'
        BY <1>1, <1>2 DEF StoreInv, TypeOK
    <1> QED
        BY <1>1, <1>2, <1>3 DEF StoreInv, OnePlace, OpOK

\* A request arrives.
LEMMA SendStep ==
    ASSUME StoreInv, NEW q \in Message, Send(q)
    PROVE  StoreInv'
    <1>1. /\ \A x \in inbox : x.req # q.req
          /\ \A w \in writers : w.req # q.req
          /\ op # None => op.req # q.req
          /\ inbox' = inbox \cup {q}
          /\ UNCHANGED <<diskVars, chatVars, writers, op, faults>>
        BY DEF Send, Holder
    <1>2. answer' \in [Request -> Answer]
        <2>1. NoAnswer \in Answer
            BY DEF NoAnswer, Answer, Codes, NoManifest, Manifest
        <2> QED
            BY <2>1 DEF Send, StoreInv, TypeOK
    <1>3. TypeOK'
        BY <1>1, <1>2 DEF StoreInv, TypeOK, diskVars, chatVars
    <1>4. OnePlace'
        BY <1>1 DEF StoreInv, OnePlace
    <1>5. \A u \in Upload : SessionOK(u)'
        BY <1>1 DEF StoreInv, SessionOK, Status, Received, diskVars, chatVars
    <1>6. \A w \in writers' : WriterOK(w)'
        BY <1>1 DEF StoreInv, WriterOK, Status, diskVars, chatVars
    <1>7. OpOK'
        BY <1>1 DEF StoreInv, OpOK, Status, Received, Exists, diskVars, chatVars
    <1> QED
        BY <1>1, <1>3, <1>4, <1>5, <1>6, <1>7 DEF StoreInv, chatVars

-----------------------------------------------------------------------------
(* The store, whoever calls it.                                            *)

\* StoreInv holds of an empty store.
LEMMA StoreInvInit == StoreInit => StoreInv
    <1> SUFFICES ASSUME StoreInit PROVE StoreInv
        OBVIOUS
    <1> USE DEF StoreInit
    <1>1. NoManifest \in Manifest /\ NoManifest.status = "absent"
        BY DEF NoManifest, Manifest
    <1>2. NoAnswer \in Answer
        BY <1>1 DEF NoAnswer, Answer, Codes
    <1>3. TypeOK
        BY <1>1, <1>2 DEF TypeOK
    <1>4. \A u \in Upload : SessionOK(u)
        BY <1>1 DEF SessionOK, Status, Open
    <1> QED
        BY <1>3, <1>4 DEF StoreInv, OnePlace, OpOK

\* Every step of the store keeps StoreInv.
LEMMA StoreStepKeeps ==
    ASSUME StoreInv, StoreStep
    PROVE  StoreInv'
    <1>1. ASSUME NEW q \in inbox, Handle(q) PROVE StoreInv'
        BY <1>1, CreateStep, GetStep, BeginStep, CompleteStep, CancelStep, DeleteStep,
           RefuseRequestStep DEF Handle
    <1>2. ASSUME NEW w \in writers, FinishChunk(w) \/ FinishRefused(w) \/ AbortChunk(w)
          PROVE  StoreInv'
        BY <1>2, FinishChunkStep, FinishRefusedStep, AbortChunkStep
    <1>3. CASE Proceed
        BY <1>3, RecordChunkStep, AnnounceStep, PublishStep, SaveStep, SettleStep, ClearStep,
           UnlinkPayloadStep, TombstoneStep, UndoStep, ForgetStep, DeleteSessionStep,
           DeleteManifestStep, DeleteChatStep, DeleteRaisesStep DEF Proceed
    <1> QED
        BY <1>1, <1>2, <1>3, ApplyLateStep DEF StoreStep

\* StoreInv implies the promise of the store.
LEMMA StoreInvBacks == StoreInv => UploadBacked
    BY DEF StoreInv, SessionOK, WriterOK, UploadBacked, Open

\* An open session has a prefix of the chunks; until delete_thread begins it
\* also has the files of them, an attachment whose save was never pending has
\* its file, a completed session its attachment and an open writer its part:
\* for any number of uploads, chunks, requests and faults, and whatever
\* sequence of requests arrives (storage.py against every caller, not only
\* uploads.js).
THEOREM StoreBacked == StoreSpec => []UploadBacked
    <1>1. StoreInv /\ [StoreNext]_storeVars => StoreInv'
        <2> SUFFICES ASSUME StoreInv, [StoreNext]_storeVars PROVE StoreInv'
            OBVIOUS
        <2>1. CASE UNCHANGED storeVars
            BY <2>1, AnswerOnly DEF storeVars, StoreInv, TypeOK
        <2> QED
            BY <2>1, StoreStepKeeps, CrashStep, SendStep DEF StoreNext
    <1> QED
        BY <1>1, StoreInvInit, StoreInvBacks, PTL DEF StoreSpec

-----------------------------------------------------------------------------
(* What a step of the store means for the requests under way.              *)

\* The step answers no request and leaves every one where its answer will
\* come from.
FlightKept ==
    /\ UNCHANGED answer
    /\ \A r \in Request, k \in RequestKinds, u \in Upload \cup {None}, i \in Index :
          InFlight(r, k, u, i)' <=> InFlight(r, k, u, i)

\* The step answers request r, which is then no longer under way.
FlightEnds(r, k, u, i) ==
    /\ InFlight(r, k, u, i)
    /\ answer'[r].code # "none"
    /\ \A s \in Request : s # r => answer'[s] = answer[s]
    /\ \A s \in Request, k2 \in RequestKinds, v \in Upload \cup {None}, j \in Index :
          InFlight(s, k2, v, j)' <=> InFlight(s, k2, v, j) /\ s # r

\* An "ok" carries the manifest as it is now; only a completion that found or
\* made the attachment is answered so.
Given(r, k, u) ==
    answer[r].code = "ok" /\ k # "delete" =>
        /\ answer[r].upload \in Upload
        /\ answer[r].view = manifest[answer[r].upload]
        /\ answer[r].view.status \in Open \cup Closed
        /\ k # "create" => answer[r].upload = u
        /\ k = "complete" => Status(u) = "completed"

\* A chunk or a look is told to try again only after a fault, or because the
\* session has the chunk, is past it, or never had the ones before it, or
\* because a deletion took the part away.
Excused(r, k, u, i) ==
    answer'[r].code = "retry" /\ k \in {"get", "put"} =>
        \/ faults' = faults + 1 \/ deleting
        \/ k = "put" /\ (Ahead(u, i) => Landed(u, i))

\* A step of the store as the clients see it.
Seen ==
    /\ faults' \in Nat /\ (faults' = faults \/ faults' = faults + 1)
    /\ deleting => deleting'
    /\ ~deleting' => attachments \subseteq attachments'
    /\ \/ FlightKept
       \/ \E r \in Request, k \in RequestKinds, u \in Upload \cup {None}, i \in Index :
             /\ FlightEnds(r, k, u, i) /\ Given(r, k, u)' /\ Excused(r, k, u, i)
             /\ k = "delete" => answer'[r].view = NoManifest \/ answer'[r].code # "ok"

\* A request answered as soon as it is taken.
LEMMA TakeEnds ==
    ASSUME StoreInv, NEW q \in inbox, op = None, inbox' = inbox \ {q},
           UNCHANGED <<writers, op>>, answer'[q.req].code # "none",
           \A s \in Request : s # q.req => answer'[s] = answer[s]
    PROVE  /\ q.req \in Request /\ q.kind \in RequestKinds
           /\ q.upload \in Upload \cup {None} /\ q.index \in Index
           /\ FlightEnds(q.req, q.kind, q.upload, q.index)
    BY DEF StoreInv, TypeOK, OnePlace, FlightEnds, InFlight, Message

\* A request that takes the lock.
LEMMA TakeHolds ==
    ASSUME StoreInv, NEW q \in inbox, op = None, inbox' = inbox \ {q},
           UNCHANGED <<writers, answer>>,
           op' # None, op'.req = q.req, op'.kind = q.kind, op'.upload = q.upload,
           op'.index = q.index
    PROVE  FlightKept
    BY DEF StoreInv, TypeOK, OnePlace, FlightKept, InFlight, Message

\* A request whose body is streamed.
LEMMA TakeStreams ==
    ASSUME StoreInv, NEW q \in inbox, op = None, inbox' = inbox \ {q}, q.kind = "put",
           UNCHANGED <<op, answer>>,
           NEW new, new.req = q.req, new.upload = q.upload, new.index = q.index,
           writers' = writers \cup {new}
    PROVE  FlightKept
    BY DEF StoreInv, TypeOK, OnePlace, FlightKept, InFlight, Message

\* A writer that ends with an answer.
LEMMA WriterEnds ==
    ASSUME StoreInv, NEW w \in writers, op = None, writers' = writers \ {w},
           UNCHANGED <<inbox, op>>, answer'[w.req].code # "none",
           \A s \in Request : s # w.req => answer'[s] = answer[s]
    PROVE  FlightEnds(w.req, "put", w.upload, w.index)
    BY DEF StoreInv, TypeOK, OnePlace, FlightEnds, InFlight, Writer

\* A writer that takes the lock.
LEMMA WriterHolds ==
    ASSUME StoreInv, NEW w \in writers, op = None, writers' = writers \ {w},
           UNCHANGED <<inbox, answer>>,
           op' # None, op'.req = w.req, op'.kind = "put", op'.upload = w.upload,
           op'.index = w.index
    PROVE  FlightKept
    BY DEF StoreInv, TypeOK, OnePlace, FlightKept, InFlight, Writer

\* A holder that goes on.
LEMMA HolderGoes ==
    ASSUME StoreInv, op # None, UNCHANGED <<inbox, writers, answer>>,
           op' # None, op'.req = op.req, op'.kind = op.kind, op'.index = op.index,
           op'.upload = op.upload \/ op.kind = "delete"
    PROVE  FlightKept
    BY DEF FlightKept, InFlight

\* A holder that leaves with an answer.
LEMMA HolderEnds ==
    ASSUME StoreInv, op # None, UNCHANGED <<inbox, writers>>, op' = None,
           answer'[op.req].code # "none",
           \A s \in Request : s # op.req => answer'[s] = answer[s]
    PROVE  /\ op.req \in Request /\ op.kind \in RequestKinds
           /\ op.upload \in Upload \cup {None} /\ op.index \in Index
           /\ FlightEnds(op.req, op.kind, op.upload, op.index)
    BY DEF StoreInv, TypeOK, OnePlace, FlightEnds, InFlight, Op

\* An operation that raises ends its request, after a fault.
LEMMA RaiseSeen ==
    ASSUME StoreInv, op # None, Fault, Raise(op.req), UNCHANGED <<inbox, writers, deleting>>,
           attachments \subseteq attachments'
    PROVE  Seen
    <1>1. PICK r \in Request : r = op.req
        BY HolderFacts
    <1>2. PICK k \in RequestKinds : k = op.kind
        BY HolderFacts DEF Op
    <1>3. PICK u \in Upload \cup {None} : u = op.upload
        BY HolderFacts
    <1>4. PICK i \in Index : i = op.index
        BY HolderFacts
    <1>5. /\ op' = None /\ answer'[r].code \in {"retry", "fatal"}
          /\ \A s \in Request : s # r => answer'[s] = answer[s]
        BY <1>1, RaiseEffect DEF StoreInv
    <1>6. FlightEnds(r, k, u, i)
        BY <1>1, <1>2, <1>3, <1>4, <1>5, HolderEnds
    <1>7. Given(r, k, u)' /\ answer'[r].code # "ok"
        BY <1>5 DEF Given
    <1>8. faults' \in Nat /\ faults' = faults + 1
        BY DEF Fault, StoreInv, TypeOK
    <1> QED
        BY <1>6, <1>7, <1>8 DEF Seen, Excused

\* An operation that ends well ends its request with the manifest it left.
LEMMA EndSeen ==
    ASSUME StoreInv, op # None, op' = None, op.kind # "delete", op.upload \in Upload,
           NEW m \in Manifest, Reply(op.req, "ok", op.upload, m), manifest'[op.upload] = m,
           m.status \in Open \cup Closed,
           op.kind = "complete" => m.status = "completed",
           UNCHANGED <<inbox, writers, deleting, attachments, faults>>
    PROVE  Seen
    <1>1. PICK r \in Request : r = op.req
        BY HolderFacts
    <1>2. PICK k \in RequestKinds : k = op.kind
        BY HolderFacts DEF Op
    <1>3. PICK u \in Upload : u = op.upload
        OBVIOUS
    <1>4. PICK i \in Index : i = op.index
        BY HolderFacts
    <1>5. /\ answer'[r].code = "ok" /\ answer'[r].upload = u /\ answer'[r].view = m
          /\ \A s \in Request : s # r => answer'[s] = answer[s]
        BY <1>1, <1>3, ReplyEffect DEF StoreInv, Codes
    <1>6. FlightEnds(r, k, u, i)
        BY <1>1, <1>2, <1>3, <1>4, <1>5, HolderEnds
    <1>7. Given(r, k, u)'
        BY <1>2, <1>3, <1>5 DEF Given, Status
    <1>8. faults' \in Nat /\ faults' = faults
        BY DEF StoreInv, TypeOK
    <1> QED
        BY <1>2, <1>5, <1>6, <1>7, <1>8 DEF Seen, Excused

\* An operation that goes on answers nobody.
LEMMA GotoSeen ==
    ASSUME StoreInv, op # None, NEW s \in Steps, Goto(s),
           UNCHANGED <<inbox, writers, deleting, answer, faults>>,
           attachments \subseteq attachments' \/ deleting'
    PROVE  Seen
    <1>1. /\ op' # None /\ op'.req = op.req /\ op'.kind = op.kind
          /\ op'.upload = op.upload /\ op'.index = op.index
        BY HolderFacts, GotoEffect
    <1>2. FlightKept
        BY <1>1, HolderGoes
    <1> QED
        BY <1>2 DEF Seen, StoreInv, TypeOK

\* A request refused as soon as it is taken.
LEMMA TakeRefusedSeen ==
    ASSUME StoreInv, NEW q \in inbox, op = None, inbox' = inbox \ {q},
           UNCHANGED <<writers, op, deleting, attachments>>,
           NEW code \in {"retry", "fatal"}, Refuse(q.req, code),
           faults' \in Nat, faults' = faults \/ faults' = faults + 1,
           \/ code = "fatal" \/ q.kind \notin {"get", "put"} \/ faults' = faults + 1
           \/ q.kind = "put" /\ (Ahead(q.upload, q.index) => Landed(q.upload, q.index))
    PROVE  Seen
    <1>1. q.req \in Request
        BY DEF StoreInv, TypeOK, Message
    <1>2. /\ answer'[q.req].code = code
          /\ \A s \in Request : s # q.req => answer'[s] = answer[s]
        BY <1>1, RefuseEffect DEF StoreInv, Codes
    <1>3. /\ q.kind \in RequestKinds /\ q.upload \in Upload \cup {None} /\ q.index \in Index
          /\ FlightEnds(q.req, q.kind, q.upload, q.index)
        BY <1>2, TakeEnds
    <1>4. Given(q.req, q.kind, q.upload)'
        BY <1>2 DEF Given
    <1>5. Excused(q.req, q.kind, q.upload, q.index)
        BY <1>2 DEF Excused
    <1>6. answer'[q.req].code # "ok"
        BY <1>2
    <1> QED
        BY <1>1, <1>3, <1>4, <1>5, <1>6 DEF Seen

\* A request answered as soon as it is taken.
LEMMA TakeAnsweredSeen ==
    ASSUME StoreInv, NEW q \in inbox, op = None, inbox' = inbox \ {q},
           UNCHANGED <<writers, op, deleting, attachments>>,
           q.kind \notin {"complete", "delete"},
           NEW u \in Upload, u = q.upload \/ q.kind = "create",
           NEW m \in Manifest, Reply(q.req, "ok", u, m), manifest'[u] = m,
           m.status \in Open \cup Closed,
           UNCHANGED faults
    PROVE  Seen
    <1>1. q.req \in Request
        BY DEF StoreInv, TypeOK, Message
    <1>2. /\ answer'[q.req].code = "ok" /\ answer'[q.req].upload = u
          /\ answer'[q.req].view = m
          /\ \A s \in Request : s # q.req => answer'[s] = answer[s]
        BY <1>1, ReplyEffect DEF StoreInv, Codes
    <1>3. /\ q.kind \in RequestKinds /\ q.upload \in Upload \cup {None} /\ q.index \in Index
          /\ FlightEnds(q.req, q.kind, q.upload, q.index)
        BY <1>2, TakeEnds
    <1>4. Given(q.req, q.kind, q.upload)'
        BY <1>2 DEF Given
    <1>5. Excused(q.req, q.kind, q.upload, q.index)
        BY <1>2 DEF Excused
    <1>6. faults' \in Nat
        BY DEF StoreInv, TypeOK
    <1> QED
        BY <1>1, <1>3, <1>4, <1>5, <1>6 DEF Seen

\* A request that takes the lock answers nobody yet.
LEMMA TakeHoldsSeen ==
    ASSUME StoreInv, NEW q, NEW kind, Take(q, kind), NEW s \in Steps, Hold(q, s),
           UNCHANGED <<writers, answer, attachments, faults>>, deleting => deleting'
    PROVE  Seen
    <1>1. q \in inbox /\ q \in Message /\ op = None /\ inbox' = inbox \ {q}
        BY TakeEffect DEF Take
    <1>2. /\ op' # None /\ op'.req = q.req /\ op'.kind = q.kind
          /\ op'.upload = q.upload /\ op'.index = q.index
        BY <1>1, HoldEffect
    <1>3. FlightKept
        BY <1>1, <1>2, TakeHolds
    <1> QED
        BY <1>3 DEF Seen, StoreInv, TypeOK

\* The chunks a session has are the first ones: a chunk that is neither there
\* nor next is one whose predecessors are missing.
LEMMA NotNext ==
    ASSUME StoreInv, NEW u \in Upload, NEW i \in Index, Status(u) \in Open, Ahead(u, i),
           Status(u) # "active" \/ i \in Received(u) \/ Received(u) # 0..(i - 1)
    PROVE  Landed(u, i)
    <1>1. PICK n \in 0..Chunks : Received(u) = 0..(n - 1)
        BY DEF StoreInv, SessionOK
    <1>2. 0..(i - 1) \subseteq 0..(n - 1)
        BY <1>1 DEF Ahead, Open
    <1>3. CASE Status(u) # "active"
        BY <1>3 DEF StoreInv, SessionOK, Open, Landed
    <1>4. CASE i \notin 0..(n - 1)
        <2>1. n <= i /\ i \in Nat /\ n \in Nat
            BY <1>4, UploadAssumption DEF Index
        <2>2. i <= n
            <3>1. CASE i = 0
                BY <2>1, <3>1
            <3>2. CASE i # 0
                <4>1. i - 1 \in 0..(i - 1)
                    BY <2>1, <3>2
                <4>2. i - 1 \in 0..(n - 1)
                    BY <1>2, <4>1
                <4> QED
                    BY <2>1, <4>2
            <3> QED
                BY <3>1, <3>2
        <2>3. n = i
            BY <2>1, <2>2
        <2>4. Received(u) = 0..(i - 1) /\ i \notin Received(u)
            BY <1>1, <1>4, <2>3
        <2> QED
            BY <1>3, <2>4
    <1>5. CASE i \in 0..(n - 1)
        BY <1>1, <1>5 DEF Landed
    <1> QED
        BY <1>4, <1>5

\* Every request, as the clients see it.
LEMMA HandleSeen ==
    ASSUME StoreInv, NEW q, Handle(q)
    PROVE  Seen
    <1>0. TypeOK
        BY DEF StoreInv
    <1>1. CASE Create(q)
        <2>1. Take(q, "create") /\ UNCHANGED <<file, chatVars, writers, op>>
            BY <1>1 DEF Create
        <2>2. /\ q \in inbox /\ op = None /\ inbox' = inbox \ {q} /\ q.kind = "create"
              /\ UNCHANGED <<deleting, attachments>>
            BY <2>1 DEF Take, chatVars
        <2> DEFINE fresh == [status |-> "active", received |-> {}]
        <2>3. fresh \in Manifest /\ fresh.status \in Open
            BY DEF Manifest, Open
        <2> HIDE DEF fresh
        <2>4. \/ /\ UNCHANGED faults \/ Fault
                 /\ \E code \in {"retry", "fatal"} : Refuse(q.req, code)
              \/ \E old \in SUBSET Terminal : \E u \in Upload :
                    /\ Reap(old) /\ manifest' = [Reaped(old) EXCEPT ![u] = fresh]
                    /\ Reply(q.req, "ok", u, fresh) /\ UNCHANGED faults
            BY <1>1 DEF Create, fresh
        <2>5. CASE /\ UNCHANGED faults \/ Fault
                   /\ \E code \in {"retry", "fatal"} : Refuse(q.req, code)
            <3>1. faults' \in Nat /\ (faults' = faults \/ faults' = faults + 1)
                BY <1>0, <2>5 DEF Fault, TypeOK
            <3> QED
                BY <2>1, <2>2, <2>5, <3>1, TakeRefusedSeen
        <2>6. ASSUME NEW old \in SUBSET Terminal, NEW u \in Upload, Reap(old),
                     manifest' = [Reaped(old) EXCEPT ![u] = fresh],
                     Reply(q.req, "ok", u, fresh), UNCHANGED faults
              PROVE  Seen
            <3>1. manifest'[u] = fresh
                BY <2>6, ReapEffect
            <3> QED
                BY <2>1, <2>2, <2>3, <2>6, <3>1, TakeAnsweredSeen
        <2> QED
            BY <2>4, <2>5, <2>6
    <1>2. CASE Get(q)
        <2>1. /\ q \in inbox /\ op = None /\ inbox' = inbox \ {q} /\ q.kind = "get"
              /\ UNCHANGED <<manifest, deleting, attachments, writers, op, faults>>
              /\ faults' \in Nat /\ q.upload \in Upload \cup {None}
            BY <1>0, <1>2 DEF Get, Take, diskVars, chatVars, TypeOK, Message
        <2>2. CASE Known(q.upload)
            <3>1. /\ q.upload \in Upload /\ manifest[q.upload] \in Manifest
                  /\ manifest[q.upload].status \in Open \cup Closed
                BY <1>0, <2>1, <2>2 DEF Known, TypeOK, Exists, Status
            <3> QED
                BY <1>2, <2>1, <2>2, <3>1, TakeAnsweredSeen DEF Get
        <2>3. CASE ~Known(q.upload)
            BY <1>2, <2>1, <2>3, TakeRefusedSeen DEF Get
        <2> QED
            BY <2>2, <2>3
    <1>3. CASE Begin(q)
        <2>1. /\ q \in inbox /\ op = None /\ inbox' = inbox \ {q} /\ q.kind = "put"
              /\ UNCHANGED <<manifest, deleting, attachments, op, faults>>
              /\ faults' \in Nat /\ q.upload \in Upload \cup {None} /\ q.index \in Index
            BY <1>0, <1>3 DEF Begin, Take, chatVars, TypeOK, Message
        <2>2. CASE Refuse(q.req, "fatal") /\ UNCHANGED writers
            BY <2>1, <2>2, TakeRefusedSeen
        <2>3. CASE /\ Refuse(q.req, "retry") /\ UNCHANGED writers /\ Known(q.upload)
                   /\ Status(q.upload) # "active" \/ Received(q.upload) # 0..(q.index - 1)
            <3>1. q.upload \in Upload /\ Exists(q.upload)
                BY <2>1, <2>3 DEF Known
            <3>2. Ahead(q.upload, q.index) => Landed(q.upload, q.index)
                <4>1. CASE Status(q.upload) \in Closed
                    BY <4>1 DEF Closed, Landed
                <4>2. CASE Status(q.upload) \in Open
                    BY <2>1, <2>3, <3>1, <4>2, NotNext
                <4> QED
                    BY <3>1, <4>1, <4>2 DEF Exists
            <3> QED
                BY <2>1, <2>3, <3>2, TakeRefusedSeen
        <2>4. CASE /\ Known(q.upload) /\ UNCHANGED writers
                   /\ Status(q.upload) = "active" /\ q.index \in Received(q.upload)
                   /\ IF q.index \in chunks[q.upload]
                      THEN Reply(q.req, "ok", q.upload, manifest[q.upload])
                      ELSE Refuse(q.req, "retry")
            <3>1. /\ q.upload \in Upload /\ manifest[q.upload] \in Manifest /\ SessionOK(q.upload)
                  /\ manifest[q.upload].status \in Open \cup Closed
                BY <1>0, <2>1, <2>4 DEF Known, TypeOK, StoreInv, Exists, Status
            <3>2. CASE q.index \in chunks[q.upload]
                BY <2>1, <2>4, <3>1, <3>2, TakeAnsweredSeen
            <3>3. CASE q.index \notin chunks[q.upload]
                <4>1. Landed(q.upload, q.index)
                    BY <2>4 DEF Landed, Open
                <4> QED
                    BY <2>1, <2>4, <3>3, <4>1, TakeRefusedSeen
            <3> QED
                BY <3>2, <3>3
        <2>5. CASE /\ writers' = writers \cup {[req |-> q.req, upload |-> q.upload,
                                                index |-> q.index]}
                   /\ UNCHANGED answer
            <3>1. FlightKept
                BY <2>1, <2>5, TakeStreams
            <3> QED
                BY <2>1, <3>1 DEF Seen
        <2> QED
            BY <1>3, <2>2, <2>3, <2>4, <2>5 DEF Begin
    <1>4. CASE Complete(q)
        <2>1. /\ Take(q, "complete")
              /\ q \in inbox /\ op = None /\ inbox' = inbox \ {q} /\ q.kind = "complete"
              /\ UNCHANGED <<deleting, attachments, writers, faults>> /\ faults' \in Nat
            BY <1>0, <1>4 DEF Complete, Take, chatVars, TypeOK
        <2>2. ASSUME NEW code \in {"retry", "fatal"}, Refuse(q.req, code), UNCHANGED op
              PROVE  Seen
            BY <2>1, <2>2, TakeRefusedSeen
        <2>3. ASSUME NEW s \in {"settle", "save", "announce"}, Hold(q, s), UNCHANGED answer
              PROVE  Seen
            BY <2>1, <2>3, TakeHoldsSeen DEF Steps
        <2> QED
            BY <1>4, <2>2, <2>3 DEF Complete
    <1>5. CASE Cancel(q)
        <2>1. /\ Take(q, "cancel")
              /\ q \in inbox /\ op = None /\ inbox' = inbox \ {q} /\ q.kind = "cancel"
              /\ UNCHANGED <<manifest, deleting, attachments, writers, faults>> /\ faults' \in Nat
              /\ q.upload \in Upload \cup {None}
            BY <1>0, <1>5 DEF Cancel, Take, chatVars, TypeOK, Message
        <2>2. ASSUME NEW code \in {"retry", "fatal"}, Refuse(q.req, code), UNCHANGED op
              PROVE  Seen
            BY <2>1, <2>2, TakeRefusedSeen
        <2>3. ASSUME NEW s \in {"settle", "tombstone", "undo"}, Hold(q, s), UNCHANGED answer
              PROVE  Seen
            BY <2>1, <2>3, TakeHoldsSeen DEF Steps
        <2>4. CASE /\ Known(q.upload) /\ UNCHANGED op
                   /\ Reply(q.req, "ok", q.upload, manifest[q.upload])
            <3>1. /\ q.upload \in Upload /\ manifest[q.upload] \in Manifest
                  /\ manifest[q.upload].status \in Open \cup Closed
                BY <1>0, <2>1, <2>4 DEF Known, TypeOK, Exists, Status
            <3> QED
                BY <2>1, <2>4, <3>1, TakeAnsweredSeen
        <2> QED
            BY <1>5, <2>2, <2>3, <2>4 DEF Cancel
    <1>6. CASE Delete(q)
        <2>1. /\ Take(q, "delete")
              /\ q \in inbox /\ op = None /\ inbox' = inbox \ {q} /\ q.kind = "delete"
              /\ UNCHANGED <<attachments, writers, faults>> /\ faults' \in Nat
            BY <1>0, <1>6 DEF Delete, Take, TypeOK
        <2>2. CASE live
            BY <1>6, <2>1, <2>2, TakeHoldsSeen DEF Delete, Steps
        <2>3. CASE ~live
            BY <1>6, <2>1, <2>3, TakeRefusedSeen DEF Delete
        <2> QED
            BY <2>2, <2>3
    <1>7. CASE RefuseRequest(q)
        <2>1. /\ q \in inbox /\ op = None /\ inbox' = inbox \ {q}
              /\ UNCHANGED <<writers, op, deleting, attachments>>
              /\ faults' \in Nat /\ faults' = faults + 1
            BY <1>0, <1>7 DEF RefuseRequest, chatVars, Fault, TypeOK
        <2> QED
            BY <1>7, <2>1, TakeRefusedSeen DEF RefuseRequest
    <1> QED
        BY <1>1, <1>2, <1>3, <1>4, <1>5, <1>6, <1>7 DEF Handle

\* A writer that is refused, or aborted, as the clients see it.
LEMMA WriterRefusedSeen ==
    ASSUME StoreInv, NEW w \in writers, op = None, writers' = writers \ {w},
           UNCHANGED <<inbox, op, deleting, attachments>>,
           NEW code \in {"retry", "fatal"}, Refuse(w.req, code),
           faults' \in Nat, faults' = faults \/ faults' = faults + 1,
           \/ code = "fatal" \/ faults' = faults + 1 \/ deleting
           \/ Ahead(w.upload, w.index) => Landed(w.upload, w.index)
    PROVE  Seen
    <1>1. /\ w.req \in Request /\ w.upload \in Upload \cup {None} /\ w.index \in Index
          /\ "put" \in RequestKinds
        BY DEF StoreInv, TypeOK, Writer, RequestKinds
    <1>2. /\ answer'[w.req].code = code
          /\ \A s \in Request : s # w.req => answer'[s] = answer[s]
        BY <1>1, RefuseEffect DEF StoreInv, Codes
    <1>3. FlightEnds(w.req, "put", w.upload, w.index)
        BY <1>2, WriterEnds
    <1>4. Given(w.req, "put", w.upload)'
        BY <1>2 DEF Given
    <1>5. Excused(w.req, "put", w.upload, w.index)
        BY <1>2 DEF Excused
    <1> QED
        BY <1>1, <1>3, <1>4, <1>5 DEF Seen

\* Every step of a writer, as the clients see it.
LEMMA WriterSeen ==
    ASSUME StoreInv, NEW w \in writers, FinishChunk(w) \/ FinishRefused(w) \/ AbortChunk(w)
    PROVE  Seen
    <1>0. TypeOK /\ w.upload \in Upload /\ w.index \in Index /\ w.req \in Request
        BY DEF StoreInv, TypeOK, Writer
    <1>1. CASE FinishChunk(w)
        <2>1. /\ op = None /\ writers' = writers \ {w}
              /\ UNCHANGED <<inbox, answer, deleting, attachments, faults>>
            BY <1>1 DEF FinishChunk, chatVars
        <2>2. /\ op' \in Op /\ op'.req = w.req /\ op'.kind = "put" /\ op'.upload = w.upload
              /\ op'.index = w.index
            BY <1>0, <1>1 DEF FinishChunk, Op, RequestKinds, Steps
        <2>3. op' # None
            BY <2>2, NoneAssumption
        <2>4. FlightKept
            BY <2>1, <2>2, <2>3, WriterHolds
        <2> QED
            BY <1>0, <2>1, <2>4 DEF Seen, TypeOK
    <1>2. CASE FinishRefused(w)
        <2>1. /\ op = None /\ writers' = writers \ {w}
              /\ UNCHANGED <<inbox, op, deleting, attachments, faults>> /\ faults' \in Nat
              /\ Refuse(w.req, IF Exists(w.upload) THEN "retry" ELSE "fatal")
              /\ \/ ~(Status(w.upload) = "active")
                 \/ w.index \in Received(w.upload) \/ Received(w.upload) # 0..(w.index - 1)
                 \/ w.req \notin parts
            BY <1>0, <1>2 DEF FinishRefused, chatVars, TypeOK
        <2>2. ~deleting /\ Status(w.upload) \in Open => w.req \in parts
            BY DEF StoreInv, WriterOK
        <2>3. CASE ~Exists(w.upload)
            BY <2>1, <2>3, WriterRefusedSeen
        <2>4. CASE Exists(w.upload)
            <3>1. deleting \/ (Ahead(w.upload, w.index) => Landed(w.upload, w.index))
                <4>1. CASE Status(w.upload) \in Closed
                    BY <4>1 DEF Closed, Landed
                <4>2. CASE Status(w.upload) \in Open /\ ~deleting
                    BY <1>0, <2>1, <2>2, <4>2, NotNext
                <4> QED
                    BY <2>4, <4>1, <4>2 DEF Exists
            <3> QED
                BY <2>1, <2>4, <3>1, WriterRefusedSeen
        <2> QED
            BY <2>3, <2>4
    <1>3. CASE AbortChunk(w)
        <2>1. /\ op = None /\ writers' = writers \ {w} /\ Refuse(w.req, "retry")
              /\ UNCHANGED <<inbox, op, deleting, attachments>>
              /\ faults' \in Nat /\ faults' = faults + 1
            BY <1>0, <1>3 DEF AbortChunk, chatVars, Fault, TypeOK
        <2> QED
            BY <2>1, WriterRefusedSeen
    <1> QED
        BY <1>1, <1>2, <1>3

\* Every durable step of the holder, as the clients see it.
LEMMA ProceedSeen ==
    ASSUME StoreInv, Proceed
    PROVE  Seen
    <1>0. TypeOK
        BY DEF StoreInv
    <1>10. ASSUME UNCHANGED <<inbox, writers, op, answer, faults, deleting, attachments>>
           PROVE  Seen
        <2>1. FlightKept
            BY <1>10 DEF FlightKept, InFlight
        <2> QED
            BY <1>0, <1>10, <2>1 DEF Seen, TypeOK
    <1>1. CASE RecordChunk
        <2> DEFINE m == [manifest[op.upload] EXCEPT !.received = @ \cup {op.index}]
        <2>1. /\ op # None /\ op.step = "record"
              /\ UNCHANGED <<inbox, writers, deleting, attachments>>
            BY <1>1 DEF RecordChunk, chatVars
        <2>2. /\ op.upload \in Upload /\ op.kind = "put" /\ op.index \in Index
              /\ manifest[op.upload] \in Manifest /\ manifest[op.upload].status \in Open
            BY <2>1, HolderFacts DEF StoreInv, OpOK, Status, Open
        <2>3. m \in Manifest /\ m.status \in Open
            BY <2>2 DEF Manifest
        <2>4. CASE /\ Write(op.upload, m) /\ Reply(op.req, "ok", op.upload, m) /\ Done
                   /\ UNCHANGED faults
            <3> HIDE DEF m
            <3>1. manifest'[op.upload] = m
                BY <1>0, <2>2, <2>3, <2>4, WriteEffect
            <3> QED
                BY <2>1, <2>2, <2>3, <2>4, <3>1, EndSeen DEF Done
        <2>5. CASE WriteRaises(op.upload, m) /\ Raise(op.req)
            BY <2>1, <2>5, RaiseSeen DEF WriteRaises
        <2> QED
            BY <1>1, <2>4, <2>5 DEF RecordChunk
    <1>2. ASSUME NEW s \in Steps, NEW m,
                 op # None, UNCHANGED <<inbox, writers, chatVars>>,
                 \/ Goto(s) /\ UNCHANGED <<answer, faults>>
                 \/ WriteRaises(op.upload, m) /\ Raise(op.req)
                 \/ Fault /\ Raise(op.req)
          PROVE  Seen
        BY <1>2, GotoSeen, RaiseSeen DEF WriteRaises, chatVars
    <1>3. CASE Announce \/ Publish \/ Settle \/ Tombstone \/ Undo
        BY <1>2, <1>3 DEF Announce, Publish, Settle, Tombstone, Undo, Steps
    <1>4. CASE Save
        <2>1. op # None /\ UNCHANGED <<inbox, writers, deleting>> /\ attachments \subseteq attachments'
            BY <1>4 DEF Save, Reconciled
        <2> QED
            BY <1>4, <2>1, GotoSeen, RaiseSeen DEF Save, Steps
    <1>5. CASE Clear
        <2>1. /\ op # None /\ op.step = "clear"
              /\ UNCHANGED <<manifest, inbox, writers, deleting, attachments>>
            BY <1>5 DEF Clear, diskVars, chatVars
        <2>2. /\ op.upload \in Upload /\ op.kind # "delete" /\ Status(op.upload) = "completed"
              /\ manifest[op.upload] \in Manifest
            BY <2>1, HolderFacts DEF StoreInv, OpOK
        <2>3. CASE Reply(op.req, "ok", op.upload, manifest[op.upload]) /\ Done /\ UNCHANGED faults
            BY <2>1, <2>2, <2>3, EndSeen DEF Done, Status, Closed
        <2> QED
            BY <1>5, <2>1, <2>3, RaiseSeen DEF Clear
    <1>6. CASE Forget
        <2> DEFINE m == [manifest[op.upload] EXCEPT !.received = {}]
        <2>1. /\ op # None /\ op.step = "forget"
              /\ UNCHANGED <<inbox, writers, deleting, attachments>>
            BY <1>6 DEF Forget, chatVars
        <2>2. /\ op.upload \in Upload /\ op.kind = "cancel" /\ manifest[op.upload] \in Manifest
              /\ manifest[op.upload].status \in Closed
            BY <2>1, HolderFacts DEF StoreInv, OpOK, Status
        <2>3. m \in Manifest /\ m.status \in Closed
            BY <2>2, NewManifest
        <2>4. CASE /\ Write(op.upload, m) /\ Reply(op.req, "ok", op.upload, m) /\ Done
                   /\ UNCHANGED faults
            <3> HIDE DEF m
            <3>1. manifest'[op.upload] = m
                BY <1>0, <2>2, <2>3, <2>4, WriteEffect
            <3> QED
                BY <2>1, <2>2, <2>3, <2>4, <3>1, EndSeen DEF Done
        <2>5. CASE WriteRaises(op.upload, m) /\ Raise(op.req)
            BY <2>1, <2>5, RaiseSeen DEF WriteRaises
        <2> QED
            BY <1>6, <2>4, <2>5 DEF Forget
    <1>7. CASE DeleteChat
        <2>1. op # None /\ UNCHANGED <<inbox, writers, faults, deleting>> /\ deleting
              /\ op.kind = "delete"
            BY <1>7 DEF DeleteChat, chatVars, StoreInv, OpOK
        <2>2. ASSUME NEW s \in {"purge", "chat", "tree"}, Goto(s), UNCHANGED answer
              PROVE  Seen
            BY <2>1, <2>2, GotoSeen DEF Steps
        <2>3. CASE UNCHANGED <<op, answer>>
            BY <1>7, <1>10, <2>1, <2>3 DEF DeleteChat
        <2>4. CASE Reply(op.req, "ok", None, NoManifest) /\ Done
            <3>1. PICK r \in Request : r = op.req
                BY <2>1, HolderFacts
            <3>2. PICK u \in Upload \cup {None} : u = op.upload
                BY <2>1, HolderFacts
            <3>3. PICK i \in Index : i = op.index
                BY <2>1, HolderFacts
            <3>4. NoManifest \in Manifest /\ "ok" \in Codes
                BY DEF NoManifest, Manifest, Codes
            <3>5. Reply(r, "ok", None, NoManifest)
                BY <2>4, <3>1
            <3>6. /\ answer'[r].code = "ok" /\ answer'[r].view = NoManifest
                  /\ \A s \in Request : s # r => answer'[s] = answer[s]
                BY <1>0, <3>4, <3>5, ReplyEffect
            <3>7. "delete" \in RequestKinds
                BY DEF RequestKinds
            <3>8. FlightEnds(r, "delete", u, i)
                BY <2>1, <2>4, <3>1, <3>2, <3>3, <3>6, <3>7, HolderEnds DEF Done
            <3>9. Given(r, "delete", u)' /\ Excused(r, "delete", u, i)
                BY <3>6 DEF Given, Excused
            <3> QED
                BY <1>0, <2>1, <3>6, <3>7, <3>9, <3>8 DEF Seen, TypeOK
        <2> QED
            BY <1>7, <2>2, <2>3, <2>4 DEF DeleteChat
    <1>8. CASE DeleteRaises
        BY <1>8, RaiseSeen DEF DeleteRaises, chatVars
    <1>9. CASE DeleteManifest \/ \E u \in Upload : DeleteSession(u)
        <2>1. PICK u \in Upload \cup {None}, s \in {"sessions", "manifest"} :
                 op' = [op EXCEPT !.upload = u, !.step = s]
            BY <1>9 DEF DeleteSession, DeleteManifest
        <2>2. /\ op # None /\ op.step \in {"sessions", "manifest"}
              /\ UNCHANGED <<inbox, writers, answer, faults, deleting, attachments>>
            BY <1>9 DEF DeleteSession, DeleteManifest, chatVars
        <2>3. op \in Op /\ op.kind = "delete"
            BY <1>0, <2>2 DEF TypeOK, StoreInv, OpOK
        <2>4. op' \in Op /\ op'.req = op.req /\ op'.kind = op.kind /\ op'.index = op.index
            BY <2>1, <2>3 DEF Op, Steps
        <2>5. FlightKept
            BY <2>2, <2>3, <2>4, NoneAssumption, HolderGoes
        <2> QED
            BY <1>0, <2>2, <2>5 DEF Seen, TypeOK
    <1>11. CASE UnlinkPayload
        BY <1>10, <1>11 DEF UnlinkPayload, chatVars
    <1> QED
        BY <1>1, <1>3, <1>4, <1>5, <1>6, <1>7, <1>8, <1>9, <1>11 DEF Proceed

\* Every step of the store, as the clients see it.
LEMMA StoreSeen ==
    ASSUME StoreInv, StoreStep
    PROVE  Seen
    <1>1. CASE ApplyLate
        <2>1. /\ UNCHANGED <<inbox, writers, op, answer, faults, deleting>>
              /\ attachments \subseteq attachments'
            BY <1>1 DEF ApplyLate, Reconciled
        <2>2. FlightKept
            BY <2>1 DEF FlightKept, InFlight
        <2> QED
            BY <2>1, <2>2 DEF Seen, StoreInv, TypeOK
    <1> QED
        BY <1>1, HandleSeen, WriterSeen, ProceedSeen DEF StoreStep

-----------------------------------------------------------------------------
(* ClientInv: the calls and their requests.                                *)

\* Every awaited request is a request.
LEMMA Awaited ==
    ASSUME ClientInv, NEW c \in Client, pc[c] \in Awaiting
    PROVE  waiting[c] \in Request
    BY DEF ClientInv, ClientTypeOK, CallOK

\* A step of the store keeps ClientInv.
LEMMA ClientStore ==
    ASSUME StoreInv, ClientInv, StoreInv', Seen, UNCHANGED clientVars
    PROVE  ClientInv'
    <1> USE DEF clientVars
    <1>1. ClientTypeOK' /\ UNCHANGED <<pc, session, index, waiting>>
        BY DEF ClientInv, ClientTypeOK
    <1>2. deleting => deleting'
        BY DEF Seen
    <1>3. ~deleting' => attachments \subseteq attachments'
        BY DEF Seen
    <1>4. \A c, d \in Client : waiting'[c] = waiting'[d] /\ waiting'[c] # None => c = d
        BY <1>1 DEF ClientInv
    <1>5. CASE FlightKept
        <2>1. \A r \in Request : AnswerOK(r)'
            BY <1>2, <1>3, <1>5 DEF ClientInv, AnswerOK, FlightKept
        <2>2. ASSUME NEW c \in Client PROVE CallOK(c)'
            <3>1. CallOK(c)
                BY DEF ClientInv
            <3>2. ASSUME NEW r \in Request, r = waiting[c], NEW k \in RequestKinds,
                         NEW u \in Upload \cup {None}, NEW i \in Index, InFlight(r, k, u, i)'
                  PROVE  About(c, k, u, i)'
                BY <1>1, <1>5, <3>1, <3>2 DEF FlightKept, CallOK, About
            <3> QED
                BY <1>1, <1>2, <1>3, <1>5, <3>1, <3>2 DEF CallOK, FlightKept
        <2> QED
            BY <1>1, <1>4, <2>1, <2>2 DEF ClientInv
    <1>6. ASSUME NEW r \in Request, NEW k \in RequestKinds, NEW u \in Upload \cup {None},
                 NEW i \in Index, FlightEnds(r, k, u, i), Given(r, k, u)',
                 k = "delete" => answer'[r].view = NoManifest \/ answer'[r].code # "ok"
          PROVE  ClientInv'
        <2>1. \A s \in Request : AnswerOK(s)'
            <3>1. ASSUME NEW s \in Request, s # r PROVE AnswerOK(s)'
                BY <1>2, <1>3, <1>6, <3>1 DEF ClientInv, AnswerOK, FlightEnds
            <3>2. AnswerOK(r)'
                <4> SUFFICES ASSUME answer'[r].code = "ok", answer'[r].view.status = "completed",
                                    ~deleting'
                             PROVE  answer'[r].upload \in attachments'
                    BY DEF AnswerOK
                <4>1. k # "delete"
                    BY <1>6 DEF NoManifest
                <4>2. answer'[r].upload \in Upload /\ answer'[r].view = manifest'[answer'[r].upload]
                    BY <1>6, <4>1 DEF Given
                <4>3. PICK v \in Upload : v = answer'[r].upload
                    BY <4>2
                <4>4. SessionOK(v)' /\ Status(v)' = "completed"
                    BY <4>2, <4>3 DEF StoreInv, Status
                <4> QED
                    BY <4>3, <4>4 DEF SessionOK
            <3> QED
                BY <3>1, <3>2
        <2>2. ASSUME NEW c \in Client PROVE CallOK(c)'
            <3>1. CallOK(c) /\ waiting'[c] = waiting[c] /\ pc'[c] = pc[c] /\ session'[c] = session[c]
                BY <1>1 DEF ClientInv
            <3>2. ASSUME NEW s \in Request, s = waiting[c], NEW k2 \in RequestKinds,
                         NEW v \in Upload \cup {None}, NEW j \in Index, InFlight(s, k2, v, j)'
                  PROVE  About(c, k2, v, j)'
                BY <1>1, <1>6, <3>1, <3>2 DEF FlightEnds, CallOK, About
            <3>3. ASSUME NEW s \in Request, s = waiting[c], answer'[s].code = "ok"
                  PROVE  /\ pc[c] \notin {"creating", "resuming"} =>
                               answer'[s].upload = session[c].id
                         /\ pc[c] = "completing" => answer'[s].view.status = "completed"
                <4>1. CASE s # r
                    BY <1>6, <3>1, <3>3, <4>1 DEF FlightEnds, CallOK
                <4>2. CASE s = r
                    <5>1. About(c, k, u, i) /\ pc[c] \in Awaiting
                        BY <1>6, <3>1, <3>3, <4>2, UploadAssumption DEF CallOK, FlightEnds
                    <5>2. k # "delete" /\ (k = "create" => pc[c] = "creating")
                          /\ (pc[c] = "completing" => k = "complete")
                        BY <5>1 DEF About, Sought, Awaiting
                    <5>3. /\ answer'[r].upload \in Upload
                          /\ answer'[r].view = manifest'[answer'[r].upload]
                          /\ k # "create" => answer'[r].upload = u
                          /\ k = "complete" => manifest'[u].status = "completed"
                        BY <1>6, <3>3, <4>2, <5>2 DEF Given, Status
                    <5> QED
                        BY <4>2, <5>1, <5>2, <5>3 DEF About
                <4> QED
                    BY <4>1, <4>2
            <3> QED
                BY <1>1, <1>2, <1>3, <3>1, <3>2, <3>3 DEF CallOK
        <2> QED
            BY <1>1, <1>4, <2>1, <2>2 DEF ClientInv
    <1> QED
        BY <1>5, <1>6 DEF Seen

\* A crash forgets requests, never answers.
LEMMA ClientCrash ==
    ASSUME StoreInv, ClientInv, Crash, UNCHANGED clientVars
    PROVE  ClientInv'
    <1> USE DEF clientVars
    <1>1. /\ op' = None /\ writers' = {} /\ inbox' = {} /\ UNCHANGED <<answer, deleting>>
          /\ attachments \subseteq attachments'
        BY DEF Crash, Reconciled
    <1>2. \A r \in Request : AnswerOK(r)'
        BY <1>1 DEF ClientInv, AnswerOK
    <1>3. ASSUME NEW c \in Client PROVE CallOK(c)'
        <2>1. CallOK(c)
            BY DEF ClientInv
        <2>2. \A r, k, u, i : ~InFlight(r, k, u, i)'
            BY <1>1 DEF InFlight
        <2> QED
            BY <1>1, <2>1, <2>2 DEF CallOK
    <1> QED
        BY <1>2, <1>3 DEF ClientInv, ClientTypeOK

\* A new request is in flight, and no other; its slot was free.
LEMMA SendEffect ==
    ASSUME StoreInv, NEW q \in Message, Send(q)
    PROVE  /\ answer' \in [Request -> Answer] /\ answer'[q.req] = NoAnswer
           /\ \A s \in Request : s # q.req => answer'[s] = answer[s]
           /\ \A r \in Request, k \in RequestKinds, u \in Upload \cup {None}, i \in Index :
                 /\ InFlight(r, k, u, i) => r # q.req
                 /\ InFlight(r, k, u, i)' <=>
                       \/ InFlight(r, k, u, i)
                       \/ /\ r = q.req /\ k = q.kind /\ i = q.index
                          /\ k = "delete" \/ u = q.upload
           /\ UNCHANGED <<diskVars, chatVars, writers, op, faults>>
    <1>1. q.req \in Request /\ NoAnswer \in Answer
        BY DEF NoAnswer, Answer, Codes, NoManifest, Manifest, Message
    <1>2. /\ answer' \in [Request -> Answer] /\ answer'[q.req] = NoAnswer
          /\ \A s \in Request : s # q.req => answer'[s] = answer[s]
        BY <1>1 DEF Send, StoreInv, TypeOK
    <1> QED
        BY <1>2 DEF Send, InFlight, Holder

\* The slot of a new request is one that neither side uses.
LEMMA SlotFree ==
    ASSUME CanSend
    PROVE  Slot \in Request /\ \A c \in Client : waiting[c] # Slot
    <1>1. \E r \in Request : r \notin Busy
        BY DEF CanSend
    <1>2. Slot \in Request /\ Slot \notin Busy
        BY <1>1 DEF Slot
    <1> QED
        BY <1>2 DEF Busy

\* A call sends a request and awaits it.
LEMMA AskEffect ==
    ASSUME ClientTypeOK, NEW c \in Client, NEW kind \in RequestKinds,
           NEW u \in Upload \cup {None}, NEW i \in Index, NEW state \in Awaiting,
           Ask(c, kind, u, i, state)
    PROVE  \E r \in Request, q \in Message :
              /\ \A d \in Client : waiting[d] # r
              /\ q.req = r /\ q.kind = kind /\ q.upload = u /\ q.index = i /\ Send(q)
              /\ waiting' \in [Client -> Request \cup {None}] /\ waiting'[c] = r
              /\ \A d \in Client : d # c => waiting'[d] = waiting[d]
              /\ pc' \in [Client -> PcStates] /\ pc'[c] = state
              /\ \A d \in Client : d # c => pc'[d] = pc[d]
    <1>1. CanSend /\ Send([req |-> Slot, kind |-> kind, upload |-> u, index |-> i])
          /\ waiting' = [waiting EXCEPT ![c] = Slot] /\ pc' = [pc EXCEPT ![c] = state]
        BY DEF Ask
    <1>2. PICK r \in Request : r = Slot /\ \A d \in Client : waiting[d] # r
        BY <1>1, SlotFree
    <1> DEFINE q == [req |-> r, kind |-> kind, upload |-> u, index |-> i]
    <1>3. /\ q \in Message /\ q.req = r /\ q.kind = kind /\ q.upload = u /\ q.index = i
          /\ Send(q)
        BY <1>1, <1>2 DEF Message
    <1> HIDE DEF q
    <1>4. state \in PcStates
        BY DEF PcStates
    <1> QED
        BY <1>1, <1>2, <1>3, <1>4 DEF ClientTypeOK

\* A request that a call sends is about what that call awaits.
LEMMA ClientAsk ==
    ASSUME StoreInv, ClientInv, NEW c \in Client, NEW kind \in RequestKinds,
           NEW u \in Upload \cup {None}, NEW i \in Index, NEW state \in Awaiting,
           Ask(c, kind, u, i, state), kind = Sought(state),
           state \notin {"creating", "resuming"} => u = session[c].id,
           UNCHANGED session,
           index' \in [Client -> Index], state = "putting" => i = index'[c],
           \A d \in Client : d # c => index'[d] = index[d],
           attempt' \in [Client -> Nat],
           why' = why \/ why' = [why EXCEPT ![c] = "none"]
    PROVE  StoreInv' /\ ClientInv'
    <1>0. ClientTypeOK
        BY DEF ClientInv
    <1>1. PICK r \in Request, q \in Message :
              /\ \A d \in Client : waiting[d] # r
              /\ q.req = r /\ q.kind = kind /\ q.upload = u /\ q.index = i /\ Send(q)
              /\ waiting' \in [Client -> Request \cup {None}] /\ waiting'[c] = r
              /\ \A d \in Client : d # c => waiting'[d] = waiting[d]
              /\ pc' \in [Client -> PcStates] /\ pc'[c] = state
              /\ \A d \in Client : d # c => pc'[d] = pc[d]
        BY <1>0, AskEffect
    <1>2. StoreInv'
        BY <1>1, SendStep
    <1>3. /\ answer'[r] = NoAnswer
          /\ \A s \in Request : s # r => answer'[s] = answer[s]
          /\ \A s \in Request, k \in RequestKinds, v \in Upload \cup {None}, j \in Index :
                /\ InFlight(s, k, v, j) => s # r
                /\ InFlight(s, k, v, j)' <=>
                      InFlight(s, k, v, j) \/ (s = r /\ k = kind /\ v = u /\ j = i)
          /\ UNCHANGED <<deleting, attachments>>
        <2>1. /\ answer'[q.req] = NoAnswer
              /\ \A s \in Request : s # q.req => answer'[s] = answer[s]
              /\ UNCHANGED <<deleting, attachments>>
            BY <1>1, SendEffect DEF chatVars
        <2>2. \A s \in Request, k \in RequestKinds, v \in Upload \cup {None}, j \in Index :
                 /\ InFlight(s, k, v, j) => s # q.req
                 /\ InFlight(s, k, v, j)' <=>
                       \/ InFlight(s, k, v, j)
                       \/ /\ s = q.req /\ k = q.kind /\ j = q.index
                          /\ k = "delete" \/ v = q.upload
            BY <1>1, SendEffect
        <2>3. kind # "delete"
            BY DEF Sought
        <2> QED
            BY <1>1, <2>1, <2>2, <2>3
    <1>4. ClientTypeOK'
        BY <1>0, <1>1 DEF ClientTypeOK
    <1>5. \A d, e \in Client : waiting'[d] = waiting'[e] /\ waiting'[d] # None => d = e
        BY <1>1 DEF ClientInv
    <1>6. \A s \in Request : AnswerOK(s)'
        BY <1>3 DEF ClientInv, AnswerOK, NoAnswer
    <1>7. ASSUME NEW d \in Client PROVE CallOK(d)'
        <2>1. CallOK(d)
            BY DEF ClientInv
        <2>2. CASE d # c
            <3>1. /\ pc'[d] = pc[d] /\ session'[d] = session[d] /\ index'[d] = index[d]
                  /\ waiting'[d] = waiting[d] /\ waiting[d] # r
                BY <1>1, <2>2
            <3>2. ASSUME NEW s \in Request, s = waiting[d], NEW k \in RequestKinds,
                         NEW v \in Upload \cup {None}, NEW j \in Index, InFlight(s, k, v, j)'
                  PROVE  About(d, k, v, j)'
                BY <1>3, <2>1, <3>1, <3>2 DEF CallOK, About
            <3>3. \A s \in Request : s = waiting[d] => answer'[s] = answer[s]
                BY <1>3, <3>1
            <3> QED
                BY <1>3, <2>1, <3>1, <3>2, <3>3 DEF CallOK
        <2>3. CASE d = c
            <3>1. ASSUME NEW s \in Request, s = waiting'[c], NEW k \in RequestKinds,
                         NEW v \in Upload \cup {None}, NEW j \in Index, InFlight(s, k, v, j)'
                  PROVE  About(c, k, v, j)'
                <4>1. k = kind /\ v = u /\ j = i
                    BY <1>1, <1>3, <3>1
                <4> QED
                    BY <1>1, <4>1 DEF About
            <3>2. answer'[r].code = "none" /\ waiting'[c] # None /\ state # "done"
                BY <1>1, <1>3, UploadAssumption DEF NoAnswer, Awaiting
            <3> QED
                BY <1>1, <2>3, <3>1, <3>2 DEF CallOK
        <2> QED
            BY <2>2, <2>3
    <1> QED
        BY <1>2, <1>4, <1>5, <1>6, <1>7 DEF ClientInv

\* A call reads its answer, or gives up waiting for it.
Reads(c) ==
    /\ waiting' = [waiting EXCEPT ![c] = None]
    /\ Forgotten(c)
    /\ UNCHANGED <<diskVars, chatVars, inbox, writers, op>>
    /\ faults' = faults \/ faults' = faults + 1

\* Such a step touches one answer and one call.
LEMMA ReadsEffect ==
    ASSUME StoreInv, ClientInv, NEW c \in Client, Reads(c), waiting[c] \in Request
    PROVE  /\ StoreInv' /\ faults' \in Nat
           /\ answer'[waiting[c]] = NoAnswer
           /\ \A s \in Request : s # waiting[c] => answer'[s] = answer[s]
           /\ waiting' \in [Client -> Request \cup {None}] /\ waiting'[c] = None
           /\ \A d \in Client : d # c => waiting'[d] = waiting[d]
           /\ \A r, k, u, i : InFlight(r, k, u, i)' <=> InFlight(r, k, u, i)
           /\ \A d \in Client : d # c /\ waiting[d] # None => waiting[d] # waiting[c]
           /\ UNCHANGED <<manifest, deleting, attachments>>
    <1>1. NoAnswer \in Answer
        BY DEF NoAnswer, Answer, Codes, NoManifest, Manifest
    <1>2. answer' = [answer EXCEPT ![waiting[c]] = NoAnswer] /\ answer \in [Request -> Answer]
        BY DEF Reads, Forgotten, StoreInv, TypeOK
    <1>3. /\ answer' \in [Request -> Answer] /\ answer'[waiting[c]] = NoAnswer
          /\ \A s \in Request : s # waiting[c] => answer'[s] = answer[s]
        BY <1>1, <1>2
    <1>4. faults' \in Nat
        BY DEF Reads, StoreInv, TypeOK
    <1>5. StoreInv'
        BY <1>3, <1>4, AnswerOnly DEF Reads
    <1>6. /\ waiting' \in [Client -> Request \cup {None}] /\ waiting'[c] = None
          /\ \A d \in Client : d # c => waiting'[d] = waiting[d]
        BY DEF Reads, ClientInv, ClientTypeOK
    <1>7. \A r, k, u, i : InFlight(r, k, u, i)' <=> InFlight(r, k, u, i)
        BY DEF Reads, InFlight
    <1>8. \A d \in Client : d # c /\ waiting[d] # None => waiting[d] # waiting[c]
        BY DEF ClientInv
    <1> QED
        BY <1>3, <1>4, <1>5, <1>6, <1>7, <1>8 DEF Reads, diskVars, chatVars

\* What is left to show of a call that has read its answer.
LEMMA ClientReads ==
    ASSUME StoreInv, ClientInv, NEW c \in Client, Reads(c), pc[c] \in Awaiting,
           ClientTypeOK', pc'[c] \notin Awaiting,
           \A d \in Client : d # c => /\ pc'[d] = pc[d] /\ session'[d] = session[d]
                                      /\ index'[d] = index[d],
           pc'[c] = "done" /\ ~deleting => session'[c].id \in attachments
    PROVE  StoreInv' /\ ClientInv'
    <1>0. waiting[c] \in Request
        BY Awaited
    <1>1. /\ StoreInv'
          /\ answer'[waiting[c]] = NoAnswer
          /\ \A s \in Request : s # waiting[c] => answer'[s] = answer[s]
          /\ waiting'[c] = None
          /\ \A d \in Client : d # c => waiting'[d] = waiting[d]
          /\ \A r, k, u, i : InFlight(r, k, u, i)' <=> InFlight(r, k, u, i)
          /\ \A d \in Client : d # c /\ waiting[d] # None => waiting[d] # waiting[c]
          /\ UNCHANGED <<deleting, attachments>>
        BY <1>0, ReadsEffect
    <1>2. \A d, e \in Client : waiting'[d] = waiting'[e] /\ waiting'[d] # None => d = e
        BY <1>1 DEF ClientInv
    <1>3. \A s \in Request : AnswerOK(s)'
        BY <1>1 DEF ClientInv, AnswerOK, NoAnswer
    <1>4. ASSUME NEW d \in Client PROVE CallOK(d)'
        <2>1. CallOK(d)
            BY DEF ClientInv
        <2>2. CASE d # c
            <3>1. /\ pc'[d] = pc[d] /\ session'[d] = session[d] /\ index'[d] = index[d]
                  /\ waiting'[d] = waiting[d]
                BY <1>1, <2>2
            <3>2. ASSUME NEW s \in Request, s = waiting[d], NEW k \in RequestKinds,
                         NEW v \in Upload \cup {None}, NEW j \in Index, InFlight(s, k, v, j)'
                  PROVE  About(d, k, v, j)'
                BY <1>1, <2>1, <3>1, <3>2 DEF CallOK, About
            <3>3. \A s \in Request : s = waiting[d] => answer'[s] = answer[s]
                BY <1>1, <2>2, UploadAssumption
            <3> QED
                BY <1>1, <2>1, <3>1, <3>2, <3>3 DEF CallOK
        <2>3. CASE d = c
            BY <1>1, <2>3, UploadAssumption DEF CallOK
        <2> QED
            BY <2>2, <2>3
    <1> QED
        BY <1>1, <1>2, <1>3, <1>4 DEF ClientInv

\* The answers a call reads: of a completed session, attached.
LEMMA ReadCompleted ==
    ASSUME ClientInv, NEW c \in Client, pc[c] \in Awaiting,
           answer[waiting[c]].code = "ok", View(c).status = "completed", ~deleting
    PROVE  /\ answer[waiting[c]].upload \in attachments
           /\ pc[c] \notin {"creating", "resuming"} => session[c].id \in attachments
    <1>1. PICK r \in Request : r = waiting[c]
        BY Awaited
    <1>2. AnswerOK(r) /\ CallOK(c)
        BY DEF ClientInv
    <1> QED
        BY <1>1, <1>2 DEF AnswerOK, CallOK, View

\* firstMissingIndex is a number.
LEMMA FirstMissingNat ==
    ASSUME NEW view \in Manifest
    PROVE  FirstMissing(view) \in Nat
    <1>1. IsFiniteSet(Index)
        BY FS_Interval, UploadAssumption DEF Index
    <1>2. view.received \subseteq Index
        BY DEF Manifest
    <1>3. IsFiniteSet(view.received)
        BY <1>1, <1>2, FS_Subset
    <1> QED
        BY <1>3, FS_CardinalityType DEF FirstMissing

\* The chunk that a call sends next is one of the file's.
LEMMA NextIndex ==
    ASSUME NEW view \in Manifest, FirstMissing(view) < Chunks
    PROVE  FirstMissing(view) \in Index
    BY FirstMissingNat, UploadAssumption DEF Index

\* The requests of a call keep ClientInv.
LEMMA ClientAsks ==
    ASSUME StoreInv, ClientInv, NEW c \in Client,
           \/ StartNew(c) \/ (\E u \in Upload : Resume(c, u)) \/ NextChunk(c) \/ AskComplete(c)
           \/ AskCheck(c) \/ PutAgain(c) \/ AskConfirm(c)
    PROVE  StoreInv' /\ ClientInv'
    <1>0. ClientTypeOK /\ 0 \in Index
        BY UploadAssumption DEF ClientInv, Index
    <1>1. session[c].id \in Upload \cup {None} /\ session[c].view \in Manifest
          /\ index[c] \in Index
        BY <1>0 DEF ClientTypeOK
    <1>2. {"create", "get", "put", "complete"} \subseteq RequestKinds
        BY DEF RequestKinds
    <1>3. \A state \in Awaiting : state \in {"creating", "resuming", "putting", "checking",
                                             "completing", "confirming"}
        BY DEF Awaiting
    <1>4. CASE StartNew(c)
        <2>1. Sought("creating") = "create" /\ "creating" \in Awaiting
            BY DEF Sought, Awaiting
        <2>2. /\ Ask(c, "create", None, 0, "creating") /\ UNCHANGED <<session, index, attempt>>
              /\ why' = [why EXCEPT ![c] = "none"]
            BY <1>4 DEF StartNew, Call
        <2> QED
            BY <1>0, <1>2, <2>1, <2>2, ClientAsk DEF ClientTypeOK
    <1>5. ASSUME NEW u \in Upload, Resume(c, u) PROVE StoreInv' /\ ClientInv'
        <2>1. Sought("resuming") = "get" /\ "resuming" \in Awaiting
            BY DEF Sought, Awaiting
        <2>2. /\ Ask(c, "get", u, 0, "resuming") /\ UNCHANGED <<session, index, attempt>>
              /\ why' = [why EXCEPT ![c] = "none"]
            BY <1>5 DEF Resume, Call
        <2> QED
            BY <1>0, <1>2, <2>1, <2>2, ClientAsk DEF ClientTypeOK
    <1>6. CASE NextChunk(c)
        <2>1. Sought("putting") = "put" /\ "putting" \in Awaiting
            BY DEF Sought, Awaiting
        <2>2. PICK i \in Index : i = FirstMissing(session[c].view)
            BY <1>1, <1>6, NextIndex DEF NextChunk
        <2>3. /\ Ask(c, "put", session[c].id, i, "putting") /\ UNCHANGED <<session, why>>
              /\ index' = [index EXCEPT ![c] = i] /\ attempt' = [attempt EXCEPT ![c] = 0]
            BY <1>6, <2>2 DEF NextChunk
        <2>4. /\ index' \in [Client -> Index] /\ index'[c] = i /\ attempt' \in [Client -> Nat]
              /\ \A d \in Client : d # c => index'[d] = index[d]
            BY <1>0, <2>3 DEF ClientTypeOK
        <2> QED
            BY <1>1, <1>2, <2>1, <2>3, <2>4, ClientAsk
    <1>7. CASE AskComplete(c)
        <2>1. Sought("completing") = "complete" /\ "completing" \in Awaiting
            BY DEF Sought, Awaiting
        <2> QED
            BY <1>0, <1>1, <1>2, <1>7, <2>1, ClientAsk DEF AskComplete, ClientTypeOK
    <1>8. CASE AskCheck(c)
        <2>1. Sought("checking") = "get" /\ "checking" \in Awaiting
            BY DEF Sought, Awaiting
        <2> QED
            BY <1>0, <1>1, <1>2, <1>8, <2>1, ClientAsk DEF AskCheck, ClientTypeOK
    <1>9. CASE PutAgain(c)
        <2>1. Sought("putting") = "put" /\ "putting" \in Awaiting
            BY DEF Sought, Awaiting
        <2> QED
            BY <1>0, <1>1, <1>2, <1>9, <2>1, ClientAsk DEF PutAgain, ClientTypeOK
    <1>10. CASE AskConfirm(c)
        <2>1. Sought("confirming") = "get" /\ "confirming" \in Awaiting
            BY DEF Sought, Awaiting
        <2> QED
            BY <1>0, <1>1, <1>2, <1>10, <2>1, ClientAsk DEF AskConfirm, ClientTypeOK
    <1> QED
        BY <1>4, <1>5, <1>6, <1>7, <1>8, <1>9, <1>10

\* An answer that is read, or lost, is read by the call that awaits it.
LEMMA ReadCases ==
    ASSUME StoreInv, ClientInv, NEW c \in Client, NEW state \in Awaiting, NEW code,
           Answered(c, state, code) \/ Lost(c, state)
    PROVE  Reads(c) /\ pc[c] = state /\ pc[c] \in Awaiting /\ waiting[c] \in Request
    BY Awaited DEF Answered, Lost, Reads, Fault, Awaiting

\* What an answer holds.
LEMMA ViewType ==
    ASSUME StoreInv, ClientInv, NEW c \in Client, pc[c] \in Awaiting
    PROVE  View(c) \in Manifest /\ answer[waiting[c]].upload \in Upload \cup {None}
    <1>1. waiting[c] \in Request
        BY Awaited
    <1>2. answer[waiting[c]] \in Answer
        BY <1>1 DEF StoreInv, TypeOK
    <1> QED
        BY <1>2 DEF View, Answer

\* The states a call can be in next.
LEMMA PcNames ==
    /\ {"idle", "loop", "put", "check", "confirm", "done", "failed"} \subseteq PcStates
    /\ {"idle", "loop", "put", "check", "confirm", "done", "failed"} \cap Awaiting = {}
    BY DEF PcStates, Awaiting

\* A call that fails.
LEMMA FailEffect ==
    ASSUME ClientTypeOK, NEW c \in Client,
           NEW reason \in {"no_session", "invalid_session", "session_cancelled", "refused",
                           "exhausted", "unconfirmed", "aborted"},
           Fail(c, reason)
    PROVE  /\ pc' \in [Client -> PcStates] /\ pc'[c] = "failed"
           /\ \A d \in Client : d # c => pc'[d] = pc[d]
           /\ why' \in [Client -> {"none", "no_session", "invalid_session", "session_cancelled",
                                   "refused", "exhausted", "unconfirmed", "aborted"}]
           /\ why'[c] = reason
           /\ \A d \in Client : d # c => why'[d] = why[d]
    BY PcNames DEF ClientTypeOK, Fail

\* A call that goes on, its reason for failing left alone.
LEMMA MoveEffect ==
    ASSUME ClientTypeOK, NEW c \in Client,
           NEW s \in {"idle", "loop", "put", "check", "confirm", "done", "failed"},
           pc' = [pc EXCEPT ![c] = s]
    PROVE  /\ pc' \in [Client -> PcStates] /\ pc'[c] = s
           /\ \A d \in Client : d # c => pc'[d] = pc[d]
    BY PcNames DEF ClientTypeOK

\* What becomes of a call that is given a session.
LEMMA AdoptEffect ==
    ASSUME ClientTypeOK, NEW c \in Client, NEW id \in Upload \cup {None},
           NEW view \in Manifest, Adopt(c, id, view)
    PROVE  /\ session' \in [Client -> [id : Upload \cup {None}, view : Manifest]]
           /\ session'[c].id = id /\ session'[c].view = view
           /\ \A d \in Client : d # c => session'[d] = session[d]
           /\ pc' \in [Client -> PcStates] /\ pc'[c] \in {"loop", "done", "failed"}
           /\ pc'[c] = "done" => view.status = "completed"
           /\ pc'[c] = "loop" => view.status = "active"
           /\ \A d \in Client : d # c => pc'[d] = pc[d]
           /\ why' \in [Client -> {"none", "no_session", "invalid_session", "session_cancelled",
                                   "refused", "exhausted", "unconfirmed", "aborted"}]
           /\ why'[c] # "exhausted" \/ why'[c] = why[c]
           /\ \A d \in Client : d # c => why'[d] = why[d]
    <1>1. /\ session' \in [Client -> [id : Upload \cup {None}, view : Manifest]]
          /\ session'[c].id = id /\ session'[c].view = view
          /\ \A d \in Client : d # c => session'[d] = session[d]
        <2> DEFINE s == [id |-> id, view |-> view]
        <2>1. s \in [id : Upload \cup {None}, view : Manifest] /\ s.id = id /\ s.view = view
            OBVIOUS
        <2>2. session' = [session EXCEPT ![c] = s]
            BY DEF Adopt
        <2> HIDE DEF s
        <2> QED
            BY <2>1, <2>2 DEF ClientTypeOK
    <1>2. CASE ~Valid(view) \/ view.status = "cancelled"
        <2>1. Fail(c, "invalid_session") \/ Fail(c, "session_cancelled")
            <3>1. CASE ~Valid(view)
                <4>1. view.status # "cancelled" /\ view.status # "completed"
                    BY <3>1 DEF Valid
                <4> QED
                    BY <3>1, <4>1, Zenon DEF Adopt
            <3>2. CASE view.status = "cancelled"
                <4>1. Valid(view) /\ view.status # "completed"
                    BY <3>2 DEF Valid
                <4> QED
                    BY <3>2, <4>1, Zenon DEF Adopt
            <3> QED
                BY <1>2, <3>1, <3>2
        <2> QED
            BY <1>1, <2>1, FailEffect
    <1>3. CASE Valid(view) /\ view.status # "cancelled"
        <2>1. /\ UNCHANGED why
              /\ \/ view.status = "completed" /\ pc' = [pc EXCEPT ![c] = "done"]
                 \/ view.status = "active" /\ pc' = [pc EXCEPT ![c] = "loop"]
            BY <1>3 DEF Adopt, Valid
        <2> QED
            BY <1>1, <2>1, MoveEffect DEF ClientTypeOK
    <1> QED
        BY <1>2, <1>3

\* The chunk is sent again, or given up.
LEMMA AgainEffect ==
    ASSUME ClientTypeOK, NEW c \in Client, Again(c)
    PROVE  /\ pc' \in [Client -> PcStates]
           /\ \A d \in Client : d # c => pc'[d] = pc[d]
           /\ why' \in [Client -> {"none", "no_session", "invalid_session", "session_cancelled",
                                   "refused", "exhausted", "unconfirmed", "aborted"}]
           /\ \A d \in Client : d # c => why'[d] = why[d]
           /\ attempt' \in [Client -> Nat]
           /\ \A d \in Client : d # c => attempt'[d] = attempt[d]
           /\ \/ /\ pc'[c] = "failed" /\ why'[c] = "exhausted" /\ attempt[c] = RetryAttempts
              \/ /\ pc'[c] = "put" /\ why'[c] = why[c] /\ attempt'[c] = attempt[c] + 1
    <1>1. CASE attempt[c] = RetryAttempts
        BY <1>1, FailEffect DEF Again, ClientTypeOK
    <1>2. CASE attempt[c] # RetryAttempts
        BY <1>2, MoveEffect DEF Again, ClientTypeOK
    <1> QED
        BY <1>1, <1>2

\* The answers that a call reads keep ClientInv.
LEMMA ClientReadsAll ==
    ASSUME StoreInv, ClientInv, NEW c \in Client,
           OnSession(c) \/ OnPut(c) \/ OnCheck(c) \/ OnComplete(c) \/ OnConfirm(c)
    PROVE  StoreInv' /\ ClientInv'
    <1>0. /\ ClientTypeOK
          /\ \A d \in Client : session[d].id \in Upload \cup {None}
        BY DEF ClientInv, ClientTypeOK
    <1> DEFINE Why == {"none", "no_session", "invalid_session", "session_cancelled",
                       "refused", "exhausted", "unconfirmed", "aborted"}
    \* The shape of every such step.
    <1>1. ASSUME NEW state \in Awaiting, NEW code,
                 Answered(c, state, code) \/ Lost(c, state),
                 UNCHANGED index,
                 pc' \in [Client -> PcStates], pc'[c] \notin Awaiting,
                 \A d \in Client : d # c => pc'[d] = pc[d] /\ session'[d] = session[d],
                 session' \in [Client -> [id : Upload \cup {None}, view : Manifest]],
                 attempt' \in [Client -> Nat], why' \in [Client -> Why],
                 pc'[c] = "done" /\ ~deleting => session'[c].id \in attachments
          PROVE  StoreInv' /\ ClientInv'
        <2>1. Reads(c) /\ pc[c] \in Awaiting /\ waiting[c] \in Request
            BY <1>1, ReadCases
        <2>2. waiting' \in [Client -> Request \cup {None}]
            BY <2>1, ReadsEffect
        <2>3. ClientTypeOK'
            BY <1>0, <1>1, <2>2 DEF ClientTypeOK
        <2> QED
            BY <1>1, <2>1, <2>3, ClientReads
    <1>2. ASSUME NEW state \in Awaiting, NEW code,
                 Answered(c, state, code) \/ Lost(c, state),
                 NEW reason \in Why \ {"none"}, Fail(c, reason), UNCHANGED <<session, index, attempt>>
          PROVE  StoreInv' /\ ClientInv'
        <2>1. /\ pc' \in [Client -> PcStates] /\ pc'[c] = "failed"
              /\ \A d \in Client : d # c => pc'[d] = pc[d]
              /\ why' \in [Client -> Why]
            BY <1>0, <1>2, FailEffect
        <2> QED
            BY <1>0, <1>1, <1>2, <2>1, PcNames DEF ClientTypeOK
    <1>3. ASSUME NEW state \in Awaiting, Answered(c, state, "ok"), UNCHANGED <<index, attempt>>,
                 NEW id \in Upload \cup {None}, Adopt(c, id, View(c)),
                 \/ state \in {"creating", "resuming"} /\ id = answer[waiting[c]].upload
                 \/ state \notin {"creating", "resuming"} /\ id = session[c].id
          PROVE  StoreInv' /\ ClientInv'
        <2>1. pc[c] \in Awaiting /\ pc[c] = state /\ answer[waiting[c]].code = "ok"
            BY <1>3 DEF Answered
        <2>2. View(c) \in Manifest
            BY <2>1, ViewType
        <2>3. PICK view \in Manifest : view = View(c)
            BY <2>2
        <2>4. /\ session' \in [Client -> [id : Upload \cup {None}, view : Manifest]]
              /\ session'[c].id = id
              /\ \A d \in Client : d # c => session'[d] = session[d]
              /\ pc' \in [Client -> PcStates] /\ pc'[c] \in {"loop", "done", "failed"}
              /\ pc'[c] = "done" => view.status = "completed"
              /\ \A d \in Client : d # c => pc'[d] = pc[d]
              /\ why' \in [Client -> Why]
            BY <1>0, <1>3, <2>3, AdoptEffect
        <2>5. pc'[c] = "done" /\ ~deleting => session'[c].id \in attachments
            BY <1>3, <2>1, <2>3, <2>4, ReadCompleted
        <2> QED
            BY <1>0, <1>1, <1>3, <2>4, <2>5, PcNames DEF ClientTypeOK
    <1> HIDE DEF Why
    <1>4. CASE OnSession(c)
        <2>1. PICK state \in {"creating", "resuming"} :
                 \/ Answered(c, state, "ok") /\ Adopt(c, answer[waiting[c]].upload, View(c))
                 \/ /\ Reconciliable(c, state) \/ Answered(c, state, "fatal")
                    /\ Fail(c, "no_session") /\ UNCHANGED session
            BY <1>4 DEF OnSession
        <2>2. state \in Awaiting /\ UNCHANGED <<index, attempt>>
            BY <1>4 DEF OnSession, Awaiting
        <2>3. CASE Answered(c, state, "ok") /\ Adopt(c, answer[waiting[c]].upload, View(c))
            <3>1. pc[c] \in Awaiting
                BY <2>2, <2>3 DEF Answered
            <3>2. answer[waiting[c]].upload \in Upload \cup {None}
                BY <3>1, ViewType
            <3> QED
                BY <1>3, <2>2, <2>3, <3>2
        <2> QED
            BY <1>2, <2>1, <2>2, <2>3 DEF Reconciliable, Why
    <1>5. CASE OnPut(c)
        <2>0. "putting" \in Awaiting /\ UNCHANGED <<index, attempt>>
            BY <1>5 DEF OnPut, Awaiting
        <2>1. CASE Answered(c, "putting", "ok") /\ Adopt(c, session[c].id, View(c))
            BY <1>0, <1>3, <2>0, <2>1
        <2>2. CASE /\ Reconciliable(c, "putting") /\ pc' = [pc EXCEPT ![c] = "check"]
                   /\ UNCHANGED <<session, why>>
            <3>1. /\ pc' \in [Client -> PcStates] /\ pc'[c] = "check"
                  /\ \A d \in Client : d # c => pc'[d] = pc[d]
                BY <1>0, <2>2, MoveEffect
            <3> QED
                BY <1>0, <1>1, <2>0, <2>2, <3>1, PcNames DEF Reconciliable, ClientTypeOK, Why
        <2>3. CASE Answered(c, "putting", "fatal") /\ Fail(c, "refused") /\ UNCHANGED session
            BY <1>2, <2>0, <2>3 DEF Why
        <2> QED
            BY <1>5, <2>1, <2>2, <2>3 DEF OnPut
    <1>6. CASE OnCheck(c)
        <2>0. "checking" \in Awaiting /\ UNCHANGED index
            BY <1>6 DEF OnCheck, Awaiting
        <2>1. CASE /\ Answered(c, "checking", "ok") /\ Adopt(c, session[c].id, View(c))
                   /\ UNCHANGED attempt
            BY <1>0, <1>3, <2>0, <2>1
        <2>2. ASSUME NEW code, Answered(c, "checking", code) \/ Lost(c, "checking"), Again(c),
                     session' \in [Client -> [id : Upload \cup {None}, view : Manifest]],
                     \A d \in Client : d # c => session'[d] = session[d]
              PROVE  StoreInv' /\ ClientInv'
            <3>1. /\ pc' \in [Client -> PcStates] /\ pc'[c] \in {"failed", "put"}
                  /\ \A d \in Client : d # c => pc'[d] = pc[d]
                  /\ why' \in [Client -> Why] /\ attempt' \in [Client -> Nat]
                BY <1>0, <2>2, AgainEffect DEF Why
            <3> QED
                BY <1>1, <2>0, <2>2, <3>1, PcNames
        <2>3. CASE /\ Answered(c, "checking", "ok") /\ Again(c)
                   /\ session' = [session EXCEPT ![c].view = View(c)]
            <3>1. View(c) \in Manifest
                BY <2>0, <2>3, ViewType DEF Answered
            <3>2. PICK view \in Manifest : view = View(c)
                BY <3>1
            <3>3. session' = [session EXCEPT ![c].view = view]
                BY <2>3, <3>2
            <3>4. session' \in [Client -> [id : Upload \cup {None}, view : Manifest]]
                  /\ \A d \in Client : d # c => session'[d] = session[d]
                BY <1>0, <3>3 DEF ClientTypeOK
            <3> QED
                BY <2>2, <2>3, <3>4
        <2>4. CASE Reconciliable(c, "checking") /\ Again(c) /\ UNCHANGED session
            BY <1>0, <2>2, <2>4 DEF Reconciliable, ClientTypeOK
        <2>5. CASE /\ Answered(c, "checking", "fatal") \/ Answered(c, "checking", "ok")
                   /\ Fail(c, "refused") /\ UNCHANGED <<session, attempt>>
            BY <1>2, <2>0, <2>5 DEF Why
        <2> QED
            BY <1>6, <2>1, <2>3, <2>4, <2>5 DEF OnCheck
    <1>7. ASSUME NEW state \in {"completing", "confirming"}, Answered(c, state, "ok"),
                 state = "confirming" => View(c).status = "completed",
                 pc' = [pc EXCEPT ![c] = "done"], UNCHANGED <<why, session, index, attempt>>
          PROVE  StoreInv' /\ ClientInv'
        <2>0. state \in Awaiting
            BY <1>7 DEF Awaiting
        <2>1. pc[c] = state /\ pc[c] \in Awaiting /\ answer[waiting[c]].code = "ok"
            BY <1>7, <2>0 DEF Answered
        <2>2. View(c).status = "completed"
            <3>1. waiting[c] \in Request /\ CallOK(c)
                BY <2>1, Awaited DEF ClientInv
            <3> QED
                BY <1>7, <2>1, <3>1 DEF CallOK, View
        <2>3. ~deleting => session[c].id \in attachments
            BY <1>7, <2>1, <2>2, ReadCompleted
        <2>4. /\ pc' \in [Client -> PcStates] /\ pc'[c] = "done"
              /\ \A d \in Client : d # c => pc'[d] = pc[d]
            BY <1>0, <1>7, MoveEffect
        <2> QED
            BY <1>0, <1>1, <1>7, <2>0, <2>3, <2>4, PcNames DEF ClientTypeOK, Why
    <1>8. CASE OnComplete(c)
        <2>0. "completing" \in Awaiting /\ UNCHANGED <<session, index, attempt>>
            BY <1>8 DEF OnComplete, Awaiting
        <2>1. CASE /\ Answered(c, "completing", "ok") /\ pc' = [pc EXCEPT ![c] = "done"]
                   /\ UNCHANGED why
            BY <1>7, <2>0, <2>1
        <2>2. CASE /\ Reconciliable(c, "completing") /\ pc' = [pc EXCEPT ![c] = "confirm"]
                   /\ UNCHANGED why
            <3>1. /\ pc' \in [Client -> PcStates] /\ pc'[c] = "confirm"
                  /\ \A d \in Client : d # c => pc'[d] = pc[d]
                BY <1>0, <2>2, MoveEffect
            <3> QED
                BY <1>0, <1>1, <2>0, <2>2, <3>1, PcNames DEF Reconciliable, ClientTypeOK, Why
        <2>3. CASE Answered(c, "completing", "fatal") /\ Fail(c, "refused")
            BY <1>2, <2>0, <2>3 DEF Why
        <2> QED
            BY <1>8, <2>1, <2>2, <2>3 DEF OnComplete
    <1>9. CASE OnConfirm(c)
        <2>0. "confirming" \in Awaiting /\ UNCHANGED <<session, index, attempt>>
            BY <1>9 DEF OnConfirm, Awaiting
        <2>1. CASE /\ Answered(c, "confirming", "ok") /\ View(c).status = "completed"
                   /\ pc' = [pc EXCEPT ![c] = "done"] /\ UNCHANGED why
            BY <1>7, <2>0, <2>1
        <2>2. CASE /\ \/ Answered(c, "confirming", "ok") \/ Answered(c, "confirming", "fatal")
                      \/ Reconciliable(c, "confirming")
                   /\ Fail(c, "unconfirmed")
            BY <1>2, <2>0, <2>2 DEF Reconciliable, Why
        <2> QED
            BY <1>9, <2>1, <2>2 DEF OnConfirm
    <1> QED
        BY <1>4, <1>5, <1>6, <1>8, <1>9

\* Abort, cancellation and deletion keep ClientInv.
LEMMA ClientUserActs ==
    ASSUME StoreInv, ClientInv,
           \/ \E c \in Client : Abort(c)
           \/ \E u \in Upload : CancelUpload(u)
           \/ DeleteThread
    PROVE  StoreInv' /\ ClientInv'
    <1>0. ClientTypeOK
        BY DEF ClientInv
    <1>1. ASSUME NEW c \in Client, Abort(c) PROVE StoreInv' /\ ClientInv'
        <2>1. /\ UNCHANGED <<storeVars, session, index, attempt>> /\ Fail(c, "aborted")
              /\ waiting' = [waiting EXCEPT ![c] = None]
            BY <1>1 DEF Abort
        <2>2. StoreInv'
            BY <2>1, AnswerOnly DEF storeVars, StoreInv, TypeOK
        <2>3. /\ pc' \in [Client -> PcStates] /\ pc'[c] = "failed"
              /\ \A d \in Client : d # c => pc'[d] = pc[d]
              /\ why' \in [Client -> {"none", "no_session", "invalid_session", "session_cancelled",
                                      "refused", "exhausted", "unconfirmed", "aborted"}]
            BY <1>0, <2>1, FailEffect
        <2>4. /\ waiting' \in [Client -> Request \cup {None}] /\ waiting'[c] = None
              /\ \A d \in Client : d # c => waiting'[d] = waiting[d]
            BY <1>0, <2>1 DEF ClientTypeOK
        <2>5. ClientTypeOK'
            BY <1>0, <2>1, <2>3, <2>4 DEF ClientTypeOK
        <2>6. UNCHANGED <<inbox, writers, op, answer, deleting, attachments>>
            BY <2>1 DEF storeVars, chatVars
        <2>7. \A r \in Request : AnswerOK(r)'
            BY <2>6 DEF ClientInv, AnswerOK
        <2>8. ASSUME NEW d \in Client PROVE CallOK(d)'
            <3>1. CallOK(d)
                BY DEF ClientInv
            <3>2. \A r, k, u, i : InFlight(r, k, u, i)' <=> InFlight(r, k, u, i)
                BY <2>6 DEF InFlight
            <3>3. CASE d # c
                <4>1. \A k, u, i : About(d, k, u, i)' <=> About(d, k, u, i)
                    BY <2>1, <2>3, <3>3 DEF About
                <4> QED
                    BY <2>1, <2>3, <2>4, <2>6, <3>1, <3>2, <3>3, <4>1 DEF CallOK
            <3>4. CASE d = c
                BY <2>3, <2>4, <3>4, PcNames, UploadAssumption DEF CallOK
            <3> QED
                BY <3>3, <3>4
        <2>9. \A d, e \in Client : waiting'[d] = waiting'[e] /\ waiting'[d] # None => d = e
            BY <2>4 DEF ClientInv
        <2> QED
            BY <2>2, <2>5, <2>7, <2>8, <2>9 DEF ClientInv
    <1>2. ASSUME NEW kind \in {"cancel", "delete"}, NEW u \in Upload \cup {None}, UserAct(kind, u)
          PROVE  StoreInv' /\ ClientInv'
        <2>1. /\ CanSend /\ Send([req |-> Slot, kind |-> kind, upload |-> u, index |-> 0])
              /\ UNCHANGED <<pc, session, index, attempt, waiting, why>>
            BY <1>2 DEF UserAct
        <2>2. PICK r \in Request : r = Slot /\ \A d \in Client : waiting[d] # r
            BY <2>1, SlotFree
        <2> DEFINE q == [req |-> r, kind |-> kind, upload |-> u, index |-> 0]
        <2>3. q \in Message /\ q.req = r /\ Send(q)
            BY <2>1, <2>2, UploadAssumption DEF Message, RequestKinds, Index
        <2> HIDE DEF q
        <2>4. StoreInv'
            BY <2>3, SendStep
        <2>5. /\ answer'[r] = NoAnswer /\ \A s \in Request : s # r => answer'[s] = answer[s]
              /\ UNCHANGED <<deleting, attachments>>
            BY <2>3, SendEffect DEF chatVars
        <2>6. \A s \in Request, k \in RequestKinds, v \in Upload \cup {None}, i \in Index :
                 s # r => (InFlight(s, k, v, i)' <=> InFlight(s, k, v, i))
            BY <2>3, SendEffect
        <2>7. \A s \in Request : AnswerOK(s)'
            BY <2>5 DEF ClientInv, AnswerOK, NoAnswer
        <2>8. ASSUME NEW d \in Client PROVE CallOK(d)'
            <3>1. CallOK(d) /\ waiting[d] # r
                BY <2>2 DEF ClientInv
            <3>2. \A k, v, i : About(d, k, v, i)' <=> About(d, k, v, i)
                BY <2>1 DEF About
            <3> QED
                BY <2>1, <2>5, <2>6, <3>1, <3>2 DEF CallOK
        <2>9. ClientTypeOK'
            BY <1>0, <2>1 DEF ClientTypeOK
        <2> QED
            BY <2>1, <2>4, <2>7, <2>8, <2>9 DEF ClientInv
    <1> QED
        BY <1>1, <1>2 DEF CancelUpload, DeleteThread

\* Every step keeps StoreInv and ClientInv.
LEMMA ClientNext ==
    ASSUME StoreInv, ClientInv, Next
    PROVE  StoreInv' /\ ClientInv'
    <1>1. CASE StoreStep /\ UNCHANGED clientVars
        BY <1>1, StoreStepKeeps, StoreSeen, ClientStore
    <1>2. CASE Crash /\ UNCHANGED clientVars
        BY <1>2, CrashStep, ClientCrash
    <1> QED
        BY <1>1, <1>2, ClientAsks, ClientReadsAll, ClientUserActs DEF Next, ClientStep

\* ClientInv holds of calls that were not made.
LEMMA ClientInit == Init => StoreInv /\ ClientInv
    <1> SUFFICES ASSUME Init PROVE StoreInv /\ ClientInv
        OBVIOUS
    <1>1. StoreInv
        BY StoreInvInit DEF Init
    <1>2. ClientTypeOK
        <2>1. NoManifest \in Manifest /\ 0 \in Index /\ "idle" \in PcStates
            BY UploadAssumption, PcNames DEF NoManifest, Manifest, Index
        <2> QED
            BY <2>1 DEF Init, ClientTypeOK
    <1>3. \A r \in Request : AnswerOK(r)
        BY DEF Init, StoreInit, AnswerOK, NoAnswer
    <1>4. \A c \in Client : CallOK(c)
        BY UploadAssumption, PcNames DEF Init, CallOK
    <1> QED
        BY <1>1, <1>2, <1>3, <1>4 DEF ClientInv, Init

\* Both invariants hold in every reachable state.
LEMMA ClientInvHolds == Spec => [](StoreInv /\ ClientInv)
    <1>1. StoreInv /\ ClientInv /\ [Next]_vars => (StoreInv /\ ClientInv)'
        <2> SUFFICES ASSUME StoreInv, ClientInv, [Next]_vars PROVE StoreInv' /\ ClientInv'
            OBVIOUS
        <2>1. CASE UNCHANGED vars
            <3>1. StoreInv'
                BY <2>1, AnswerOnly DEF vars, storeVars, StoreInv, TypeOK
            <3>2. FlightKept /\ faults' = faults /\ UNCHANGED <<deleting, attachments>>
                BY <2>1 DEF vars, storeVars, chatVars, FlightKept, InFlight
            <3>3. Seen /\ UNCHANGED clientVars
                BY <2>1, <3>2 DEF Seen, StoreInv, TypeOK, vars
            <3> QED
                BY <3>1, <3>3, ClientStore
        <2> QED
            BY <2>1, ClientNext
    <1> QED
        BY <1>1, ClientInit, PTL DEF Spec

\* The store under the browser's calls: an open session has a prefix of the
\* chunks; until delete_thread begins it also has the files of them, a
\* completed session its attachment, a writer of an active session its part
\* and an attachment of the chat its published file (unless its save was ever
\* pending), whatever write raised and wherever the Bridge died (storage.py's
\* upload sessions).
THEOREM AttachmentsBacked == Spec => []UploadBacked
    BY ClientInvHolds, StoreInvBacks, PTL

\* A call of uploadResumableFile that returns has its file attached, and the
\* journal has one attachment.added per attached upload: for any number of
\* callers, chunks, retries, lost answers, crashes and raising writes.
THEOREM SuccessAttachedOnce == Spec => []SuccessIsAttachedOnce
    <1>1. StoreInv /\ ClientInv => SuccessIsAttachedOnce
        BY DEF StoreInv, SessionOK, ClientInv, CallOK, SuccessIsAttachedOnce
    <1> QED
        BY <1>1, ClientInvHolds, PTL

-----------------------------------------------------------------------------
(* ChargeInv: a session only goes forward.                                 *)

Past == {"completed", "cancelled", "gone"}

\* No step takes a chunk back from an open session, or reopens one that is
\* past; only a cancellation makes one cancelled.
Forward(u) ==
    /\ Status(u) \in Past => Status(u)' \in Past
    /\ Status(u) \in Open => \/ Status(u)' \in Past
                             \/ Status(u)' \in Open /\ Received(u) \subseteq Received(u)'
    /\ Status(u)' = "cancelled" =>
          Status(u) = "cancelled" \/ (op # None /\ op.kind = "cancel")

\* Every session goes forward in every step of the store.
LEMMA StoreForward ==
    ASSUME StoreInv, StoreStep \/ Crash, NEW v \in Upload
    PROVE  Forward(v)
    <1>0. TypeOK /\ manifest[v] \in Manifest /\ SessionOK(v)
        BY DEF StoreInv, TypeOK
    <1>1. ASSUME manifest'[v] = manifest[v] PROVE Forward(v)
        BY <1>1 DEF Forward, Status, Received
    <1>2. CASE UNCHANGED manifest
        BY <1>1, <1>2
    <1>3. ASSUME NEW q, Create(q) PROVE Forward(v)
        <2> DEFINE fresh == [status |-> "active", received |-> {}]
        <2> HIDE DEF fresh
        <2>1. \/ UNCHANGED manifest
              \/ \E old \in SUBSET Terminal :
                    /\ Reap(old)
                    /\ \/ manifest' = Reaped(old)
                       \/ \E u \in Upload : /\ Status(u) = "absent"
                                            /\ manifest' = [Reaped(old) EXCEPT ![u] = fresh]
            BY <1>3 DEF Create, fresh
        <2>2. ASSUME NEW old \in SUBSET Terminal, Reap(old), manifest'[v] = Reaped(old)[v]
              PROVE  Forward(v)
            <3>1. /\ Status(v) \in Open \cup {"absent", "gone"} => manifest'[v] = manifest[v]
                  /\ Status(v) \in Closed => manifest'[v].status \in {Status(v), "gone"}
                BY <2>2, ReapEffect
            <3>2. CASE Status(v) \in Closed
                BY <3>1, <3>2 DEF Forward, Past, Status, Open, Closed
            <3>3. CASE Status(v) \notin Closed
                BY <1>0, <1>1, <3>1, <3>3 DEF Status, Manifest
            <3> QED
                BY <3>2, <3>3
        <2>3. ASSUME NEW old \in SUBSET Terminal, Reap(old), NEW u \in Upload,
                     Status(u) = "absent", manifest' = [Reaped(old) EXCEPT ![u] = fresh]
              PROVE  Forward(v)
            <3>1. Reaped(old) \in [Upload -> Manifest]
                BY <2>3, ReapEffect
            <3>2. CASE v = u
                <4>1. Status(v)' = "active"
                    BY <2>3, <3>1, <3>2 DEF Status, fresh
                <4> QED
                    BY <2>3, <3>2, <4>1 DEF Forward, Past, Open
            <3>3. CASE v # u
                BY <2>2, <2>3, <3>1, <3>3
            <3> QED
                BY <3>2, <3>3
        <2> QED
            BY <1>2, <2>1, <2>2, <2>3
    <1>4. ASSUME NEW q, Handle(q) PROVE Forward(v)
        BY <1>2, <1>3, <1>4 DEF Handle, Get, Begin, Complete, Cancel, Delete, RefuseRequest,
           diskVars
    <1>5. ASSUME NEW w, FinishChunk(w) \/ FinishRefused(w) \/ AbortChunk(w) PROVE Forward(v)
        BY <1>2, <1>5 DEF FinishChunk, FinishRefused, AbortChunk
    <1>6. ASSUME NEW s \in Open \cup Closed, NEW next \in Steps, op.upload \in Upload,
                 StatusWrite(s, next),
                 Status(op.upload) \in Past => s \in Past,
                 s = "cancelled" => op.kind = "cancel"
          PROVE  Forward(v)
        <2>1. /\ Received(v)' = Received(v) /\ Status(v)' \in {Status(v), s}
              /\ v # op.upload => Status(v)' = Status(v)
            BY <1>6, StatusWriteEffect
        <2>2. op # None
            BY <1>6 DEF StatusWrite
        <2> QED
            BY <1>6, <2>1, <2>2 DEF Forward, Past, Open, Closed
    <1>7. CASE Announce
        <2>1. op # None /\ op.step = "announce" /\ StatusWrite("publishing", "publish")
            BY <1>7 DEF Announce, StatusWrite
        <2>2. op.upload \in Upload /\ Status(op.upload) \in Open
            BY <2>1 DEF StoreInv, OpOK
        <2> QED
            BY <1>6, <2>1, <2>2 DEF Open, Past, Steps
    <1>8. CASE Settle
        <2>1. op # None /\ op.step = "settle" /\ StatusWrite("completed", "clear")
            BY <1>8 DEF Settle, StatusWrite
        <2>2. op.upload \in Upload
            BY <2>1 DEF StoreInv, OpOK
        <2> QED
            BY <1>6, <2>1, <2>2 DEF Closed, Past, Steps
    <1>9. CASE Tombstone
        <2>1. op # None /\ op.step = "tombstone" /\ StatusWrite("cancelled", "undo")
            BY <1>9 DEF Tombstone, StatusWrite
        <2>2. op.upload \in Upload /\ op.kind = "cancel"
            BY <2>1 DEF StoreInv, OpOK
        <2> QED
            BY <1>6, <2>1, <2>2 DEF Closed, Past, Steps
    <1>10. CASE RecordChunk
        <2> DEFINE u == op.upload
                   m == [manifest[u] EXCEPT !.received = @ \cup {op.index}]
        <2>1. op # None /\ op.step = "record" /\ (Write(u, m) \/ WriteRaises(u, m))
            BY <1>10 DEF RecordChunk
        <2>2. u \in Upload /\ manifest[u] \in Manifest /\ op.index \in Index
            BY <2>1, HolderFacts
        <2>3. m \in Manifest /\ m.status = Status(u) /\ Received(u) \subseteq m.received
            BY <2>2 DEF Manifest, Status, Received
        <2> HIDE DEF m, u
        <2>4. /\ manifest'[u] = m \/ manifest'[u] = manifest[u]
              /\ v # u => manifest'[v] = manifest[v]
            BY <1>0, <2>1, <2>2, <2>3, WriteEffect, WriteRaisesEffect
        <2>5. CASE v = u /\ manifest'[u] = m
            BY <2>3, <2>5 DEF Forward, Status, Received
        <2> QED
            BY <1>1, <2>4, <2>5
    <1>11. CASE Publish
        <2> DEFINE u == op.upload
                   m == [manifest[u] EXCEPT !.status = "active"]
        <2>1. op # None /\ op.step = "publish" /\ (UNCHANGED manifest \/ Write(u, m))
            BY <1>11 DEF Publish
        <2>2. u \in Upload /\ manifest[u] \in Manifest /\ Status(u) = "publishing"
            BY <2>1, HolderFacts DEF StoreInv, OpOK
        <2>3. m \in Manifest /\ m.status = "active" /\ m.received = Received(u)
            BY <2>2, NewManifest DEF Open, Received
        <2> HIDE DEF m, u
        <2>4. CASE Write(u, m)
            <3>1. manifest'[u] = m /\ (v # u => manifest'[v] = manifest[v])
                BY <1>0, <2>2, <2>3, <2>4, WriteEffect
            <3>2. CASE v = u
                BY <2>2, <2>3, <3>1, <3>2 DEF Forward, Status, Received, Open, Past
            <3> QED
                BY <1>1, <3>1, <3>2
        <2> QED
            BY <1>2, <2>1, <2>4
    <1>12. CASE Forget
        <2> DEFINE u == op.upload
                   m == [manifest[u] EXCEPT !.received = {}]
        <2>1. op # None /\ op.step = "forget" /\ (Write(u, m) \/ WriteRaises(u, m))
            BY <1>12 DEF Forget
        <2>2. u \in Upload /\ manifest[u] \in Manifest /\ Status(u) \in Closed
            BY <2>1, HolderFacts DEF StoreInv, OpOK
        <2>3. m \in Manifest /\ m.status = Status(u)
            BY <2>2, NewManifest DEF Status
        <2> HIDE DEF m, u
        <2>4. /\ manifest'[u] = m \/ manifest'[u] = manifest[u]
              /\ v # u => manifest'[v] = manifest[v]
            BY <1>0, <2>1, <2>2, <2>3, WriteEffect, WriteRaisesEffect
        <2>5. CASE v = u /\ manifest'[u] = m
            BY <2>2, <2>3, <2>5 DEF Forward, Status, Open, Closed
        <2> QED
            BY <1>1, <2>4, <2>5
    <1>13. CASE DeleteManifest
        <2>1. /\ Write(op.upload, Gone) /\ Gone \in Manifest /\ Gone.status = "gone"
              /\ op # None /\ op.step = "manifest"
            BY <1>13 DEF DeleteManifest, Gone, Manifest
        <2>2. PICK u \in Upload : u = op.upload
            BY <2>1 DEF StoreInv, OpOK
        <2>3. manifest'[u] = Gone /\ (v # u => manifest'[v] = manifest[v])
            BY <1>0, <2>1, <2>2, WriteEffect
        <2>4. CASE v = u
            BY <2>1, <2>3, <2>4 DEF Forward, Status, Past
        <2> QED
            BY <1>1, <2>3, <2>4
    <1>14. CASE \/ Save \/ UnlinkPayload \/ Clear \/ Undo \/ DeleteChat \/ DeleteRaises
                \/ (\E u \in Upload : DeleteSession(u)) \/ ApplyLate \/ Crash
        BY <1>2, <1>14 DEF Save, UnlinkPayload, Clear, Undo, DeleteSession, DeleteChat,
           DeleteRaises, ApplyLate, Crash, diskVars
    <1> QED
        BY <1>4, <1>5, <1>7, <1>8, <1>9, <1>10, <1>11, <1>12, <1>13, <1>14
        DEF StoreStep, Proceed

\* A chunk that landed stays, and so does a prefix.
LEMMA ForwardKeeps ==
    ASSUME NEW u \in Upload, Forward(u)
    PROVE  /\ \A i : Landed(u, i) => Landed(u, i)'
           /\ \A n : Ahead(u, n) => Ahead(u, n)'
    BY DEF Forward, Landed, Ahead, Past

\* What stays true of a call while it does nothing itself.
LEMMA ChargeBase ==
    ASSUME ClientTypeOK, StoreInv, NEW d \in Client, ChargeOK(d), \A u \in Upload : Forward(u),
           pc'[d] = pc[d], session'[d] = session[d], index'[d] = index[d],
           attempt'[d] = attempt[d], why'[d] = why[d],
           faults' \in Nat, faults <= faults', Disturbed => Disturbed'
    PROVE  /\ Charged(d) => Charged(d)'
           /\ pc[d] \in Sending \cup {"loop"} => session[d].id \in Upload
           /\ pc[d] = "loop" => Ahead(session[d].id, FirstMissing(session[d].view))'
           /\ pc[d] \in Sending => /\ Ahead(session[d].id, index[d])'
                                   /\ Landed(session[d].id, index[d]) => Landed(session[d].id, index[d])'
                                   /\ Disturbed' \/ attempt'[d] <= faults'
           /\ why'[d] = "exhausted" => faults' > RetryAttempts \/ Disturbed'
    <1>0. faults \in Nat /\ attempt[d] \in Nat
        BY DEF ClientTypeOK, StoreInv, TypeOK
    <1>1. Charged(d) => Charged(d)'
        BY <1>0 DEF Charged
    <1>2. /\ pc[d] \in Sending \cup {"loop"} => session[d].id \in Upload
          /\ pc[d] = "loop" => Ahead(session[d].id, FirstMissing(session[d].view))
          /\ pc[d] \in Sending => Ahead(session[d].id, index[d])
        BY DEF ChargeOK
    <1>3. pc[d] = "loop" => Ahead(session[d].id, FirstMissing(session[d].view))'
        <2>1. SUFFICES ASSUME pc[d] = "loop"
                       PROVE  Ahead(session[d].id, FirstMissing(session[d].view))'
            OBVIOUS
        <2>2. PICK u \in Upload : u = session[d].id
            BY <1>2, <2>1
        <2>3. PICK n : n = FirstMissing(session[d].view)
            OBVIOUS
        <2>4. Ahead(u, n)'
            BY <1>2, <2>1, <2>2, <2>3, ForwardKeeps
        <2> QED
            BY <2>2, <2>3, <2>4 DEF Ahead, FirstMissing, Status, Received
    <1>4. pc[d] \in Sending => /\ Ahead(session[d].id, index[d])'
                               /\ Landed(session[d].id, index[d]) => Landed(session[d].id, index[d])'
        <2>1. SUFFICES ASSUME pc[d] \in Sending
                       PROVE  /\ Ahead(session[d].id, index[d])'
                              /\ Landed(session[d].id, index[d]) => Landed(session[d].id, index[d])'
            OBVIOUS
        <2>2. PICK u \in Upload : u = session[d].id
            BY <1>2, <2>1
        <2>3. PICK i : i = index[d]
            OBVIOUS
        <2>4. Ahead(u, i)' /\ (Landed(u, i) => Landed(u, i)')
            BY <1>2, <2>1, <2>2, <2>3, ForwardKeeps
        <2> QED
            BY <2>2, <2>3, <2>4 DEF Ahead, Landed, Status, Received
    <1>5. pc[d] \in Sending => Disturbed' \/ attempt'[d] <= faults'
        BY <1>0 DEF ChargeOK
    <1>6. why'[d] = "exhausted" => faults' > RetryAttempts \/ Disturbed'
        BY <1>0, ClientAssumption DEF ChargeOK
    <1> QED
        BY <1>1, <1>2, <1>3, <1>4, <1>5, <1>6

\* What a step may do to a call that takes no part in it.
LEMMA ChargeFrame ==
    ASSUME ClientTypeOK, StoreInv, NEW d \in Client, ChargeOK(d), \A u \in Upload : Forward(u),
           pc'[d] = pc[d], session'[d] = session[d], index'[d] = index[d],
           attempt'[d] = attempt[d], why'[d] = why[d], waiting'[d] = waiting[d],
           faults' \in Nat, faults <= faults', Disturbed => Disturbed',
           \A r \in Request : r = waiting[d] =>
              answer'[r] = answer[r] /\ (Dropped(r)' => Dropped(r))
    PROVE  ChargeOK(d)'
    <1>1. /\ Charged(d) => Charged(d)'
          /\ pc[d] \in Sending \cup {"loop"} => session[d].id \in Upload
          /\ pc[d] = "loop" => Ahead(session[d].id, FirstMissing(session[d].view))'
          /\ pc[d] \in Sending => /\ Ahead(session[d].id, index[d])'
                                  /\ Landed(session[d].id, index[d]) => Landed(session[d].id, index[d])'
                                  /\ Disturbed' \/ attempt'[d] <= faults'
          /\ why'[d] = "exhausted" => faults' > RetryAttempts \/ Disturbed'
        BY ChargeBase
    <1>2. ASSUME NEW r \in Request, r = waiting'[d]
          PROVE  /\ pc'[d] = "putting" /\ (answer'[r].code = "retry" \/ Dropped(r)') =>
                       Charged(d)' \/ Landed(session[d].id, index[d])'
                 /\ pc'[d] = "checking" /\ (answer'[r].code = "retry" \/ Dropped(r)') => Charged(d)'
                 /\ pc'[d] = "checking" /\ answer'[r].code = "ok" =>
                       Charged(d)' \/ ViewLanded(answer'[r].view, index'[d])
        BY <1>1, <1>2 DEF ChargeOK, Sending
    <1> QED
        BY <1>1, <1>2 DEF ChargeOK, ViewLanded, Sending

\* A request that vanished is one that no part of the store will answer.
LEMMA VanishedDropped ==
    ASSUME NEW r \in Request, Vanished(r)
    PROVE  Dropped(r)
    BY DEF Vanished, Dropped, InFlight, Holder

\* The first missing index of a session that has its first n chunks.
LEMMA PrefixSize ==
    ASSUME NEW n \in 0..Chunks
    PROVE  Cardinality(0..(n - 1)) = n
    <1>1. n \in Nat /\ n - 1 \in Int
        BY UploadAssumption
    <1> QED
        BY <1>1, FS_Interval

\* An answer that is not touched stays true while sessions go forward.
LEMMA ViewFrame ==
    ASSUME NEW r \in Request, ViewOK(r), \A u \in Upload : Forward(u),
           answer'[r] = answer[r], Disturbed => Disturbed'
    PROVE  ViewOK(r)'
    <1> SUFFICES ASSUME answer[r].code = "ok"
                 PROVE  /\ answer[r].view.status = "active" =>
                              /\ answer[r].upload \in Upload
                              /\ Ahead(answer[r].upload, FirstMissing(answer[r].view))'
                        /\ answer[r].view.status = "cancelled" => Disturbed'
        BY DEF ViewOK
    <1>1. SUFFICES ASSUME answer[r].view.status = "active"
                   PROVE  Ahead(answer[r].upload, FirstMissing(answer[r].view))'
        BY DEF ViewOK
    <1>2. PICK u \in Upload : u = answer[r].upload
        BY <1>1 DEF ViewOK
    <1>3. PICK n : n = FirstMissing(answer[r].view)
        OBVIOUS
    <1>4. Ahead(u, n)'
        BY <1>1, <1>2, <1>3, ForwardKeeps DEF ViewOK
    <1> QED
        BY <1>2, <1>3, <1>4 DEF Ahead, FirstMissing, Status, Received

\* An answer just given is true.
LEMMA ViewGiven ==
    ASSUME StoreInv', NEW r \in Request, NEW k, NEW u, Given(r, k, u)', k # "delete",
           \A v \in Upload : Status(v)' = "cancelled" => Disturbed'
    PROVE  ViewOK(r)'
    <1> SUFFICES ASSUME answer'[r].code = "ok"
                 PROVE  /\ answer'[r].view.status = "active" =>
                              /\ answer'[r].upload \in Upload
                              /\ Ahead(answer[r].upload, FirstMissing(answer[r].view))'
                        /\ answer'[r].view.status = "cancelled" => Disturbed'
        BY DEF ViewOK
    <1>1. answer'[r].upload \in Upload /\ answer'[r].view = manifest'[answer'[r].upload]
        BY DEF Given
    <1>2. PICK v \in Upload : v = answer'[r].upload /\ manifest'[v] = answer'[r].view
        BY <1>1
    <1>3. Status(v)' \in Open => Ahead(v, Cardinality(Received(v)))'
        <2>1. SUFFICES ASSUME Status(v)' \in Open PROVE Ahead(v, Cardinality(Received(v)))'
            OBVIOUS
        <2>2. PICK n \in 0..Chunks : Received(v)' = 0..(n - 1)
            BY <2>1 DEF StoreInv, SessionOK
        <2> QED
            BY <2>1, <2>2, PrefixSize DEF Ahead
    <1>4. answer'[r].view.status = "active" =>
             Ahead(answer[r].upload, FirstMissing(answer[r].view))'
        BY <1>2, <1>3 DEF Status, Received, Open, FirstMissing, Ahead
    <1> QED
        BY <1>2, <1>4 DEF Status

-----------------------------------------------------------------------------
(* ChargeInv: the steps.                                                   *)

\* A step of the store keeps the count.
LEMMA ChargeStore ==
    ASSUME StoreInv, ClientInv, DeletionInv, ChargeInv, StoreInv', Seen,
           \A u \in Upload : Forward(u), UNCHANGED clientVars
    PROVE  ChargeInv'
    <1>0. /\ ClientTypeOK /\ TypeOK /\ UNCHANGED <<pc, session, index, attempt, waiting, why>>
          /\ Disturbed' <=> Disturbed
        BY DEF ClientInv, StoreInv, clientVars, Disturbed
    <1>1. faults \in Nat /\ faults' \in Nat /\ (faults' = faults \/ faults' = faults + 1)
        BY <1>0 DEF Seen, TypeOK
    <1>2. faults <= faults'
        BY <1>1
    <1>3. \A u \in Upload : Status(u)' = "cancelled" => Disturbed'
        <2>1. ASSUME NEW u \in Upload, Status(u)' = "cancelled" PROVE Disturbed
            <3>1. CASE Status(u) = "cancelled"
                BY <3>1 DEF ChargeInv
            <3>2. CASE op # None /\ op.kind = "cancel"
                <4>1. op \in Op
                    BY <1>0, <3>2 DEF TypeOK
                <4>2. InFlight(op.req, "cancel", op.upload, op.index)
                    BY <3>2 DEF InFlight
                <4> QED
                    BY <4>1, <4>2 DEF ChargeInv, Op
            <3> QED
                BY <2>1, <3>1, <3>2 DEF Forward
        <2> QED
            BY <1>0, <2>1
    <1>4. CASE FlightKept
        <2>1. \A r \in Request : answer'[r] = answer[r] /\ (Dropped(r)' => Dropped(r))
            BY <1>4 DEF FlightKept, Dropped
        <2>2. \A c \in Client : ChargeOK(c)'
            BY <1>0, <1>1, <1>2, <2>1, ChargeFrame DEF ChargeInv
        <2>3. \A r \in Request : ViewOK(r)'
            BY <1>0, <2>1, ViewFrame DEF ChargeInv
        <2>4. \A r \in Request, u \in Upload \cup {None}, i \in Index :
                 InFlight(r, "cancel", u, i)' => Disturbed'
            BY <1>0, <1>4 DEF FlightKept, ChargeInv, RequestKinds
        <2> QED
            BY <1>3, <2>2, <2>3, <2>4 DEF ChargeInv
    <1>5. ASSUME NEW r \in Request, NEW k \in RequestKinds, NEW u \in Upload \cup {None},
                 NEW i \in Index, FlightEnds(r, k, u, i), Given(r, k, u)', Excused(r, k, u, i),
                 k = "delete" => answer'[r].view = NoManifest \/ answer'[r].code # "ok"
          PROVE  ChargeInv'
        <2>1. /\ InFlight(r, k, u, i) /\ answer'[r].code # "none"
              /\ \A s \in Request : s # r => answer'[s] = answer[s]
              /\ \A s \in Request, k2 \in RequestKinds, v \in Upload \cup {None}, j \in Index :
                    InFlight(s, k2, v, j)' <=> InFlight(s, k2, v, j) /\ s # r
            BY <1>5 DEF FlightEnds
        <2>2. \A s \in Request : s # r => (Dropped(s)' => Dropped(s))
            BY <2>1 DEF Dropped
        <2>3. \A s \in Request, v \in Upload \cup {None}, j \in Index :
                 InFlight(s, "cancel", v, j)' => Disturbed'
            BY <1>0, <2>1 DEF ChargeInv, RequestKinds
        <2>4. ASSUME NEW s \in Request PROVE ViewOK(s)'
            <3>1. CASE s # r
                BY <1>0, <2>1, <3>1, ViewFrame DEF ChargeInv
            <3>2. CASE s = r /\ k # "delete"
                BY <1>3, <1>5, <3>2, ViewGiven
            <3>3. CASE s = r /\ k = "delete"
                BY <1>5, <3>3 DEF ViewOK, NoManifest
            <3> QED
                BY <3>1, <3>2, <3>3
        <2>5. ASSUME NEW c \in Client PROVE ChargeOK(c)'
            <3>0. ChargeOK(c) /\ CallOK(c)
                BY DEF ChargeInv, ClientInv
            <3>1. CASE waiting[c] # r
                BY <1>0, <1>1, <1>2, <2>1, <2>2, <3>0, <3>1, ChargeFrame
            <3>2. CASE waiting[c] = r
                <4>1. About(c, k, u, i) /\ pc[c] \in Awaiting
                    BY <2>1, <3>0, <3>2, UploadAssumption DEF CallOK
                <4>2. /\ Charged(c) => Charged(c)'
                      /\ pc[c] \in Sending \cup {"loop"} => session[c].id \in Upload
                      /\ pc[c] = "loop" => Ahead(session[c].id, FirstMissing(session[c].view))'
                      /\ pc[c] \in Sending =>
                            /\ Ahead(session[c].id, index[c])'
                            /\ Landed(session[c].id, index[c]) => Landed(session[c].id, index[c])'
                            /\ Disturbed' \/ attempt'[c] <= faults'
                      /\ why'[c] = "exhausted" => faults' > RetryAttempts \/ Disturbed'
                    BY <1>0, <1>1, <1>2, <3>0, ChargeBase
                <4>3. (faults' = faults + 1 \/ deleting) /\ pc[c] \in Sending => Charged(c)'
                    BY <1>0, <1>1, <3>0 DEF ChargeOK, Charged, ClientTypeOK, DeletionInv
                <4>4. ASSUME pc[c] = "putting", answer'[r].code = "retry"
                      PROVE  Charged(c)' \/ Landed(session[c].id, index[c])'
                    <5>1. k = "put" /\ u = session[c].id /\ i = index[c]
                        BY <4>1, <4>4 DEF About, Sought
                    <5>2. Ahead(u, i)
                        BY <3>0, <4>4, <5>1 DEF ChargeOK, Sending
                    <5>3. faults' = faults + 1 \/ deleting \/ Landed(u, i)
                        BY <1>5, <4>4, <5>1, <5>2 DEF Excused
                    <5> QED
                        BY <4>2, <4>3, <4>4, <5>1, <5>3 DEF Sending
                <4>5. ASSUME pc[c] = "checking", answer'[r].code = "retry"
                      PROVE  Charged(c)'
                    <5>1. k = "get"
                        BY <4>1, <4>5 DEF About, Sought
                    <5> QED
                        BY <1>5, <4>3, <4>5, <5>1 DEF Excused, Sending
                <4>6. ASSUME pc[c] = "checking", answer'[r].code = "ok"
                      PROVE  Charged(c)' \/ ViewLanded(answer'[r].view, index'[c])
                    <5>1. k = "get" /\ u = session[c].id
                        BY <4>1, <4>6 DEF About, Sought
                    <5>2. /\ answer'[r].view = manifest'[u]
                          /\ answer'[r].view.status \in Open \cup Closed
                        BY <1>5, <4>6, <5>1 DEF Given
                    <5>3. Charged(c)' \/ Landed(session[c].id, index[c])'
                        BY <3>0, <4>2, <4>6 DEF ChargeOK, Sending
                    <5>4. Landed(session[c].id, index[c])' =>
                             ViewLanded(answer'[r].view, index'[c])
                        BY <1>0, <5>1, <5>2 DEF Landed, ViewLanded, Status, Received, Open, Closed
                    <5> QED
                        BY <5>3, <5>4
                <4>7. ~Dropped(r)'
                    BY <2>1 DEF Dropped
                <4>8. pc[c] \notin {"check", "loop"}
                    BY <4>1 DEF Awaiting
                <4>9. pc[c] = "checking" =>
                         Charged(c)' \/ Landed(session[c].id, index[c])'
                    BY <3>0, <4>2 DEF ChargeOK, Sending
                <4> QED
                    BY <1>0, <3>2, <4>2, <4>4, <4>5, <4>6, <4>7, <4>8, <4>9
                    DEF ChargeOK, ViewLanded, Sending
            <3> QED
                BY <3>1, <3>2
        <2> QED
            BY <1>3, <2>3, <2>4, <2>5 DEF ChargeInv
    <1> QED
        BY <1>4, <1>5 DEF Seen

\* A crash is a fault of its own: every chunk under way may be sent once more.
LEMMA ChargeCrash ==
    ASSUME StoreInv, ClientInv, ChargeInv, Crash, UNCHANGED clientVars
    PROVE  ChargeInv'
    <1>0. /\ ClientTypeOK /\ TypeOK /\ UNCHANGED <<pc, session, index, attempt, waiting, why>>
          /\ Disturbed' <=> Disturbed
        BY DEF ClientInv, StoreInv, clientVars, Disturbed
    <1>1. /\ op' = None /\ writers' = {} /\ inbox' = {} /\ UNCHANGED answer
          /\ faults' = faults + 1
        BY DEF Crash, Fault
    <1>2. faults \in Nat /\ faults' \in Nat /\ faults <= faults'
        BY <1>0, <1>1 DEF TypeOK
    <1>3. \A u \in Upload : Forward(u) /\ (Status(u)' = "cancelled" => Disturbed')
        BY <1>0, StoreForward DEF Crash, diskVars, Status, ChargeInv
    <1>4. \A r, u, i : ~InFlight(r, "cancel", u, i)'
        BY <1>1 DEF InFlight
    <1>5. \A r \in Request : ViewOK(r)'
        BY <1>0, <1>1, <1>3, ViewFrame DEF ChargeInv
    <1>6. ASSUME NEW c \in Client PROVE ChargeOK(c)'
        <2>0. ChargeOK(c)
            BY DEF ChargeInv
        <2>1. /\ Charged(c) => Charged(c)'
              /\ pc[c] \in Sending \cup {"loop"} => session[c].id \in Upload
              /\ pc[c] = "loop" => Ahead(session[c].id, FirstMissing(session[c].view))'
              /\ pc[c] \in Sending =>
                    /\ Ahead(session[c].id, index[c])'
                    /\ Landed(session[c].id, index[c]) => Landed(session[c].id, index[c])'
                    /\ Disturbed' \/ attempt'[c] <= faults'
              /\ why'[c] = "exhausted" => faults' > RetryAttempts \/ Disturbed'
            BY <1>0, <1>2, <1>3, <2>0, ChargeBase
        <2>2. pc[c] \in Sending => Charged(c)'
            BY <1>0, <1>1, <1>2, <2>0 DEF ChargeOK, Charged, ClientTypeOK
        <2> QED
            BY <1>0, <2>1, <2>2 DEF ChargeOK, Sending
    <1> QED
        BY <1>3, <1>4, <1>5, <1>6 DEF ChargeInv

\* While no manifest changes, every session goes forward.
LEMMA StillForward ==
    ASSUME UNCHANGED manifest
    PROVE  \A u \in Upload : Forward(u)
    BY DEF Forward, Status, Received

\* A new request disturbs no call but the one that sent it.
LEMMA ChargeSend ==
    ASSUME StoreInv, ClientInv, ChargeInv, NEW r \in Request, NEW q \in Message,
           q.req = r, Send(q), Disturbed => Disturbed', q.kind = "cancel" => Disturbed'
    PROVE  /\ \A s \in Request : ViewOK(s)'
           /\ \A s \in Request, u \in Upload \cup {None}, i \in Index :
                 InFlight(s, "cancel", u, i)' => Disturbed'
           /\ \A u \in Upload : Forward(u) /\ (Status(u)' = "cancelled" => Disturbed')
           /\ answer'[r].code = "none" /\ ~Dropped(r)'
           /\ \A s \in Request : s # r => answer'[s] = answer[s] /\ (Dropped(s)' => Dropped(s))
           /\ faults' = faults /\ UNCHANGED manifest
    <1>1. /\ answer'[r] = NoAnswer
          /\ \A s \in Request : s # r => answer'[s] = answer[s]
          /\ faults' = faults /\ UNCHANGED manifest
        BY SendEffect DEF diskVars
    <1>2. \A s \in Request, k \in RequestKinds, u \in Upload \cup {None}, i \in Index :
             InFlight(s, k, u, i)' <=>
                   \/ InFlight(s, k, u, i)
                   \/ /\ s = r /\ k = q.kind /\ i = q.index
                      /\ k = "delete" \/ u = q.upload
        BY SendEffect
    <1>3. /\ q.kind \in RequestKinds /\ q.upload \in Upload \cup {None} /\ q.index \in Index
        BY DEF Message
    <1>4. answer'[r].code = "none" /\ ~Dropped(r)'
        <2>1. PICK k \in RequestKinds, u \in Upload \cup {None}, i \in Index :
                 k = q.kind /\ u = q.upload /\ i = q.index
            BY <1>3
        <2>2. InFlight(r, k, u, i)'
            BY <1>2, <2>1
        <2> QED
            BY <1>1, <2>2 DEF NoAnswer, Dropped
    <1>5. \A s \in Request : s # r => (Dropped(s)' => Dropped(s))
        BY <1>1, <1>2 DEF Dropped
    <1>6. \A u \in Upload : Forward(u) /\ (Status(u)' = "cancelled" => Disturbed')
        BY <1>1, StillForward DEF Status, ChargeInv
    <1>7. ASSUME NEW s \in Request PROVE ViewOK(s)'
        <2>1. CASE s = r
            BY <1>4, <2>1 DEF ViewOK
        <2>2. CASE s # r
            BY <1>1, <1>6, <2>2, ViewFrame DEF ChargeInv
        <2> QED
            BY <2>1, <2>2
    <1>8. \A s \in Request, u \in Upload \cup {None}, i \in Index :
             InFlight(s, "cancel", u, i)' => Disturbed'
        BY <1>2 DEF ChargeInv, RequestKinds
    <1> QED
        BY <1>1, <1>4, <1>5, <1>6, <1>7, <1>8

\* A call sends a request.
LEMMA ChargeAsk ==
    ASSUME StoreInv, ClientInv, ChargeInv, NEW c \in Client,
           NEW kind \in {"create", "get", "put", "complete"},
           NEW u \in Upload \cup {None}, NEW i \in Index, NEW state \in Awaiting,
           Ask(c, kind, u, i, state), UNCHANGED <<session, userActs>>,
           \A d \in Client : d # c => /\ index'[d] = index[d] /\ attempt'[d] = attempt[d]
                                      /\ why'[d] = why[d],
           state \in Sending => /\ session[c].id \in Upload
                                /\ Ahead(session[c].id, index'[c])
                                /\ Disturbed \/ attempt'[c] <= faults,
           state = "checking" => \/ Disturbed \/ attempt'[c] + 1 <= faults
                                 \/ Landed(session[c].id, index'[c]),
           why'[c] = "exhausted" => faults > RetryAttempts \/ Disturbed
    PROVE  ChargeInv'
    <1>0. ClientTypeOK /\ kind \in RequestKinds /\ kind # "cancel" /\ faults \in Nat
        BY DEF ClientInv, RequestKinds, StoreInv, TypeOK
    <1>1. PICK r \in Request, q \in Message :
              /\ \A d \in Client : waiting[d] # r
              /\ q.req = r /\ q.kind = kind /\ Send(q)
              /\ waiting'[c] = r
              /\ \A d \in Client : d # c => waiting'[d] = waiting[d]
              /\ pc'[c] = state
              /\ \A d \in Client : d # c => pc'[d] = pc[d]
        BY <1>0, AskEffect
    <1>2. Disturbed' <=> Disturbed
        BY DEF Disturbed
    <1>3. /\ \A s \in Request : ViewOK(s)'
          /\ \A s \in Request, v \in Upload \cup {None}, j \in Index :
                InFlight(s, "cancel", v, j)' => Disturbed'
          /\ \A v \in Upload : Forward(v) /\ (Status(v)' = "cancelled" => Disturbed')
          /\ answer'[r].code = "none" /\ ~Dropped(r)'
          /\ \A s \in Request : s # r => answer'[s] = answer[s] /\ (Dropped(s)' => Dropped(s))
          /\ faults' = faults /\ UNCHANGED manifest
        BY <1>0, <1>1, <1>2, ChargeSend
    <1>4. ASSUME NEW d \in Client, d # c PROVE ChargeOK(d)'
        <2>1. /\ \A s \in Request : s = waiting[d] =>
                    answer'[s] = answer[s] /\ (Dropped(s)' => Dropped(s))
              /\ ChargeOK(d)
            BY <1>1, <1>3 DEF ChargeInv
        <2> QED
            BY <1>0, <1>1, <1>2, <1>3, <1>4, <2>1, ChargeFrame
    <1>5. ChargeOK(c)'
        <2>1. PICK v : v = session[c].id
            OBVIOUS
        <2>2. PICK j : j = index'[c]
            OBVIOUS
        <2>3. (Ahead(v, j)' <=> Ahead(v, j)) /\ (Landed(v, j)' <=> Landed(v, j))
            BY <1>3 DEF Ahead, Landed, Status, Received
        <2>4. /\ Ahead(session[c].id, index[c])' <=> Ahead(v, j)'
              /\ Landed(session[c].id, index[c])' <=> Landed(v, j)'
            BY <2>1, <2>2 DEF Ahead, Landed, Status, Received
        <2>5. pc'[c] \in Awaiting /\ pc'[c] \notin {"loop", "check", "put"}
            BY <1>1 DEF Awaiting
        <2>6. Charged(c)' <=> Disturbed \/ attempt'[c] + 1 <= faults
            BY <1>2, <1>3 DEF Charged
        <2> QED
            BY <1>1, <1>2, <1>3, <2>1, <2>2, <2>3, <2>4, <2>5, <2>6 DEF ChargeOK, Sending
    <1> QED
        BY <1>3, <1>4, <1>5 DEF ChargeInv

\* The requests of a call keep the count: a chunk is sent for the first time
\* without a fault, and again on the fault already counted.
LEMMA ChargeAsks ==
    ASSUME StoreInv, ClientInv, ChargeInv, NEW c \in Client,
           \/ StartNew(c) \/ (\E u \in Upload : Resume(c, u)) \/ NextChunk(c) \/ AskComplete(c)
           \/ AskCheck(c) \/ PutAgain(c) \/ AskConfirm(c)
    PROVE  ChargeInv'
    <1>0. ClientTypeOK /\ 0 \in Index /\ ChargeOK(c) /\ faults \in Nat
        BY UploadAssumption DEF ClientInv, Index, ChargeInv, StoreInv, TypeOK
    <1>1. session[c].id \in Upload \cup {None} /\ session[c].view \in Manifest
          /\ index[c] \in Index /\ attempt[c] \in Nat
        BY <1>0 DEF ClientTypeOK
    <1>2. why[c] = "exhausted" => faults > RetryAttempts \/ Disturbed
        BY <1>0 DEF ChargeOK
    <1>3. /\ {"creating", "resuming", "completing", "confirming"} \cap Sending = {}
          /\ {"creating", "resuming", "putting", "checking", "completing", "confirming"}
                \subseteq Awaiting
        BY DEF Sending, Awaiting
    <1>4. CASE StartNew(c)
        <2>1. /\ Ask(c, "create", None, 0, "creating")
              /\ UNCHANGED <<session, index, attempt, userActs>>
              /\ why' = [why EXCEPT ![c] = "none"]
            BY <1>4 DEF StartNew, Call
        <2>2. why'[c] = "none" /\ \A d \in Client : d # c => why'[d] = why[d]
            BY <1>0, <2>1 DEF ClientTypeOK
        <2> QED
            BY <1>0, <1>3, <2>1, <2>2, ChargeAsk
    <1>5. ASSUME NEW u \in Upload, Resume(c, u) PROVE ChargeInv'
        <2>1. /\ Ask(c, "get", u, 0, "resuming")
              /\ UNCHANGED <<session, index, attempt, userActs>>
              /\ why' = [why EXCEPT ![c] = "none"]
            BY <1>5 DEF Resume, Call
        <2>2. why'[c] = "none" /\ \A d \in Client : d # c => why'[d] = why[d]
            BY <1>0, <2>1 DEF ClientTypeOK
        <2> QED
            BY <1>0, <1>3, <2>1, <2>2, ChargeAsk
    <1>6. CASE NextChunk(c)
        <2>1. PICK i \in Index : i = FirstMissing(session[c].view)
            BY <1>1, <1>6, NextIndex DEF NextChunk
        <2>2. /\ Ask(c, "put", session[c].id, i, "putting") /\ UNCHANGED <<session, why, userActs>>
              /\ index' = [index EXCEPT ![c] = i] /\ attempt' = [attempt EXCEPT ![c] = 0]
              /\ pc[c] = "loop"
            BY <1>6, <2>1 DEF NextChunk
        <2>3. /\ index'[c] = i /\ attempt'[c] = 0
              /\ \A d \in Client : d # c => index'[d] = index[d] /\ attempt'[d] = attempt[d]
            BY <1>0, <2>2 DEF ClientTypeOK
        <2>4. session[c].id \in Upload /\ Ahead(session[c].id, i)
            BY <1>0, <2>1, <2>2 DEF ChargeOK
        <2> QED
            BY <1>0, <1>1, <1>2, <1>3, <2>2, <2>3, <2>4, ChargeAsk
    <1>7. CASE AskComplete(c)
        BY <1>0, <1>1, <1>2, <1>3, <1>7, ChargeAsk DEF AskComplete
    <1>8. CASE AskCheck(c)
        <2>1. /\ session[c].id \in Upload /\ Ahead(session[c].id, index[c])
              /\ Disturbed \/ attempt[c] <= faults
              /\ Disturbed \/ attempt[c] + 1 <= faults \/ Landed(session[c].id, index[c])
            BY <1>0, <1>8 DEF AskCheck, ChargeOK, Charged, Sending
        <2>2. /\ Ask(c, "get", session[c].id, 0, "checking")
              /\ UNCHANGED <<session, index, attempt, why, userActs>>
            BY <1>8 DEF AskCheck
        <2> QED
            BY <1>0, <1>1, <1>2, <1>3, <2>1, <2>2, ChargeAsk
    <1>9. CASE PutAgain(c)
        <2>1. /\ session[c].id \in Upload /\ Ahead(session[c].id, index[c])
              /\ Disturbed \/ attempt[c] <= faults
            BY <1>0, <1>9 DEF PutAgain, ChargeOK, Sending
        <2>2. /\ Ask(c, "put", session[c].id, index[c], "putting")
              /\ UNCHANGED <<session, index, attempt, why, userActs>>
            BY <1>9 DEF PutAgain
        <2> QED
            BY <1>0, <1>1, <1>2, <1>3, <2>1, <2>2, ChargeAsk
    <1>10. CASE AskConfirm(c)
        BY <1>0, <1>1, <1>2, <1>3, <1>10, ChargeAsk DEF AskConfirm
    <1> QED
        BY <1>4, <1>5, <1>6, <1>7, <1>8, <1>9, <1>10

\* What is left to show of a call that reads its answer, or gives up on it.
LEMMA ChargeRead ==
    ASSUME StoreInv, ClientInv, ChargeInv, NEW c \in Client, NEW state \in Awaiting, NEW code,
           Answered(c, state, code) \/ Lost(c, state), UNCHANGED userActs,
           \A d \in Client : d # c => /\ pc'[d] = pc[d] /\ session'[d] = session[d]
                                      /\ index'[d] = index[d] /\ attempt'[d] = attempt[d]
                                      /\ why'[d] = why[d],
           pc'[c] \in {"loop", "put", "check", "confirm", "done", "failed"},
           pc'[c] = "loop" => /\ session'[c].id \in Upload
                              /\ Ahead(session'[c].id, FirstMissing(session'[c].view)),
           pc'[c] \in {"put", "check"} => /\ session'[c].id \in Upload
                                          /\ Ahead(session'[c].id, index'[c])
                                          /\ Disturbed \/ attempt'[c] <= faults',
           pc'[c] = "check" => \/ Disturbed \/ attempt'[c] + 1 <= faults'
                               \/ Landed(session'[c].id, index'[c]),
           why'[c] = "exhausted" => faults' > RetryAttempts \/ Disturbed
    PROVE  ChargeInv'
    <1>0. ClientTypeOK /\ faults \in Nat /\ (Disturbed' <=> Disturbed)
        BY DEF ClientInv, StoreInv, TypeOK, Disturbed
    <1>1. Reads(c) /\ waiting[c] \in Request
        BY ReadCases
    <1>2. /\ faults' \in Nat /\ answer'[waiting[c]] = NoAnswer
          /\ \A s \in Request : s # waiting[c] => answer'[s] = answer[s]
          /\ waiting'[c] = None
          /\ \A d \in Client : d # c => waiting'[d] = waiting[d]
          /\ \A r, k, u, i : InFlight(r, k, u, i)' <=> InFlight(r, k, u, i)
          /\ \A d \in Client : d # c /\ waiting[d] # None => waiting[d] # waiting[c]
          /\ UNCHANGED manifest
        BY <1>1, ReadsEffect
    <1>3. faults <= faults'
        BY <1>0, <1>1 DEF Reads
    <1>4. \A u \in Upload : Forward(u) /\ (Status(u)' = "cancelled" => Disturbed')
        BY <1>0, <1>2, StillForward DEF Status, ChargeInv
    <1>5. ASSUME NEW s \in Request PROVE ViewOK(s)'
        <2>1. CASE s = waiting[c]
            BY <1>2, <2>1 DEF ViewOK, NoAnswer
        <2>2. CASE s # waiting[c]
            BY <1>0, <1>2, <1>4, <2>2, ViewFrame DEF ChargeInv
        <2> QED
            BY <2>1, <2>2
    <1>6. \A s \in Request, u \in Upload \cup {None}, i \in Index :
             InFlight(s, "cancel", u, i)' => Disturbed'
        BY <1>0, <1>2 DEF ChargeInv
    <1>7. ASSUME NEW d \in Client, d # c PROVE ChargeOK(d)'
        <2>1. /\ \A s \in Request : s = waiting[d] =>
                    answer'[s] = answer[s] /\ (Dropped(s)' => Dropped(s))
              /\ ChargeOK(d)
            BY <1>2, <1>7, UploadAssumption DEF ChargeInv, Dropped
        <2> QED
            BY <1>0, <1>2, <1>3, <1>4, <1>7, <2>1, ChargeFrame
    <1>8. ChargeOK(c)'
        <2>1. PICK v : v = session'[c].id
            OBVIOUS
        <2>2. PICK j : j = index'[c]
            OBVIOUS
        <2>3. PICK n : n = FirstMissing(session'[c].view)
            OBVIOUS
        <2>4. /\ Ahead(v, j)' <=> Ahead(v, j)
              /\ Ahead(v, n)' <=> Ahead(v, n)
              /\ Landed(v, j)' <=> Landed(v, j)
            BY <1>2 DEF Ahead, Landed, Status, Received
        <2>5. /\ Ahead(session[c].id, index[c])' <=> Ahead(v, j)'
              /\ Ahead(session[c].id, FirstMissing(session[c].view))' <=> Ahead(v, n)'
              /\ Landed(session[c].id, index[c])' <=> Landed(v, j)'
            BY <2>1, <2>2, <2>3 DEF Ahead, Landed, Status, Received, FirstMissing
        <2>6. Charged(c)' <=> Disturbed \/ attempt'[c] + 1 <= faults'
            BY <1>0 DEF Charged
        <2>7. \A r \in Request : r # waiting'[c]
            BY <1>2, UploadAssumption
        <2>8. pc'[c] \notin {"putting", "checking"}
            OBVIOUS
        <2> QED
            BY <1>0, <2>1, <2>2, <2>3, <2>4, <2>5, <2>6, <2>7, <2>8 DEF ChargeOK, Sending
    <1> QED
        BY <1>4, <1>5, <1>6, <1>7, <1>8 DEF ChargeInv

\* Why a chunk, or the look after it, has to be tried again: a fault was
\* counted for it, or the chunk landed after all.
LEMMA RetryCharged ==
    ASSUME StoreInv, ClientInv, ChargeInv, NEW c \in Client, NEW state \in {"putting", "checking"},
           Reconciliable(c, state)
    PROVE  /\ Disturbed \/ attempt[c] <= faults'
           /\ \/ Disturbed \/ attempt[c] + 1 <= faults'
              \/ state = "putting" /\ Landed(session[c].id, index[c])
           /\ session[c].id \in Upload /\ Ahead(session[c].id, index[c])
    <1>0. /\ ClientTypeOK /\ faults \in Nat /\ ChargeOK(c) /\ state \in Awaiting
          /\ attempt[c] \in Nat
        BY DEF ClientInv, ClientTypeOK, StoreInv, TypeOK, ChargeInv, Awaiting
    <1>1. /\ Answered(c, state, "retry") \/ Lost(c, state)
          /\ pc[c] = state /\ waiting[c] \in Request
        BY <1>0, ReadCases DEF Reconciliable
    <1>2. PICK r \in Request : r = waiting[c]
        BY <1>1
    <1>3. /\ Disturbed \/ attempt[c] <= faults
          /\ session[c].id \in Upload /\ Ahead(session[c].id, index[c])
        BY <1>0, <1>1 DEF ChargeOK, Sending
    <1>4. CASE Answered(c, state, "retry")
        <2>1. answer[r].code = "retry" /\ faults' = faults
            BY <1>2, <1>4 DEF Answered
        <2> QED
            BY <1>0, <1>1, <1>2, <1>3, <2>1 DEF ChargeOK, Charged
    <1>5. CASE Lost(c, state)
        <2>1. \/ faults' = faults + 1
              \/ Vanished(r) /\ faults' = faults
            BY <1>2, <1>5 DEF Lost, Fault
        <2>2. CASE faults' = faults + 1
            BY <1>0, <1>3, <2>2
        <2>3. CASE Vanished(r) /\ faults' = faults
            <3>1. Dropped(r)
                BY <2>3, VanishedDropped
            <3> QED
                BY <1>0, <1>1, <1>2, <1>3, <2>3, <3>1 DEF ChargeOK, Charged
        <2> QED
            BY <2>1, <2>2, <2>3
    <1> QED
        BY <1>1, <1>4, <1>5

\* The answers that a call reads keep the count.
LEMMA ChargeReads ==
    ASSUME StoreInv, ClientInv, ChargeInv, NEW c \in Client,
           OnSession(c) \/ OnPut(c) \/ OnCheck(c) \/ OnComplete(c) \/ OnConfirm(c)
    PROVE  ChargeInv'
    <1>0. /\ ClientTypeOK /\ ChargeOK(c) /\ faults \in Nat /\ attempt[c] \in Nat
          /\ UNCHANGED userActs /\ UNCHANGED index
          /\ session[c].id \in Upload \cup {None}
          /\ why[c] = "exhausted" => faults > RetryAttempts \/ Disturbed
        BY DEF ClientInv, ClientTypeOK, StoreInv, TypeOK, ChargeInv, ChargeOK,
               OnSession, OnPut, OnCheck, OnComplete, OnConfirm
    <1>1. ASSUME NEW state \in Awaiting, NEW code,
                 Answered(c, state, code) \/ Lost(c, state)
          PROVE  faults' \in Nat /\ faults <= faults'
        <2>1. Reads(c)
            BY <1>1, ReadCases
        <2> QED
            BY <1>0, <2>1 DEF Reads
    \* The call ends, or goes on to confirm.
    <1>2. ASSUME NEW state \in Awaiting, NEW code,
                 Answered(c, state, code) \/ Lost(c, state),
                 UNCHANGED <<session, attempt>>,
                 \/ \E reason \in {"no_session", "refused", "unconfirmed"} : Fail(c, reason)
                 \/ \E s \in {"done", "confirm"} : pc' = [pc EXCEPT ![c] = s] /\ UNCHANGED why
          PROVE  ChargeInv'
        <2>1. /\ \A d \in Client : d # c => pc'[d] = pc[d] /\ why'[d] = why[d]
              /\ pc'[c] \in {"failed", "done", "confirm"}
              /\ why'[c] = "exhausted" => why[c] = "exhausted"
            BY <1>0, <1>2, FailEffect, MoveEffect
        <2>2. why'[c] = "exhausted" => faults' > RetryAttempts \/ Disturbed
            BY <1>0, <1>1, <1>2, <2>1, ClientAssumption
        <2> QED
            BY <1>0, <1>2, <2>1, <2>2, ChargeRead
    \* The call is given a session.
    <1>3. ASSUME NEW state \in Awaiting, Answered(c, state, "ok"), UNCHANGED attempt,
                 NEW id \in Upload \cup {None}, Adopt(c, id, View(c)), id = answer[waiting[c]].upload
          PROVE  ChargeInv'
        <2>1. pc[c] \in Awaiting /\ pc[c] = state /\ answer[waiting[c]].code = "ok"
            BY <1>3 DEF Answered
        <2>2. PICK r \in Request : r = waiting[c]
            BY <2>1, Awaited
        <2>3. PICK view \in Manifest : view = View(c) /\ view = answer[r].view
            BY <2>1, <2>2, ViewType DEF View
        <2>4. /\ session'[c].id = id /\ session'[c].view = view
              /\ \A d \in Client : d # c => session'[d] = session[d]
              /\ pc'[c] \in {"loop", "done", "failed"}
              /\ pc'[c] = "loop" => view.status = "active"
              /\ \A d \in Client : d # c => pc'[d] = pc[d]
              /\ why'[c] # "exhausted" \/ why'[c] = why[c]
              /\ \A d \in Client : d # c => why'[d] = why[d]
            BY <1>0, <1>3, <2>3, AdoptEffect
        <2>5. ViewOK(r)
            BY DEF ChargeInv
        <2>6. pc'[c] = "loop" => id \in Upload /\ Ahead(id, FirstMissing(view))
            BY <1>3, <2>1, <2>2, <2>3, <2>4, <2>5 DEF ViewOK
        <2>7. pc'[c] = "loop" => /\ session'[c].id \in Upload
                                 /\ Ahead(session'[c].id, FirstMissing(session'[c].view))
            BY <2>4, <2>6
        <2>8. why'[c] = "exhausted" => faults' > RetryAttempts \/ Disturbed
            BY <1>0, <1>1, <1>3, <2>4, ClientAssumption
        <2> QED
            BY <1>0, <1>3, <2>4, <2>7, <2>8, ChargeRead
    \* The answer about a known session is about that session.
    <1>4. ASSUME NEW state \in {"putting", "checking"}, Answered(c, state, "ok")
          PROVE  session[c].id = answer[waiting[c]].upload
        <2>1. pc[c] \in Awaiting /\ pc[c] = state /\ answer[waiting[c]].code = "ok"
            BY <1>4 DEF Answered, Awaiting
        <2>2. waiting[c] \in Request /\ CallOK(c)
            BY <2>1, Awaited DEF ClientInv
        <2> QED
            BY <2>1, <2>2 DEF CallOK
    <1>5. CASE OnSession(c)
        <2>1. PICK state \in {"creating", "resuming"} :
                 \/ Answered(c, state, "ok") /\ Adopt(c, answer[waiting[c]].upload, View(c))
                 \/ /\ Reconciliable(c, state) \/ Answered(c, state, "fatal")
                    /\ Fail(c, "no_session") /\ UNCHANGED session
            BY <1>5 DEF OnSession
        <2>2. state \in Awaiting /\ UNCHANGED attempt
            BY <1>5 DEF OnSession, Awaiting
        <2>3. CASE Answered(c, state, "ok") /\ Adopt(c, answer[waiting[c]].upload, View(c))
            <3>1. pc[c] \in Awaiting
                BY <2>2, <2>3 DEF Answered
            <3>2. answer[waiting[c]].upload \in Upload \cup {None}
                BY <3>1, ViewType
            <3> QED
                BY <1>3, <2>2, <2>3, <3>2
        <2> QED
            BY <1>2, <2>1, <2>2, <2>3 DEF Reconciliable
    <1>6. CASE OnPut(c)
        <2>0. "putting" \in Awaiting /\ UNCHANGED attempt
            BY <1>6 DEF OnPut, Awaiting
        <2>1. CASE Answered(c, "putting", "ok") /\ Adopt(c, session[c].id, View(c))
            BY <1>0, <1>3, <1>4, <2>0, <2>1
        <2>2. CASE /\ Reconciliable(c, "putting") /\ pc' = [pc EXCEPT ![c] = "check"]
                   /\ UNCHANGED <<session, why>>
            <3>1. pc'[c] = "check" /\ \A d \in Client : d # c => pc'[d] = pc[d]
                BY <1>0, <2>2, MoveEffect
            <3>2. /\ Disturbed \/ attempt[c] <= faults'
                  /\ Disturbed \/ attempt[c] + 1 <= faults' \/ Landed(session[c].id, index[c])
                  /\ session[c].id \in Upload /\ Ahead(session[c].id, index[c])
                BY <2>2, RetryCharged
            <3>3. Answered(c, "putting", "retry") \/ Lost(c, "putting")
                BY <2>2 DEF Reconciliable
            <3>4. why'[c] = "exhausted" => faults' > RetryAttempts \/ Disturbed
                BY <1>0, <1>1, <2>0, <2>2, <3>3, ClientAssumption
            <3> QED
                BY <1>0, <2>0, <2>2, <3>1, <3>2, <3>3, <3>4, ChargeRead
        <2>3. CASE Answered(c, "putting", "fatal") /\ Fail(c, "refused") /\ UNCHANGED session
            BY <1>2, <2>0, <2>3
        <2> QED
            BY <1>6, <2>1, <2>2, <2>3 DEF OnPut
    <1>7. CASE OnCheck(c)
        <2>0. "checking" \in Awaiting
            BY DEF Awaiting
        <2>1. CASE /\ Answered(c, "checking", "ok") /\ Adopt(c, session[c].id, View(c))
                   /\ UNCHANGED attempt
            BY <1>0, <1>3, <1>4, <2>0, <2>1
        \* Sent again, or given up, on a fault of its own.
        <2>2. ASSUME NEW code, Answered(c, "checking", code) \/ Lost(c, "checking"), Again(c),
                     \A d \in Client : d # c => session'[d] = session[d],
                     session'[c].id = session[c].id,
                     session[c].id \in Upload, Ahead(session[c].id, index[c]),
                     Disturbed \/ attempt[c] + 1 <= faults'
              PROVE  ChargeInv'
            <3>1. /\ \A d \in Client : d # c => /\ pc'[d] = pc[d] /\ why'[d] = why[d]
                                                /\ attempt'[d] = attempt[d]
                  /\ \/ /\ pc'[c] = "failed" /\ why'[c] = "exhausted" /\ attempt[c] = RetryAttempts
                     \/ /\ pc'[c] = "put" /\ why'[c] = why[c] /\ attempt'[c] = attempt[c] + 1
                BY <1>0, <2>2, AgainEffect
            <3>2. faults' \in Nat /\ faults <= faults'
                BY <1>1, <2>0, <2>2
            <3>3. why'[c] = "exhausted" => faults' > RetryAttempts \/ Disturbed
                BY <1>0, <2>2, <3>1, <3>2, ClientAssumption
            <3> QED
                BY <1>0, <2>0, <2>2, <3>1, <3>3, ChargeRead
        <2>3. CASE /\ Answered(c, "checking", "ok") /\ Again(c)
                   /\ View(c).status # "completed" /\ index[c] \notin View(c).received
                   /\ session' = [session EXCEPT ![c].view = View(c)]
            <3>1. pc[c] = "checking" /\ answer[waiting[c]].code = "ok" /\ faults' = faults
                BY <2>3 DEF Answered
            <3>2. PICK r \in Request : r = waiting[c]
                BY <2>0, <3>1, Awaited
            <3>3. PICK view \in Manifest : view = View(c) /\ view = answer[r].view
                BY <2>0, <3>1, <3>2, ViewType DEF View
            <3>4. /\ session'[c].id = session[c].id
                  /\ \A d \in Client : d # c => session'[d] = session[d]
                BY <1>0, <2>3, <3>3 DEF ClientTypeOK
            <3>5. Charged(c)
                <4>1. Charged(c) \/ ViewLanded(view, index[c])
                    BY <1>0, <3>1, <3>2, <3>3 DEF ChargeOK
                <4>2. ViewLanded(view, index[c]) => view.status = "cancelled"
                    BY <2>3, <3>3 DEF ViewLanded
                <4>3. view.status = "cancelled" => Disturbed
                    BY <3>1, <3>2, <3>3 DEF ChargeInv, ViewOK
                <4> QED
                    BY <4>1, <4>2, <4>3 DEF Charged
            <3>6. session[c].id \in Upload /\ Ahead(session[c].id, index[c])
                BY <1>0, <3>1 DEF ChargeOK, Sending
            <3> QED
                BY <2>2, <2>3, <3>1, <3>4, <3>5, <3>6 DEF Charged
        <2>4. CASE Reconciliable(c, "checking") /\ Again(c) /\ UNCHANGED session
            <3>1. /\ Disturbed \/ attempt[c] + 1 <= faults'
                  /\ session[c].id \in Upload /\ Ahead(session[c].id, index[c])
                BY <2>4, RetryCharged
            <3>2. Answered(c, "checking", "retry") \/ Lost(c, "checking")
                BY <2>4 DEF Reconciliable
            <3> QED
                BY <2>2, <2>4, <3>1, <3>2
        <2>5. CASE /\ Answered(c, "checking", "fatal") \/ Answered(c, "checking", "ok")
                   /\ Fail(c, "refused") /\ UNCHANGED <<session, attempt>>
            BY <1>2, <2>0, <2>5
        <2> QED
            BY <1>7, <2>1, <2>3, <2>4, <2>5 DEF OnCheck
    <1>8. CASE OnComplete(c)
        <2>0. "completing" \in Awaiting /\ UNCHANGED <<session, attempt>>
            BY <1>8 DEF OnComplete, Awaiting
        <2> QED
            BY <1>2, <1>8, <2>0 DEF OnComplete, Reconciliable
    <1>9. CASE OnConfirm(c)
        <2>0. "confirming" \in Awaiting /\ UNCHANGED <<session, attempt>>
            BY <1>9 DEF OnConfirm, Awaiting
        <2> QED
            BY <1>2, <1>9, <2>0 DEF OnConfirm, Reconciliable
    <1> QED
        BY <1>5, <1>6, <1>7, <1>8, <1>9

\* Abort, cancellation and deletion keep the count.
LEMMA ChargeUserActs ==
    ASSUME StoreInv, ClientInv, ChargeInv,
           \/ \E c \in Client : Abort(c)
           \/ \E u \in Upload : CancelUpload(u)
           \/ DeleteThread
    PROVE  ChargeInv'
    <1>0. ClientTypeOK /\ faults \in Nat
        BY DEF ClientInv, StoreInv, TypeOK
    <1>1. ASSUME NEW c \in Client, Abort(c) PROVE ChargeInv'
        <2>1. /\ UNCHANGED <<storeVars, session, index, attempt>> /\ Fail(c, "aborted")
              /\ waiting' = [waiting EXCEPT ![c] = None] /\ userActs \subseteq userActs'
            BY <1>1 DEF Abort, Act
        <2>2. /\ pc'[c] = "failed" /\ why'[c] = "aborted"
              /\ \A d \in Client : d # c => pc'[d] = pc[d] /\ why'[d] = why[d]
            BY <1>0, <2>1, FailEffect
        <2>3. /\ waiting'[c] = None
              /\ \A d \in Client : d # c => waiting'[d] = waiting[d]
            BY <1>0, <2>1 DEF ClientTypeOK
        <2>4. UNCHANGED <<manifest, inbox, writers, op, answer, faults>> /\ (Disturbed => Disturbed')
            BY <2>1 DEF storeVars, diskVars, Disturbed
        <2>5. \A r, k, u, i : InFlight(r, k, u, i)' <=> InFlight(r, k, u, i)
            BY <2>4 DEF InFlight
        <2>6. \A u \in Upload : Forward(u) /\ (Status(u)' = "cancelled" => Disturbed')
            BY <2>4, StillForward DEF Status, ChargeInv
        <2>7. \A r \in Request : ViewOK(r)' /\ (Dropped(r)' => Dropped(r))
            BY <2>4, <2>5, <2>6, ViewFrame DEF ChargeInv, Dropped
        <2>8. ASSUME NEW d \in Client, d # c PROVE ChargeOK(d)'
            <3>1. ChargeOK(d)
                BY DEF ChargeInv
            <3> QED
                BY <1>0, <2>1, <2>2, <2>3, <2>4, <2>6, <2>7, <2>8, <3>1, ChargeFrame
        <2>9. ChargeOK(c)'
            BY <2>2, <2>3, UploadAssumption DEF ChargeOK, Sending
        <2> QED
            BY <2>4, <2>5, <2>6, <2>7, <2>8, <2>9 DEF ChargeInv
    <1>2. ASSUME NEW kind \in {"cancel", "delete"}, NEW u \in Upload \cup {None}, UserAct(kind, u)
          PROVE  ChargeInv'
        <2>1. /\ CanSend /\ Send([req |-> Slot, kind |-> kind, upload |-> u, index |-> 0])
              /\ UNCHANGED <<pc, session, index, attempt, waiting, why>>
              /\ userActs' = userActs \cup {kind}
            BY <1>2 DEF UserAct, Act
        <2>2. PICK r \in Request : r = Slot /\ \A d \in Client : waiting[d] # r
            BY <2>1, SlotFree
        <2> DEFINE q == [req |-> r, kind |-> kind, upload |-> u, index |-> 0]
        <2>3. q \in Message /\ q.req = r /\ Send(q)
            BY <2>1, <2>2, UploadAssumption DEF Message, RequestKinds, Index
        <2> HIDE DEF q
        <2>4. Disturbed'
            BY <2>1 DEF Disturbed
        <2>5. /\ \A s \in Request : ViewOK(s)'
              /\ \A s \in Request, v \in Upload \cup {None}, j \in Index :
                    InFlight(s, "cancel", v, j)' => Disturbed'
              /\ \A v \in Upload : Forward(v) /\ (Status(v)' = "cancelled" => Disturbed')
              /\ \A s \in Request : s # r => answer'[s] = answer[s] /\ (Dropped(s)' => Dropped(s))
              /\ faults' = faults
            BY <2>3, <2>4, ChargeSend
        <2>6. ASSUME NEW d \in Client PROVE ChargeOK(d)'
            <3>1. /\ \A s \in Request : s = waiting[d] =>
                        answer'[s] = answer[s] /\ (Dropped(s)' => Dropped(s))
                  /\ ChargeOK(d)
                BY <2>2, <2>5 DEF ChargeInv
            <3> QED
                BY <1>0, <2>1, <2>4, <2>5, <3>1, ChargeFrame
        <2> QED
            BY <2>5, <2>6 DEF ChargeInv
    <1> QED
        BY <1>1, <1>2 DEF CancelUpload, DeleteThread

\* No step of the store adds a request, and a deletion begins with one.
LEMMA DeletionStore ==
    ASSUME StoreStep \/ Crash
    PROVE  /\ inbox' \subseteq inbox
           /\ deleting' => deleting \/ \E q \in inbox : q.kind = "delete"
    <1>1. CASE \E q \in inbox : Handle(q)
        BY <1>1 DEF Handle, Create, Get, Begin, Complete, Cancel, Delete, RefuseRequest, Take,
           chatVars
    <1>2. CASE \E w \in writers : FinishChunk(w) \/ FinishRefused(w) \/ AbortChunk(w)
        BY <1>2 DEF FinishChunk, FinishRefused, AbortChunk, chatVars
    <1>3. CASE Proceed
        <2>1. CASE RecordChunk \/ Announce \/ Publish \/ Settle \/ UnlinkPayload \/ Clear
            BY <2>1 DEF RecordChunk, Announce, Publish, Settle, UnlinkPayload, Clear, chatVars
        <2>2. CASE Save \/ Tombstone \/ Undo \/ Forget
            BY <2>2 DEF Save, Tombstone, Undo, Forget, chatVars
        <2>3. ASSUME NEW u \in Upload, DeleteSession(u)
              PROVE  UNCHANGED <<inbox, deleting>>
            BY <2>3 DEF DeleteSession, chatVars
        <2>4. CASE DeleteManifest \/ DeleteRaises
            BY <2>4 DEF DeleteManifest, DeleteRaises, chatVars
        <2>5. CASE DeleteChat
            BY <2>5 DEF DeleteChat
        <2> QED
            BY <1>3, <2>1, <2>2, <2>3, <2>4, <2>5 DEF Proceed
    <1>4. CASE ApplyLate \/ Crash
        BY <1>4 DEF ApplyLate, Crash
    <1> QED
        BY <1>1, <1>2, <1>3, <1>4 DEF StoreStep

\* A call never asks for a deletion.
LEMMA DeletionCall ==
    ASSUME NEW c \in Client,
           ClientStep(c) \/ StartNew(c) \/ Abort(c) \/ \E u \in Upload : Resume(c, u)
    PROVE  /\ \A q \in inbox' : q \in inbox \/ q.kind # "delete"
           /\ UNCHANGED deleting /\ userActs \subseteq userActs'
    <1>1. ASSUME NEW kind \in RequestKinds \ {"delete"}, NEW u, NEW i, NEW state,
                 Ask(c, kind, u, i, state)
          PROVE  (\A q \in inbox' : q \in inbox \/ q.kind # "delete") /\ UNCHANGED deleting
        BY <1>1 DEF Ask, Send, chatVars
    <1>2. CASE \/ NextChunk(c) \/ AskComplete(c) \/ AskCheck(c) \/ PutAgain(c) \/ AskConfirm(c)
               \/ StartNew(c) \/ \E u \in Upload : Resume(c, u)
        BY <1>1, <1>2 DEF NextChunk, AskComplete, AskCheck, PutAgain, AskConfirm, StartNew,
           Resume, Call, RequestKinds
    <1>3. CASE OnSession(c) \/ OnPut(c) \/ OnCheck(c) \/ OnComplete(c) \/ OnConfirm(c)
        BY <1>3 DEF OnSession, OnPut, OnCheck, OnComplete, OnConfirm, Reconciliable, Answered,
           Lost, chatVars
    <1>4. CASE Abort(c)
        BY <1>4 DEF Abort, Act, storeVars, chatVars
    <1> QED
        BY <1>2, <1>3, <1>4 DEF ClientStep

\* Every deletion was asked for by the user.
LEMMA DeletionInvHolds == Spec => []DeletionInv
    <1>1. Init => DeletionInv
        BY DEF Init, StoreInit, DeletionInv
    <1>2. DeletionInv /\ [Next]_vars => DeletionInv'
        <2> SUFFICES ASSUME DeletionInv, [Next]_vars PROVE DeletionInv'
            OBVIOUS
        <2>1. CASE (StoreStep \/ Crash) /\ UNCHANGED clientVars
            BY <2>1, DeletionStore DEF DeletionInv, clientVars, Disturbed
        <2>2. ASSUME NEW c \in Client,
                     ClientStep(c) \/ StartNew(c) \/ Abort(c) \/ \E u \in Upload : Resume(c, u)
              PROVE  DeletionInv'
            BY <2>2, DeletionCall DEF DeletionInv, Disturbed
        <2>3. CASE DeleteThread \/ \E u \in Upload : CancelUpload(u)
            BY <2>3 DEF DeleteThread, CancelUpload, UserAct, Act, DeletionInv, Disturbed
        <2>4. CASE UNCHANGED vars
            BY <2>4 DEF vars, storeVars, chatVars, clientVars, DeletionInv, Disturbed
        <2> QED
            BY <2>1, <2>2, <2>3, <2>4 DEF Next
    <1> QED
        BY <1>1, <1>2, PTL DEF Spec

\* Nothing was sent, nothing is owed.
LEMMA ChargeInit == Init => ChargeInv
    <1> SUFFICES ASSUME Init PROVE ChargeInv
        OBVIOUS
    <1>1. \A c \in Client : ChargeOK(c)
        BY UploadAssumption DEF Init, ChargeOK, Sending
    <1>2. \A r \in Request : ViewOK(r)
        BY DEF Init, StoreInit, ViewOK, NoAnswer
    <1>3. \A r, u, i : ~InFlight(r, "cancel", u, i)
        BY DEF Init, StoreInit, InFlight
    <1>4. \A u \in Upload : Status(u) # "cancelled"
        BY DEF Init, StoreInit, Status, NoManifest
    <1> QED
        BY <1>1, <1>2, <1>3, <1>4 DEF ChargeInv

\* A chunk is given up only after more than RetryAttempts faults, or in an
\* upload that somebody cancelled or deleted: a PUT whose answer was lost
\* while its first copy is still being written never makes the call fail
\* (putChunkWithReconcile against the chunk order rule of finish()).
THEOREM RetriesCharged == Spec => []RetriesAbsorbFaults
    <1>1. StoreInv /\ ClientInv /\ DeletionInv /\ (StoreInv /\ ClientInv)' /\ ChargeInv /\ [Next]_vars
             => ChargeInv'
        <2> SUFFICES ASSUME StoreInv, ClientInv, DeletionInv, StoreInv', ChargeInv, [Next]_vars
                     PROVE  ChargeInv'
            OBVIOUS
        <2>1. CASE StoreStep /\ UNCHANGED clientVars
            BY <2>1, StoreSeen, StoreForward, ChargeStore
        <2>2. CASE Crash /\ UNCHANGED clientVars
            BY <2>2, ChargeCrash
        <2>3. CASE UNCHANGED vars
            <3>1. FlightKept /\ faults' = faults /\ UNCHANGED <<manifest, deleting, attachments>>
                BY <2>3 DEF vars, storeVars, diskVars, chatVars, FlightKept, InFlight
            <3>2. Seen /\ UNCHANGED clientVars
                BY <2>3, <3>1 DEF Seen, StoreInv, TypeOK, vars
            <3> QED
                BY <3>1, <3>2, StillForward, ChargeStore
        <2> QED
            BY <2>1, <2>2, <2>3, ChargeAsks, ChargeReads, ChargeUserActs DEF Next, ClientStep
    <1>2. ChargeInv => RetriesAbsorbFaults
        BY DEF ChargeInv, ChargeOK, RetriesAbsorbFaults, Disturbed
    <1> QED
        BY <1>1, <1>2, ChargeInit, ClientInvHolds, DeletionInvHolds, PTL DEF Spec

=============================================================================
