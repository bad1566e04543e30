-------------------------- MODULE ResumableUpload --------------------------
(***************************************************************************)
(* uploadResumableFile of the browser (uploads.js) against the Bridge's    *)
(* upload sessions (UploadStore).  A client calls it to start a session,   *)
(* or, after a call that failed, to start another or to resume one by its  *)
(* upload id.  Its requests travel through Home Assistant, so an answer    *)
(* can be lost while the Bridge still works on the request: the request    *)
(* stays in the store and the client goes on.                              *)
(***************************************************************************)
EXTENDS UploadStore

CONSTANTS
    Client,         \* callers of uploadResumableFile
    MaxCalls,       \* bound: calls in all
    MaxUserActs,    \* bound: aborts, cancellations and deletions in all
    RetryAttempts   \* retryAttempts: how often one chunk is sent again

ASSUME ClientAssumption ==
    /\ MaxCalls \in Nat /\ MaxUserActs \in Nat /\ RetryAttempts \in Nat

VARIABLES
    pc,             \* where the call stands
    session,        \* the session it knows: id and last view
    index,          \* the chunk it is sending
    attempt,        \* attempt of putChunkWithReconcile
    waiting,        \* the request it awaits
    why,            \* history: what a failed call failed of
    calls,          \* calls made so far
    userActs        \* history: an abort, a cancellation or a deletion

clientVars == <<pc, session, index, attempt, waiting, why, calls, userActs>>
vars == <<storeVars, clientVars>>

Awaiting == {"creating", "resuming", "putting", "checking", "completing", "confirming"}
PcStates == {"idle", "loop", "put", "check", "confirm", "done", "failed"} \cup Awaiting

Init ==
    /\ StoreInit
    /\ pc = [c \in Client |-> "idle"]
    /\ session = [c \in Client |-> [id |-> None, view |-> NoManifest]]
    /\ index = [c \in Client |-> 0]
    /\ attempt = [c \in Client |-> 0]
    /\ waiting = [c \in Client |-> None]
    /\ why = [c \in Client |-> "none"]
    /\ calls = 0
    /\ userActs = {}

-----------------------------------------------------------------------------
(* requestJson: a request leaves, and is answered or lost.                 *)

\* Some request slot that neither side uses.
Busy == {waiting[c] : c \in Client} \cup {q.req : q \in inbox}
            \cup {w.req : w \in writers} \cup {Holder}
Slot == CHOOSE r \in Request : r \notin Busy
CanSend == Request \ Busy # {}

Ask(c, kind, u, i, state) ==
    /\ CanSend
    /\ Send([req |-> Slot, kind |-> kind, upload |-> u, index |-> i])
    /\ waiting' = [waiting EXCEPT ![c] = Slot]
    /\ pc' = [pc EXCEPT ![c] = state]

\* The ways an awaited request ends for the client; an answer is read once.
Forgotten(c) == answer' = [answer EXCEPT ![waiting[c]] = NoAnswer]

Answered(c, state, code) ==
    /\ pc[c] = state
    /\ answer[waiting[c]].code = code
    /\ waiting' = [waiting EXCEPT ![c] = None]
    /\ Forgotten(c)
    /\ UNCHANGED <<diskVars, chatVars, inbox, writers, op, faults>>
View(c) == answer[waiting[c]].view

Vanished(r) ==
    /\ answer[r].code = "none"
    /\ r \notin {q.req : q \in inbox} \cup {w.req : w \in writers}
    /\ r # Holder

Lost(c, state) ==
    /\ pc[c] = state
    /\ \/ Fault
       \/ Vanished(waiting[c]) /\ UNCHANGED faults
    /\ waiting' = [waiting EXCEPT ![c] = None]
    /\ Forgotten(c)
    /\ UNCHANGED <<diskVars, chatVars, inbox, writers, op>>

\* isReconciliable: 409, 5xx or a network error.
Reconciliable(c, state) == Answered(c, state, "retry") \/ Lost(c, state)

Fail(c, reason) ==
    /\ pc' = [pc EXCEPT ![c] = "failed"]
    /\ why' = [why EXCEPT ![c] = reason]

\* validateSession knows no status "publishing".
Valid(view) == view.status \in {"active", "completed", "cancelled"}

\* What uploadResumableFile does with a session it was given.
Adopt(c, id, view) ==
    /\ session' = [session EXCEPT ![c] = [id |-> id, view |-> view]]
    /\ CASE ~Valid(view) -> Fail(c, "invalid_session")
         [] view.status = "cancelled" -> Fail(c, "session_cancelled")
         [] view.status = "completed" -> pc' = [pc EXCEPT ![c] = "done"] /\ UNCHANGED why
         [] OTHER -> pc' = [pc EXCEPT ![c] = "loop"] /\ UNCHANGED why

-----------------------------------------------------------------------------
(* uploadResumableFile.                                                    *)

Call(c) ==
    /\ pc[c] \in {"idle", "failed"}
    /\ calls < MaxCalls /\ calls' = calls + 1
    /\ why' = [why EXCEPT ![c] = "none"]
    /\ UNCHANGED <<index, attempt, userActs>>

StartNew(c) ==
    /\ Call(c)
    /\ Ask(c, "create", None, 0, "creating")
    /\ UNCHANGED session

Resume(c, u) ==
    /\ Call(c) /\ Status(u) # "absent"
    /\ Ask(c, "get", u, 0, "resuming")
    /\ UNCHANGED session

OnSession(c) ==
    /\ \E state \in {"creating", "resuming"} :
          \/ /\ Answered(c, state, "ok")
             /\ Adopt(c, answer[waiting[c]].upload, View(c))
          \/ /\ Reconciliable(c, state) \/ Answered(c, state, "fatal")
             /\ Fail(c, "no_session") /\ UNCHANGED session
    /\ UNCHANGED <<index, attempt, calls, userActs>>

\* firstMissingIndex, and the loop over the missing chunks.
FirstMissing(view) == Cardinality(view.received)

NextChunk(c) ==
    LET i == FirstMissing(session[c].view) IN
    /\ pc[c] = "loop" /\ i < Chunks
    /\ Ask(c, "put", session[c].id, i, "putting")
    /\ index' = [index EXCEPT ![c] = i]
    /\ attempt' = [attempt EXCEPT ![c] = 0]
    /\ UNCHANGED <<session, why, calls, userActs>>

AskComplete(c) ==
    /\ pc[c] = "loop" /\ FirstMissing(session[c].view) = Chunks
    /\ Ask(c, "complete", session[c].id, 0, "completing")
    /\ UNCHANGED <<session, index, attempt, why, calls, userActs>>

\* putChunkWithReconcile: the answer to the PUT.
OnPut(c) ==
    /\ \/ /\ Answered(c, "putting", "ok")
          /\ Adopt(c, session[c].id, View(c))
       \/ /\ Reconciliable(c, "putting")
          /\ pc' = [pc EXCEPT ![c] = "check"]
          /\ UNCHANGED <<session, why>>
       \/ /\ Answered(c, "putting", "fatal")
          /\ Fail(c, "refused") /\ UNCHANGED session
    /\ UNCHANGED <<index, attempt, calls, userActs>>

AskCheck(c) ==
    /\ pc[c] = "check"
    /\ Ask(c, "get", session[c].id, 0, "checking")
    /\ UNCHANGED <<session, index, attempt, why, calls, userActs>>

\* Mutant: the attempts are not counted.
AgainForever(c) ==
    /\ pc' = [pc EXCEPT ![c] = "put"]
    /\ UNCHANGED <<attempt, why>>

\* The chunk is sent again while attempts are left.
Again(c) ==
    IF attempt[c] = RetryAttempts
    THEN Fail(c, "exhausted") /\ UNCHANGED attempt
    ELSE /\ pc' = [pc EXCEPT ![c] = "put"]
         /\ attempt' = [attempt EXCEPT ![c] = @ + 1]
         /\ UNCHANGED why

\* Mutant: the chunk is sent again without looking at what the session has.
OnCheckBlind(c) ==
    /\ \/ Answered(c, "checking", "ok") /\ Again(c)
       \/ Answered(c, "checking", "fatal") /\ Fail(c, "refused") /\ UNCHANGED attempt
       \/ Reconciliable(c, "checking") /\ Again(c)
    /\ UNCHANGED <<session, index, calls, userActs>>

\* The chunk is taken as sent when the session has it.
OnCheck(c) ==
    /\ \/ /\ Answered(c, "checking", "ok") /\ Valid(View(c))
          /\ \/ /\ View(c).status = "completed" \/ index[c] \in View(c).received
                /\ Adopt(c, session[c].id, View(c)) /\ UNCHANGED attempt
             \/ /\ View(c).status # "completed" /\ index[c] \notin View(c).received
                /\ session' = [session EXCEPT ![c].view = View(c)]
                /\ Again(c)
       \/ /\ \/ Answered(c, "checking", "fatal")
             \/ Answered(c, "checking", "ok") /\ ~Valid(View(c))
          /\ Fail(c, "refused") /\ UNCHANGED <<session, attempt>>
       \/ /\ Reconciliable(c, "checking")
          /\ Again(c) /\ UNCHANGED session
    /\ UNCHANGED <<index, calls, userActs>>

PutAgain(c) ==
    /\ pc[c] = "put"
    /\ Ask(c, "put", session[c].id, index[c], "putting")
    /\ UNCHANGED <<session, index, attempt, why, calls, userActs>>

OnComplete(c) ==
    /\ \/ /\ Answered(c, "completing", "ok")
          /\ pc' = [pc EXCEPT ![c] = "done"] /\ UNCHANGED why
       \/ /\ Reconciliable(c, "completing")
          /\ pc' = [pc EXCEPT ![c] = "confirm"] /\ UNCHANGED why
       \/ /\ Answered(c, "completing", "fatal")
          /\ Fail(c, "refused")
    /\ UNCHANGED <<session, index, attempt, calls, userActs>>

AskConfirm(c) ==
    /\ pc[c] = "confirm"
    /\ Ask(c, "get", session[c].id, 0, "confirming")
    /\ UNCHANGED <<session, index, attempt, why, calls, userActs>>

OnConfirm(c) ==
    /\ \/ /\ Answered(c, "confirming", "ok") /\ View(c).status = "completed"
          /\ pc' = [pc EXCEPT ![c] = "done"] /\ UNCHANGED why
       \/ /\ \/ Answered(c, "confirming", "ok") /\ View(c).status # "completed"
             \/ Answered(c, "confirming", "fatal")
             \/ Reconciliable(c, "confirming")
          /\ Fail(c, "unconfirmed")
    /\ UNCHANGED <<session, index, attempt, calls, userActs>>

Act(kind) ==
    /\ kind \notin userActs /\ Cardinality(userActs) < MaxUserActs
    /\ userActs' = userActs \cup {kind}

\* The panel is removed from the page and aborts the upload it has under way.
Abort(c) ==
    /\ pc[c] \notin {"idle", "done", "failed"}
    /\ Act("abort")
    /\ Fail(c, "aborted")
    /\ waiting' = [waiting EXCEPT ![c] = None]
    /\ UNCHANGED <<storeVars, session, index, attempt, calls>>

\* cancelResumableUpload, and the deletion of the chat from elsewhere; the
\* caller's answer is of no interest here.
UserAct(kind, u) ==
    /\ Act(kind)
    /\ CanSend
    /\ Send([req |-> Slot, kind |-> kind, upload |-> u, index |-> 0])
    /\ UNCHANGED <<pc, session, index, attempt, waiting, why, calls>>

CancelUpload(u) == Status(u) # "absent" /\ UserAct("cancel", u)
DeleteThread == UserAct("delete", None)

ClientStep(c) ==
    \/ OnSession(c) \/ NextChunk(c) \/ AskComplete(c) \/ OnPut(c) \/ AskCheck(c)
    \/ OnCheck(c) \/ PutAgain(c) \/ OnComplete(c) \/ AskConfirm(c) \/ OnConfirm(c)

Next ==
    \/ StoreStep /\ UNCHANGED clientVars
    \/ Crash /\ UNCHANGED clientVars
    \/ \E c \in Client : ClientStep(c) \/ StartNew(c) \/ Abort(c)
                         \/ \E u \in Upload : Resume(c, u)
    \/ \E u \in Upload : CancelUpload(u)
    \/ DeleteThread

Spec == Init /\ [][Next]_vars
FairSpec == /\ Spec
            /\ WF_vars(StoreStep /\ UNCHANGED clientVars)
            /\ \A c \in Client : WF_vars(ClientStep(c))

-----------------------------------------------------------------------------
\* A call that returns has its file attached to the chat, and however often
\* chunks, completions and confirmations were sent again the journal has one
\* attachment.added for it (complete_upload_session against the retries of
\* uploads.js); the exceptions are those of UploadBacked.
SuccessIsAttachedOnce ==
    ~deleting =>
        /\ \A u \in Upload \ unsure :
              added[u] = IF u \in attachments THEN 1 ELSE 0
        /\ \A c \in Client : pc[c] = "done" => session[c].id \in attachments

\* A chunk is given up only after more than RetryAttempts faults, or because
\* the upload was cancelled or its chat deleted: a PUT whose answer was lost
\* while its first copy is still being written never makes the call fail
\* (putChunkWithReconcile against the chunk order rule of finish()).
RetriesAbsorbFaults ==
    \A c \in Client :
        why[c] = "exhausted" =>
            faults > RetryAttempts \/ userActs \cap {"cancel", "delete"} # {}

\* Every call ends: no sequence of conflicts keeps it in its loop.
UploadEnds == \A c \in Client : pc[c] = "loop" ~> pc[c] \in {"done", "failed"}
=============================================================================
