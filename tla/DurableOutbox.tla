--------------------------- MODULE DurableOutbox ---------------------------
(***************************************************************************)
(* The durable outbox of the Bridge (DurableOutbox in event_store.py): an  *)
(* operation replaces canonical JSON documents and publishes its events,   *)
(* over two stores that cannot be written together.  Its row is committed  *)
(* first, then the documents are replaced one after the other, then one    *)
(* transaction appends the events and marks the row applied.  A row that   *)
(* is still pending is finished by the next commit, or at startup, from    *)
(* the marker (operation and revision) that every replaced document bears. *)
(*                                                                         *)
(* All of this runs under the operation lock, whose holder is `job'.  Its  *)
(* callers take the revisions under a lock of the documents concerned      *)
(* (storage's thread mutation lock, the broker's lock), which they hold to *)
(* the end of the commit; a plain save_thread holds the document's lock    *)
(* but not the operation lock.                                             *)
(*                                                                         *)
(* A step may raise with the process going on (a full disk, a locked       *)
(* database), and the process may die between any two steps.               *)
(***************************************************************************)
EXTENDS Naturals, Sequences

CONSTANTS
    Op,             \* operation ids; each caller makes its own
    Path,           \* canonical documents
    Plain,          \* contents of plain saves, each used once
    NoOp,           \* no operation
    NoDoc,          \* content of a document that does not exist
    Writes,         \* Writes[o]: the documents operation o replaces
    CanRaise,       \* whether a step may raise and leave the process running
    MaxFailures     \* bound on exceptions and crashes

ASSUME OutboxAssumption ==
    /\ Writes \in [Op -> SUBSET Path]
    /\ NoOp \notin Op
    /\ NoDoc \notin Op \cup Plain
    /\ Op \cap Plain = {}
    /\ CanRaise \in BOOLEAN
    /\ MaxFailures \in Nat

VARIABLES
    row,        \* outbox_operations: none, pending or applied
    rev,        \* state_revision of every write in an operation's envelope
    journal,    \* operations in the order of their events in the journal
    file,       \* the canonical documents: content and revision of the marker
    mode,       \* the process is starting or running
    stage,      \* how far the holder of the operation lock is
    job,        \* the operation its caller wants to commit
    cur,        \* the operation being applied: job, or an older pending one
    todo,       \* documents cur still has to replace
    reconciled, \* _reconciled
    base,       \* history: what an operation found in its documents
    saved,      \* plain contents used so far
    failures    \* exceptions and crashes so far

durableVars == <<row, rev, journal, file>>
processVars == <<mode, stage, job, cur, todo, reconciled>>
vars == <<durableVars, processVars, base, saved, failures>>

-----------------------------------------------------------------------------
Content == Op \cup Plain \cup {NoDoc}
Stages == {"idle", "scan", "prepare", "decide", "replace", "finalize"}

TypeOK ==
    /\ row \in [Op -> {"none", "pending", "applied"}]
    /\ rev \in [Op -> [Path -> Nat]]
    /\ journal \in Seq(Op)
    /\ file \in [Path -> [by : Content, rev : Nat]]
    /\ mode \in {"starting", "running"}
    /\ stage \in Stages
    /\ job \in Op \cup {NoOp}
    /\ cur \in Op \cup {NoOp}
    /\ todo \subseteq Path
    /\ reconciled \in BOOLEAN
    /\ base \in [Op -> [Path -> Content]]
    /\ saved \subseteq Plain
    /\ failures \in 0 .. MaxFailures

Init ==
    /\ row = [o \in Op |-> "none"]
    /\ rev = [o \in Op |-> [p \in Path |-> 0]]
    /\ journal = <<>>
    /\ file = [p \in Path |-> [by |-> NoDoc, rev |-> 0]]
    /\ mode = "starting"
    /\ stage = "scan"
    /\ job = NoOp /\ cur = NoOp
    /\ todo = {}
    /\ reconciled = FALSE
    /\ base = [o \in Op |-> [p \in Path |-> NoDoc]]
    /\ saved = {}
    /\ failures = 0

Pending == {o \in Op : row[o] = "pending"}

\* The lock is released, by return or by exception.
Unlock ==
    /\ stage' = "idle"
    /\ job' = NoOp /\ cur' = NoOp
    /\ todo' = {}

-----------------------------------------------------------------------------
\* Mutant: an older operation is left for later.
BeginUnreconciled(o) ==
    /\ mode = "running" /\ stage = "idle"
    /\ row[o] = "none"
    /\ job' = o
    /\ stage' = "prepare"
    /\ UNCHANGED <<durableVars, mode, cur, todo, reconciled, base, saved, failures>>

\* commit_operation takes the lock; _ensure_reconciled_locked.
Begin(o) ==
    /\ mode = "running" /\ stage = "idle"
    /\ row[o] = "none"
    /\ job' = o
    /\ stage' = IF reconciled THEN "prepare" ELSE "scan"
    /\ UNCHANGED <<durableVars, mode, cur, todo, reconciled, base, saved, failures>>

\* _reconcile_locked: the oldest pending row (there is never a second, see
\* JournalExact), or the end of the scan.
Scan ==
    /\ stage = "scan"
    /\ IF Pending # {}
       THEN /\ \E o \in Pending : cur' = o
            /\ stage' = "decide"
            /\ reconciled' = FALSE
            /\ UNCHANGED mode
       ELSE /\ reconciled' = TRUE
            /\ stage' = IF mode = "starting" THEN "idle" ELSE "prepare"
            /\ mode' = "running"
            /\ UNCHANGED cur
    /\ UNCHANGED <<durableVars, job, todo, base, saved, failures>>

\* Mutant: the revision goes down.
NextRevisionDown(p) == file[p].rev - 1

\* next_state_revision: one above the marker's, 1 where there is no marker.
NextRevision(p) == file[p].rev + 1

\* next_state_revision for every document, then _prepare commits the row.
Prepare ==
    /\ stage = "prepare"
    /\ row' = [row EXCEPT ![job] = "pending"]
    /\ rev' = [rev EXCEPT ![job] = [p \in Path |-> NextRevision(p)]]
    /\ base' = [base EXCEPT ![job] = [p \in Path |-> file[p].by]]
    /\ reconciled' = FALSE
    /\ cur' = job
    /\ stage' = "decide"
    /\ UNCHANGED <<journal, file, mode, job, todo, saved, failures>>

\* Bounds, capacity or an expired key: the operation is not admitted.
Refuse ==
    /\ stage = "prepare"
    /\ Unlock
    /\ UNCHANGED <<durableVars, mode, reconciled, base, saved, failures>>

\* _apply_writes, its first loop: a document with this operation's marker is
\* done, one with a marker of an older revision or none is to be replaced.
Own(p) == file[p].by = cur /\ file[p].rev = rev[cur][p]

\* The document bears another operation's marker that is not older.
Diverged == \E p \in Writes[cur] :
    file[p].by \in Op /\ ~Own(p) /\ file[p].rev >= rev[cur][p]

Decide ==
    /\ stage = "decide"
    /\ ~Diverged
    /\ todo' = {p \in Writes[cur] : ~Own(p)}
    /\ stage' = "replace"
    /\ UNCHANGED <<durableVars, mode, job, cur, reconciled, base, saved, failures>>

\* Mutant: the list of replacements is not consumed.
ReplaceAgain(p) ==
    /\ stage = "replace"
    /\ p \in todo
    /\ file' = [file EXCEPT ![p] = [by |-> cur, rev |-> rev[cur][p]]]
    /\ UNCHANGED <<row, rev, journal, processVars, base, saved, failures>>

\* _apply_writes, its second loop.
Replace(p) ==
    /\ stage = "replace"
    /\ p \in todo
    /\ file' = [file EXCEPT ![p] = [by |-> cur, rev |-> rev[cur][p]]]
    /\ todo' = todo \ {p}
    /\ UNCHANGED <<row, rev, journal, mode, stage, job, cur, reconciled, base,
                   saved, failures>>

\* _apply_writes, its last loop: every document is read back.
Changed == todo = {} /\ \E p \in Writes[cur] : ~Own(p)

\* Mutant: nothing is read back and no replacement waited for.
VerifyNothing ==
    /\ stage = "replace"
    /\ stage' = "finalize"
    /\ UNCHANGED <<durableVars, mode, job, cur, todo, reconciled, base, saved, failures>>

Verify ==
    /\ stage = "replace"
    /\ todo = {} /\ ~Changed
    /\ stage' = "finalize"
    /\ UNCHANGED <<durableVars, mode, job, cur, todo, reconciled, base, saved, failures>>

\* Mutant: the events are committed before the row is marked.
FinalizeEventsOnly ==
    /\ stage = "finalize"
    /\ journal' = Append(journal, cur)
    /\ IF cur = job
       THEN Unlock
       ELSE stage' = "scan" /\ cur' = NoOp /\ UNCHANGED <<todo, job>>
    /\ UNCHANGED <<row, rev, file, mode, reconciled, base, saved, failures>>

\* _finalize: one transaction for the events and the row.
Finalize ==
    /\ stage = "finalize"
    /\ journal' = Append(journal, cur)
    /\ row' = [row EXCEPT ![cur] = "applied"]
    /\ IF cur = job
       THEN Unlock /\ reconciled' = TRUE
       ELSE stage' = "scan" /\ cur' = NoOp /\ UNCHANGED <<todo, job, reconciled>>
    /\ UNCHANGED <<rev, file, mode, base, saved, failures>>

-----------------------------------------------------------------------------
\* Mutant: storage does not reconcile when it opens the outbox.
RestartedUnreconciled ==
    /\ mode' = "running"
    /\ stage' = "idle"
    /\ job' = NoOp /\ cur' = NoOp
    /\ todo' = {}
    /\ reconciled' = TRUE

\* Home Assistant's supervisor starts the process again: DurableOutbox is
\* created and reconcile runs before anything else does.
Restarted ==
    /\ mode' = "starting"
    /\ stage' = "scan"
    /\ job' = NoOp /\ cur' = NoOp
    /\ todo' = {}
    /\ reconciled' = FALSE

\* An exception leaves commit_operation; at startup it ends the process.
Leave ==
    IF mode = "starting" THEN Restarted ELSE Unlock /\ UNCHANGED <<mode, reconciled>>

Raise ==
    /\ CanRaise
    /\ stage # "idle"
    /\ failures < MaxFailures
    /\ failures' = failures + 1
    /\ Leave
    /\ UNCHANGED <<durableVars, base, saved>>

\* OutboxStateConflictError.
Conflict ==
    /\ \/ stage = "decide" /\ Diverged
       \/ stage = "replace" /\ Changed
    /\ Leave
    /\ UNCHANGED <<durableVars, base, saved, failures>>

Crash ==
    /\ failures < MaxFailures
    /\ failures' = failures + 1
    /\ Restarted
    /\ UNCHANGED <<durableVars, base, saved>>

\* save_thread, RuntimeStateStore.save: no row and no marker.
Locked(p) == job # NoOp /\ p \in Writes[job]

Save(p, v) ==
    /\ mode = "running"
    /\ ~Locked(p)
    /\ v \notin saved
    /\ saved' = saved \cup {v}
    /\ file' = [file EXCEPT ![p] = [by |-> v, rev |-> 0]]
    /\ UNCHANGED <<row, rev, journal, processVars, base, failures>>

-----------------------------------------------------------------------------
OutboxStep ==
    \/ Scan \/ Prepare \/ Decide \/ Verify \/ Finalize
    \/ \E p \in Path : Replace(p)

Next ==
    \/ \E o \in Op : Begin(o)
    \/ OutboxStep
    \/ Refuse \/ Raise \/ Conflict \/ Crash
    \/ \E p \in Path, v \in Plain : Save(p, v)

Spec == Init /\ [][Next]_vars

(***************************************************************************)
(* Fairness: the holder of the lock goes on.                               *)
(***************************************************************************)
FairSpec == Spec /\ WF_vars(OutboxStep \/ Conflict)

-----------------------------------------------------------------------------
(***************************************************************************)
(* The dirty flag: "A successful reconciliation or finalize proves there   *)
(* are no older pending rows" (the comment in __init__).  With it set, a   *)
(* commit does not look for pending rows.                                  *)
(***************************************************************************)
ReconciledIsProof == reconciled => Pending = {}

(***************************************************************************)
(* The journal holds the events of every applied operation exactly once    *)
(* and of no other, and never two operations are half done: an operation   *)
(* is finished before a later one is prepared.                             *)
(***************************************************************************)
JournalExact ==
    /\ \A o \in Op : row[o] = "applied" <=> \E i \in 1 .. Len(journal) : journal[i] = o
    /\ \A i, j \in 1 .. Len(journal) : journal[i] = journal[j] => i = j
    /\ \A a, b \in Pending : a = b

(***************************************************************************)
(* No operation ever meets "a divergent revision", which would leave its   *)
(* row pending for good and make every later commit fail.                  *)
(***************************************************************************)
NeverDiverged == stage = "decide" => ~Diverged

(***************************************************************************)
(* An operation's events are published only when all of its documents are  *)
(* in place, or were replaced by something later.                          *)
(***************************************************************************)
StateBeforeEvents ==
    [][\A o \in Op : (row[o] = "pending" /\ row'[o] = "applied")
         => \A p \in Writes[o] : file[p].by # base[o][p]]_vars

(***************************************************************************)
(* An operation replaces only what it was made from.  "Finish every older  *)
(* operation before allowing a newer revision to supersede that marker"    *)
(* (the comment in commit_operation): a newer document must not be         *)
(* overwritten by an operation that was prepared before it.                *)
(***************************************************************************)
NewerStateSurvives ==
    [][\A p \in Path, o \in Op :
          (file'[p] # file[p] /\ file'[p].by = o) => file[p].by = base[o][p]]_vars

(***************************************************************************)
(* With process deaths as the only failures the outbox implements          *)
(* AtomicCommit: an operation takes effect at the moment its row is        *)
(* committed, and what its documents and events lack is owed.              *)
(***************************************************************************)
Owing(p) == {o \in Pending : p \in Writes[o]}
AbstractDoc ==
    [p \in Path |-> IF Owing(p) # {} THEN CHOOSE o \in Owing(p) : TRUE ELSE file[p].by]
AbstractLog ==
    IF Pending # {} THEN Append(journal, CHOOSE o \in Pending : TRUE) ELSE journal

Abstract == INSTANCE AtomicCommit WITH doc <- AbstractDoc, log <- AbstractLog

Implements == Abstract!Spec

(***************************************************************************)
(* The lock is always released and a start always ends: whoever begins,    *)
(* commits, is refused or gets an exception.                               *)
(***************************************************************************)
LockReleased == (stage # "idle") ~> (stage = "idle")
=============================================================================
