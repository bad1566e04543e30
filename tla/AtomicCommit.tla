---------------------------- MODULE AtomicCommit ----------------------------
(***************************************************************************)
(* What the durable outbox promises its callers: an operation replaces the *)
(* canonical documents it names and publishes its events in one step, at   *)
(* most once, and a plain save replaces one document.  Nothing is undone.  *)
(***************************************************************************)
EXTENDS Naturals, Sequences

CONSTANTS
    Op,         \* operation ids
    Path,       \* canonical documents
    Plain,      \* contents written without an operation
    NoDoc,      \* content of a document that does not exist
    Writes      \* Writes[o]: the documents operation o replaces

VARIABLES
    doc,        \* content of every document: an operation, a plain save, or none
    log         \* the operations in the order their events are published

Init ==
    /\ doc = [p \in Path |-> NoDoc]
    /\ log = <<>>

Commit(o) ==
    /\ \A i \in 1 .. Len(log) : log[i] # o
    /\ doc' = [p \in Path |-> IF p \in Writes[o] THEN o ELSE doc[p]]
    /\ log' = Append(log, o)

Save(p, v) ==
    /\ doc' = [doc EXCEPT ![p] = v]
    /\ UNCHANGED log

Next ==
    \/ \E o \in Op : Commit(o)
    \/ \E p \in Path, v \in Plain : Save(p, v)

Spec == Init /\ [][Next]_<<doc, log>>
=============================================================================
