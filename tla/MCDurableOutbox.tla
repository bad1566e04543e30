-------------------------- MODULE MCDurableOutbox --------------------------
(* Three operations over two documents: one of each and one of both.       *)
EXTENDS DurableOutbox

CONSTANTS o1, o2, o3, p1, p2

WritesOverlapping ==
    [o \in {o1, o2, o3} |-> IF o = o1 THEN {p1} ELSE IF o = o2 THEN {p2} ELSE {p1, p2}]
=============================================================================
