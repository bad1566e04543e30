-------------------------- MODULE MCRuntimeBroker --------------------------
(* Two requests, each for a chat of its own.                               *)
EXTENDS RuntimeBroker

CONSTANTS r1, r2, c1, c2

TwoChats == [r \in Request |-> IF r = r2 THEN c2 ELSE c1]
=============================================================================
