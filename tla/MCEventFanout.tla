--------------------------- MODULE MCEventFanout ---------------------------
(***************************************************************************)
(* EventFanout with two scopes and a subscriber of one of them.            *)
(* Subscriptions do not affect each other or the broker, so one stands for *)
(* every one.                                                              *)
(***************************************************************************)
EXTENDS EventFanout

CONSTANTS t1, t2, s1

FilterOne == [s \in {s1} |-> {t1}]
=============================================================================
