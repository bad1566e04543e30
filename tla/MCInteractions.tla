--------------------------- MODULE MCInteractions ---------------------------
(* Interactions with one card, a panel and two calls under way.            *)
EXTENDS Interactions, TLC

=============================================================================
