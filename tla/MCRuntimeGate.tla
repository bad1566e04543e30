--------------------------- MODULE MCRuntimeGate ---------------------------
(* RuntimeGate on a small instance.                                        *)
EXTENDS RuntimeGate

=============================================================================
