------------------------- MODULE MCResumableUpload -------------------------
(* ResumableUpload on a small instance: two calls, a file of two chunks.   *)
EXTENDS ResumableUpload, TLC

=============================================================================
