--------------------------- MODULE MCVideoChannel ---------------------------
(* TLC instances of VideoChannel. *)
EXTENDS VideoChannel
=============================================================================
