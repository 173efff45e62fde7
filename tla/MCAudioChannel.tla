--------------------------- MODULE MCAudioChannel ---------------------------
(* TLC instances of AudioChannel. *)
EXTENDS AudioChannel
=============================================================================
