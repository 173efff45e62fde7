--------------------------- MODULE MCMessageQueue ---------------------------
(* TLC instance of MessageQueue. *)
EXTENDS MessageQueue
=============================================================================
