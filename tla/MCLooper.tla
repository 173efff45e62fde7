------------------------------ MODULE MCLooper ------------------------------
(* TLC instance of Looper. *)
EXTENDS Looper
=============================================================================
