---------------------------- MODULE MCDispatcher ----------------------------
(* TLC instances of Dispatcher: every call but the last goes to one host. *)
EXTENDS Dispatcher

CONSTANTS h1, h2, other

HostOf == [c \in Calls |-> IF c = other THEN h2 ELSE h1]
=============================================================================
