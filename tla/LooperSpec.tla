----------------------------- MODULE LooperSpec -----------------------------
(***************************************************************************)
(* What looper/Looper.cpp promises: a mailbox of messages handled one at a *)
(* time in the order in which they were posted, a flush that discards what *)
(* is queued, and a quit message that ends the worker when its turn comes. *)
(* Looper.tla is shown to implement it.                                    *)
(***************************************************************************)
EXTENDS Sequences

CONSTANTS Messages,  \* addresses of LooperMessage objects
          Quit,      \* the message with quit = true
          NoMessage  \* a null pointer

VARIABLES list,      \* the messages queued from head on
          cur,       \* the message the worker has taken, or NoMessage
          worker     \* "running", or "exited" once loop() has returned

mvars == <<list, cur, worker>>

Init == list = <<>> /\ cur = NoMessage /\ worker = "running"

Post(m) ==
    /\ list' = Append(list, m)
    /\ UNCHANGED <<cur, worker>>

\* postMessage(..., flush = true): the message replaces all that are queued.
PostFlushing(m) ==
    /\ list' = <<m>>
    /\ UNCHANGED <<cur, worker>>

Take ==
    /\ worker = "running"
    /\ cur = NoMessage
    /\ list # <<>>
    /\ cur' = Head(list)
    /\ list' = Tail(list)
    /\ UNCHANGED worker

\* A message is handled, or ends the worker.
Finish ==
    /\ cur # NoMessage
    /\ worker' = IF cur = Quit THEN "exited" ELSE worker
    /\ cur' = NoMessage
    /\ UNCHANGED list

Next ==
    \/ \E m \in Messages : Post(m) \/ PostFlushing(m)
    \/ Post(Quit)
    \/ Take
    \/ Finish

Spec == Init /\ [][Next]_mvars
=============================================================================
