---------------------------- MODULE BaseChannel -----------------------------
(***************************************************************************)
(* What the two channels share (player/BaseChannel.h): two message queues, *)
(* packets and frames, used through the indivisible operations that        *)
(* MessageQueue.tla is shown to implement (QueueSpec.tla).                 *)
(***************************************************************************)
EXTENDS Naturals, Sequences

\* A null AVPacket * or AVFrame *.
Null == 0

\* A message_queue: state (TRUE between gotoWork and backWork) and contents.
NewQueue == [state |-> FALSE, items |-> <<>>]

Queues(S) == [state : BOOLEAN, items : Seq(S)]

\* gotoWork and backWork.
Working(q) == [q EXCEPT !.state = TRUE]
Halted(q) == [q EXCEPT !.state = FALSE]

\* push: refused by a queue that does not work.
Pushed(q, v) == IF q.state THEN [q EXCEPT !.items = Append(@, v)] ELSE q

\* pop blocks while the queue works and is empty.
PopReturns(q) == q.items # <<>> \/ ~q.state

\* The value pop assigns: the front if there is one, else what was there.
Front(q, old) == IF q.items # <<>> THEN Head(q.items) ELSE old

\* pop, sync and clear remove from the front.
Dropped(q) == IF q.items # <<>> THEN [q EXCEPT !.items = Tail(@)] ELSE q

Contents(q) == {q.items[i] : i \in 1..Len(q.items)}
=============================================================================
