------------------------------ MODULE QueueSpec ------------------------------
(***************************************************************************)
(* What the class template message_queue<T> of common/message_queue.h      *)
(* promises its callers: a FIFO of owned pointers that can be opened       *)
(* (gotoWork) and closed (backWork), in which every operation is one       *)
(* indivisible step.  No mutex, no condition variable, no wake-up.         *)
(* MessageQueue.tla is shown to implement it.                              *)
(***************************************************************************)
EXTENDS Sequences

CONSTANTS Producers,  \* threads that push
          Consumers,  \* threads that pop (and call sync)
          Values,     \* the pointers that travel (AVPacket *, AVFrame *)
          NoValue     \* a null pointer

VARIABLES queue,      \* std::queue<T> queue
          state,      \* bool state: TRUE between gotoWork and backWork
          hand,       \* hand[t]: the pointer thread t owns, or NoValue
          live        \* the pointers that are allocated and not yet released

qvars == <<queue, state, hand, live>>

Init ==
    /\ queue = <<>>
    /\ state = FALSE
    /\ hand = [t \in Producers \cup Consumers |-> NoValue]
    /\ live = {}

\* A producer allocates the packet or frame that it is going to push.
Produce(p) ==
    /\ hand[p] = NoValue
    /\ \E v \in Values \ live : /\ hand' = [hand EXCEPT ![p] = v]
                                /\ live' = live \cup {v}
    /\ UNCHANGED <<queue, state>>

\* push: an open queue takes the pointer over, a closed one releases it.
Push(p) ==
    /\ hand[p] # NoValue
    /\ hand' = [hand EXCEPT ![p] = NoValue]
    /\ \/ state /\ queue' = Append(queue, hand[p]) /\ UNCHANGED live
       \/ ~state /\ live' = live \ {hand[p]} /\ UNCHANGED queue
    /\ UNCHANGED state

\* pop: the oldest pointer changes hands, open queue or not.
Pop(c) ==
    /\ hand[c] = NoValue
    /\ queue # <<>>
    /\ hand' = [hand EXCEPT ![c] = Head(queue)]
    /\ queue' = Tail(queue)
    /\ UNCHANGED <<state, live>>

\* A consumer releases what it popped.
Consume(c) ==
    /\ hand[c] # NoValue
    /\ live' = live \ {hand[c]}
    /\ hand' = [hand EXCEPT ![c] = NoValue]
    /\ UNCHANGED <<queue, state>>

\* sync and each turn of clear: the oldest pointer is released unplayed.
Drop ==
    /\ queue # <<>>
    /\ live' = live \ {Head(queue)}
    /\ queue' = Tail(queue)
    /\ UNCHANGED <<state, hand>>

GotoWork == state' = TRUE /\ UNCHANGED <<queue, hand, live>>

BackWork == state' = FALSE /\ UNCHANGED <<queue, hand, live>>

Next ==
    \/ \E p \in Producers : Produce(p) \/ Push(p)
    \/ \E c \in Consumers : Pop(c) \/ Consume(c)
    \/ Drop
    \/ GotoWork
    \/ BackWork

Spec == Init /\ [][Next]_qvars
=============================================================================
