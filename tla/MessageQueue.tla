---------------------------- MODULE MessageQueue ----------------------------
(***************************************************************************)
(* The class template message_queue<T> (common/message_queue.h) at the     *)
(* granularity of its pthread calls.  Every public method is a lock step   *)
(* followed by the steps it takes while it owns the mutex; pop may give    *)
(* the mutex up in pthread_cond_wait and has to get it back.  The callers  *)
(* are the threads of the player: producers look at size() without the     *)
(* lock, allocate and push (the demuxer for packets, the decoders for      *)
(* frames), consumers pop, may call sync while they hold a frame (the      *)
(* video renderer) and release, controllers call gotoWork (start),         *)
(* backWork (stop) and clear (the channel's destructor).                   *)
(***************************************************************************)
EXTENDS Naturals, Sequences, FiniteSets

CONSTANTS Producers,    \* threads that push
          Consumers,    \* threads that pop
          Controllers,  \* threads that open, close and clear the queue
          Values,       \* addresses of packets or frames
          NoValue,      \* a null pointer
          Nobody,       \* the owner of a free mutex
          MaxSize       \* producers wait while size() > MaxSize (100 in the code)

Threads == Producers \cup Consumers \cup Controllers

ASSUME ThreadAssumption ==
    /\ Producers \cap Consumers = {}
    /\ Producers \cap Controllers = {}
    /\ Consumers \cap Controllers = {}
    /\ Nobody \notin Threads
ASSUME ValueAssumption == NoValue \notin Values
ASSUME SizeAssumption == MaxSize \in Nat
ASSUME FiniteAssumption == IsFiniteSet(Producers) /\ IsFiniteSet(Consumers)
ASSUME ConsumerAssumption == Consumers # {}

VARIABLES mutex,    \* pthread_mutex_t mutex: its owner, or Nobody
          waiters,  \* the threads asleep on pthread_cond_t cond
          state,    \* bool state
          queue,    \* std::queue<T> queue
          pc,       \* where each thread is in the method it is calling
          hand,     \* hand[t]: the pointer thread t owns, or NoValue
          live      \* the pointers that are allocated and not yet released

vars == <<mutex, waiters, state, queue, pc, hand, live>>

Init ==
    /\ mutex = Nobody
    /\ waiters = {}
    /\ state = FALSE
    /\ queue = <<>>
    /\ pc = [t \in Threads |-> "idle"]
    /\ hand = [t \in Producers \cup Consumers |-> NoValue]
    /\ live = {}

-----------------------------------------------------------------------------
(* The pthread primitives. *)

\* pthread_mutex_lock: thread t moves from one point to the next with the mutex.
Lock(t, from, to) ==
    /\ pc[t] = from
    /\ mutex = Nobody
    /\ mutex' = t
    /\ pc' = [pc EXCEPT ![t] = to]

\* pthread_mutex_unlock on the way to a point.
Unlock(t, to) ==
    /\ mutex' = Nobody
    /\ pc' = [pc EXCEPT ![t] = to]

\* pthread_cond_signal wakes one sleeper, if there is one.
Signal ==
    \/ waiters = {} /\ UNCHANGED waiters
    \/ \E w \in waiters : waiters' = waiters \ {w}

\* pthread_cond_wait may return although nobody has signalled.
SpuriousWakeup(c) ==
    /\ c \in waiters
    /\ waiters' = waiters \ {c}
    /\ UNCHANGED <<mutex, state, queue, pc, hand, live>>

-----------------------------------------------------------------------------
(* The producers. *)

\* Mutant of HasRoom: the producers' loops do not look at size().
AlwaysRoom == TRUE

\* The test of the producers' loops, size() > MaxSize, read without the lock.
HasRoom == Len(queue) <= MaxSize

\* A producer finds room and allocates a packet or a frame.
Produce(p) ==
    /\ pc[p] = "idle"
    /\ HasRoom
    /\ \E v \in Values \ live : /\ hand' = [hand EXCEPT ![p] = v]
                                /\ live' = live \cup {v}
    /\ pc' = [pc EXCEPT ![p] = "full"]
    /\ UNCHANGED <<mutex, waiters, state, queue>>

PushLock(p) ==
    /\ Lock(p, "full", "push")
    /\ UNCHANGED <<waiters, state, queue, hand, live>>

\* Mutant of Accept: nobody is signalled.
AcceptSilently(p) ==
    /\ state
    /\ queue' = Append(queue, hand[p])
    /\ UNCHANGED <<waiters, live>>

\* push on an open queue: append and signal.
Accept(p) ==
    /\ state
    /\ queue' = Append(queue, hand[p])
    /\ Signal
    /\ UNCHANGED live

\* Mutant of Refuse: the pointer is dropped without releaseCallBack.
RefuseWithoutRelease(p) ==
    /\ ~state
    /\ UNCHANGED <<queue, waiters, live>>

\* push on a closed queue: releaseCallBack gets the pointer.
Refuse(p) ==
    /\ ~state
    /\ live' = live \ {hand[p]}
    /\ UNCHANGED <<queue, waiters>>

Push(p) ==
    /\ pc[p] = "push"
    /\ Accept(p) \/ Refuse(p)
    /\ hand' = [hand EXCEPT ![p] = NoValue]
    /\ Unlock(p, "idle")
    /\ UNCHANGED state

-----------------------------------------------------------------------------
(* The consumers. *)

PopLock(c) ==
    /\ Lock(c, "idle", "test")
    /\ UNCHANGED <<waiters, state, queue, hand, live>>

\* The test of pop's while loop sends the thread to sleep and frees the mutex.
PopWait(c) ==
    /\ pc[c] = "test"
    /\ state /\ queue = <<>>
    /\ waiters' = waiters \cup {c}
    /\ Unlock(c, "waiting")
    /\ UNCHANGED <<state, queue, hand, live>>

\* pthread_cond_wait returns: the mutex is taken back and the test repeated.
PopWake(c) ==
    /\ c \notin waiters
    /\ Lock(c, "waiting", "test")
    /\ UNCHANGED <<waiters, state, queue, hand, live>>

\* The loop is left with something in the queue.
PopFound(c) ==
    /\ pc[c] = "test"
    /\ queue # <<>>
    /\ pc' = [pc EXCEPT ![c] = "take"]
    /\ UNCHANGED <<mutex, waiters, state, queue, hand, live>>

\* Mutant of PopTake: the newest entry is taken.
PopTakeBack(c) ==
    /\ pc[c] = "take"
    /\ hand' = [hand EXCEPT ![c] = queue[Len(queue)]]
    /\ queue' = SubSeq(queue, 1, Len(queue) - 1)
    /\ Unlock(c, "use")
    /\ UNCHANGED <<waiters, state, live>>

\* front and pop; the caller owns the pointer, pop returns 1.
PopTake(c) ==
    /\ pc[c] = "take"
    /\ hand' = [hand EXCEPT ![c] = Head(queue)]
    /\ queue' = Tail(queue)
    /\ Unlock(c, "use")
    /\ UNCHANGED <<waiters, state, live>>

\* A closed and empty queue: pop returns 0.
PopFail(c) ==
    /\ pc[c] = "test"
    /\ ~state /\ queue = <<>>
    /\ Unlock(c, "idle")
    /\ UNCHANGED <<waiters, state, queue, hand, live>>

SyncLock(c) ==
    /\ Lock(c, "use", "sync")
    /\ UNCHANGED <<waiters, state, queue, hand, live>>

\* sync with the handler the frame queue is given, dropAvFrame.
Sync(c) ==
    /\ pc[c] = "sync"
    /\ \/ /\ queue # <<>>
          /\ live' = live \ {Head(queue)}
          /\ queue' = Tail(queue)
       \/ /\ queue = <<>>
          /\ UNCHANGED <<live, queue>>
    /\ Unlock(c, "use")
    /\ UNCHANGED <<waiters, state, hand>>

\* The consumer is done with the pointer and releases it.
Consume(c) ==
    /\ pc[c] = "use"
    /\ live' = live \ {hand[c]}
    /\ hand' = [hand EXCEPT ![c] = NoValue]
    /\ pc' = [pc EXCEPT ![c] = "idle"]
    /\ UNCHANGED <<mutex, waiters, state, queue>>

-----------------------------------------------------------------------------
(* The controllers. *)

ControlLock(k) ==
    /\ \E m \in {"goto", "back", "clear"} : Lock(k, "idle", m)
    /\ UNCHANGED <<waiters, state, queue, hand, live>>

GotoWork(k) ==
    /\ pc[k] = "goto"
    /\ state' = TRUE
    /\ Signal
    /\ Unlock(k, "idle")
    /\ UNCHANGED <<queue, hand, live>>

\* Mutant of BackWork: the sleeper is not signalled.
BackWorkSilently(k) ==
    /\ pc[k] = "back"
    /\ state' = FALSE
    /\ Unlock(k, "idle")
    /\ UNCHANGED <<waiters, queue, hand, live>>

BackWork(k) ==
    /\ pc[k] = "back"
    /\ state' = FALSE
    /\ Signal
    /\ Unlock(k, "idle")
    /\ UNCHANGED <<queue, hand, live>>

\* One turn of clear's loop: release the front and remove it.
ClearOne(k) ==
    /\ pc[k] = "clear"
    /\ queue # <<>>
    /\ live' = live \ {Head(queue)}
    /\ queue' = Tail(queue)
    /\ UNCHANGED <<mutex, waiters, state, pc, hand>>

ClearDone(k) ==
    /\ pc[k] = "clear"
    /\ queue = <<>>
    /\ Unlock(k, "idle")
    /\ UNCHANGED <<waiters, state, queue, hand, live>>

-----------------------------------------------------------------------------
ProducerStep(p) == Produce(p) \/ PushLock(p) \/ Push(p)

PopStep(c) ==
    \/ PopLock(c) \/ PopWait(c) \/ PopWake(c)
    \/ PopFound(c) \/ PopTake(c) \/ PopFail(c)

ConsumerStep(c) == PopStep(c) \/ SyncLock(c) \/ Sync(c) \/ Consume(c)

ControllerStep(k) ==
    \/ ControlLock(k) \/ GotoWork(k) \/ BackWork(k)
    \/ ClearOne(k) \/ ClearDone(k)

Next ==
    \/ \E p \in Producers : ProducerStep(p)
    \/ \E c \in Consumers : ConsumerStep(c) \/ SpuriousWakeup(c)
    \/ \E k \in Controllers : ControllerStep(k)

Spec == Init /\ [][Next]_vars

\* A thread that owns the mutex leaves the method, and a thread that keeps
\* finding the mutex free gets it in the end; nothing obliges a caller to
\* enter a method, and wake-ups without a signal are never relied on.
Fairness ==
    /\ \A p \in Producers : WF_vars(Push(p)) /\ SF_vars(PushLock(p))
    /\ \A c \in Consumers :
          /\ WF_vars(PopWait(c) \/ PopFound(c) \/ PopTake(c) \/ PopFail(c) \/ Sync(c))
          /\ SF_vars(PopWake(c))
    /\ \A k \in Controllers :
          WF_vars(GotoWork(k) \/ BackWork(k) \/ ClearOne(k) \/ ClearDone(k))

FairSpec == Spec /\ Fairness

-----------------------------------------------------------------------------
(* Properties. *)

ProducerPoints == {"idle", "full", "push"}
ConsumerPoints == {"idle", "test", "waiting", "take", "use", "sync"}
ControllerPoints == {"idle", "goto", "back", "clear"}

\* The points at which a method owns the mutex.
Critical == {"push", "test", "take", "sync", "goto", "back", "clear"}

\* Producers that have seen size() <= MaxSize and have not pushed yet.
Passed == {p \in Producers : pc[p] # "idle"}

\* Consumers inside pop that are not asleep and will look at the queue again.
Awake == {c \in Consumers : pc[c] \in {"test", "take"}
                              \/ (pc[c] = "waiting" /\ c \notin waiters)}

\* The type invariant.
TypeOK ==
    /\ mutex \in Threads \cup {Nobody}
    /\ waiters \subseteq Consumers
    /\ state \in BOOLEAN
    /\ queue \in Seq(Values)
    /\ pc \in [Threads -> ProducerPoints \cup ConsumerPoints \cup ControllerPoints]
    /\ hand \in [Producers \cup Consumers -> Values \cup {NoValue}]
    /\ live \subseteq Values

\* Every packet or frame that is allocated has one owner: one slot of the
\* queue, or one thread between allocation and push or between pop and
\* release.  So push, pop, sync and clear neither leak a pointer, nor release
\* it twice, nor hand it to two threads, whatever the threads interleave.
OneOwner ==
    /\ \A i, j \in 1..Len(queue) : queue[i] = queue[j] => i = j
    /\ \A t, u \in Producers \cup Consumers :
          hand[t] = hand[u] /\ hand[t] # NoValue => t = u
    /\ \A t \in Producers \cup Consumers : \A i \in 1..Len(queue) : hand[t] # queue[i]
    /\ \A i \in 1..Len(queue) : queue[i] \in live
    /\ \A t \in Producers \cup Consumers : hand[t] # NoValue => hand[t] \in live
    /\ \A v \in live : \/ \E i \in 1..Len(queue) : queue[i] = v
                       \/ \E t \in Producers \cup Consumers : hand[t] = v

\* pop reaches queue.front() only when the queue has a front: what it tested
\* in the loop is still true when it takes, although sync, clear and other
\* consumers remove entries too.
FrontExists == \A c \in Consumers : pc[c] = "take" => queue # <<>>

\* One signal per push is enough, for any number of consumers: while somebody
\* sleeps in pop there are at least as many consumers awake in pop as there are
\* entries.  No entry waits for a consumer that nobody will wake.
WakeupsCoverEntries == waiters # {} => Len(queue) <= Cardinality(Awake)

\* backWork signals and does not broadcast.  That is enough to leave one
\* consumer awake on a closed queue, hence enough for the player, where each
\* queue has one consumer; with more, the others may sleep on.
ClosedQueueWakes == ~state => waiters # Consumers

\* The producers test size() without the lock, so the bound is not MaxSize:
\* the queue overshoots by at most one entry per producer.
BoundedOvershoot ==
    Len(queue) + Cardinality(Passed) <= MaxSize + Cardinality(Producers)

\* message_queue implements the indivisible queue of QueueSpec: FIFO order,
\* a closed queue refuses, nothing is taken twice.
Abstract == INSTANCE QueueSpec
ImplementsQueueSpec == Abstract!Spec

\* When backWork has closed the queue and every consumer is inside pop, one of
\* them leaves it, unless the queue is opened again: the one signal of backWork
\* is not lost.  VideoChannel::stop and AudioChannel::stop join the single
\* consumer of a queue right after backWork, so this is what makes them return.
StopReleasesPop ==
    (~state /\ \A c \in Consumers : pc[c] \in {"test", "waiting", "take"})
        ~> (state \/ \E c \in Consumers : pc[c] \in {"idle", "use"})

-----------------------------------------------------------------------------
(* The inductive strengthening used by MessageQueueProofs. *)

\* Each thread is at a point of its own role.
RolePoints ==
    /\ \A p \in Producers : pc[p] \in ProducerPoints
    /\ \A c \in Consumers : pc[c] \in ConsumerPoints
    /\ \A k \in Controllers : pc[k] \in ControllerPoints

\* The threads inside a critical section are the owner of the mutex.
MutualExclusion == \A t \in Threads : (pc[t] \in Critical) <=> (mutex = t)

\* What a thread holds follows from where it is.
HandFollowsPoint ==
    /\ \A p \in Producers : (hand[p] # NoValue) <=> (pc[p] \in {"full", "push"})
    /\ \A c \in Consumers : (hand[c] # NoValue) <=> (pc[c] \in {"use", "sync"})

\* Only a consumer in pthread_cond_wait can be woken.
SleepersWait == \A c \in waiters : pc[c] = "waiting"

ControlInv ==
    /\ TypeOK
    /\ RolePoints
    /\ MutualExclusion
    /\ HandFollowsPoint
    /\ SleepersWait
    /\ FrontExists
=============================================================================
