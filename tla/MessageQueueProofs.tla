------------------------- MODULE MessageQueueProofs -------------------------
(***************************************************************************)
(* Proofs about MessageQueue, for any sets of producers, consumers,        *)
(* controllers and addresses and any MaxSize.                              *)
(***************************************************************************)
EXTENDS MessageQueue, FiniteSetTheorems, TLAPS

\* The initial state satisfies the control invariant.
LEMMA ControlInit == Init => ControlInv
<1> SUFFICES ASSUME Init PROVE ControlInv
  OBVIOUS
<1> USE ThreadAssumption, ValueAssumption DEF Init, Threads
<1>1. TypeOK
  <2>1. state \in BOOLEAN
    BY Zenon
  <2>2. QED
    BY <2>1, SMT DEF TypeOK, ProducerPoints, ConsumerPoints, ControllerPoints
<1>2. RolePoints
  BY DEF RolePoints, ProducerPoints, ConsumerPoints, ControllerPoints
<1>3. MutualExclusion
  BY DEF MutualExclusion, Critical
<1>4. HandFollowsPoint /\ SleepersWait /\ FrontExists
  BY DEF HandFollowsPoint, SleepersWait, FrontExists
<1>5. QED
  BY <1>1, <1>2, <1>3, <1>4 DEF ControlInv

\* Every step of every thread, and every spurious wake-up, preserves the control
\* invariant: the mutex protects the sections it is meant to protect.
LEMMA ControlStep == ControlInv /\ [Next]_vars => ControlInv'
<1> SUFFICES ASSUME ControlInv, [Next]_vars PROVE ControlInv'
  OBVIOUS
<1> USE ThreadAssumption, ValueAssumption
    DEF ControlInv, TypeOK, RolePoints, MutualExclusion, HandFollowsPoint,
        SleepersWait, FrontExists, Threads, ProducerPoints, ConsumerPoints,
        ControllerPoints, Critical, Lock, Unlock
<1>1. ASSUME NEW p \in Producers, Produce(p) PROVE ControlInv'
  BY <1>1 DEF Produce
<1>2. ASSUME NEW p \in Producers, PushLock(p) PROVE ControlInv'
  BY <1>2 DEF PushLock
<1>3. ASSUME NEW p \in Producers, Push(p) PROVE ControlInv'
  BY SMTT(30), <1>3 DEF Push, Accept, Refuse, Signal
<1>4. ASSUME NEW c \in Consumers, PopLock(c) PROVE ControlInv'
  BY <1>4 DEF PopLock
<1>5. ASSUME NEW c \in Consumers, PopWait(c) PROVE ControlInv'
  BY <1>5 DEF PopWait
<1>6. ASSUME NEW c \in Consumers, PopWake(c) PROVE ControlInv'
  BY <1>6 DEF PopWake
<1>7. ASSUME NEW c \in Consumers, PopFound(c) PROVE ControlInv'
  BY <1>7 DEF PopFound
<1>8. ASSUME NEW c \in Consumers, PopTake(c) PROVE ControlInv'
  BY <1>8 DEF PopTake
<1>9. ASSUME NEW c \in Consumers, PopFail(c) PROVE ControlInv'
  BY <1>9 DEF PopFail
<1>10. ASSUME NEW c \in Consumers, SyncLock(c) PROVE ControlInv'
  BY <1>10 DEF SyncLock
<1>11. ASSUME NEW c \in Consumers, Sync(c) PROVE ControlInv'
  BY <1>11 DEF Sync
<1>12. ASSUME NEW c \in Consumers, Consume(c) PROVE ControlInv'
  BY <1>12 DEF Consume
<1>13. ASSUME NEW c \in Consumers, SpuriousWakeup(c) PROVE ControlInv'
  BY <1>13 DEF SpuriousWakeup
<1>14. ASSUME NEW k \in Controllers, ControlLock(k) PROVE ControlInv'
  BY <1>14 DEF ControlLock
<1>15. ASSUME NEW k \in Controllers, GotoWork(k) PROVE ControlInv'
  BY <1>15 DEF GotoWork, Signal
<1>16. ASSUME NEW k \in Controllers, BackWork(k) PROVE ControlInv'
  <2>1. state' \in BOOLEAN
    BY <1>16, Zenon DEF BackWork
  <2>2. QED
    BY <1>16, <2>1 DEF BackWork, Signal
<1>17. ASSUME NEW k \in Controllers, ClearOne(k) PROVE ControlInv'
  BY <1>17 DEF ClearOne
<1>18. ASSUME NEW k \in Controllers, ClearDone(k) PROVE ControlInv'
  BY <1>18 DEF ClearDone
<1>19. CASE UNCHANGED vars
  BY <1>19 DEF vars
<1>20. QED
  BY <1>1, <1>2, <1>3, <1>4, <1>5, <1>6, <1>7, <1>8, <1>9, <1>10, <1>11, <1>12,
     <1>13, <1>14, <1>15, <1>16, <1>17, <1>18, <1>19
  DEF Next, ProducerStep, ConsumerStep, PopStep, ControllerStep

\* The type invariant holds throughout: each variable of message_queue and of
\* its callers keeps to the values the code gives it.
THEOREM TypeCorrect == Spec => []TypeOK
<1>1. ControlInv => TypeOK
  BY DEF ControlInv
<1>2. QED
  BY ControlInit, ControlStep, <1>1, PTL DEF Spec

\* pop never takes the front of an empty queue, although what it tested and
\* what it takes are separate steps and others remove entries too.
THEOREM FrontAlwaysExists == Spec => []FrontExists
<1>1. ControlInv => FrontExists
  BY DEF ControlInv
<1>2. QED
  BY ControlInit, ControlStep, <1>1, PTL DEF Spec

-----------------------------------------------------------------------------
\* backWork's single signal leaves a consumer awake.
THEOREM ClosedQueueAlwaysWakes == Spec => []ClosedQueueWakes
<1>1. Init => ClosedQueueWakes
  BY ConsumerAssumption DEF Init, ClosedQueueWakes
<1>2. ControlInv /\ ClosedQueueWakes /\ [Next]_vars => ClosedQueueWakes'
  <2> SUFFICES ASSUME ControlInv, ClosedQueueWakes, [Next]_vars
               PROVE  ClosedQueueWakes'
    OBVIOUS
  <2>1. waiters \subseteq Consumers
    BY DEF ControlInv, TypeOK
  <2>2. CASE waiters' \subseteq waiters /\ UNCHANGED state
    BY <2>1, <2>2 DEF ClosedQueueWakes
  <2>3. ASSUME NEW p \in Producers, ProducerStep(p) PROVE ClosedQueueWakes'
    BY <2>2, <2>3 DEF ProducerStep, Produce, PushLock, Push, Accept, Refuse, Signal
  <2>4. ASSUME NEW c \in Consumers, ConsumerStep(c) \/ SpuriousWakeup(c)
        PROVE  ClosedQueueWakes'
    <3>1. CASE PopWait(c)
      BY <3>1 DEF PopWait, ClosedQueueWakes
    <3>2. CASE ~PopWait(c)
      BY <2>2, <2>4, <3>2 DEF ConsumerStep, PopStep, PopLock, PopWake, PopFound,
         PopTake, PopFail, SyncLock, Sync, Consume, SpuriousWakeup
    <3>3. QED
      BY <3>1, <3>2
  <2>5. ASSUME NEW k \in Controllers, ControllerStep(k) PROVE ClosedQueueWakes'
    <3>1. CASE GotoWork(k)
      BY <3>1 DEF GotoWork, ClosedQueueWakes
    <3>2. CASE BackWork(k)
      BY <2>1, <3>2, ConsumerAssumption DEF BackWork, Signal, ClosedQueueWakes
    <3>3. CASE ControlLock(k) \/ ClearOne(k) \/ ClearDone(k)
      BY <2>2, <3>3 DEF ControlLock, ClearOne, ClearDone
    <3>4. QED
      BY <2>5, <3>1, <3>2, <3>3 DEF ControllerStep
  <2>6. CASE UNCHANGED vars
    BY <2>2, <2>6 DEF vars
  <2>7. QED
    BY <2>3, <2>4, <2>5, <2>6 DEF Next
<1>3. QED
  BY ControlInit, ControlStep, <1>1, <1>2, PTL DEF Spec

-----------------------------------------------------------------------------
\* What removing the front does to the entries of a non-empty queue.
LEMMA FrontRemoved ==
  ASSUME NEW q \in Seq(Values), q # <<>>
  PROVE  /\ Tail(q) \in Seq(Values)
         /\ Len(q) \in Nat /\ Len(q) >= 1 /\ Len(Tail(q)) = Len(q) - 1
         /\ Head(q) = q[1] /\ Head(q) \in Values
         /\ \A i \in 1..Len(Tail(q)) : i + 1 \in 2..Len(q) /\ Tail(q)[i] = q[i + 1]
         /\ \A i \in 2..Len(q) : i - 1 \in 1..Len(Tail(q)) /\ Tail(q)[i - 1] = q[i]
  OBVIOUS

\* What appending does to the entries of a queue.
LEMMA BackAdded ==
  ASSUME NEW q \in Seq(Values), NEW v \in Values
  PROVE  /\ Append(q, v) \in Seq(Values)
         /\ Len(q) \in Nat /\ Len(Append(q, v)) = Len(q) + 1
         /\ Append(q, v)[Len(q) + 1] = v
         /\ \A i \in 1..Len(q) : Append(q, v)[i] = q[i]
  OBVIOUS

\* The front of the queue is released and removed: sync, and a turn of clear.
LEMMA DropKeepsOneOwner ==
  ASSUME TypeOK, OneOwner, queue # <<>>, live' = live \ {Head(queue)},
         queue' = Tail(queue), UNCHANGED hand
  PROVE  OneOwner'
<1> DEFINE T == Producers \cup Consumers
<1>1. /\ queue \in Seq(Values)
      /\ queue' = Tail(queue) /\ hand' = hand /\ live' = live \ {queue[1]}
  BY FrontRemoved DEF TypeOK
<1>2. \A i \in 1..Len(queue') : i + 1 \in 2..Len(queue) /\ queue'[i] = queue[i + 1]
  BY <1>1, FrontRemoved
<1>3. \A i \in 2..Len(queue) : i - 1 \in 1..Len(queue') /\ queue'[i - 1] = queue[i]
  BY <1>1, FrontRemoved
<1>4. Len(queue) \in Nat /\ Len(queue) >= 1 /\ Len(queue') = Len(queue) - 1
  BY <1>1, FrontRemoved
<1>5. \A i, j \in 1..Len(queue') : queue'[i] = queue'[j] => i = j
  BY <1>2, <1>4 DEF OneOwner
<1>6. \A t \in T : \A i \in 1..Len(queue') : hand'[t] # queue'[i]
  BY <1>1, <1>2, <1>4 DEF OneOwner
<1>7. \A i \in 1..Len(queue') : queue'[i] \in live'
  BY <1>1, <1>2, <1>4 DEF OneOwner
<1>8. \A t \in T : hand'[t] # NoValue => hand'[t] \in live'
  BY <1>1, <1>4 DEF OneOwner
<1>9. ASSUME NEW v \in live'
      PROVE  \/ \E i \in 1..Len(queue') : queue'[i] = v
             \/ \E t \in T : hand'[t] = v
  <2>1. CASE \E t \in T : hand[t] = v
    BY <1>1, <2>1
  <2>2. CASE \E i \in 1..Len(queue) : queue[i] = v
    <3>1. PICK i \in 1..Len(queue) : queue[i] = v
      BY <2>2
    <3>2. i \in 2..Len(queue)
      BY <1>1, <1>4, <1>9, <3>1
    <3>3. QED
      BY <1>3, <3>1, <3>2
  <2>3. QED
    BY <1>1, <1>9, <2>1, <2>2 DEF OneOwner
<1>10. QED
  BY <1>1, <1>5, <1>6, <1>7, <1>8, <1>9 DEF OneOwner

\* Ownership does not depend on the mutex, the sleepers or the points.
LEMMA OwnerStep == ControlInv /\ OneOwner /\ [Next]_vars => OneOwner'
<1> SUFFICES ASSUME ControlInv, OneOwner, [Next]_vars PROVE OneOwner'
  OBVIOUS
<1> DEFINE T == Producers \cup Consumers
<1> USE ThreadAssumption, ValueAssumption DEF ControlInv
<1>1. CASE UNCHANGED <<queue, hand, live>>
  BY <1>1 DEF OneOwner
<1>2. ASSUME NEW p \in Producers, Produce(p) PROVE OneOwner'
  <2>1. PICK v \in Values \ live : hand' = [hand EXCEPT ![p] = v]
                                   /\ live' = live \cup {v} /\ queue' = queue
    BY <1>2 DEF Produce
  <2>2. hand[p] = NoValue
    BY <1>2 DEF HandFollowsPoint, Produce
  <2>3. QED
    BY <2>1, <2>2 DEF TypeOK, OneOwner
<1>3. ASSUME NEW p \in Producers, Push(p) PROVE OneOwner'
  <2>1. hand[p] # NoValue /\ hand[p] \in Values
    BY <1>3 DEF HandFollowsPoint, Push, TypeOK
  <2>2. CASE Accept(p)
    <3>1. queue' = Append(queue, hand[p]) /\ live' = live
          /\ hand' = [hand EXCEPT ![p] = NoValue]
      BY <1>3, <2>2 DEF Accept, Push
    <3>2. QED
      BY SMTT(30), <2>1, <3>1, BackAdded DEF TypeOK, OneOwner
  <2>3. CASE Refuse(p)
    BY <1>3, <2>1, <2>3 DEF Refuse, Push, TypeOK, OneOwner
  <2>4. QED
    BY <1>3, <2>2, <2>3 DEF Push
<1>4. ASSUME NEW c \in Consumers, PopTake(c) PROVE OneOwner'
  <2>1. hand[c] = NoValue /\ queue # <<>>
    BY <1>4 DEF HandFollowsPoint, FrontExists, PopTake
  <2>2. queue' = Tail(queue) /\ hand' = [hand EXCEPT ![c] = Head(queue)] /\ live' = live
    BY <1>4 DEF PopTake
  <2>3. /\ Head(queue) = queue[1] /\ queue[1] \in Values
        /\ Len(queue) \in Nat /\ Len(queue) >= 1 /\ Len(queue') = Len(queue) - 1
    BY <2>1, <2>2, FrontRemoved DEF TypeOK
  <2>4. \A i \in 1..Len(queue') : i + 1 \in 2..Len(queue) /\ queue'[i] = queue[i + 1]
    BY <2>1, <2>2, FrontRemoved DEF TypeOK
  <2>5. \A i \in 2..Len(queue) : i - 1 \in 1..Len(queue') /\ queue'[i - 1] = queue[i]
    BY <2>1, <2>2, FrontRemoved DEF TypeOK
  <2>6. \A t \in T : hand'[t] = IF t = c THEN queue[1] ELSE hand[t]
    BY <2>2, <2>3 DEF TypeOK
  <2>7. \A i, j \in 1..Len(queue') : queue'[i] = queue'[j] => i = j
    BY <2>3, <2>4 DEF OneOwner
  <2>8. \A t, u \in T : hand'[t] = hand'[u] /\ hand'[t] # NoValue => t = u
    BY <2>3, <2>6 DEF OneOwner
  <2>9. \A t \in T : \A i \in 1..Len(queue') : hand'[t] # queue'[i]
    BY <2>3, <2>4, <2>6 DEF OneOwner
  <2>10. \A i \in 1..Len(queue') : queue'[i] \in live'
    BY <2>2, <2>3, <2>4 DEF OneOwner
  <2>11. \A t \in T : hand'[t] # NoValue => hand'[t] \in live'
    BY <2>2, <2>3, <2>6 DEF OneOwner
  <2>12. ASSUME NEW v \in live'
         PROVE  \/ \E i \in 1..Len(queue') : queue'[i] = v
                \/ \E t \in T : hand'[t] = v
    <3>1. ASSUME NEW t \in T, hand[t] = v PROVE hand'[t] = v
      BY <2>1, <2>2, <2>6, <2>12, <3>1 DEF TypeOK
    <3>2. ASSUME NEW i \in 1..Len(queue), queue[i] = v
          PROVE  hand'[c] = v \/ \E j \in 1..Len(queue') : queue'[j] = v
      BY <2>3, <2>5, <2>6, <3>2
    <3>3. QED
      BY <2>2, <2>12, <3>1, <3>2 DEF OneOwner
  <2>13. QED
    BY <2>7, <2>8, <2>9, <2>10, <2>11, <2>12 DEF OneOwner
<1>5. ASSUME NEW c \in Consumers, Sync(c) PROVE OneOwner'
  BY <1>1, <1>5, DropKeepsOneOwner DEF Sync
<1>6. ASSUME NEW c \in Consumers, Consume(c) PROVE OneOwner'
  <2>1. hand[c] # NoValue
    BY <1>6 DEF HandFollowsPoint, Consume
  <2>2. QED
    BY <1>6, <2>1 DEF Consume, TypeOK, OneOwner
<1>7. ASSUME NEW k \in Controllers, ClearOne(k) PROVE OneOwner'
  BY <1>7, DropKeepsOneOwner DEF ClearOne
<1>8. QED
  BY <1>1, <1>2, <1>3, <1>4, <1>5, <1>6, <1>7
  DEF Next, ProducerStep, ConsumerStep, PopStep, ControllerStep, vars,
      PushLock, PopLock, PopWait, PopWake, PopFound, PopFail, SyncLock,
      SpuriousWakeup, ControlLock, GotoWork, BackWork, ClearDone

\* No operation of message_queue leaks a pointer, releases one twice or hands
\* one to two owners.
THEOREM OneOwnerAlways == Spec => []OneOwner
<1>1. Init => OneOwner
  BY DEF Init, OneOwner
<1>2. QED
  BY ControlInit, ControlStep, OwnerStep, <1>1, PTL DEF Spec

-----------------------------------------------------------------------------
\* A set of producers or of consumers is finite and no larger than the whole.
LEMMA PassedSize ==
  /\ IsFiniteSet(Passed) /\ Cardinality(Passed) \in Nat
  /\ Cardinality(Producers) \in Nat /\ Cardinality(Passed) <= Cardinality(Producers)
  BY FiniteAssumption, FS_Subset, FS_CardinalityType DEF Passed

\* The overshoot bound is preserved: the producers past the test are counted
\* with the entries, so a push only moves one unit from one side to the other.
LEMMA OvershootStep ==
  ControlInv /\ BoundedOvershoot /\ [Next]_vars => BoundedOvershoot'
<1> SUFFICES ASSUME ControlInv, BoundedOvershoot, [Next]_vars
             PROVE  BoundedOvershoot'
  OBVIOUS
<1> USE ThreadAssumption, SizeAssumption, PassedSize DEF ControlInv
<1>0. Len(queue) \in Nat /\ queue \in Seq(Values)
  BY DEF TypeOK
<1>1. CASE Passed' = Passed /\ Len(queue') \in Nat /\ Len(queue') <= Len(queue)
  BY <1>0, <1>1 DEF BoundedOvershoot
<1>2. ASSUME NEW p \in Producers, Produce(p) PROVE BoundedOvershoot'
  <2>1. Passed' = Passed \cup {p} /\ p \notin Passed
    BY <1>2 DEF Produce, Passed, TypeOK, Threads
  <2>2. Cardinality(Passed') = Cardinality(Passed) + 1
    BY <2>1, FS_AddElement
  <2>3. Passed' \subseteq Producers
    BY DEF Passed
  <2>4. Cardinality(Passed') <= Cardinality(Producers)
    BY <2>3, FS_Subset, FiniteAssumption
  <2>5. QED
    BY <1>0, <1>2, <2>2, <2>4 DEF Produce, HasRoom, BoundedOvershoot
<1>3. ASSUME NEW p \in Producers, Push(p) PROVE BoundedOvershoot'
  <2>1. Passed' = Passed \ {p} /\ p \in Passed
    BY <1>3 DEF Push, Unlock, Passed, TypeOK, Threads
  <2>2. Cardinality(Passed') = Cardinality(Passed) - 1
    BY <2>1, FS_RemoveElement
  <2>3. Len(queue') \in Nat /\ Len(queue') <= Len(queue) + 1
    <3>1. hand[p] \in Values
      BY <1>3 DEF Push, HandFollowsPoint, TypeOK
    <3>2. QED
      BY <1>0, <1>3, <3>1, BackAdded DEF Push, Accept, Refuse
  <2>4. QED
    BY <1>0, <2>2, <2>3 DEF BoundedOvershoot
<1>4. ASSUME NEW p \in Producers, PushLock(p) PROVE BoundedOvershoot'
  BY <1>0, <1>1, <1>4 DEF PushLock, Lock, Passed, TypeOK, Threads
<1>5. ASSUME NEW c \in Consumers, ConsumerStep(c) \/ SpuriousWakeup(c)
      PROVE  BoundedOvershoot'
  <2>1. Passed' = Passed
    BY <1>5 DEF ConsumerStep, PopStep, PopLock, PopWait, PopWake, PopFound, PopTake,
       PopFail, SyncLock, Sync, Consume, SpuriousWakeup, Lock, Unlock, Passed,
       TypeOK, Threads
  <2>2. queue' = queue \/ (queue # <<>> /\ queue' = Tail(queue))
    BY <1>5 DEF ConsumerStep, PopStep, PopLock, PopWait, PopWake, PopFound, PopTake,
       PopFail, SyncLock, Sync, Consume, SpuriousWakeup, FrontExists
  <2>3. QED
    BY <1>0, <1>1, <2>1, <2>2, FrontRemoved
<1>6. ASSUME NEW k \in Controllers, ControllerStep(k) PROVE BoundedOvershoot'
  <2>1. Passed' = Passed
    BY <1>6 DEF ControllerStep, ControlLock, GotoWork, BackWork, ClearOne, ClearDone,
       Lock, Unlock, Passed, TypeOK, Threads
  <2>2. queue' = queue \/ (queue # <<>> /\ queue' = Tail(queue))
    BY <1>6 DEF ControllerStep, ControlLock, GotoWork, BackWork, ClearOne, ClearDone
  <2>3. QED
    BY <1>0, <1>1, <2>1, <2>2, FrontRemoved
<1>7. CASE UNCHANGED vars
  BY <1>0, <1>1, <1>7 DEF vars, Passed
<1>8. QED
  BY <1>2, <1>3, <1>4, <1>5, <1>6, <1>7 DEF Next, ProducerStep

\* The unlocked size() test bounds the queue after all, by MaxSize plus one
\* entry per producer.
THEOREM OvershootAlwaysBounded == Spec => []BoundedOvershoot
<1>1. Init => BoundedOvershoot
  <2> SUFFICES ASSUME Init PROVE BoundedOvershoot
    OBVIOUS
  <2>1. Passed = {}
    BY DEF Init, Passed, Threads
  <2>2. Cardinality(Passed) = 0 /\ Len(queue) = 0
    BY <2>1, FS_EmptySet DEF Init
  <2>3. QED
    BY <2>2, PassedSize, SizeAssumption DEF BoundedOvershoot
<1>2. QED
  BY ControlInit, ControlStep, OvershootStep, <1>1, PTL DEF Spec

-----------------------------------------------------------------------------
\* The consumers awake in pop are finitely many.
LEMMA AwakeSize == IsFiniteSet(Awake) /\ Cardinality(Awake) \in Nat
  BY FiniteAssumption, FS_Subset, FS_CardinalityType DEF Awake

\* A step that puts nobody to sleep in front of more entries keeps them covered.
LEMMA CoverKept ==
  ASSUME ControlInv, WakeupsCoverEntries,
         Awake \subseteq Awake', waiters' # {} => waiters # {},
         Len(queue) \in Nat, Len(queue') \in Nat, Len(queue') <= Len(queue)
  PROVE  WakeupsCoverEntries'
<1>1. IsFiniteSet(Awake')
  BY FiniteAssumption, FS_Subset DEF Awake
<1>2. Cardinality(Awake) <= Cardinality(Awake') /\ Cardinality(Awake') \in Nat
  BY <1>1, FS_Subset, FS_CardinalityType
<1>3. QED
  BY <1>2, AwakeSize DEF WakeupsCoverEntries

\* push brings one entry and wakes one sleeper; pop takes one entry and one
\* awake consumer away; a consumer goes to sleep only before an empty queue.
LEMMA CoverStep ==
  ControlInv /\ WakeupsCoverEntries /\ [Next]_vars => WakeupsCoverEntries'
<1> SUFFICES ASSUME ControlInv, WakeupsCoverEntries, [Next]_vars
             PROVE  WakeupsCoverEntries'
  OBVIOUS
<1> USE ThreadAssumption DEF Threads
<1>0. Len(queue) \in Nat /\ queue \in Seq(Values) /\ waiters \subseteq Consumers
  BY DEF ControlInv, TypeOK
<1>1. ASSUME NEW p \in Producers, ProducerStep(p) PROVE WakeupsCoverEntries'
  <2>1. CASE Produce(p) \/ PushLock(p) \/ (Push(p) /\ Refuse(p))
    <3>1. Awake' = Awake /\ waiters' = waiters /\ queue' = queue
      BY <2>1 DEF Produce, PushLock, Push, Refuse, Lock, Unlock, Awake, ControlInv, TypeOK
    <3>2. QED
      BY <1>0, <3>1, CoverKept
  <2>2. CASE Push(p) /\ Accept(p)
    <3>1. Len(queue') = Len(queue) + 1
      <4>1. hand[p] \in Values
        BY <2>2 DEF Push, ControlInv, HandFollowsPoint, TypeOK
      <4>2. QED
        BY <1>0, <2>2, <4>1, BackAdded DEF Accept
    <3>2. CASE waiters = {}
      BY <2>2, <3>2 DEF Accept, Signal, WakeupsCoverEntries
    <3>3. CASE waiters # {}
      <4>1. PICK w \in waiters : waiters' = waiters \ {w}
        BY <2>2, <3>3 DEF Accept, Signal
      <4>2. w \in Consumers /\ pc[w] = "waiting" /\ w # p
        BY <1>0 DEF ControlInv, SleepersWait
      <4>3. Awake' = Awake \cup {w} /\ w \notin Awake
        BY <1>0, <2>2, <4>1, <4>2 DEF Push, Unlock, Awake, ControlInv, TypeOK
      <4>4. Cardinality(Awake') = Cardinality(Awake) + 1
        BY <4>3, AwakeSize, FS_AddElement
      <4>5. QED
        BY <1>0, <3>1, <3>3, <4>4, AwakeSize DEF WakeupsCoverEntries
    <3>4. QED
      BY <3>2, <3>3
  <2>3. QED
    BY <1>1, <2>1, <2>2 DEF ProducerStep, Push
<1>2. ASSUME NEW c \in Consumers, PopTake(c) PROVE WakeupsCoverEntries'
  <2>1. Awake' = Awake \ {c} /\ c \in Awake
    BY <1>2 DEF PopTake, Unlock, Awake, ControlInv, TypeOK
  <2>2. Cardinality(Awake') = Cardinality(Awake) - 1
    BY <2>1, AwakeSize, FS_RemoveElement
  <2>3. Len(queue') = Len(queue) - 1
    BY <1>0, <1>2, FrontRemoved DEF PopTake, ControlInv, FrontExists
  <2>4. QED
    BY <1>0, <1>2, <2>2, <2>3, AwakeSize DEF PopTake, WakeupsCoverEntries
<1>3. ASSUME NEW c \in Consumers, PopWait(c) \/ PopFail(c) PROVE WakeupsCoverEntries'
  <2>1. Len(queue') = 0
    BY <1>0, <1>3 DEF PopWait, PopFail
  <2>2. Cardinality(Awake') \in Nat
    <3>1. Awake' \subseteq Consumers
      BY DEF Awake
    <3>2. QED
      BY <3>1, FiniteAssumption, FS_Subset, FS_CardinalityType
  <2>3. QED
    BY <2>1, <2>2 DEF WakeupsCoverEntries
<1>4. ASSUME NEW c \in Consumers,
             PopLock(c) \/ PopWake(c) \/ PopFound(c) \/ SyncLock(c) \/ Sync(c)
               \/ Consume(c) \/ SpuriousWakeup(c)
      PROVE  WakeupsCoverEntries'
  <2>1. Awake \subseteq Awake' /\ waiters' \subseteq waiters
    BY <1>4 DEF PopLock, PopWake, PopFound, SyncLock, Sync, Consume, SpuriousWakeup,
       Lock, Unlock, Awake, ControlInv, TypeOK
  <2>2. queue' = queue \/ (queue # <<>> /\ queue' = Tail(queue))
    BY <1>4 DEF PopLock, PopWake, PopFound, SyncLock, Sync, Consume, SpuriousWakeup
  <2>3. QED
    BY <1>0, <2>1, <2>2, FrontRemoved, CoverKept
<1>5. ASSUME NEW k \in Controllers, ControllerStep(k) PROVE WakeupsCoverEntries'
  <2>1. Awake \subseteq Awake' /\ waiters' \subseteq waiters
    BY <1>5 DEF ControllerStep, ControlLock, GotoWork, BackWork, ClearOne, ClearDone,
       Lock, Unlock, Signal, Awake, ControlInv, TypeOK
  <2>2. queue' = queue \/ (queue # <<>> /\ queue' = Tail(queue))
    BY <1>5 DEF ControllerStep, ControlLock, GotoWork, BackWork, ClearOne, ClearDone
  <2>3. QED
    BY <1>0, <2>1, <2>2, FrontRemoved, CoverKept
<1>6. CASE UNCHANGED vars
  BY <1>6 DEF vars, Awake, WakeupsCoverEntries
<1>7. QED
  BY <1>1, <1>2, <1>3, <1>4, <1>5, <1>6 DEF Next, ConsumerStep, PopStep

\* For any number of producers and consumers, push's single signal loses no
\* wake-up.
THEOREM WakeupsAlwaysCoverEntries == Spec => []WakeupsCoverEntries
<1>1. Init => WakeupsCoverEntries
  BY DEF Init, WakeupsCoverEntries
<1>2. QED
  BY ControlInit, ControlStep, CoverStep, <1>1, PTL DEF Spec

-----------------------------------------------------------------------------
\* Each step of message_queue is a step of the indivisible queue, or leaves
\* queue, state and ownership alone.
LEMMA RefinementStep == ControlInv /\ [Next]_vars => [Abstract!Next]_(Abstract!qvars)
<1> SUFFICES ASSUME ControlInv, [Next]_vars
             PROVE  [Abstract!Next]_(Abstract!qvars)
  OBVIOUS
<1> USE ThreadAssumption DEF Abstract!Next, Abstract!qvars
<1>1. CASE UNCHANGED <<queue, state, hand, live>>
  BY <1>1
<1>2. ASSUME NEW p \in Producers, Produce(p) PROVE Abstract!Produce(p)
  BY <1>2 DEF Produce, Abstract!Produce, ControlInv, HandFollowsPoint
<1>3. ASSUME NEW p \in Producers, Push(p) PROVE Abstract!Push(p)
  BY <1>3 DEF Push, Accept, Refuse, Abstract!Push, ControlInv, HandFollowsPoint
<1>4. ASSUME NEW c \in Consumers, PopTake(c) PROVE Abstract!Pop(c)
  BY <1>4 DEF PopTake, Abstract!Pop, ControlInv, HandFollowsPoint, FrontExists
<1>5. ASSUME NEW c \in Consumers, Consume(c) PROVE Abstract!Consume(c)
  BY <1>5 DEF Consume, Abstract!Consume, ControlInv, HandFollowsPoint
<1>6. ASSUME NEW c \in Consumers, Sync(c)
      PROVE  Abstract!Drop \/ UNCHANGED <<queue, state, hand, live>>
  BY <1>6 DEF Sync, Abstract!Drop
<1>7. ASSUME NEW k \in Controllers, ClearOne(k) PROVE Abstract!Drop
  BY <1>7 DEF ClearOne, Abstract!Drop
<1>8. ASSUME NEW k \in Controllers, GotoWork(k) PROVE Abstract!GotoWork
  BY <1>8 DEF GotoWork, Abstract!GotoWork
<1>9. ASSUME NEW k \in Controllers, BackWork(k) PROVE Abstract!BackWork
  BY <1>9 DEF BackWork, Abstract!BackWork
<1>10. QED
  BY <1>1, <1>2, <1>3, <1>4, <1>5, <1>6, <1>7, <1>8, <1>9
  DEF Next, ProducerStep, ConsumerStep, PopStep, ControllerStep, vars,
      PushLock, PopLock, PopWait, PopWake, PopFound, PopFail, SyncLock,
      SpuriousWakeup, ControlLock, ClearDone

\* message_queue, with its mutex and its condition variable, implements the
\* indivisible FIFO of owned pointers.
THEOREM QueueRefinement == Spec => ImplementsQueueSpec
<1>1. Init => Abstract!Init
  BY DEF Init, Abstract!Init
<1>2. QED
  BY ControlInit, ControlStep, RefinementStep, <1>1, PTL
  DEF Spec, ImplementsQueueSpec, Abstract!Spec
=============================================================================
