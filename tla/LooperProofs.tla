---------------------------- MODULE LooperProofs ----------------------------
(***************************************************************************)
(* Proofs about Looper, for any number of posters, messages and posts, and *)
(* whether or not posts race with quit().                                  *)
(***************************************************************************)
EXTENDS Looper, FiniteSetTheorems, TLAPS

\* The addresses in a list of messages.
Entries(q) == {q[i] : i \in 1..Len(q)}

Distinct(q) == \A i, j \in 1..Len(q) : q[i] = q[j] => i = j

\* Appending a message adds its address and keeps addresses distinct.
LEMMA EntriesAppend ==
  ASSUME NEW S, NEW q \in Seq(S), NEW m \in S
  PROVE  /\ Append(q, m) \in Seq(S)
         /\ Len(Append(q, m)) = Len(q) + 1 /\ Len(q) \in Nat
         /\ Entries(Append(q, m)) = Entries(q) \cup {m}
         /\ Distinct(q) /\ m \notin Entries(q) => Distinct(Append(q, m))
<1>1. /\ Append(q, m) \in Seq(S) /\ Len(Append(q, m)) = Len(q) + 1 /\ Len(q) \in Nat
      /\ Append(q, m)[Len(q) + 1] = m
      /\ \A i \in 1..Len(q) : Append(q, m)[i] = q[i]
  OBVIOUS
<1>2. Entries(Append(q, m)) = Entries(q) \cup {m}
  <2>1. \A x \in Entries(Append(q, m)) : x \in Entries(q) \cup {m}
    BY <1>1 DEF Entries
  <2>2. \A i \in 1..Len(q) : i \in 1..(Len(q) + 1) /\ q[i] \in Entries(Append(q, m))
    BY <1>1 DEF Entries
  <2>3. m \in Entries(Append(q, m))
    BY <1>1 DEF Entries
  <2>4. QED
    BY <2>1, <2>2, <2>3 DEF Entries
<1>3. Distinct(q) /\ m \notin Entries(q) => Distinct(Append(q, m))
  BY <1>1 DEF Entries, Distinct
<1>4. QED
  BY <1>1, <1>2, <1>3

\* Taking the front removes its address, and no other if all are distinct.
LEMMA EntriesTail ==
  ASSUME NEW S, NEW q \in Seq(S), q # <<>>
  PROVE  /\ Tail(q) \in Seq(S) /\ Head(q) \in S
         /\ Len(q) \in Nat /\ Len(q) >= 1 /\ Len(Tail(q)) = Len(q) - 1
         /\ Head(q) \in Entries(q) /\ Entries(Tail(q)) \subseteq Entries(q)
         /\ Distinct(q) => Head(q) \notin Entries(Tail(q)) /\ Distinct(Tail(q))
<1>1. /\ Tail(q) \in Seq(S) /\ Head(q) \in S
      /\ Len(q) \in Nat /\ Len(q) >= 1 /\ Len(Tail(q)) = Len(q) - 1
      /\ Head(q) = q[1]
      /\ \A i \in 1..Len(Tail(q)) : i + 1 \in 1..Len(q) /\ Tail(q)[i] = q[i + 1]
  OBVIOUS
<1>2. Head(q) \in Entries(q) /\ Entries(Tail(q)) \subseteq Entries(q)
  BY <1>1 DEF Entries
<1>3. ASSUME Distinct(q) PROVE Head(q) \notin Entries(Tail(q)) /\ Distinct(Tail(q))
  BY <1>1, <1>3 DEF Entries, Distinct
<1>4. QED
  BY <1>1, <1>2, <1>3

\* The state the constructor leaves satisfies the invariant.
LEMMA LooperInit == Init => LooperInv
<1> SUFFICES ASSUME Init PROVE LooperInv
  OBVIOUS
<1> USE CallerAssumption, MessageAssumption, PostsAssumption DEF Init, Callers
<1>1. TypeOK
  BY DEF TypeOK, WorkerPoints, CallerPoints
<1>2. Pending = {} /\ Owning = {} /\ Queued = {} /\ ~Stale
  BY DEF Pending, Owning, Queued, Stale
<1>3. HeadExclusive /\ QuitOnce /\ FlushAsked
  BY <1>2 DEF HeadExclusive, QuitOnce, FlushAsked
<1>4. PendingOwned /\ QueuedOwned /\ TakenOwned
  BY <1>2 DEF PendingOwned, QueuedOwned, TakenOwned
<1>5. QED
  BY <1>1, <1>3, <1>4 DEF LooperInv

\* postMessage up to addMessage: a fresh address is nobody else's.
LEMMA PostStep ==
  ASSUME LooperInv, NEW t \in Posters, PostMessage(t) PROVE LooperInv'
<1> USE CallerAssumption, MessageAssumption, PostsAssumption DEF LooperInv, Callers
<1>1. PICK m \in Messages \ live :
        /\ msg' = [msg EXCEPT ![t] = m] /\ live' = live \cup {m}
        /\ pc' = [pc EXCEPT ![t] = "add"] /\ pc[t] = "idle"
        /\ \E f \in BOOLEAN : flush' = [flush EXCEPT ![t] = f]
        /\ UNCHANGED <<list, data, protect, wpc, cur, running>>
  BY DEF PostMessage
<1>2. TypeOK'
  BY <1>1 DEF TypeOK, PostMessage, CallerPoints, WorkerPoints
<1>3. /\ Pending' = Pending \cup {t} /\ t \notin Pending /\ Owning' = Owning
      /\ Queued' = Queued /\ Stale' = Stale
  BY <1>1 DEF TypeOK, Pending, Owning, Queued, Stale
<1>4. HeadExclusive' /\ QueuedOwned' /\ TakenOwned'
  BY <1>1, <1>3 DEF HeadExclusive, QueuedOwned, TakenOwned
<1>5. QuitOnce' /\ FlushAsked'
  BY <1>1, <1>3 DEF QuitOnce, FlushAsked, TypeOK
<1>6. PendingOwned'
  <2>1. \A u \in Callers : msg'[u] = IF u = t THEN m ELSE msg[u]
    BY <1>1 DEF TypeOK
  <2>2. m # cur /\ (~Stale => m \notin Queued)
    BY <1>1 DEF TakenOwned, QueuedOwned, TypeOK
  <2>3. \A u \in Pending : msg[u] # m
    BY <1>1 DEF PendingOwned
  <2>4. \A u \in Callers : pc'[u] = "unlock" => pc[u] = "unlock" /\ u # t
    BY <1>1 DEF TypeOK
  <2>5. \A u \in Pending' : u \in Callers /\ (u = t \/ u \in Pending)
    BY <1>3 DEF Pending
  <2>6. QED
    BY <1>1, <1>3, <2>1, <2>2, <2>3, <2>4, <2>5 DEF PendingOwned
<1>7. QED
  BY <1>2, <1>4, <1>5, <1>6

\* quit() up to addMessage: the quit message is allocated for the first time.
LEMMA QuitStep == ASSUME LooperInv, QuitBegin PROVE LooperInv'
<1> USE CallerAssumption, MessageAssumption, PostsAssumption
    DEF LooperInv, Callers, QuitBegin, QuitFlushes
<1>1. TypeOK'
  BY DEF TypeOK, CallerPoints, WorkerPoints
<1>2. /\ Pending' = Pending \cup {Owner} /\ Owner \notin Pending /\ Owning' = Owning
      /\ Queued' = Queued /\ Stale' = Stale
  BY DEF TypeOK, Pending, Owning, Queued, Stale
<1>3. HeadExclusive' /\ QueuedOwned' /\ TakenOwned'
  BY <1>2 DEF HeadExclusive, QueuedOwned, TakenOwned
<1>4. QuitOnce' /\ FlushAsked'
  BY <1>2 DEF QuitOnce, FlushAsked, TypeOK
<1>5. PendingOwned'
  <2>1. \A u \in Callers : msg'[u] = IF u = Owner THEN Quit ELSE msg[u]
    BY DEF TypeOK
  <2>2. Quit # cur /\ (~Stale => Quit \notin Queued)
    BY DEF TakenOwned, QueuedOwned, QuitOnce
  <2>3. \A u \in Pending : msg[u] # Quit
    BY DEF PendingOwned, QuitOnce
  <2>4. \A u \in Callers : pc'[u] = "unlock" => pc[u] = "unlock" /\ u # Owner
    BY DEF TypeOK
  <2>5. \A u \in Pending' : u \in Callers /\ (u = Owner \/ u \in Pending)
    BY <1>2 DEF Pending
  <2>6. QED
    BY <1>2, <2>1, <2>2, <2>3, <2>4, <2>5 DEF PendingOwned
<1>6. QED
  BY <1>1, <1>3, <1>4, <1>5

\* sem_wait(&headWriteProtect) in addMessage.
LEMMA AddLockStep == ASSUME LooperInv, NEW t \in Callers, AddLock(t) PROVE LooperInv'
<1> USE CallerAssumption, MessageAssumption, PostsAssumption
    DEF LooperInv, Callers, AddLock, WriteProtected
<1>1. TypeOK'
  BY DEF TypeOK, CallerPoints, WorkerPoints
<1>2. /\ Pending' = Pending /\ t \in Pending /\ Owning' = Owning \cup {t}
      /\ Owning = {} /\ wpc # "take" /\ Queued' = Queued
  BY DEF TypeOK, Pending, Owning, Queued, HeadExclusive
<1>3. ~Stale /\ ~Stale'
  BY <1>2 DEF TypeOK, Stale, Owning
<1>4. HeadExclusive'
  BY <1>2 DEF HeadExclusive, TypeOK
<1>5. QueuedOwned' /\ TakenOwned' /\ QuitOnce' /\ FlushAsked'
  BY <1>2, <1>3 DEF QueuedOwned, TakenOwned, QuitOnce, FlushAsked, TypeOK
<1>6. PendingOwned'
  BY <1>2, <1>3 DEF PendingOwned, TypeOK
<1>7. QED
  BY <1>1, <1>4, <1>5, <1>6

\* The flush loop of addMessage: from here to AddLink head is stale.
LEMMA AddFlushStep == ASSUME LooperInv, NEW t \in Callers, AddFlush(t) PROVE LooperInv'
<1> USE CallerAssumption, MessageAssumption, PostsAssumption DEF LooperInv, Callers, AddFlush
<1>1. TypeOK'
  BY DEF TypeOK, CallerPoints, WorkerPoints
<1>2. /\ Pending' = Pending /\ t \in Pending /\ Owning' = Owning /\ t \in Owning
      /\ Queued' = Queued /\ live' = live \ Queued
  BY DEF TypeOK, Pending, Owning, Queued
<1>3. ~Stale
  BY <1>2 DEF TypeOK, Stale, Owning, HeadExclusive
<1>4. HeadExclusive' /\ TakenOwned'
  BY <1>2 DEF HeadExclusive, TakenOwned
<1>5. QuitOnce' /\ FlushAsked'
  BY <1>2 DEF QuitOnce, FlushAsked, TypeOK
<1>6. PendingOwned'
  BY <1>2, <1>3 DEF PendingOwned, TypeOK
<1>7. QueuedOwned'
  <2>1. flush[t]
    BY DEF AddFlush, FlushAsked
  <2>2. QED
    BY <1>2, <2>1 DEF QueuedOwned, Stale, TypeOK
<1>8. QED
  BY <1>1, <1>4, <1>5, <1>6, <1>7

\* head = msg, or the last node's next = msg.
LEMMA AddLinkStep == ASSUME LooperInv, NEW t \in Callers, AddLink(t) PROVE LooperInv'
<1> USE CallerAssumption, MessageAssumption, PostsAssumption DEF LooperInv, Callers, AddLink
<1>0. msg[t] \in Messages \cup {Quit} /\ t \in Pending /\ t \in Owning /\ msg[t] # cur
      /\ msg[t] \in live
  BY DEF TypeOK, Pending, Owning, PendingOwned
<1>1. list' \in Seq(Messages \cup {Quit})
  <2>1. list \in Seq(Messages \cup {Quit})
    BY DEF TypeOK
  <2>2. CASE flush[t]
    BY <1>0, <2>2
  <2>3. CASE ~flush[t]
    BY <1>0, <2>1, <2>3, EntriesAppend
  <2>4. QED
    BY <2>2, <2>3
<1>2. TypeOK'
  BY <1>1 DEF TypeOK, CallerPoints, WorkerPoints
<1>3. /\ Pending' = Pending \ {t} /\ Owning' = Owning
      /\ \A u \in Owning : u = t
      /\ wpc # "take"
  BY <1>0 DEF TypeOK, Pending, Owning, HeadExclusive
<1>4. ~Stale'
  BY <1>0, <1>3 DEF TypeOK, Stale, Owning
<1>5. /\ Queued' \subseteq Queued \cup {msg[t]} /\ msg[t] \in Queued'
      /\ Distinct(list') /\ Queued' \subseteq live
  <2>1. CASE flush[t]
    <3>1. list' = <<msg[t]>>
      BY <2>1
    <3>2. Queued' = {msg[t]} /\ Distinct(list')
      BY <3>1 DEF Queued, Distinct
    <3>3. QED
      BY <1>0, <3>2
  <2>2. CASE ~flush[t]
    <3>1. ~Stale
      BY <1>0, <1>3, <2>2 DEF Stale, Owning
    <3>2. msg[t] \notin Queued /\ Queued \subseteq live /\ Distinct(list)
      BY <1>0, <3>1 DEF PendingOwned, QueuedOwned, Distinct
    <3>3. Queued = Entries(list) /\ Queued' = Entries(list')
      BY DEF Queued, Entries
    <3>4. list' = Append(list, msg[t])
      BY <2>2
    <3>5. list \in Seq(Messages \cup {Quit})
      BY DEF TypeOK
    <3>6. Queued' = Queued \cup {msg[t]} /\ Distinct(list')
      <4> HIDE DEF AddLink, LooperInv
      <4>1. /\ Entries(Append(list, msg[t])) = Entries(list) \cup {msg[t]}
            /\ Distinct(list) /\ msg[t] \notin Entries(list) => Distinct(Append(list, msg[t]))
        BY <1>0, <3>5, EntriesAppend
      <4>2. QED
        BY <3>2, <3>3, <3>4, <4>1
    <3>7. msg[t] \in Queued' /\ Queued' \subseteq live
      BY <1>0, <3>2, <3>6
    <3>8. QED
      BY <3>6, <3>7
  <2>3. QED
    BY <2>1, <2>2
<1>6. HeadExclusive' /\ FlushAsked'
  BY <1>3 DEF HeadExclusive, FlushAsked, TypeOK
<1>7. QuitOnce'
  BY <1>3 DEF QuitOnce, TypeOK
<1>8. QueuedOwned'
  BY <1>4, <1>5 DEF QueuedOwned, Distinct
<1>9. TakenOwned'
  BY <1>0, <1>5 DEF TakenOwned
<1>10. PendingOwned'
  <2>1. \A u \in Pending' : /\ u \in Pending /\ u # t
                            /\ msg'[u] \in live' /\ msg'[u] # cur'
    BY <1>3 DEF PendingOwned
  <2>2. \A u \in Pending' : msg[u] \notin Queued'
    <3>1. \A u \in Pending' : msg[u] # msg[t]
      BY <1>0, <2>1 DEF PendingOwned
    <3>2. CASE flush[t]
      <4>1. Queued' = {msg[t]}
        BY <3>2 DEF Queued
      <4>2. QED
        BY <3>1, <4>1
    <3>3. CASE ~flush[t]
      <4>1. ~Stale
        BY <1>0, <1>3, <3>3 DEF Stale, Owning
      <4>2. QED
        BY <1>5, <2>1, <3>1, <4>1 DEF PendingOwned
    <3>4. QED
      BY <3>2, <3>3
  <2>3. \A u \in Callers : pc'[u] = "unlock" => u = t
    BY <1>3 DEF TypeOK, Owning
  <2>4. QED
    BY <1>5, <2>1, <2>2, <2>3 DEF PendingOwned
<1>11. QED
  BY <1>2, <1>6, <1>7, <1>8, <1>9, <1>10

\* sem_post(&headWriteProtect), then sem_post(&headDataAvailable), then the join.
LEMMA AddEndStep ==
  ASSUME LooperInv, NEW t \in Callers, AddUnlock(t) \/ AddNotify(t) \/ QuitJoin
  PROVE  LooperInv'
<1> USE CallerAssumption, MessageAssumption, PostsAssumption
    DEF LooperInv, Callers, AddUnlock, AddNotify, QuitJoin
<1>1. /\ Pending' = Pending /\ Queued' = Queued /\ Stale' = Stale
      /\ live' = live /\ list' = list /\ cur' = cur /\ msg' = msg /\ flush' = flush
      /\ wpc' = wpc
  BY DEF TypeOK, Pending, Queued, Stale
<1>2. HeadExclusive' /\ protect' \in {0, 1}
  <2>1. CASE AddUnlock(t)
    <3>1. Owning' = Owning \ {t} /\ t \in Owning
      BY <2>1 DEF TypeOK, Owning
    <3>2. QED
      BY <2>1, <3>1 DEF HeadExclusive, TypeOK
  <2>2. CASE AddNotify(t) \/ QuitJoin
    <3>1. Owning' = Owning /\ protect' = protect
      BY <2>2 DEF TypeOK, Owning
    <3>2. QED
      BY <1>1, <3>1 DEF HeadExclusive, TypeOK
  <2>3. QED
    BY <2>1, <2>2
<1>3. TypeOK'
  <2>1. running' \in BOOLEAN
    BY Zenon DEF TypeOK
  <2>2. data' \in Nat /\ posts' = posts /\ pc' \in [Callers -> CallerPoints]
    BY DEF TypeOK, CallerPoints
  <2>3. QED
    BY <1>1, <1>2, <2>1, <2>2 DEF TypeOK
<1>4. QuitOnce' /\ FlushAsked' /\ QueuedOwned' /\ TakenOwned'
  BY <1>1 DEF QuitOnce, FlushAsked, QueuedOwned, TakenOwned, TypeOK
<1>5. PendingOwned'
  <2>1. \A u \in Callers : pc'[u] = "unlock" => pc[u] = "unlock"
    BY DEF TypeOK
  <2>2. QED
    BY <1>1, <2>1 DEF PendingOwned
<1>6. QED
  BY <1>2, <1>3, <1>4, <1>5

\* The worker's turn.
LEMMA LoopStepInv == ASSUME LooperInv, LoopStep PROVE LooperInv'
<1> USE CallerAssumption, MessageAssumption, PostsAssumption DEF LooperInv, Callers
<1>0. LoopWait \/ LoopLock \/ LoopTake \/ LoopDispatch
  BY DEF LoopStep
<1>1. /\ Pending' = Pending /\ Stale' = Stale /\ Owning' = Owning
      /\ pc' = pc /\ msg' = msg /\ flush' = flush
  BY <1>0 DEF LoopWait, LoopLock, LoopTake, LoopDispatch, Pending, Stale, Owning
<1>2. FlushAsked'
  BY <1>1 DEF FlushAsked
<1>3. CASE LoopWait
  <2>1. TypeOK'
    BY <1>3 DEF LoopWait, TypeOK, WorkerPoints
  <2>2. Queued' = Queued
    BY <1>3 DEF LoopWait, Queued
  <2>3. QED
    BY <1>1, <1>2, <1>3, <2>1, <2>2
    DEF LoopWait, HeadExclusive, QuitOnce, PendingOwned, QueuedOwned, TakenOwned
<1>4. CASE LoopLock
  <2>1. TypeOK'
    BY <1>4 DEF LoopLock, TypeOK, WorkerPoints
  <2>2. Queued' = Queued
    BY <1>4 DEF LoopLock, Queued
  <2>3. HeadExclusive'
    BY <1>1, <1>4 DEF LoopLock, HeadExclusive, TypeOK
  <2>4. QED
    BY <1>1, <1>2, <1>4, <2>1, <2>2, <2>3
    DEF LoopLock, QuitOnce, PendingOwned, QueuedOwned, TakenOwned
<1>5. CASE LoopTake
  <2>1. Owning = {} /\ ~Stale /\ \A u \in Callers : pc[u] # "unlock"
    BY <1>5 DEF LoopTake, HeadExclusive, Owning, Stale
  <2>2. HeadExclusive' /\ protect' \in {0, 1}
    BY <1>1, <1>5, <2>1 DEF LoopTake, HeadExclusive, TypeOK
  <2>3. CASE list = <<>>
    <3>1. list' = list /\ cur' = cur /\ wpc' = "wait" /\ live' = live /\ Queued' = Queued
      BY <1>5, <2>3 DEF LoopTake, Queued
    <3>2. TypeOK'
      BY <1>5, <2>2, <3>1 DEF LoopTake, TypeOK, WorkerPoints
    <3>3. QED
      BY <1>1, <1>2, <1>5, <2>2, <3>1, <3>2
      DEF LoopTake, QuitOnce, PendingOwned, QueuedOwned, TakenOwned
  <2>4. CASE list # <<>>
    <3>1. /\ list' = Tail(list) /\ cur' = Head(list) /\ wpc' = "dispatch"
          /\ live' = live
      BY <1>5, <2>4 DEF LoopTake
    <3>2. list \in Seq(Messages \cup {Quit}) /\ Distinct(list)
      BY DEF TypeOK, QueuedOwned, Distinct
    <3>3. Queued = Entries(list) /\ Queued' = Entries(list')
      BY DEF Queued, Entries
    <3>4. /\ list' \in Seq(Messages \cup {Quit}) /\ cur' \in Messages \cup {Quit}
          /\ cur' \in Queued /\ Queued' \subseteq Queued
          /\ cur' \notin Queued' /\ Distinct(list')
      BY <2>4, <3>1, <3>2, <3>3, EntriesTail
    <3>5. TypeOK'
      BY <1>5, <2>2, <3>1, <3>4 DEF LoopTake, TypeOK, WorkerPoints
    <3>6. QueuedOwned' /\ TakenOwned'
      BY <1>1, <2>1, <3>1, <3>4 DEF QueuedOwned, TakenOwned, Distinct
    <3>7. PendingOwned'
      BY <1>1, <2>1, <3>1, <3>4 DEF PendingOwned
    <3>8. QuitOnce'
      BY <1>1, <3>1 DEF QuitOnce
    <3>9. QED
      BY <1>2, <2>2, <3>5, <3>6, <3>7, <3>8
  <2>5. QED
    BY <2>3, <2>4
<1>6. CASE LoopDispatch
  <2>1. TypeOK'
    BY <1>6 DEF LoopDispatch, TypeOK, WorkerPoints
  <2>2. Queued' = Queued /\ list' = list /\ live' = live \ {cur} /\ cur' = NoMessage
    BY <1>6 DEF LoopDispatch, Queued
  <2>3. wpc' \in {"exited", "wait"} /\ protect' = protect /\ wpc = "dispatch"
    BY <1>6 DEF LoopDispatch
  <2>4. HeadExclusive' /\ QuitOnce'
    BY <1>1, <2>2, <2>3 DEF HeadExclusive, QuitOnce
  <2>5. QueuedOwned' /\ TakenOwned'
    BY <1>1, <2>2, <2>3 DEF QueuedOwned, TakenOwned
  <2>6. PendingOwned'
    <3>1. \A u \in Pending : msg[u] # NoMessage
      BY DEF PendingOwned, TypeOK
    <3>2. QED
      BY <1>1, <2>2, <3>1 DEF PendingOwned
  <2>7. QED
    BY <1>2, <2>1, <2>4, <2>5, <2>6
<1>7. QED
  BY <1>0, <1>3, <1>4, <1>5, <1>6

\* Every step preserves the looper's invariant.
LEMMA LooperStep == LooperInv /\ [Next]_vars => LooperInv'
<1> SUFFICES ASSUME LooperInv, [Next]_vars PROVE LooperInv'
  OBVIOUS
<1>1. CASE UNCHANGED vars
  BY <1>1 DEF vars, LooperInv, TypeOK, HeadExclusive, QuitOnce, FlushAsked, PendingOwned,
     QueuedOwned, TakenOwned, Pending, Owning, Queued, Stale
<1>2. CASE QuitJoin
  BY <1>2, AddEndStep DEF Callers
<1>3. QED
  BY <1>1, <1>2, PostStep, QuitStep, AddLockStep, AddFlushStep, AddLinkStep, AddEndStep,
     LoopStepInv
  DEF Next, AddStep, Terminated

\* The type invariant of the looper.
THEOREM LooperTypeCorrect == Spec => []TypeOK
<1>1. LooperInv => TypeOK
  BY DEF LooperInv
<1>2. QED
  BY LooperInit, LooperStep, <1>1, PTL DEF Spec

\* The worker and the callers never read a message that has been deleted, even
\* when flushing posts race with the worker and with quit().
THEOREM NeverReadsDeleted == Spec => []NoDeletedRead
<1>1. LooperInv => NoDeletedRead
  <2> SUFFICES ASSUME LooperInv PROVE NoDeletedRead
    OBVIOUS
  <2> USE DEF LooperInv
  <2>1. wpc = "take" => ~Stale
    BY DEF HeadExclusive, Stale, Owning
  <2>2. ASSUME NEW t \in Callers, pc[t] = "unlock" \/ (pc[t] = "link" /\ ~flush[t])
        PROVE  ~Stale
    BY <2>2 DEF HeadExclusive, Stale, Owning
  <2>3. ASSUME NEW t \in Callers, pc[t] \in {"link", "unlock"} PROVE msg[t] \in live
    BY <2>2, <2>3 DEF PendingOwned, Pending, QueuedOwned
  <2>4. QED
    BY <2>1, <2>2, <2>3 DEF NoDeletedRead, QueuedOwned, TakenOwned
<1>2. QED
  BY LooperInit, LooperStep, <1>1, PTL DEF Spec

-----------------------------------------------------------------------------
\* The callers about to post headDataAvailable are finitely many.
LEMMA UnannouncedSize ==
  /\ IsFiniteSet(Unannounced) /\ Cardinality(Unannounced) \in Nat
  /\ \A t \in Callers : /\ Cardinality(Unannounced \cup {t}) \in Nat
                        /\ t \notin Unannounced =>
                             Cardinality(Unannounced \cup {t}) = Cardinality(Unannounced) + 1
                        /\ t \in Unannounced =>
                             Cardinality(Unannounced \ {t}) = Cardinality(Unannounced) - 1
<1>1. IsFiniteSet(Callers)
  BY CallerAssumption, FS_AddElement DEF Callers
<1>2. IsFiniteSet(Unannounced) /\ Cardinality(Unannounced) \in Nat
  BY <1>1, FS_Subset, FS_CardinalityType DEF Unannounced
<1>3. QED
  BY <1>2, FS_AddElement, FS_RemoveElement, FS_CardinalityType

\* Linking a message adds a caller that will post for it; taking one uses up
\* the unit the worker waited for.
LEMMA CountedStep ==
  LooperInv /\ EveryMessageCounted /\ [Next]_vars => EveryMessageCounted'
<1> SUFFICES ASSUME LooperInv, EveryMessageCounted, [Next]_vars
             PROVE  EveryMessageCounted'
  OBVIOUS
<1> USE UnannouncedSize
<1>0. /\ Len(list) \in Nat /\ list \in Seq(Messages \cup {Quit}) /\ data \in Nat
      /\ pc \in [Callers -> CallerPoints]
  BY DEF LooperInv, TypeOK
<1>1. CASE UNCHANGED <<list, data, wpc>> /\ Unannounced' = Unannounced
  BY <1>1 DEF EveryMessageCounted
<1>2. ASSUME NEW t \in Callers, AddLink(t) PROVE EveryMessageCounted'
  <2>1. Unannounced' = Unannounced \cup {t} /\ t \notin Unannounced
    BY <1>0, <1>2 DEF AddLink, Unannounced
  <2>2. Len(list') \in Nat /\ (Len(list') = 1 \/ Len(list') = Len(list) + 1)
    <3>1. msg[t] \in Messages \cup {Quit}
      BY <1>2 DEF AddLink, LooperInv, PendingOwned, Pending, TypeOK
    <3>2. CASE flush[t]
      BY <1>2, <3>2 DEF AddLink
    <3>3. CASE ~flush[t]
      <4>1. list' = Append(list, msg[t])
        BY <1>2, <3>3 DEF AddLink
      <4>2. QED
        BY <1>0, <3>1, <4>1, EntriesAppend
    <3>4. QED
      BY <3>2, <3>3
  <2>3. data' = data /\ wpc' = wpc
    BY <1>2 DEF AddLink
  <2>4. QED
    <3>1. Cardinality(Unannounced') = Cardinality(Unannounced) + 1
      BY <2>1
    <3>2. CASE Len(list') = 1
      BY <1>0, <2>3, <3>1, <3>2 DEF EveryMessageCounted
    <3>3. CASE Len(list') = Len(list) + 1
      BY <1>0, <2>3, <3>1, <3>3 DEF EveryMessageCounted
    <3>4. QED
      BY <2>2, <3>2, <3>3
<1>3. ASSUME NEW t \in Callers, AddNotify(t) PROVE EveryMessageCounted'
  <2>1. Unannounced' = Unannounced \ {t} /\ t \in Unannounced
    BY <1>0, <1>3 DEF AddNotify, Unannounced
  <2>2. QED
    BY <1>0, <1>3, <2>1 DEF AddNotify, EveryMessageCounted
<1>4. CASE LoopStep
  <2>1. Unannounced' = Unannounced
    BY <1>4 DEF LoopStep, LoopWait, LoopLock, LoopTake, LoopDispatch, Unannounced
  <2>2. CASE LoopWait \/ LoopLock \/ LoopDispatch
    BY <1>0, <2>1, <2>2 DEF LoopWait, LoopLock, LoopDispatch, EveryMessageCounted
  <2>3. CASE LoopTake /\ list = <<>>
    BY <1>0, <2>1, <2>3 DEF LoopTake, EveryMessageCounted
  <2>4. CASE LoopTake /\ list # <<>>
    <3>1. Len(list') = Len(list) - 1
      BY <1>0, <2>4, EntriesTail DEF LoopTake
    <3>2. QED
      BY <1>0, <2>1, <2>4, <3>1 DEF LoopTake, EveryMessageCounted
  <2>5. QED
    BY <1>4, <2>2, <2>3, <2>4 DEF LoopStep
<1>5. ASSUME NEW t \in Callers,
             AddLock(t) \/ AddFlush(t) \/ AddUnlock(t) \/ PostMessage(t) \/ QuitBegin \/ QuitJoin
      PROVE  EveryMessageCounted'
  <2>1. UNCHANGED <<list, data, wpc>>
    BY <1>5 DEF AddLock, AddFlush, AddUnlock, PostMessage, QuitBegin, QuitJoin
  <2>2. Unannounced' = Unannounced
    BY <1>0, <1>5 DEF AddLock, AddFlush, AddUnlock, PostMessage, QuitBegin, QuitJoin,
       Unannounced, Callers
  <2>3. QED
    BY <1>1, <2>1, <2>2
<1>6. CASE UNCHANGED vars
  BY <1>1, <1>6 DEF vars, Unannounced
<1>7. QED
  BY <1>2, <1>3, <1>4, <1>5, <1>6 DEF Next, AddStep, Terminated, Callers

\* headDataAvailable never falls behind the list: no message is stranded.
THEOREM MessagesAlwaysCounted == Spec => []EveryMessageCounted
<1>1. Init => EveryMessageCounted
  BY UnannouncedSize DEF Init, EveryMessageCounted
<1>2. QED
  BY LooperInit, LooperStep, CountedStep, <1>1, PTL DEF Spec

-----------------------------------------------------------------------------
\* A step of the looper is a step of the mailbox, or the mailbox does not see it.
LEMMA MailboxStep == LooperInv /\ [Next]_vars => [Mailbox!Next]_(Mailbox!mvars)
<1> SUFFICES ASSUME LooperInv, [Next]_vars PROVE [Mailbox!Next]_(Mailbox!mvars)
  OBVIOUS
<1> USE MessageAssumption DEF Mailbox!Next, Mailbox!mvars
<1>1. CASE UNCHANGED <<list, cur, wpc>>
  BY <1>1
<1>2. ASSUME NEW t \in Callers, AddLink(t)
      PROVE  \/ \E m \in Messages : Mailbox!Post(m) \/ Mailbox!PostFlushing(m)
             \/ Mailbox!Post(Quit)
  <2>1. t \in Pending
    BY <1>2 DEF AddLink, Pending
  <2>2. CASE t \in Posters
    <3>1. msg[t] \in Messages
      BY <2>1, <2>2 DEF LooperInv, QuitOnce
    <3>2. Mailbox!Post(msg[t]) \/ Mailbox!PostFlushing(msg[t])
      BY <1>2 DEF AddLink, Mailbox!Post, Mailbox!PostFlushing
    <3>3. QED
      BY <3>1, <3>2
  <2>3. CASE t = Owner
    <3>1. msg[t] = Quit /\ ~flush[t]
      BY <2>1, <2>3 DEF LooperInv, QuitOnce
    <3>2. QED
      BY <1>2, <3>1 DEF AddLink, Mailbox!Post
  <2>4. QED
    BY <2>2, <2>3 DEF Callers
<1>3. CASE LoopTake
  BY <1>3 DEF LoopTake, Mailbox!Take, LooperInv, TakenOwned
<1>4. CASE LoopDispatch
  <2>1. cur # NoMessage
    BY <1>4 DEF LoopDispatch, LooperInv, TakenOwned, TypeOK
  <2>2. Mailbox!Finish
    BY <1>4, <2>1 DEF LoopDispatch, Mailbox!Finish
  <2>3. QED
    BY <2>2
<1>5. CASE LoopWait \/ LoopLock
  BY <1>5 DEF LoopWait, LoopLock
<1>6. QED
  BY <1>1, <1>2, <1>3, <1>4, <1>5
  DEF Next, AddStep, LoopStep, Terminated, vars, PostMessage, QuitBegin, AddLock, AddFlush,
      AddUnlock, AddNotify, QuitJoin

\* The semaphores and the linked list implement the mailbox: messages are
\* handled one at a time in the order of posting, and the worker exits on the
\* quit message only.
THEOREM MailboxRefinement == Spec => ImplementsMailbox
<1>1. Init => Mailbox!Init
  BY DEF Init, Mailbox!Init
<1>2. QED
  BY LooperInit, LooperStep, MailboxStep, <1>1, PTL
  DEF Spec, ImplementsMailbox, Mailbox!Spec

\* quit() and the worker discard nothing: a message leaves the list from the
\* front, or because a poster asked for a flush.
THEOREM DiscardsOnlyOnFlush == Spec => OnlyFlushDiscards
<1> DEFINE Kept == \/ list' = list
                   \/ list # <<>> /\ list' = Tail(list)
                   \/ Len(list') = Len(list) + 1
                   \/ \E t \in Posters : pc[t] = "link" /\ flush[t]
<1>1. LooperInv /\ [Next]_vars => [Kept]_vars
  <2> SUFFICES ASSUME LooperInv, [Next]_vars PROVE Kept \/ UNCHANGED vars
    OBVIOUS
  <2>1. CASE UNCHANGED list
    BY <2>1
  <2>2. ASSUME NEW t \in Callers, AddLink(t) PROVE Kept
    <3>1. t \in Pending /\ msg[t] \in Messages \cup {Quit}
      BY <2>2 DEF AddLink, Pending, LooperInv, PendingOwned, TypeOK
    <3>2. CASE flush[t]
      BY <2>2, <3>1, <3>2 DEF AddLink, LooperInv, QuitOnce, Callers
    <3>3. CASE ~flush[t]
      <4>1. list' = Append(list, msg[t]) /\ list \in Seq(Messages \cup {Quit})
        BY <2>2, <3>3 DEF AddLink, LooperInv, TypeOK
      <4>2. QED
        BY <3>1, <4>1, EntriesAppend
    <3>4. QED
      BY <3>2, <3>3
  <2>3. CASE LoopTake
    BY <2>3 DEF LoopTake
  <2>4. QED
    BY <2>1, <2>2, <2>3
    DEF Next, AddStep, LoopStep, Terminated, vars, PostMessage, QuitBegin, AddLock,
        AddFlush, AddUnlock, AddNotify, QuitJoin, LoopWait, LoopLock, LoopDispatch
<1>2. QED
  BY LooperInit, LooperStep, <1>1, PTL DEF Spec, OnlyFlushDiscards
=============================================================================
