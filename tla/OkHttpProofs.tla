------------------------------ MODULE OkHttpProofs ------------------------------
(***************************************************************************)
(* Proofs about two parts of OkHttp: Dispatcher, for any calls, hosts and  *)
(* limits, and DiskLruCache, for any keys, size, number of edits, crashes  *)
(* and failures.  They share no state; both keep lists that hold nothing   *)
(* twice, and the lemmas about those are stated once.                      *)
(***************************************************************************)
EXTENDS Dispatcher, DiskLruCache, FiniteSetTheorems, SequenceTheorems,
        WellFoundedInduction, TLAPS

-----------------------------------------------------------------------------
(* The invariant of the dispatcher. *)

\* A queue that holds nothing twice.
Once(q) == \A i, j \in 1..Len(q) : q[i] = q[j] => i = j

\* The queues hold the calls that are where the queue says, each of them once;
\* the iterator has only ready calls before it.
QueueInv ==
    /\ Members(ready) = {c \in Async : st[c] = "ready"}
    /\ Members(runningAsync) = {c \in Async : st[c] \in {"running", "removing"}}
    /\ runningSync = {c \in Sync : st[c] = "running"}
    /\ Once(ready) /\ Once(runningAsync) /\ Once(scan)
    /\ Members(scan) \subseteq Members(ready)

\* Only a thread that owes a promotion is in the monitor, and one that owes it
\* for a finished call has not looked yet whether calls are running.
LockInv ==
    /\ lock = None => scan = <<>>
    /\ lock # None => lock \in owed
    /\ \A c \in Calls : <<"finish", c>> \in owed => st[c] = "promoting"

\* The counters, and that there are finitely many calls to count.
CountInv == IsFiniteSet(Counted) /\ CountersExact

\* A counter serves one host, and the calls in the queues to a host that no web
\* socket goes to share one counter.
ShareInv ==
    /\ \A c \in Calls : Host[counter[c]] = Host[c]
    /\ \A c, d \in Members(ready) \cup Members(runningAsync) :
          Host[c] = Host[d] /\ (\A w \in WebSockets : Host[w] # Host[c])
          => counter[c] = counter[d]

\* promoteAndExecute would not promote c.
Held(c) == Len(runningAsync) >= maxRequests \/ HostFull(c)

\* A ready call is held up, or a thread will look at it: the one in the monitor,
\* one that has yet to enter it, or one that has decremented a counter and has
\* yet to remove its call.
WaitInv ==
    \A c \in Members(ready) :
        \/ c \in Members(scan) \/ Held(c)
        \/ owed \ {lock} # {} \/ \E d \in Calls : st[d] = "removing"

\* While the idle callback is due, a call is running (and will finish), or a
\* finishing thread has yet to see that none is, or has seen it.
IdleInv ==
    idleDue => \/ runningAsync # <<>> \/ runningSync # {}
               \/ \E c \in Calls : <<"finish", c>> \in owed \/ st[c] = "idle"

\* The inductive invariant.
IInv == TypeOK /\ QueueInv /\ LockInv /\ CountInv /\ ShareInv /\ WaitInv /\ IdleInv

-----------------------------------------------------------------------------
(* Queues. *)

\* A non-empty set of natural numbers has a least element: the strict subset
\* ordering on the intervals 0..i is well-founded.
LEMMA LeastElement ==
    ASSUME NEW I \in SUBSET Nat, I # {}
    PROVE  \E i \in I : \A j \in I : i <= j
<1> DEFINE T == {0..i : i \in I}
           R == StrictSubsetOrdering(Nat)
<1>1. IsWellFoundedOn(R, FiniteSubsetsOf(Nat))
  BY FS_StrictSubsetOrderingWellFounded
<1>2. ASSUME NEW i \in I PROVE 0..i \in FiniteSubsetsOf(Nat)
  <2>1. IsFiniteSet(0..i)
    BY FS_Interval, 0 \in Int, i \in Int
  <2>2. QED
    BY <2>1 DEF FiniteSubsetsOf
<1>3. T \subseteq FiniteSubsetsOf(Nat) /\ T # {}
  BY <1>2
<1>4. PICK x \in T : \A y \in T : <<y, x>> \notin R
  <2> HIDE DEF T, R
  <2>1. QED
    BY <1>1, <1>3, WFMin
<1>5. PICK i \in I : x = 0..i
  OBVIOUS
<1>6. ASSUME NEW j \in I, j < i PROVE FALSE
  <2>1. 0..j \subseteq 0..i /\ i \in 0..i /\ i \notin 0..j
    BY <1>6
  <2>2. <<0..j, x>> \in R
    BY <2>1, <1>5 DEF StrictSubsetOrdering
  <2>3. QED
    BY <2>2, <1>4
<1>7. QED
  BY <1>6

\* A call that is not in a queue is added at its end.
LEMMA Appended ==
    ASSUME NEW S, NEW q \in Seq(S), NEW c \in S
    PROVE  /\ Append(q, c) \in Seq(S) /\ Members(Append(q, c)) = Members(q) \cup {c}
           /\ Len(Append(q, c)) = Len(q) + 1
           /\ Once(q) /\ c \notin Members(q) => Once(Append(q, c))
<1>1. /\ Append(q, c) \in Seq(S) /\ Len(Append(q, c)) = Len(q) + 1 /\ Len(q) \in Nat
      /\ \A i \in 1..Len(q) : Append(q, c)[i] = q[i]
      /\ Append(q, c)[Len(q) + 1] = c
  OBVIOUS
<1>2. Members(Append(q, c)) = Members(q) \cup {c}
  BY <1>1 DEF Members
<1>3. Once(q) /\ c \notin Members(q) => Once(Append(q, c))
  BY <1>1 DEF Members, Once
<1>4. QED
  BY <1>1, <1>2, <1>3

\* The iterator moves on.
LEMMA MovedOn ==
    ASSUME NEW S, NEW q \in Seq(S), q # <<>>
    PROVE  /\ Tail(q) \in Seq(S) /\ Head(q) \in Members(q)
           /\ Members(q) = {Head(q)} \cup Members(Tail(q))
           /\ Once(q) => Once(Tail(q)) /\ Head(q) \notin Members(Tail(q))
<1>1. /\ Tail(q) \in Seq(S) /\ Len(Tail(q)) = Len(q) - 1 /\ Len(q) \in Nat \ {0}
      /\ \A i \in 1..Len(Tail(q)) : Tail(q)[i] = q[i + 1]
      /\ Head(q) = q[1]
  OBVIOUS
<1>2. Head(q) \in Members(q) /\ Members(Tail(q)) \subseteq Members(q)
  BY <1>1 DEF Members
<1>3. ASSUME NEW i \in 1..Len(q), q[i] # Head(q) PROVE q[i] \in Members(Tail(q))
  <2>1. i - 1 \in 1..Len(Tail(q)) /\ Tail(q)[i - 1] = q[i]
    BY <1>1, <1>3
  <2>2. QED
    BY <2>1 DEF Members
<1>4. Members(q) = {Head(q)} \cup Members(Tail(q))
  BY <1>2, <1>3 DEF Members
<1>5. Once(q) => Once(Tail(q)) /\ Head(q) \notin Members(Tail(q))
  BY <1>1 DEF Members, Once
<1>6. QED
  BY <1>1, <1>2, <1>4, <1>5

\* A call is taken out of a queue that holds it once.
LEMMA TakenOut ==
    ASSUME NEW S, NEW q \in Seq(S), NEW c, Once(q)
    PROVE  /\ Without(q, c) \in Seq(S) /\ Once(Without(q, c))
           /\ Members(Without(q, c)) = Members(q) \ {c}
<1>1. CASE c \notin Members(q)
  BY <1>1 DEF Without
<1>2. CASE c \in Members(q)
  <2> DEFINE i == CHOOSE i \in 1..Len(q) : q[i] = c
             u == SubSeq(q, 1, i - 1)
             v == SubSeq(q, i + 1, Len(q))
             w == u \o v
  <2>1. i \in 1..Len(q) /\ q[i] = c /\ Len(q) \in Nat
    BY <1>2 DEF Members
  <2> HIDE DEF i
  <2>2. /\ u \in Seq(S) /\ Len(u) = i - 1 /\ \A k \in 1..i - 1 : u[k] = q[k]
        /\ v \in Seq(S) /\ Len(v) = Len(q) - i /\ \A k \in 1..Len(q) - i : v[k] = q[i + k]
    BY <2>1
  <2> HIDE DEF u, v
  <2>3. /\ w \in Seq(S) /\ Len(w) = Len(q) - 1
        /\ \A k \in 1..i - 1 : w[k] = q[k]
        /\ \A k \in i..Len(q) - 1 : w[k] = q[k + 1]
    <3>1. /\ w \in Seq(S) /\ Len(w) = Len(u) + Len(v)
          /\ \A k \in 1..Len(u) + Len(v) : w[k] = IF k <= Len(u) THEN u[k] ELSE v[k - Len(u)]
      BY <2>2, ConcatProperties
    <3>2. ASSUME NEW k \in i..Len(q) - 1 PROVE w[k] = q[k + 1]
      <4> HIDE DEF w
      <4>1. /\ k \in 1..Len(u) + Len(v) /\ ~(k <= Len(u)) /\ k - Len(u) = k - (i - 1)
            /\ k - (i - 1) \in 1..Len(q) - i
        BY <2>1, <2>2
      <4>2. i + (k - (i - 1)) = k + 1
        BY <2>1
      <4>3. QED
        BY <3>1, <4>1, <4>2, <2>2
    <3> HIDE DEF w
    <3>3. ASSUME NEW k \in 1..i - 1 PROVE w[k] = q[k]
      <4>1. k \in 1..Len(u) + Len(v) /\ k <= Len(u)
        BY <2>1, <2>2
      <4>2. QED
        BY <3>1, <4>1, <2>2
    <3>4. Len(w) = Len(q) - 1
      BY <3>1, <2>1, <2>2
    <3>5. QED
      BY <3>1, <3>2, <3>3, <3>4
  <2> HIDE DEF w
  <2>4. Once(w)
    <3> DEFINE place(k) == IF k < i THEN k ELSE k + 1
    <3>1. ASSUME NEW k \in 1..Len(w) PROVE place(k) \in 1..Len(q) /\ w[k] = q[place(k)]
      BY <2>1, <2>3
    <3>2. ASSUME NEW k \in 1..Len(w), NEW n \in 1..Len(w), place(k) = place(n) PROVE k = n
      BY <3>2, <2>1, <2>3
    <3> HIDE DEF place
    <3>3. QED
      BY <3>1, <3>2 DEF Once
  <2>5. ASSUME NEW k \in 1..Len(w) PROVE w[k] \in Members(q) \ {c}
    <3>1. CASE k < i
      BY <3>1, <2>1, <2>3 DEF Once, Members
    <3>2. CASE k >= i
      <4>1. w[k] = q[k + 1] /\ k + 1 \in 1..Len(q) /\ k + 1 # i
        BY <3>2, <2>1, <2>3
      <4>2. QED
        BY <4>1, <2>1 DEF Once, Members
    <3>3. QED
      BY <3>1, <3>2, <2>1
  <2>6. ASSUME NEW k \in 1..Len(q), q[k] # c PROVE q[k] \in Members(w)
    <3>1. CASE k < i
      BY <3>1, <2>1, <2>3 DEF Members
    <3>2. CASE k > i
      <4>1. k - 1 \in 1..Len(w) /\ w[k - 1] = q[k]
        BY <3>2, <2>1, <2>3
      <4>2. QED
        BY <4>1 DEF Members
    <3>3. QED
      BY <3>1, <3>2, <2>1, <2>6
  <2>7. Members(w) = Members(q) \ {c}
    BY <2>5, <2>6 DEF Members
  <2>8. Without(q, c) = w
    BY <1>2 DEF Without, w, u, v, i
  <2>9. QED
    BY <2>3, <2>4, <2>7, <2>8
<1>3. QED
  BY <1>1, <1>2

\* findExistingCallWithHost finds a call to the host in one of the queues, or
\* the new call itself when there is none.
LEMMA ExistingFound ==
    ASSUME TypeOK, NEW c \in Async
    PROVE  /\ Existing(c) \in Members(runningAsync) \cup Members(ready) \cup {c}
           /\ Host[Existing(c)] = Host[c]
           /\ c \notin Members(runningAsync) \cup Members(ready) /\ Existing(c) = c
              => \A e \in Members(runningAsync) \cup Members(ready) : Host[e] # Host[c]
<1> DEFINE q == Append(ready, c)
           all == runningAsync \o q
           I == {i \in 1..Len(all) : Host[all[i]] = Host[c]}
<1>1. /\ q \in Seq(Async) /\ Members(q) = Members(ready) \cup {c} /\ Len(q) = Len(ready) + 1
      /\ q[Len(ready) + 1] = c /\ Len(ready) \in Nat
      /\ \A i \in 1..Len(ready) : q[i] = ready[i]
  BY Appended DEF TypeOK
<1>2. runningAsync \in Seq(Async) /\ Len(runningAsync) \in Nat
  BY DEF TypeOK
<1> HIDE DEF q
<1>3. /\ all \in Seq(Async) /\ Len(all) = Len(runningAsync) + Len(q)
      /\ \A i \in 1..Len(runningAsync) : all[i] = runningAsync[i]
      /\ \A i \in 1..Len(q) : all[Len(runningAsync) + i] = q[i]
  BY SMTT(30), <1>1, <1>2
<1> HIDE DEF all
<1>4. Len(all) \in I
  BY SMTT(30), <1>1, <1>2, <1>3
<1>5. PICK i \in I : \A j \in I : i <= j
  <2>1. I \in SUBSET Nat /\ I # {}
    BY <1>4
  <2> HIDE DEF I
  <2>2. QED
    BY <2>1, LeastElement
<1> DEFINE P(k) == Host[all[k]] = Host[c] /\ \A j \in 1..k - 1 : Host[all[j]] # Host[c]
<1>6. i \in 1..Len(all) /\ P(i)
  BY SMTT(30), <1>1, <1>2, <1>3, <1>5
<1>7. PICK k \in 1..Len(all) : P(k) /\ Existing(c) = all[k]
  BY <1>6 DEF Existing, all, q
<1>8. all[k] \in Members(runningAsync) \cup Members(q)
  <2>1. CASE k <= Len(runningAsync)
    BY <2>1, <1>2, <1>3 DEF Members
  <2>2. CASE k > Len(runningAsync)
    <3>1. k - Len(runningAsync) \in 1..Len(q) /\ all[k] = q[k - Len(runningAsync)]
      BY <2>2, <1>1, <1>2, <1>3
    <3>2. QED
      BY <3>1 DEF Members
  <2>3. QED
    BY <2>1, <2>2, <1>2
<1>9. ASSUME NEW e \in Members(runningAsync) \cup Members(ready),
             c \notin Members(runningAsync) \cup Members(ready), all[k] = c
      PROVE  Host[e] # Host[c]
  <2>1. ASSUME NEW j \in 1..Len(all) - 1
        PROVE  all[j] \in Members(runningAsync) \cup Members(ready)
    <3>1. CASE j <= Len(runningAsync)
      BY <3>1, <1>2, <1>3 DEF Members
    <3>2. CASE j > Len(runningAsync)
      <4>1. /\ j - Len(runningAsync) \in 1..Len(ready)
            /\ j - Len(runningAsync) \in 1..Len(q)
            /\ j = Len(runningAsync) + (j - Len(runningAsync))
        BY <3>2, <1>1, <1>2, <1>3
      <4>2. all[j] = ready[j - Len(runningAsync)]
        BY <4>1, <1>1, <1>3
      <4>3. QED
        BY <4>1, <4>2 DEF Members
    <3>3. QED
      BY <3>1, <3>2, <1>2
  <2>2. k = Len(all)
    BY <2>1, <1>3, <1>9
  <2>3. PICK j \in 1..Len(all) - 1 : all[j] = e
    <3>1. CASE e \in Members(runningAsync)
      BY <3>1, <1>1, <1>2, <1>3 DEF Members
    <3>2. CASE e \in Members(ready)
      <4>1. PICK h \in 1..Len(ready) : ready[h] = e
        BY <3>2 DEF Members
      <4>2. /\ h \in 1..Len(q) /\ q[h] = e
            /\ Len(runningAsync) + h \in 1..Len(all) - 1
        BY <4>1, <1>1, <1>2, <1>3
      <4>3. QED
        BY <4>2, <1>3
    <3>3. QED
      BY <3>1, <3>2
  <2>4. QED
    BY <2>2, <2>3, <1>7
<1>10. QED
  BY <1>1, <1>7, <1>8, <1>9

-----------------------------------------------------------------------------
(* The invariant. *)

\* Initially nothing is queued, counted or owed.
LEMMA InitInv == Init => IInv
<1> SUFFICES ASSUME Init PROVE IInv
  OBVIOUS
<1> USE DispatcherAssumption DEF Init
<1>1. TypeOK
  <2>1. idleDue \in BOOLEAN
    BY Zenon
  <2>2. <<>> \in Seq(Async) /\ 0 \in 0..MaxChanges
    OBVIOUS
  <2>3. QED
    BY <2>1, <2>2 DEF TypeOK, Async, Points
<1>2. Members(<<>>) = {} /\ Once(<<>>)
  BY DEF Members, Once
<1>3. QueueInv /\ LockInv /\ WaitInv /\ IdleInv
  BY <1>2 DEF QueueInv, LockInv, WaitInv, IdleInv, Async
<1>4. CountInv
  <2>1. Counted = {} /\ \A x \in Calls : {c \in Counted : counter[c] = x} = {}
    BY DEF Counted, Async
  <2>2. QED
    BY <2>1, FS_EmptySet DEF CountInv, CountersExact
<1>5. ShareInv
  BY <1>2 DEF ShareInv
<1>6. QED
  BY <1>1, <1>3, <1>4, <1>5 DEF IInv

\* Most steps do not change which calls are counted and where.
LEMMA SameCount ==
    ASSUME CountInv, Counted' = Counted, count' = count,
           \A c \in Counted : counter'[c] = counter[c]
    PROVE  CountInv'
<1>1. \A x : {c \in Counted' : counter'[c] = x} = {c \in Counted : counter[c] = x}
  OBVIOUS
<1>2. QED
  BY <1>1 DEF CountInv, CountersExact

\* enqueue: the call joins the ready queue, takes over the counter of a call to its host, and
\* owes a promotion.
LEMMA EnqueueKeeps ==
    ASSUME IInv, NEW c \in Calls, Enqueue(c)
    PROVE  IInv'
<1> USE DispatcherAssumption DEF IInv, Enqueue, limits
<1>1. /\ Async \subseteq Calls /\ c \in Async /\ c \notin Members(ready) \cup Members(runningAsync)
      /\ \A d \in Calls : st'[d] = IF d = c THEN "ready" ELSE st[d]
  BY DEF QueueInv, TypeOK, Async
<1>2. /\ ready' \in Seq(Async) /\ Members(ready') = Members(ready) \cup {c} /\ Once(ready')
  BY <1>1, Appended DEF QueueInv, TypeOK
<1>3. /\ Existing(c) \in Members(runningAsync) \cup Members(ready) \cup {c}
      /\ Host[Existing(c)] = Host[c] /\ Existing(c) \in Calls
      /\ Existing(c) = c
         => \A e \in Members(runningAsync) \cup Members(ready) : Host[e] # Host[c]
  BY <1>1, ExistingFound DEF QueueInv
<1>4. /\ counter' \in [Calls -> Calls]
      /\ \A d \in Calls \ {c} : counter'[d] = counter[d]
      /\ counter'[c] = IF c \in WebSockets THEN counter[c] ELSE counter[Existing(c)]
  BY <1>3 DEF TypeOK
<1>5. TypeOK'
  <2>1. st' \in [Calls -> Points] /\ owed' \subseteq Promoters
    BY DEF TypeOK, Points, Promoters
  <2>2. QED
    BY <1>2, <1>4, <2>1 DEF TypeOK
<1>6. QueueInv'
  BY <1>1, <1>2 DEF QueueInv, TypeOK
<1>7. LockInv'
  BY <1>1 DEF LockInv
<1>8. CountInv'
  <2>1. Counted' = Counted /\ c \notin Counted
    BY <1>1 DEF Counted
  <2>2. QED
    BY <1>1, <1>4, <2>1, SameCount DEF Counted
<1>9. ShareInv'
  <2>1. ASSUME NEW d \in Calls PROVE Host[counter'[d]] = Host[d]
    BY <1>3, <1>4 DEF ShareInv
  <2>2. Members(ready) \cup Members(runningAsync) \subseteq Calls
    BY <1>1 DEF QueueInv
  <2>3. ASSUME NEW d \in Members(ready) \cup Members(runningAsync), Host[d] = Host[c],
               \A w \in WebSockets : Host[w] # Host[c]
        PROVE  counter'[d] = counter'[c]
    <3>1. CASE Existing(c) = c
      BY <3>1, <2>3, <1>1, <1>3
    <3>2. CASE Existing(c) # c
      BY <3>2, <2>2, <2>3, <1>1, <1>3, <1>4 DEF ShareInv
    <3>3. QED
      BY <3>1, <3>2
  <2>4. QED
    BY <1>1, <1>2, <1>4, <2>1, <2>2, <2>3 DEF ShareInv
<1>10. WaitInv'
  <2>1. <<"enqueue", c>> \in owed' \ {lock'}
    <3>1. <<"enqueue", c>> \in Promoters
      BY DEF Promoters
    <3>2. QED
      BY <3>1
  <2>2. QED
    BY <2>1 DEF WaitInv
<1>11. IdleInv'
  BY <1>1 DEF IdleInv
<1>12. QED
  BY <1>5, <1>6, <1>7, <1>8, <1>9, <1>10, <1>11

\* A synchronous call is not counted.
LEMMA ExecuteKeeps ==
    ASSUME IInv, NEW c \in Calls, Execute(c)
    PROVE  IInv'
<1> USE DispatcherAssumption DEF IInv, Execute, limits, counters
<1>1. /\ Async \subseteq Calls /\ c \in Sync /\ c \notin Async
      /\ \A d \in Calls : st'[d] = IF d = c THEN "running" ELSE st[d]
  BY DEF TypeOK, Async
<1>2. TypeOK'
  BY DEF TypeOK, Points
<1>3. QueueInv'
  BY <1>1 DEF QueueInv, TypeOK
<1>4. LockInv' /\ WaitInv' /\ IdleInv' /\ ShareInv'
  BY <1>1 DEF LockInv, WaitInv, IdleInv, ShareInv, Held, HostFull
<1>5. CountInv'
  <2>1. Counted' = Counted
    BY <1>1 DEF Counted
  <2>2. QED
    BY <2>1, SameCount
<1>6. QED
  BY <1>2, <1>3, <1>4, <1>5

\* A changed limit may leave a ready call that is no longer held up; the setter owes a promotion.
LEMMA SetLimitKeeps ==
    ASSUME IInv, NEW total \in Limits, NEW perHost \in Limits, SetLimit(total, perHost)
    PROVE  IInv'
<1> USE DispatcherAssumption DEF IInv, SetLimit, queues, counters
<1>1. TypeOK'
  <2>1. owed' \subseteq Promoters /\ changes' \in 0..MaxChanges
    BY DEF TypeOK, Promoters
  <2>2. QED
    BY <2>1 DEF TypeOK
<1>2. QueueInv' /\ ShareInv'
  BY DEF QueueInv, ShareInv
<1>3. LockInv' /\ IdleInv'
  BY DEF LockInv, IdleInv
<1>4. CountInv'
  <2>1. Counted' = Counted
    BY DEF Counted
  <2>2. QED
    BY <2>1, SameCount
<1>5. WaitInv'
  <2>1. <<"limit">> \in owed' \ {lock'}
    <3>1. <<"limit">> \in Promoters
      BY DEF Promoters
    <3>2. QED
      BY <3>1
  <2>2. QED
    BY <2>1 DEF WaitInv
<1>6. QED
  BY <1>1, <1>2, <1>3, <1>4, <1>5

\* A step of promoteAndExecute that moves no call.
LEMMA ScanKeeps ==
    ASSUME IInv,
           (\E t \in Promoters : PromoteEnter(t)) \/ PromoteFull \/ PromoteSkip
    PROVE  IInv'
<1> USE DispatcherAssumption DEF IInv, queues, counters, limits
<1>1. /\ UNCHANGED <<queues, counters, limits, st, owed, idleDue>>
      /\ lock' \in owed
      /\ scan' \in Seq(Async) /\ Once(scan') /\ Members(scan') \subseteq Members(ready)
      /\ \A c \in Members(ready) :
            c \in Members(scan') \/ Held(c)
            \/ (owed \ {lock'}) # {} \/ \E d \in Calls : st[d] = "removing"
  <2>1. CASE \E t \in Promoters : PromoteEnter(t)
    BY <2>1 DEF PromoteEnter, TypeOK, QueueInv
  <2>2. CASE PromoteFull
    <3>1. <<>> \in Seq(Async) /\ Once(<<>>) /\ Members(<<>>) = {}
      BY DEF Once, Members
    <3>2. QED
      BY <2>2, <3>1 DEF PromoteFull, LockInv, Held
  <2>3. CASE PromoteSkip
    <3>1. /\ Tail(scan) \in Seq(Async) /\ Once(Tail(scan))
          /\ Members(scan) = {Head(scan)} \cup Members(Tail(scan))
      BY <2>3, MovedOn DEF PromoteSkip, TypeOK, QueueInv
    <3>2. QED
      BY <2>3, <3>1 DEF PromoteSkip, LockInv, Held, WaitInv, QueueInv
  <2>4. QED
    BY <2>1, <2>2, <2>3
<1>2. TypeOK'
  BY <1>1 DEF TypeOK
<1>3. QueueInv' /\ ShareInv' /\ IdleInv'
  <2>1. /\ ready' = ready /\ runningAsync' = runningAsync /\ runningSync' = runningSync
        /\ counter' = counter /\ st' = st /\ owed' = owed /\ idleDue' = idleDue
        /\ Members(ready)' = Members(ready) /\ Members(runningAsync)' = Members(runningAsync)
    BY <1>1 DEF Members
  <2>2. QueueInv'
    BY <1>1, <2>1 DEF QueueInv
  <2>3. ShareInv'
    BY <2>1 DEF ShareInv
  <2>4. IdleInv'
    BY <2>1 DEF IdleInv
  <2>5. QED
    BY <2>2, <2>3, <2>4
<1>4. LockInv'
  <2>1. lock' # None
    BY <1>1 DEF TypeOK
  <2>2. QED
    BY <1>1, <2>1 DEF LockInv
<1>5. CountInv'
  <2>1. Counted' = Counted
    BY <1>1 DEF Counted
  <2>2. QED
    BY <1>1, <2>1, SameCount
<1>6. WaitInv'
  BY <1>1 DEF WaitInv, Held, HostFull
<1>7. QED
  BY <1>2, <1>3, <1>4, <1>5, <1>6

\* A promoted call was not held up; it is counted and leaves the ready queue.
LEMMA PromoteCallKeeps ==
    ASSUME IInv, PromoteCall
    PROVE  IInv'
<1> USE DispatcherAssumption DEF IInv, PromoteCall, limits
<1> DEFINE c == Head(scan)
<1>1. /\ Tail(scan) \in Seq(Async) /\ Once(Tail(scan))
      /\ Members(scan) = {c} \cup Members(Tail(scan)) /\ c \notin Members(Tail(scan))
  BY MovedOn DEF TypeOK, QueueInv
<1>2. /\ Async \subseteq Calls /\ c \in Async /\ c \in Members(ready) /\ st[c] = "ready"
      /\ c \notin Members(runningAsync) /\ c \notin Sync
  BY <1>1 DEF QueueInv, Async
<1> HIDE DEF c
<1>3. /\ ready' = Without(ready, c) /\ runningAsync' = Append(runningAsync, c)
      /\ count' = [count EXCEPT ![counter[c]] = @ + 1]
      /\ st' = [st EXCEPT ![c] = "running"] /\ scan' = Tail(scan)
  BY DEF c
<1>4. /\ ready' \in Seq(Async) /\ Once(ready') /\ Members(ready') = Members(ready) \ {c}
  BY SMTT(30), <1>2, <1>3, TakenOut DEF TypeOK, QueueInv
<1>5. /\ runningAsync' \in Seq(Async) /\ Once(runningAsync')
      /\ Members(runningAsync') = Members(runningAsync) \cup {c}
      /\ Len(runningAsync') = Len(runningAsync) + 1 /\ runningAsync' # <<>>
  <2>1. /\ runningAsync' \in Seq(Async) /\ Once(runningAsync')
        /\ Members(runningAsync') = Members(runningAsync) \cup {c}
        /\ Len(runningAsync') = Len(runningAsync) + 1
    BY SMTT(30), <1>2, <1>3, Appended DEF TypeOK, QueueInv
  <2>2. Members(<<>>) = {}
    BY DEF Members
  <2>3. QED
    BY <2>1, <2>2
<1>6. /\ \A d \in Calls : st'[d] = IF d = c THEN "running" ELSE st[d]
      /\ \A x \in Calls : count'[x] = IF x = counter[c] THEN count[x] + 1 ELSE count[x]
      /\ counter[c] \in Calls
  BY SMTT(30), <1>2, <1>3 DEF TypeOK
<1>7. TypeOK'
  <2>1. st' \in [Calls -> Points] /\ count' \in [Calls -> Nat]
    BY SMTT(30), <1>2, <1>3 DEF TypeOK, Points
  <2>2. QED
    BY <1>1, <1>3, <1>4, <1>5, <2>1 DEF TypeOK
<1>8. QueueInv'
  <2>1. Members(ready') = {d \in Async : st'[d] = "ready"}
    BY <1>2, <1>4, <1>6 DEF QueueInv
  <2>2. Members(runningAsync') = {d \in Async : st'[d] \in {"running", "removing"}}
    BY <1>2, <1>5, <1>6 DEF QueueInv
  <2>3. runningSync' = {d \in Sync : st'[d] = "running"}
    BY <1>2, <1>6 DEF QueueInv
  <2>4. Members(scan') \subseteq Members(ready')
    BY <1>1, <1>3, <1>4 DEF QueueInv
  <2>5. QED
    BY <1>1, <1>3, <1>4, <1>5, <2>1, <2>2, <2>3, <2>4 DEF QueueInv
<1>9. LockInv'
  BY <1>2, <1>6 DEF LockInv
<1>10. CountInv'
  <2>1. Counted' = Counted \cup {c} /\ c \notin Counted
    BY <1>2, <1>6 DEF Counted
  <2>2. IsFiniteSet(Counted')
    BY <2>1, FS_AddElement DEF CountInv
  <2>3. ASSUME NEW x \in Calls
        PROVE  count'[x] = Cardinality({d \in Counted' : counter'[d] = x})
    <3> DEFINE D == {d \in Counted : counter[d] = x}
    <3>1. IsFiniteSet(D) /\ count[x] = Cardinality(D) /\ c \notin D
      BY <2>1, FS_Subset DEF CountInv, CountersExact
    <3>2. {d \in Counted' : counter'[d] = x} = IF x = counter[c] THEN D \cup {c} ELSE D
      BY <2>1
    <3> HIDE DEF D
    <3>3. Cardinality(D \cup {c}) = Cardinality(D) + 1
      BY <3>1, FS_AddElement
    <3>4. QED
      BY <1>6, <3>1, <3>2, <3>3
  <2>4. QED
    BY <2>2, <2>3 DEF CountInv, CountersExact
<1>11. ShareInv'
  BY <1>2, <1>4, <1>5 DEF ShareInv
<1>12. WaitInv'
  <2> SUFFICES ASSUME NEW d \in Members(ready')
               PROVE  d \in Members(scan') \/ Held(d)'
                      \/ owed' \ {lock'} # {} \/ \E e \in Calls : st'[e] = "removing"
    BY DEF WaitInv
  <2>1. CASE Held(d)
    <3>1. CASE Len(runningAsync) >= maxRequests
      BY <3>1 DEF TypeOK
    <3>2. CASE HostFull(d)
      <4>1. counter[d] \in Calls /\ count[counter[d]] \in Nat /\ maxRequestsPerHost \in Nat
        BY <1>2, <1>4 DEF TypeOK, QueueInv
      <4>2. HostFull(d)'
        BY <3>2, <4>1, <1>6 DEF HostFull
      <4>3. QED
        BY <4>2 DEF Held
    <3>3. QED
      BY <2>1, <3>1, <3>2 DEF Held
  <2>2. CASE \E e \in Calls : st[e] = "removing"
    BY <2>2, <1>2, <1>6
  <2>3. QED
    BY <2>1, <2>2, <1>1, <1>3, <1>4 DEF WaitInv
<1>13. IdleInv'
  BY <1>5 DEF IdleInv
<1>14. QED
  BY <1>7, <1>8, <1>9, <1>10, <1>11, <1>12, <1>13

\* Whoever leaves the monitor has looked at every ready call.
LEMMA PromoteLeaveKeeps ==
    ASSUME IInv, PromoteLeave
    PROVE  IInv'
<1> USE DispatcherAssumption DEF IInv, PromoteLeave, queues, counters, limits
<1>1. lock \in Promoters /\ lock \in owed /\ None \notin Promoters
  BY DEF TypeOK, LockInv
<1>2. ASSUME lock[1] = "finish"
      PROVE  /\ lock[2] \in Calls /\ lock = <<"finish", lock[2]>> /\ st[lock[2]] = "promoting"
             /\ \A d \in Calls : st'[d] = IF d # lock[2] THEN st[d]
                                          ELSE IF runningAsync = <<>> /\ runningSync = {}
                                          THEN "idle" ELSE "done"
  <2>1. lock[2] \in Calls /\ lock = <<"finish", lock[2]>>
    BY <1>1, <1>2 DEF Promoters
  <2>2. QED
    BY <1>1, <1>2, <2>1 DEF LockInv, TypeOK
<1>3. ASSUME lock[1] # "finish"
      PROVE  st' = st /\ \A d \in Calls : lock # <<"finish", d>>
  BY <1>3
<1>4. \A d \in Calls : st[d] # st'[d] => st[d] = "promoting" /\ st'[d] \in {"idle", "done"}
  BY <1>2, <1>3
<1>5. Async \subseteq Calls /\ Sync \subseteq Calls
  BY DEF Async
<1>6. TypeOK'
  <2>1. st' \in [Calls -> Points]
    BY <1>2, <1>3 DEF TypeOK, Points
  <2>2. QED
    BY <2>1 DEF TypeOK
<1>7. QueueInv'
  BY <1>4, <1>5 DEF QueueInv
<1>8. LockInv'
  <2>1. ASSUME NEW d \in Calls, <<"finish", d>> \in owed' PROVE st'[d] = "promoting"
    <3>1. <<"finish", d>> \in owed /\ <<"finish", d>> # lock /\ st[d] = "promoting"
      BY <2>1 DEF LockInv
    <3>2. QED
      BY <3>1, <1>2, <1>3
  <2>2. QED
    BY <2>1 DEF LockInv
<1>9. CountInv'
  <2>1. Counted' = Counted
    BY <1>4, <1>5 DEF Counted
  <2>2. QED
    BY <2>1, SameCount
<1>10. ShareInv'
  BY DEF ShareInv
<1>11. WaitInv'
  <2>1. owed' \ {lock'} = owed \ {lock}
    BY <1>1 DEF TypeOK
  <2>2. \A d \in Calls : st[d] = "removing" => st'[d] = "removing"
    BY <1>4
  <2>3. QED
    BY <2>1, <2>2 DEF WaitInv, Held, HostFull
<1>12. IdleInv'
  <2> SUFFICES ASSUME idleDue, runningAsync = <<>>, runningSync = {}
               PROVE  \E d \in Calls : <<"finish", d>> \in owed' \/ st'[d] = "idle"
    BY DEF IdleInv
  <2>1. PICK d \in Calls : <<"finish", d>> \in owed \/ st[d] = "idle"
    BY DEF IdleInv
  <2>2. CASE st[d] = "idle"
    BY <2>2, <1>4
  <2>3. CASE <<"finish", d>> \in owed
    BY <2>3, <1>2, <1>3
  <2>4. QED
    BY <2>1, <2>2, <2>3
<1>13. QED
  BY <1>6, <1>7, <1>8, <1>9, <1>10, <1>11, <1>12

\* finished(AsyncCall) decrements the counter before it removes the call.
LEMMA FinishKeeps ==
    ASSUME IInv, NEW c \in Calls, Finish(c)
    PROVE  IInv'
<1> USE DispatcherAssumption DEF IInv, Finish, queues, limits
<1>1. /\ Async \subseteq Calls /\ c \in Async /\ c \notin Sync /\ counter[c] \in Calls
      /\ \A d \in Calls : st'[d] = IF d = c THEN "removing" ELSE st[d]
      /\ \A x \in Calls : count'[x] = IF x = counter[c] THEN count[x] - 1 ELSE count[x]
  BY DEF TypeOK, Async
<1>2. Counted' = Counted \ {c} /\ c \in Counted
  BY <1>1 DEF Counted
<1>3. ASSUME NEW x \in Calls
      PROVE  /\ count'[x] = Cardinality({d \in Counted' : counter'[d] = x})
             /\ count'[x] \in Nat
  <2> DEFINE D == {d \in Counted : counter[d] = x}
  <2>1. IsFiniteSet(D) /\ count[x] = Cardinality(D) /\ (x = counter[c] <=> c \in D)
    BY <1>2, FS_Subset DEF CountInv, CountersExact
  <2>2. {d \in Counted' : counter'[d] = x} = D \ {c}
    BY <1>2
  <2> HIDE DEF D
  <2>3. /\ Cardinality(D \ {c}) = IF c \in D THEN Cardinality(D) - 1 ELSE Cardinality(D)
        /\ IsFiniteSet(D \ {c})
    BY <2>1, FS_RemoveElement
  <2>4. Cardinality(D \ {c}) \in Nat
    BY <2>3, FS_CardinalityType
  <2>5. count'[x] = Cardinality(D \ {c})
    <3>1. CASE x = counter[c]
      BY <3>1, <1>1, <2>1, <2>3
    <3>2. CASE x # counter[c]
      BY <3>2, <1>1, <2>1, <2>3
    <3>3. QED
      BY <3>1, <3>2
  <2>6. QED
    BY <2>2, <2>4, <2>5
<1>4. CountInv'
  <2>1. IsFiniteSet(Counted')
    BY <1>2, FS_RemoveElement DEF CountInv
  <2>2. QED
    BY <2>1, <1>3 DEF CountInv, CountersExact
<1>5. TypeOK'
  <2>1. count' \in [Calls -> Nat]
    <3>1. count' = [x \in Calls |-> count'[x]]
      BY DEF TypeOK
    <3>2. QED
      BY <1>3, <3>1
  <2>2. st' \in [Calls -> Points]
    BY DEF TypeOK, Points
  <2>3. QED
    BY <2>1, <2>2 DEF TypeOK
<1>6. QueueInv'
  BY <1>1 DEF QueueInv
<1>7. LockInv' /\ ShareInv'
  BY <1>1 DEF LockInv, ShareInv
<1>8. WaitInv' /\ IdleInv'
  BY <1>1 DEF WaitInv, IdleInv
<1>9. QED
  BY <1>4, <1>5, <1>6, <1>7, <1>8

\* A call is removed, and the finishing thread owes a promotion.
LEMMA RemoveKeeps ==
    ASSUME IInv, NEW c \in Calls, Remove(c)
    PROVE  IInv'
<1> USE DispatcherAssumption DEF IInv, Remove, limits, counters
<1>1. /\ Async \subseteq Calls /\ Sync \subseteq Calls /\ Async \cap Sync = {}
      /\ st[c] = "removing" \/ (st[c] = "running" /\ c \in Sync)
      /\ \A d \in Calls : st'[d] = IF d = c THEN "promoting" ELSE st[d]
  BY DEF TypeOK, Async, Returned
<1>2. /\ runningAsync' \in Seq(Async) /\ Once(runningAsync')
      /\ Members(runningAsync') = Members(runningAsync) \ {c}
  BY TakenOut DEF TypeOK, QueueInv
<1>3. TypeOK'
  <2>1. idleDue' \in BOOLEAN
    BY Zenon
  <2>2. st' \in [Calls -> Points] /\ owed' \subseteq Promoters
    BY DEF TypeOK, Points, Promoters
  <2>3. QED
    BY <1>2, <2>1, <2>2 DEF TypeOK
<1>4. QueueInv'
  BY <1>1, <1>2 DEF QueueInv
<1>5. LockInv'
  BY <1>1 DEF LockInv
<1>6. CountInv'
  <2>1. Counted' = Counted
    BY <1>1 DEF Counted
  <2>2. QED
    BY <2>1, SameCount
<1>7. ShareInv'
  BY <1>2 DEF ShareInv
<1>8. WaitInv'
  <2>1. <<"finish", c>> \in owed' \ {lock'}
    <3>1. <<"finish", c>> \in Promoters
      BY DEF Promoters
    <3>2. QED
      BY <3>1
  <2>2. QED
    BY <2>1 DEF WaitInv
<1>9. IdleInv'
  BY DEF IdleInv
<1>10. QED
  BY <1>3, <1>4, <1>5, <1>6, <1>7, <1>8, <1>9

\* The idle callback is run by a thread that saw no call running.
LEMMA IdleKeeps ==
    ASSUME IInv, NEW c \in Calls, Idle(c)
    PROVE  IInv'
<1> USE DispatcherAssumption DEF IInv, Idle, queues, counters, limits
<1>1. /\ Async \subseteq Calls /\ Sync \subseteq Calls
      /\ \A d \in Calls : st'[d] = IF d = c THEN "done" ELSE st[d]
  BY DEF TypeOK, Async
<1>2. TypeOK'
  <2>1. idleDue' \in BOOLEAN
    BY Zenon
  <2>2. QED
    BY <2>1 DEF TypeOK, Points
<1>3. QueueInv'
  BY <1>1 DEF QueueInv
<1>4. LockInv' /\ ShareInv' /\ IdleInv'
  BY <1>1 DEF LockInv, ShareInv, IdleInv
<1>5. WaitInv'
  BY <1>1 DEF WaitInv, Held, HostFull
<1>6. CountInv'
  <2>1. Counted' = Counted
    BY <1>1 DEF Counted
  <2>2. QED
    BY <2>1, SameCount
<1>7. QED
  BY <1>2, <1>3, <1>4, <1>5, <1>6

\* Every step keeps the invariant.
LEMMA NextInv == IInv /\ [Next]_vars => IInv'
<1> SUFFICES ASSUME IInv, [Next]_vars PROVE IInv'
  OBVIOUS
<1>1. CASE UNCHANGED vars
  <2> USE <1>1 DEF vars, queues, counters, limits
  <2>1. Counted' = Counted
    BY DEF Counted
  <2>2. CountInv'
    BY <2>1, SameCount DEF IInv
  <2>3. (TypeOK /\ QueueInv /\ LockInv /\ ShareInv)'
    BY DEF IInv, TypeOK, QueueInv, LockInv, ShareInv
  <2>4. (WaitInv /\ IdleInv)'
    BY DEF IInv, WaitInv, IdleInv, Held, HostFull
  <2>5. QED
    BY <2>2, <2>3, <2>4 DEF IInv
<1>2. CASE Promote
  BY <1>2, ScanKeeps, PromoteCallKeeps, PromoteLeaveKeeps DEF Promote
<1>3. CASE \E c \in Calls : Enqueue(c) \/ Execute(c) \/ Work(c)
  BY <1>3, EnqueueKeeps, ExecuteKeeps, FinishKeeps, RemoveKeeps, IdleKeeps DEF Work
<1>4. CASE \E total, perHost \in Limits : SetLimit(total, perHost)
  BY <1>4, SetLimitKeeps
<1>5. QED
  BY <1>1, <1>2, <1>3, <1>4 DEF Next, Through

\* The invariant holds in every behaviour of the dispatcher.
THEOREM AlwaysIInv == Spec => []IInv
<1>1. QED
  BY InitInv, NextInv, PTL DEF Spec

-----------------------------------------------------------------------------
(* What follows. *)

\* However calls are enqueued, executed, promoted and finished and the limits are
\* set: the counters that calls share tell how many of those sharing are in flight.
THEOREM CountersAlwaysExact == Spec => []DispatcherInv
<1>1. IInv => DispatcherInv
  BY DEF IInv, CountInv, DispatcherInv
<1>2. QED
  BY <1>1, AlwaysIInv, PTL

\* Whenever no thread is between the end of a call and the promotion due then, a
\* ready call is held up by a limit, and the idle callback is not outstanding.
THEOREM NothingEverForgotten == Spec => []NothingForgotten
<1>1. IInv => NothingForgotten
  <2> SUFFICES ASSUME IInv, Quiet PROVE NothingForgotten
    BY DEF NothingForgotten, WaitsOnlyForLimits, IdleReported
  <2> USE DispatcherAssumption DEF IInv
  <2>1. owed = {} /\ scan = <<>> /\ Members(scan) = {}
    BY DEF Quiet, LockInv, Members
  <2>2. ASSUME NEW c \in Members(ready)
        PROVE  \/ Len(runningAsync) >= maxRequests
               \/ Cardinality({d \in Counted : Host[d] = Host[c]}) >= maxRequestsPerHost
    <3> DEFINE D == {d \in Counted : counter[d] = counter[c]}
               E == {d \in Counted : Host[d] = Host[c]}
    <3>1. Held(c)
      BY <2>1 DEF WaitInv, Quiet
    <3>2. CASE HostFull(c)
      <4>1. c \in Calls /\ counter[c] \in Calls /\ Counted \subseteq Calls
        BY DEF QueueInv, TypeOK, Async, Counted
      <4>2. Cardinality(D) >= maxRequestsPerHost
        BY <3>2, <4>1 DEF HostFull, CountInv, CountersExact
      <4>3. D \subseteq E /\ E \subseteq Counted
        BY <4>1 DEF ShareInv
      <4> HIDE DEF D, E
      <4>4. IsFiniteSet(E) /\ IsFiniteSet(D) /\ Cardinality(D) <= Cardinality(E)
        BY <4>3, FS_Subset DEF CountInv
      <4>5. Cardinality(D) \in Nat /\ Cardinality(E) \in Nat /\ maxRequestsPerHost \in Nat
        BY <4>4, FS_CardinalityType DEF TypeOK
      <4>6. Cardinality(E) >= maxRequestsPerHost
        BY <4>2, <4>4, <4>5
      <4>7. QED
        BY <4>6 DEF E
    <3>3. QED
      BY <3>1, <3>2 DEF Held
  <2>3. IdleReported
    BY <2>1 DEF IdleReported, IdleInv, Quiet
  <2>4. QED
    BY <2>2, <2>3 DEF NothingForgotten, WaitsOnlyForLimits
<1>2. QED
  BY <1>1, AlwaysIInv, PTL

\* No step promotes a call to a host without web sockets while maxRequestsPerHost
\* calls to it run.
THEOREM HostLimitAlwaysKept == Spec => HostLimitKept
<1> DEFINE Free(c) == \A w \in WebSockets : Host[w] # Host[c]
           Few(c) == Cardinality({d \in Counted : Host[d] = Host[c]}) < maxRequestsPerHost
<1>1. ASSUME IInv, PromoteCall, NEW c \in Async, st[c] = "ready", st'[c] = "running", Free(c)
      PROVE  Few(c)
  <2> USE DispatcherAssumption, <1>1 DEF IInv
  <2>1. c = Head(scan) /\ c \in Calls /\ c \in Members(ready) /\ counter[c] \in Calls
    BY DEF PromoteCall, TypeOK, QueueInv, Async
  <2>2. Counted \subseteq Members(runningAsync)
    BY DEF Counted, QueueInv
  <2>3. \A d \in Counted : Host[d] = Host[c] <=> counter[d] = counter[c]
    BY <2>1, <2>2 DEF ShareInv, Counted, Async
  <2>4. {d \in Counted : Host[d] = Host[c]} = {d \in Counted : counter[d] = counter[c]}
    BY <2>3
  <2>5. count[counter[c]] < maxRequestsPerHost
    BY <2>1 DEF PromoteCall, HostFull, TypeOK
  <2>6. QED
    BY <2>1, <2>4, <2>5 DEF CountInv, CountersExact
<1>2. ASSUME IInv, [Next]_vars, NEW c \in Async, st[c] = "ready", st'[c] = "running"
      PROVE  PromoteCall
  <2> USE <1>2 DEF IInv
  <2>1. c \in Calls /\ c \notin Sync /\ Async \subseteq Calls
    BY DEF Async
  <2>2. ASSUME NEW d \in Calls, Enqueue(d) \/ Execute(d) \/ Work(d) PROVE FALSE
    BY <2>1, <2>2 DEF Enqueue, Execute, Work, Finish, Remove, Idle, Returned, TypeOK
  <2>3. ASSUME PromoteLeave PROVE FALSE
    <3>1. lock \in Promoters /\ lock \in owed
      BY <2>3 DEF PromoteLeave, LockInv, TypeOK
    <3>2. lock[1] = "finish" => lock[2] \in Calls
      BY <3>1 DEF Promoters
    <3>3. QED
      BY <2>1, <2>3, <3>2 DEF PromoteLeave, TypeOK
  <2>4. QED
    BY <2>2, <2>3 DEF Next, Promote, PromoteEnter, PromoteFull, PromoteSkip, SetLimit,
       Through, vars
<1>3. IInv /\ [Next]_vars
      => [\A c \in Async :
             /\ st[c] = "ready" /\ st'[c] = "running"
             /\ \A w \in WebSockets : Host[w] # Host[c]
             => Cardinality({d \in Counted : Host[d] = Host[c]}) < maxRequestsPerHost]_vars
  BY <1>1, <1>2
<1>4. QED
  BY <1>3, AlwaysIInv, PTL DEF Spec, HostLimitKept

-----------------------------------------------------------------------------
(* The invariant of the cache. *)

\* The lines that are about a key, and all lines.
Entries == [op : {"CLEAN", "DIRTY", "READ", "REMOVE"}, key : Keys, len : [Index -> 0..1]]
Lines == Entries \cup {Header, TornLine}

\* A line that says what has become of k, and the last one of a journal.
Decisive(line, k) == line.key = k /\ line.op \in {"CLEAN", "DIRTY", "REMOVE"}
Decides(L, k, n) == Decisive(L[n], k) /\ \A m \in (n + 1)..Len(L) : ~Decisive(L[m], k)
Told(L, k) ==
    IF \E n \in 1..Len(L) : Decides(L, k, n)
    THEN L[CHOOSE n \in 1..Len(L) : Decides(L, k, n)] ELSE Line("NONE", k)

\* The temporary files d, of which those in l, left behind by detach(), count as gone.
Kept(l, k, i, v) == IF <<k, i, v>> \in l THEN 0 ELSE v
OwnOf(d, l) == [k \in Keys |-> [i \in Index |-> Kept(l, k, i, d[k][i])]]
own == OwnOf(dirty, leaked)

\* The journal an opening would read.
Found == IF journal # <<>> THEN journal ELSE backup

\* Half a line is the last thing in L.
EndsTorn(L) == L # <<>> /\ L[Len(L)].op = "TORN"

\* Types; lruEntries holds a key once, and keys it does not hold have no entry.
TypeInv ==
    /\ journal \in Seq(Lines) /\ backup \in Seq(Lines) /\ buffer \in Seq(Entries)
    /\ IsJournal(journal) /\ IsJournal(backup)
    /\ clean \in [Keys -> Contents] /\ dirty \in [Keys -> Contents] /\ pub \in [Keys -> Contents]
    /\ up \in BOOLEAN /\ trimFailed \in BOOLEAN
    /\ lru \in Seq(Keys) /\ Once(lru)
    /\ entry \in [Keys -> EntryType]
    /\ \A k \in Keys : ~InLru(k) => entry[k] = NoEntry
    /\ size \in Nat
    /\ writer \in {"none", "file", "broken", "blackhole"}
    /\ nextSeq \in 0..MaxEdits /\ edits \in 0..MaxEdits
    /\ durable \subseteq Keys /\ torn \subseteq Keys
    /\ leaked \subseteq Keys \X Index \X (1..Recovered)

\* The steps of initialize before the journal is read; of rebuildJournal; of
\* processJournal; of removeEntry; of completeEdit aborting; and committing.
Loading == {"dropOld", "fromBackup", "read"}
Replacing == {"toBackup", "toJournal", "dropBackup", "newWriter"}
Purging == {"purgeClean", "purgeDirty", "forget"}
Removing == {"deleteDirty", "detach", "deleteClean", "removed"}
Aborting == {"abortDirty", "aborted"}
Publishing == {"publish", "committed"}
\* The steps at which an edit has given up, and all steps at the files of an entry.
Halting == Aborting \cup {"deleteDirty", "detach"}
AtFiles == Purging \cup Removing \cup Aborting \cup Publishing

\* Which method may be at which step.
StepInv ==
    /\ \/ method = "none" /\ step = "rest"
       \/ method = "open" /\ step \in Loading \cup Replacing \cup Purging \cup {"purge"}
       \/ method = "write" /\ step \in {"deleteDirty", "detach"}
       \/ method = "abort" /\ step \in Aborting
       \/ method = "commit" /\ step \in Aborting \cup Publishing
       \/ method \in {"get", "remove"} /\ step \in Removing
       \/ method = "evictAll" /\ step \in Removing \cup {"evictAll"}
       \/ method = "flush" /\ step \in Removing \cup {"trim", "flushWriter"}
       \/ method = "close" /\ step \in Removing \cup Aborting \cup {"closing", "trim", "closeWriter", "closed"}
       \/ method = "cleanup" /\ step \in Removing \cup Replacing \cup {"trim", "closeWriter"}
    /\ up => method # "open"
    /\ ~up => method \in {"none", "open"}
    /\ step \in AtFiles => key \in Keys /\ InLru(key) /\ nth \in Index

\* The writer appends to a journal that ends in a whole line, and nothing is
\* buffered for any other; which journal files there are while they change places.
WriterInv ==
    /\ writer # "file" => buffer = <<>>
    /\ writer = "file" => journal # <<>> /\ ~EndsTorn(journal)
    /\ step \in Loading \cup Replacing \cup {"closed"} => writer = "none"
    /\ ~up /\ method = "none" => writer = "none"
    /\ step \in {"dropBackup", "newWriter"} => journal # <<>> /\ ~EndsTorn(journal)
    /\ step \in {"read", "dropOld"} => journal # <<>>
    /\ step = "fromBackup" => journal = <<>> /\ backup # <<>>
    /\ step = "toJournal" => journal = <<>>

\* A line in the buffer is one that may be lost: it says that a key was read, or
\* that a key is gone of which no file is left.
BufferInv ==
    \A n \in 1..Len(buffer) :
      /\ buffer[n].op \in {"READ", "REMOVE"}
      /\ buffer[n].op = "REMOVE" =>
           LET k == buffer[n].key
           IN  /\ ~InLru(k) /\ k \notin durable
               /\ k \notin torn => clean[k] = NoFiles /\ own[k] = NoFiles

\* What the journal on disk says of k is true of its files: a crash now would lose
\* nothing that must survive, and leave no file that opening does not find.
DiskSays(k, t) ==
    /\ k \notin torn =>
         /\ t.op = "CLEAN" =>
              \A i \in Index : /\ clean[k][i] # 0 => clean[k][i] = pub[k][i] /\ t.len[i] = 1
                               /\ own[k][i] = 0
         /\ t.op \in {"NONE", "REMOVE"} => clean[k] = NoFiles /\ own[k] = NoFiles
    /\ k \in durable => t.op = "CLEAN" /\ clean[k] = pub[k] /\ k \notin torn
DiskInv == \A k \in Keys : DiskSays(k, Told(Found, k))

\* The entries in memory are what the journal says.
Known == up \/ (method = "open" /\ step \notin Loading)

\* Value i of k has been published by the commit under way.
Published(k, i) ==
    /\ step \in Publishing /\ key = k /\ i \in entry[k].writes
    /\ step = "publish" => i < nth

\* An entry nobody edits, one that somebody edits, one found unfinished.
Unedited(k) ==
    /\ own[k] = NoFiles
    /\ \A i \in Index : clean[k][i] # 0 =>
         entry[k].readable /\ clean[k][i] = pub[k][i] /\ entry[k].len[i] = 1
Edited(k) ==
    LET e == entry[k]
    IN  /\ Told(Found, k).op = "DIRTY"
        /\ \A i \in Index :
             /\ Published(k, i) => clean[k][i] = e.editor /\ own[k][i] = 0
             /\ clean[k][i] # 0 => /\ e.len[i] = 1
                                   /\ Published(k, i) \/ (e.readable /\ clean[k][i] = pub[k][i])
             /\ own[k][i] # 0 => i \in e.writes \ e.left /\ own[k][i] = e.editor
             /\ /\ i \in e.writes \ e.left /\ e.readable /\ ~Published(k, i)
                /\ ~(key = k /\ step \in Halting)
                => dirty[k][i] = e.editor
             /\ step = "publish" /\ key = k /\ ~e.readable /\ i >= nth => dirty[k][i] # 0
\* What memory, journal and files say of k agrees.
KeyInv(k) ==
    /\ entry[k].held => entry[k].editor # 0
    /\ entry[k].left \subseteq entry[k].writes
    /\ up => entry[k].editor # Recovered
    /\ ~up => entry[k].editor \in {0, Recovered} /\ ~entry[k].held
    /\ entry[k].editor \notin {0, Recovered} => entry[k].writes \in {Index, {1}}
    /\ Known /\ k \in durable => InLru(k) /\ entry[k].readable /\ entry[k].editor = 0
    /\ Known /\ k \notin torn =>
         /\ entry[k].editor = 0 => Unedited(k)
         /\ entry[k].editor \notin {0, Recovered} => Edited(k)
         /\ entry[k].editor = Recovered => Told(Found, k).op = "DIRTY"
         /\ \A i \in Index :
              ~entry[k].readable /\ entry[k].len[i] = 1 => Published(k, i)
MemoryInv == \A k \in Keys : KeyInv(k)

\* How far the method under way is with the files of its entry.
UnitInv ==
    /\ step \in Halting \cup Publishing =>
         entry[key].editor \notin {0, Recovered}
    /\ step \in {"deleteDirty", "abortDirty"} => \A j \in Index : j < nth => own[key][j] = 0
    /\ step \in {"detach", "aborted"} => own[key] = NoFiles
    /\ step \in Publishing => entry[key].left = {}
    /\ step \in {"deleteClean", "removed"} =>
         /\ entry[key].editor = 0
         /\ \A j \in Index : step = "removed" \/ j < nth =>
              clean[key][j] = 0 /\ entry[key].len[j] = 0 /\ key \notin durable
    /\ step \in Purging =>
         /\ entry[key].editor = Recovered
         /\ \A j \in Index :
              /\ step = "forget" \/ j < nth => clean[key][j] = 0 /\ own[key][j] = 0
              /\ step = "purgeDirty" /\ j = nth => clean[key][j] = 0

\* The recorded lengths add up to size, unless a file operation split an edit.
SizeInv ==
    up => /\ SumOf(Elements(lru), entry) <= size
          /\ torn = {} => SumOf(Elements(lru), entry) = size

\* Sequence numbers are taken by edits that have ended.
SeqInv ==
    IF up THEN nextSeq + Cardinality({k \in Keys : entry[k].editor # 0}) <= edits
    ELSE nextSeq = 0

\* The lines read so far are what the entries say.
ReadSays(k, t) ==
    /\ t.op \in {"NONE", "REMOVE"} => entry[k] = NoEntry
    /\ t.op = "CLEAN" => /\ InLru(k) /\ entry[k].readable
                        /\ entry[k].editor = 0 /\ entry[k].len = t.len
    /\ t.op = "DIRTY" => InLru(k) /\ entry[k].editor = Recovered
    /\ ~entry[k].readable => entry[k].len = NoFiles
ReadInv ==
    /\ (~up /\ method = "none") \/ step \in {"dropOld", "fromBackup"} => lru = <<>>
    /\ step \in {"dropOld", "fromBackup"} => nth = 2
    /\ step = "read" =>
         /\ nth \in 2..(Len(journal) + 1) /\ journal[nth - 1].op # "TORN"
         /\ \A k \in Keys : ReadSays(k, Told(SubSeq(journal, 1, nth - 1), k))

\* The inductive invariant of the cache.
CacheIInv ==
    /\ TypeInv /\ StepInv /\ WriterInv /\ BufferInv /\ DiskInv
    /\ MemoryInv /\ UnitInv /\ SizeInv /\ SeqInv /\ ReadInv

-----------------------------------------------------------------------------
(* Lists of keys. *)

\* lruEntries.get, put and remove: a key moves to the end, or goes.
LEMMA Touched ==
    ASSUME NEW q \in Seq(Keys), Once(q), NEW k \in Keys
    PROVE  /\ Touch(q, k) \in Seq(Keys) /\ Once(Touch(q, k))
           /\ Elements(Touch(q, k)) = Elements(q) \cup {k}
           /\ WithoutKey(q, k) \in Seq(Keys) /\ Once(WithoutKey(q, k))
           /\ Elements(WithoutKey(q, k)) = Elements(q) \ {k}
<1>1. \A s : Elements(s) = Members(s)
  BY DEF Elements, Members
<1>2. WithoutKey(q, k) = Without(q, k)
  BY <1>1 DEF WithoutKey, Without
<1>3. /\ Without(q, k) \in Seq(Keys) /\ Once(Without(q, k))
      /\ Members(Without(q, k)) = Members(q) \ {k}
  BY TakenOut
<1>4. /\ Append(Without(q, k), k) \in Seq(Keys) /\ Once(Append(Without(q, k), k))
      /\ Members(Append(Without(q, k), k)) = Members(Without(q, k)) \cup {k}
  BY <1>3, Appended
<1>5. QED
  BY <1>1, <1>2, <1>3, <1>4 DEF Touch

\* A list that holds no key twice has as many places as keys.
LEMMA ElementsCounted ==
    ASSUME NEW q \in Seq(Keys), Once(q)
    PROVE  IsFiniteSet(Elements(q)) /\ Cardinality(Elements(q)) = Len(q)
<1> DEFINE f == [i \in 1..Len(q) |-> q[i]]
<1>1. Len(q) \in Nat /\ 1 \in Int /\ Len(q) \in Int
  OBVIOUS
<1>2. IsFiniteSet(1..Len(q)) /\ Cardinality(1..Len(q)) = Len(q)
  BY SMTT(30), <1>1, FS_Interval
<1>3. f \in Bijection(1..Len(q), Elements(q))
  BY DEF Once, Elements, Bijection, Injection, Surjection, IsInjective
<1>4. ExistsBijection(1..Len(q), Elements(q))
  BY <1>3 DEF ExistsBijection
<1>5. QED
  BY <1>2, <1>4, FS_Bijection

-----------------------------------------------------------------------------
(* What a journal says. *)

\* The lines that decide are those of entries.
LEMMA LineTypes ==
    /\ Header \in Lines /\ TornLine \in Lines /\ Entries \subseteq Lines
    /\ Header.op = "HEADER" /\ TornLine.op = "TORN" /\ \A k : Line("NONE", k).op = "NONE"
    /\ \A k : ~Decisive(Header, k) /\ ~Decisive(TornLine, k)
    /\ \A k \in Keys : {Line("DIRTY", k), Line("READ", k), Line("REMOVE", k)} \subseteq Entries
    /\ \A x \in Entries : x.op \notin {"HEADER", "TORN"}
    /\ Recovered \notin 0..MaxEdits /\ Recovered # 0
BY CacheAssumption DEF Recovered, Lines, Header, TornLine, Line, Entries, Decisive, NoFiles

\* The entry of a key that is not in lruEntries.
LEMMA EntryTypes ==
    /\ NoEntry \in EntryType /\ Recovered \in 0..Recovered /\ NoFiles \in Contents
    /\ NoEntry.editor = 0 /\ ~NoEntry.held /\ ~NoEntry.readable /\ NoEntry.len = NoFiles
    /\ NoEntry.left = {} /\ NoEntry.writes = {}
<1>1. MaxEdits \in Nat
  BY CacheAssumption
<1>2. NoFiles \in [Index -> 0..1] /\ NoFiles \in Contents
  BY <1>1 DEF NoFiles, Contents, Recovered
<1>3. QED
  BY <1>1, <1>2 DEF NoEntry, EntryType, Recovered

\* What detachEditor and completeEdit leave of an entry.
LEMMA ReleasedEntry ==
    ASSUME NEW e \in EntryType
    PROVE  LET r == Released(e)
           IN  /\ r \in EntryType
               /\ r.editor = 0 /\ ~r.held /\ r.writes = {} /\ r.left = {}
               /\ r.readable = e.readable /\ r.len = e.len /\ r.seq = e.seq
<1>1. 0 \in 0..Recovered
  BY CacheAssumption DEF Recovered
<1>2. QED
  BY <1>1 DEF Released, EntryType

\* The line that decides is the one the journal tells.
LEMMA ToldLine ==
    ASSUME NEW L \in Seq(Lines), NEW k, NEW n \in 1..Len(L), Decides(L, k, n)
    PROVE  Told(L, k) = L[n]
<1>1. \A m \in 1..Len(L) : Decides(L, k, m) => m = n
  BY DEF Decides
<1>2. QED
  BY <1>1 DEF Told

\* The last line that decides, when there is one.
LEMMA ToldCases ==
    ASSUME NEW L \in Seq(Lines), NEW k
    PROVE  \/ \E n \in 1..Len(L) : Decides(L, k, n) /\ Told(L, k) = L[n]
           \/ /\ \A n \in 1..Len(L) : ~Decisive(L[n], k)
              /\ Told(L, k) = Line("NONE", k)
<1>1. CASE \A n \in 1..Len(L) : ~Decisive(L[n], k)
  BY <1>1 DEF Told, Decides
<1>2. ASSUME NEW n \in 1..Len(L), Decisive(L[n], k)
      PROVE  \E m \in 1..Len(L) : Decides(L, k, m)
  <2> DEFINE I == {i \in 0..Len(L) - 1 : Decisive(L[Len(L) - i], k)}
  <2>1. Len(L) - n \in I
    <3>1. Len(L) - n \in 0..Len(L) - 1 /\ Len(L) - (Len(L) - n) = n
      OBVIOUS
    <3>2. QED
      BY <3>1, <1>2
  <2>2. PICK i \in I : \A j \in I : i <= j
    <3>1. Len(L) \in Nat /\ I \subseteq 0..Len(L) - 1
      OBVIOUS
    <3> HIDE DEF I
    <3>2. I \in SUBSET Nat /\ I # {}
      BY <2>1, <3>1
    <3>3. QED
      BY <3>2, LeastElement
  <2>3. ASSUME NEW m \in (Len(L) - i + 1)..Len(L), Decisive(L[m], k) PROVE FALSE
    <3>1. Len(L) - m \in 0..Len(L) - 1 /\ Len(L) - (Len(L) - m) = m /\ Len(L) - m < i
      BY <2>3
    <3>2. QED
      BY <3>1, <2>2, <2>3
  <2>4. Len(L) - i \in 1..Len(L)
    OBVIOUS
  <2>5. QED
    BY <2>3, <2>4 DEF Decides
<1>3. QED
  BY <1>1, <1>2, ToldLine

\* What lines that are added say.
LEMMA ToldExtended ==
    ASSUME NEW L \in Seq(Lines), NEW p \in Seq(Lines), NEW k
    PROVE  \/ Told(L \o p, k) = Told(L, k)
           \/ \E n \in 1..Len(p) : Decisive(p[n], k) /\ Told(L \o p, k) = p[n]
<1> DEFINE J == L \o p
<1>1. /\ J \in Seq(Lines) /\ Len(J) = Len(L) + Len(p)
      /\ \A n \in 1..Len(L) : J[n] = L[n]
      /\ \A n \in Len(L) + 1..Len(J) : n - Len(L) \in 1..Len(p) /\ J[n] = p[n - Len(L)]
      /\ \A n \in 1..Len(p) : Len(L) + n \in 1..Len(J) /\ J[Len(L) + n] = p[n]
      /\ Len(L) \in Nat /\ Len(p) \in Nat
  OBVIOUS
<1> HIDE DEF J
<1>2. ASSUME NEW n \in 1..Len(J), Decides(J, k, n), Told(J, k) = J[n]
      PROVE  \/ Told(J, k) = Told(L, k)
             \/ \E m \in 1..Len(p) : Decisive(p[m], k) /\ Told(J, k) = p[m]
  <2>1. CASE n <= Len(L)
    <3>1. n \in 1..Len(L) /\ Decides(L, k, n)
      BY <2>1, <1>1, <1>2 DEF Decides
    <3>2. QED
      BY <3>1, <1>1, <1>2, ToldLine
  <2>2. CASE n > Len(L)
    <3>1. n - Len(L) \in 1..Len(p) /\ J[n] = p[n - Len(L)] /\ Decisive(J[n], k)
      BY <2>2, <1>1, <1>2 DEF Decides
    <3>2. QED
      BY <3>1, <1>2
  <2>3. QED
    BY <2>1, <2>2, <1>1
<1>3. CASE /\ \A n \in 1..Len(J) : ~Decisive(J[n], k)
           /\ Told(J, k) = Line("NONE", k)
  <2>1. \A n \in 1..Len(L) : ~Decisive(L[n], k)
    BY <1>1, <1>3
  <2>2. Told(L, k) = Line("NONE", k)
    BY <2>1, ToldCases DEF Decides
  <2>3. QED
    BY <2>2, <1>3 DEF J
<1>4. QED
  BY <1>1, <1>2, <1>3, ToldCases DEF J

\* What one more line says.
LEMMA ToldAppended ==
    ASSUME NEW L \in Seq(Lines), NEW x \in Lines, NEW k
    PROVE  Told(Append(L, x), k) = IF Decisive(x, k) THEN x ELSE Told(L, k)
<1> DEFINE p == <<x>>
<1>1. /\ Append(L, x) \in Seq(Lines) /\ Len(Append(L, x)) = Len(L) + 1 /\ Len(L) \in Nat
      /\ Append(L, x)[Len(L) + 1] = x
      /\ \A n \in 1..Len(L) : Append(L, x)[n] = L[n]
      /\ Append(L, x) = L \o p /\ p \in Seq(Lines)
      /\ \A n \in 1..Len(p) : p[n] = x
  OBVIOUS
<1>2. CASE Decisive(x, k)
  <2>1. Len(L) + 1 \in 1..Len(Append(L, x)) /\ Decides(Append(L, x), k, Len(L) + 1)
    BY <1>1, <1>2 DEF Decides
  <2>2. QED
    BY <2>1, <1>1, <1>2, ToldLine
<1>3. CASE ~Decisive(x, k)
  <2> HIDE DEF p
  <2>1. QED
    BY <1>1, <1>3, ToldExtended
<1>4. QED
  BY <1>2, <1>3

\* No journal and a new journal say nothing.
LEMMA ToldNothing ==
    ASSUME NEW k
    PROVE  Told(<<>>, k) = Line("NONE", k) /\ Told(<<Header>>, k) = Line("NONE", k)
<1> DEFINE none == <<>>
           fresh == Append(none, Header)
<1>1. none \in Seq(Lines) /\ fresh = <<Header>> /\ \A n \in 1..Len(none) : FALSE
  OBVIOUS
<1> HIDE DEF none, fresh
<1>2. Told(none, k) = Line("NONE", k)
  BY <1>1, ToldCases
<1>3. Told(fresh, k) = Line("NONE", k)
  BY <1>1, <1>2, LineTypes, ToldAppended DEF fresh
<1>4. QED
  BY <1>1, <1>2, <1>3 DEF none

-----------------------------------------------------------------------------
(* Writing to the journal. *)

\* What is left of lines whose writing was cut short.
LEMMA CutLines ==
    ASSUME NEW lines \in Seq(Entries), NEW p \in CutShort(lines)
    PROVE  /\ p \in Seq(Lines)
           /\ \A n \in 1..Len(p) :
                \/ n \in 1..Len(lines) /\ p[n] = lines[n]
                \/ n = Len(p) /\ p[n] = TornLine
<1>1. Len(lines) \in Nat /\ lines \in Seq(Lines) /\ TornLine \in Lines
  BY LineTypes
<1>2. ASSUME NEW n \in 0..Len(lines), p = SubSeq(lines, 1, n)
      PROVE  /\ p \in Seq(Lines) /\ Len(p) = n
             /\ \A m \in 1..n : m \in 1..Len(lines) /\ p[m] = lines[m]
  BY <1>1, <1>2
<1>3. ASSUME NEW n \in 0..(Len(lines) - 1), p = Append(SubSeq(lines, 1, n), TornLine)
      PROVE  /\ p \in Seq(Lines) /\ Len(p) = n + 1 /\ p[n + 1] = TornLine
             /\ \A m \in 1..n : m \in 1..Len(lines) /\ p[m] = lines[m]
  <2> DEFINE q == SubSeq(lines, 1, n)
  <2>1. /\ q \in Seq(Lines) /\ Len(q) = n
        /\ \A m \in 1..n : m \in 1..Len(lines) /\ q[m] = lines[m]
    BY <1>1
  <2> HIDE DEF q
  <2>2. p = Append(q, TornLine)
    BY <1>3 DEF q
  <2>3. /\ p \in Seq(Lines) /\ Len(p) = Len(q) + 1 /\ p[Len(q) + 1] = TornLine
        /\ \A m \in 1..Len(q) : p[m] = q[m]
    BY <2>1, <2>2, <1>1
  <2>4. QED
    BY <2>1, <2>3
<1>4. CASE \E n \in 0..Len(lines) : p = SubSeq(lines, 1, n)
  BY <1>2, <1>4
<1>5. CASE \E n \in 0..(Len(lines) - 1) : p = Append(SubSeq(lines, 1, n), TornLine)
  <2>1. PICK n \in 0..(Len(lines) - 1) : p = Append(SubSeq(lines, 1, n), TornLine)
    BY <1>5
  <2>2. /\ p \in Seq(Lines) /\ Len(p) = n + 1 /\ p[n + 1] = TornLine
        /\ \A m \in 1..n : m \in 1..Len(lines) /\ p[m] = lines[m]
    BY <1>3, <2>1
  <2>3. \A m \in 1..Len(p) : m \in 1..n \/ m = n + 1
    BY <2>2
  <2>4. QED
    BY <2>2, <2>3
<1>6. QED
  BY <1>4, <1>5 DEF CutShort

\* A journal that does not end in half a line goes on as a journal.
LEMMA JournalExtended ==
    ASSUME NEW L \in Seq(Lines), IsJournal(L), L # <<>>, ~EndsTorn(L), NEW p \in Seq(Lines),
           \A n \in 1..Len(p) : p[n] \in Entries \/ (n = Len(p) /\ p[n] = TornLine)
    PROVE  /\ L \o p \in Seq(Lines) /\ L \o p # <<>> /\ IsJournal(L \o p)
           /\ (\A n \in 1..Len(p) : p[n] \in Entries) => ~EndsTorn(L \o p)
<1> DEFINE J == L \o p
<1>1. /\ J \in Seq(Lines) /\ Len(J) = Len(L) + Len(p) /\ Len(L) \in Nat \ {0} /\ Len(p) \in Nat
      /\ \A n \in 1..Len(L) : J[n] = L[n]
      /\ \A n \in Len(L) + 1..Len(J) : n - Len(L) \in 1..Len(p) /\ J[n] = p[n - Len(L)]
  OBVIOUS
<1> HIDE DEF J
<1>2. L[Len(L)].op # "TORN"
  BY DEF EndsTorn
<1>3. ASSUME NEW n \in 1..Len(L)
      PROVE  /\ J[n].op \in {"HEADER", "CLEAN", "DIRTY", "READ", "REMOVE"}
             /\ J[n].op = "HEADER" <=> n = 1
  BY <1>1, <1>2 DEF IsJournal
<1>4. ASSUME NEW n \in Len(L) + 1..Len(J)
      PROVE  /\ J[n].op \in {"CLEAN", "DIRTY", "READ", "REMOVE", "TORN"}
             /\ J[n].op = "TORN" => n = Len(J) /\ p[n - Len(L)] \notin Entries
  <2>1. p[n - Len(L)] \in Entries \/ (n - Len(L) = Len(p) /\ p[n - Len(L)] = TornLine)
    BY <1>1
  <2>2. CASE p[n - Len(L)] \in Entries
    BY <2>2, <1>1 DEF Entries
  <2>3. CASE n - Len(L) = Len(p) /\ p[n - Len(L)] = TornLine
    BY SMTT(30), <2>3, <1>1, LineTypes
  <2>4. QED
    BY <2>1, <2>2, <2>3
<1>5. IsJournal(J)
  BY SMTT(30), <1>1, <1>3, <1>4 DEF IsJournal
<1>6. ASSUME \A n \in 1..Len(p) : p[n] \in Entries PROVE ~EndsTorn(J)
  <2>1. CASE Len(p) = 0
    BY <2>1, <1>1, <1>2 DEF EndsTorn
  <2>2. CASE Len(p) # 0
    <3>1. Len(J) \in Len(L) + 1..Len(J)
      BY <2>2, <1>1
    <3>2. QED
      BY <3>1, <1>1, <1>4, <1>6 DEF EndsTorn
  <2>3. QED
    BY <2>1, <2>2
<1>7. J # <<>>
  BY <1>1
<1>8. QED
  BY <1>1, <1>5, <1>6, <1>7 DEF J

\* The lines in the buffer change nothing that is said of the keys of entries, and
\* what they say of the others is true: those have no files.
LEMMA LinesWritten ==
    ASSUME TypeInv, WriterInv, BufferInv, DiskInv, writer = "file",
           NEW X \in SUBSET Entries, NEW p \in Seq(Lines),
           \A n \in 1..Len(p) : \/ \E m \in 1..Len(buffer) : p[n] = buffer[m]
                                \/ p[n] \in X \/ (n = Len(p) /\ p[n] = TornLine)
    PROVE  LET J == journal \o p
           IN  /\ J \in Seq(Lines) /\ J # <<>> /\ IsJournal(J)
               /\ (\A n \in 1..Len(p) : p[n] # TornLine) => ~EndsTorn(J)
               /\ \A k \in Keys :
                    \/ \E x \in X : Decisive(x, k) /\ Told(J, k) = x
                    \/ /\ DiskSays(k, Told(J, k))
                       /\ InLru(k) => Told(J, k) = Told(Found, k)
<1> DEFINE J == journal \o p
<1>1. journal \in Seq(Lines) /\ IsJournal(journal) /\ journal # <<>> /\ ~EndsTorn(journal)
  BY DEF TypeInv, WriterInv
<1>2. /\ buffer \in Seq(Entries)
      /\ \A n \in 1..Len(p) : p[n] \in Entries \/ (n = Len(p) /\ p[n] = TornLine)
  <2>1. buffer \in Seq(Entries)
    BY DEF TypeInv
  <2>2. \A m \in 1..Len(buffer) : buffer[m] \in Entries
    BY <2>1
  <2>3. QED
    BY <2>1, <2>2
<1>3. /\ J \in Seq(Lines) /\ J # <<>> /\ IsJournal(J)
      /\ (\A n \in 1..Len(p) : p[n] # TornLine) => ~EndsTorn(J)
  BY <1>1, <1>2, JournalExtended
<1>4. ASSUME NEW k \in Keys
      PROVE  \/ \E x \in X : Decisive(x, k) /\ Told(J, k) = x
             \/ DiskSays(k, Told(J, k)) /\ (InLru(k) => Told(J, k) = Told(Found, k))
  <2>1. CASE Told(J, k) = Told(journal, k)
    BY <2>1, <1>1 DEF DiskInv, Found
  <2>2. ASSUME NEW n \in 1..Len(p), Decisive(p[n], k), Told(J, k) = p[n]
        PROVE  \/ \E x \in X : Decisive(x, k) /\ Told(J, k) = x
               \/ DiskSays(k, Told(J, k)) /\ ~InLru(k)
    <3>1. CASE p[n] \in X
      BY <3>1, <2>2
    <3>2. p[n] # TornLine
      BY <2>2, LineTypes
    <3>3. ASSUME NEW m \in 1..Len(buffer), p[n] = buffer[m]
          PROVE  DiskSays(k, Told(J, k)) /\ ~InLru(k)
      <4>1. buffer[m].key = k /\ buffer[m].op = "REMOVE"
        BY <2>2, <3>3 DEF BufferInv, Decisive
      <4>2. QED
        BY <4>1, <2>2, <3>3 DEF BufferInv, DiskSays
    <3>4. QED
      BY <3>1, <3>2, <3>3
  <2>3. QED
    BY <2>1, <2>2, <1>1, ToldExtended
<1>5. QED
  BY <1>3, <1>4

\* The buffer written out, or cut short.
LEMMA BufferWritten ==
    ASSUME TypeInv, WriterInv, BufferInv, DiskInv, writer = "file",
           NEW p, p = buffer \/ p \in CutShort(buffer)
    PROVE  LET J == journal \o p
           IN  /\ J \in Seq(Lines) /\ J # <<>> /\ IsJournal(J)
               /\ p = buffer => ~EndsTorn(J)
               /\ \A k \in Keys : /\ DiskSays(k, Told(J, k))
                                  /\ InLru(k) => Told(J, k) = Told(Found, k)
<1>1. buffer \in Seq(Entries)
  BY DEF TypeInv
<1>2. buffer \in Seq(Lines) /\ \A n \in 1..Len(buffer) : buffer[n] # TornLine
  BY <1>1, LineTypes
<1>3. /\ p \in Seq(Lines)
      /\ \A n \in 1..Len(p) : \/ n \in 1..Len(buffer) /\ p[n] = buffer[n]
                              \/ n = Len(p) /\ p[n] = TornLine
  BY <1>1, <1>2, CutLines
<1>4. \A n \in 1..Len(p) : \/ \E m \in 1..Len(buffer) : p[n] = buffer[m]
                           \/ p[n] \in {} \/ (n = Len(p) /\ p[n] = TornLine)
  BY <1>3
<1>5. {} \in SUBSET Entries
  OBVIOUS
<1>6. QED
  BY <1>2, <1>3, <1>4, <1>5, LinesWritten

\* A line that is written and flushed.
LEMMA LineFlushed ==
    ASSUME TypeInv, WriterInv, BufferInv, DiskInv, NEW x \in Entries, LogFlushed(x), backup' = backup
    PROVE  /\ journal' \in Seq(Lines) /\ IsJournal(journal')
           /\ buffer' = <<>> /\ writer' \in {writer, "broken"}
           /\ writer' # writer => writer = "file"
           /\ writer' = "file" => journal' # <<>> /\ ~EndsTorn(journal')
           /\ journal = <<>> <=> journal' = <<>>
           /\ \A k \in Keys :
                \/ Decisive(x, k) /\ Told(Found', k) = x
                \/ DiskSays(k, Told(Found', k)) /\ (InLru(k) => Told(Found', k) = Told(Found, k))
           /\ \A k \in Keys : writer' = "file" /\ Decisive(x, k) => Told(Found', k) = x
<1>1. journal \in Seq(Lines) /\ IsJournal(journal) /\ buffer \in Seq(Entries)
  BY DEF TypeInv
<1>2. x \in Lines /\ x # TornLine /\ \A n \in 1..Len(buffer) : buffer[n] # TornLine
  BY <1>1, LineTypes
<1> DEFINE q == Append(buffer, x)
<1>3. /\ q \in Seq(Entries) /\ q \in Seq(Lines) /\ Len(q) = Len(buffer) + 1 /\ Len(buffer) \in Nat
      /\ \A n \in 1..Len(buffer) : q[n] = buffer[n]
      /\ q[Len(buffer) + 1] = x
  <2>1. buffer \in Seq(Lines)
    BY <1>1, LineTypes, SeqMonotonic
  <2>2. q \in Seq(Lines)
    BY <2>1, <1>2
  <2>3. QED
    BY <2>2, <1>1, <1>2
<1> HIDE DEF q
<1>4. Append(journal \o buffer, x) = journal \o q
  <2> DEFINE a == Append(journal \o buffer, x)
             b == journal \o q
  <2>1. buffer \in Seq(Lines) /\ Len(journal) \in Nat
    BY <1>1, <1>2, LineTypes
  <2>2. /\ journal \o buffer \in Seq(Lines)
        /\ Len(journal \o buffer) = Len(journal) + Len(buffer)
        /\ \A n \in 1..Len(journal) + Len(buffer) :
             (journal \o buffer)[n] = IF n <= Len(journal) THEN journal[n] ELSE buffer[n - Len(journal)]
    BY <1>1, <2>1, ConcatProperties
  <2>3. /\ a \in Seq(Lines) /\ Len(a) = Len(journal \o buffer) + 1
        /\ \A n \in 1..Len(journal \o buffer) : a[n] = (journal \o buffer)[n]
        /\ a[Len(journal \o buffer) + 1] = x
    BY <2>2, <1>2
  <2>4. /\ b \in Seq(Lines) /\ Len(b) = Len(journal) + Len(q)
        /\ \A n \in 1..Len(journal) + Len(q) :
             b[n] = IF n <= Len(journal) THEN journal[n] ELSE q[n - Len(journal)]
    BY <1>1, <1>3, ConcatProperties
  <2> HIDE DEF a, b
  <2>5. ASSUME NEW n \in 1..Len(a) PROVE a[n] = b[n]
    <3>1. CASE n <= Len(journal)
      <4>1. n \in 1..Len(journal) + Len(buffer) /\ n \in 1..Len(journal) + Len(q)
        BY <3>1, <1>3, <2>1
      <4>2. QED
        BY <4>1, <3>1, <2>2, <2>3, <2>4
    <3>2. CASE Len(journal) < n /\ n <= Len(journal) + Len(buffer)
      <4>1. n - Len(journal) \in 1..Len(buffer)
        BY <3>2, <2>1, <1>3
      <4>2. a[n] = buffer[n - Len(journal)] /\ b[n] = q[n - Len(journal)]
        BY <3>2, <1>3, <2>1, <2>2, <2>3, <2>4
      <4>3. QED
        BY <4>1, <4>2, <1>3
    <3>3. CASE n = Len(journal) + Len(buffer) + 1
      <4>1. n - Len(journal) = Len(buffer) + 1
        BY <3>3, <2>1, <1>3
      <4>2. a[n] = x /\ b[n] = q[n - Len(journal)]
        BY <3>3, <1>3, <2>1, <2>2, <2>3, <2>4
      <4>3. QED
        BY <4>1, <4>2, <1>3
    <3>4. n <= Len(journal) + Len(buffer) + 1
      BY <1>3, <2>1, <2>2, <2>3
    <3>5. QED
      BY SMTT(30), <3>1, <3>2, <3>3, <3>4, <1>3, <2>1
  <2>6. Len(a) = Len(b)
    BY <1>3, <2>1, <2>2, <2>3, <2>4
  <2>7. a = b
    BY <2>3, <2>4, <2>5, <2>6, SeqEqual
  <2>8. QED
    BY <2>7 DEF a, b
<1> DEFINE TellsSame(J) == \A k \in Keys :
             \/ Decisive(x, k) /\ Told(J, k) = x
             \/ DiskSays(k, Told(J, k)) /\ (InLru(k) => Told(J, k) = Told(Found, k))
<1>w. ASSUME writer = "file", NEW p \in Seq(Lines),
             \A n \in 1..Len(p) : \/ \E m \in 1..Len(buffer) : p[n] = buffer[m]
                                  \/ p[n] \in {x} \/ (n = Len(p) /\ p[n] = TornLine)
      PROVE  /\ journal \o p \in Seq(Lines) /\ journal \o p # <<>> /\ IsJournal(journal \o p)
             /\ (\A n \in 1..Len(p) : p[n] # TornLine) => ~EndsTorn(journal \o p)
             /\ TellsSame(journal \o p)
  <2>1. {x} \in SUBSET Entries
    OBVIOUS
  <2> HIDE DEF TellsSame
  <2>2. /\ journal \o p \in Seq(Lines) /\ journal \o p # <<>> /\ IsJournal(journal \o p)
        /\ (\A n \in 1..Len(p) : p[n] # TornLine) => ~EndsTorn(journal \o p)
        /\ \A k \in Keys :
             \/ \E y \in {x} : Decisive(y, k) /\ Told(journal \o p, k) = y
             \/ /\ DiskSays(k, Told(journal \o p, k))
                /\ InLru(k) => Told(journal \o p, k) = Told(Found, k)
    BY <2>1, <1>w, LinesWritten
  <2>3. QED
    BY <2>2 DEF TellsSame
<1>5. CASE /\ writer = "file" /\ writer' = "file" /\ buffer' = <<>>
           /\ journal' = journal \o q
  <2>1. \A n \in 1..Len(q) : /\ (\E m \in 1..Len(buffer) : q[n] = buffer[m]) \/ q[n] \in {x}
                             /\ q[n] # TornLine
    BY <1>2, <1>3
  <2>2. /\ journal' \in Seq(Lines) /\ journal' # <<>> /\ IsJournal(journal') /\ ~EndsTorn(journal')
        /\ \A k \in Keys :
             \/ Decisive(x, k) /\ Told(journal', k) = x
             \/ DiskSays(k, Told(journal', k)) /\ (InLru(k) => Told(journal', k) = Told(Found, k))
    BY <2>1, <1>3, <1>5, <1>w
  <2>3. ASSUME NEW k \in Keys, Decisive(x, k) PROVE Told(journal', k) = x
    <3>1. journal \o buffer \in Seq(Lines) /\ journal' = Append(journal \o buffer, x)
      BY <1>1, <1>4, <1>5, LineTypes
    <3>2. QED
      BY <3>1, <2>3, <1>2, ToldAppended
  <2>4. journal # <<>>
    BY <1>5 DEF WriterInv
  <2>5. QED
    BY <2>2, <2>3, <2>4, <1>5 DEF Found
<1>6. ASSUME writer = "file", writer' = "broken", buffer' = <<>>,
             NEW p \in CutShort(q), journal' = journal \o p
      PROVE  /\ journal' \in Seq(Lines) /\ journal' # <<>> /\ journal # <<>> /\ IsJournal(journal')
             /\ \A k \in Keys :
                  \/ Decisive(x, k) /\ Told(journal', k) = x
                  \/ DiskSays(k, Told(journal', k)) /\ (InLru(k) => Told(journal', k) = Told(Found, k))
  <2>1. /\ p \in Seq(Lines)
        /\ \A n \in 1..Len(p) : \/ n \in 1..Len(q) /\ p[n] = q[n]
                                \/ n = Len(p) /\ p[n] = TornLine
    BY <1>3, CutLines
  <2>2. \A n \in 1..Len(p) : \/ \E m \in 1..Len(buffer) : p[n] = buffer[m]
                             \/ p[n] \in {x} \/ (n = Len(p) /\ p[n] = TornLine)
    BY <2>1, <1>3
  <2>3. journal # <<>>
    BY <1>6 DEF WriterInv
  <2>4. QED
    BY <2>1, <2>2, <2>3, <1>6, <1>w
<1>7. CASE writer # "file" /\ UNCHANGED log
  BY <1>7, <1>1 DEF WriterInv, DiskInv, Found, log
<1>8. \/ writer = "file" /\ writer' = "file" /\ buffer' = <<>> /\ journal' = journal \o q
      \/ /\ writer = "file" /\ writer' = "broken" /\ buffer' = <<>>
         /\ \E p \in CutShort(q) : journal' = journal \o p
      \/ writer # "file" /\ UNCHANGED log
  BY <1>4 DEF LogFlushed, q
<1>9. CASE /\ writer = "file" /\ writer' = "broken" /\ buffer' = <<>>
           /\ \E p \in CutShort(q) : journal' = journal \o p
  BY <1>9, <1>6 DEF Found
<1>10. QED
  BY <1>5, <1>7, <1>8, <1>9

-----------------------------------------------------------------------------
(* What steps elsewhere leave alone. *)

\* A key whose files, entry and lines do not change, unless they are being published.
LEMMA KeyStays ==
    ASSUME MemoryInv, NEW k \in Keys, up' = up, Known' => Known,
           entry'[k] = entry[k], InLru(k) => InLru(k)',
           clean'[k] = clean[k], dirty'[k] = dirty[k], own'[k] = own[k], pub'[k] = pub[k],
           k \in durable' => k \in durable, k \in torn => k \in torn',
           Told(Found', k) = Told(Found, k) \/ entry[k].editor = 0,
           key = k => step \notin Publishing, key' = k => step' \notin Publishing,
           key = k /\ step \in Halting => key' = k /\ step' \in Halting
    PROVE  KeyInv(k)'
<1>1. KeyInv(k)
  BY DEF MemoryInv
<1>2. ASSUME NEW i \in Index PROVE ~Published(k, i) /\ ~Published(k, i)'
  BY DEF Published
<1>3. Unedited(k) => Unedited(k)'
  BY DEF Unedited
<1>4. step' = "publish" => key' # k
  BY DEF Publishing
<1>6. entry[k].editor # 0 /\ Edited(k) => Edited(k)'
  <2> SUFFICES ASSUME entry[k].editor # 0, Edited(k) PROVE Edited(k)'
    OBVIOUS
  <2>1. Told(Found, k)'.op = "DIRTY"
    BY DEF Edited
  <2>2. QED
    BY <2>1, <1>2, <1>4 DEF Edited
<1>7. ASSUME Known', k \notin torn'
      PROVE  /\ entry'[k].editor = 0 => Unedited(k)'
             /\ entry'[k].editor \notin {0, Recovered} => Edited(k)'
             /\ entry'[k].editor = Recovered => Told(Found', k).op = "DIRTY"
             /\ \A i \in Index : ~(~entry'[k].readable /\ entry'[k].len[i] = 1)
  <2>1. Known /\ k \notin torn
    BY <1>7
  <2>2. Recovered # 0
    BY CacheAssumption DEF Recovered
  <2>3. QED
    BY <2>1, <2>2, <1>1, <1>2, <1>3, <1>6 DEF KeyInv
<1>8. ASSUME Known', k \in durable'
      PROVE  InLru(k)' /\ entry'[k].readable /\ entry'[k].editor = 0
  BY <1>1, <1>8 DEF KeyInv
<1>9. QED
  BY <1>1, <1>7, <1>8 DEF KeyInv

\* The same temporary files, as many of them left behind.
LEMMA OwnSame ==
    ASSUME UNCHANGED <<dirty, leaked>>
    PROVE  own' = own
BY DEF own

\* A step that only moves on, or moves an entry to the end of lru.
LEMMA ControlKeeps ==
    ASSUME CacheIInv, trimFailed' \in BOOLEAN,
           UNCHANGED <<disk, up, buffer, writer, entry, size, nextSeq, edits, pub, durable, torn, leaked>>,
           lru' = lru \/ \E k \in Keys : InLru(k) /\ lru' = Touch(lru, k)
    PROVE  /\ TypeInv' /\ BufferInv' /\ DiskInv' /\ SizeInv' /\ SeqInv'
           /\ \A k : InLru(k)' <=> InLru(k)
           /\ (Known' => Known) /\ step \notin Publishing \cup Halting /\ step' \notin Publishing
              => MemoryInv'
<1> USE DEF disk
<1>0. own' = own
  BY OwnSame
<1>1. lru' \in Seq(Keys) /\ Once(lru') /\ Elements(lru') = Elements(lru)
  <2>1. lru \in Seq(Keys) /\ Once(lru)
    BY DEF CacheIInv, TypeInv
  <2>2. ASSUME NEW k \in Keys, InLru(k), lru' = Touch(lru, k)
        PROVE  lru' \in Seq(Keys) /\ Once(lru') /\ Elements(lru') = Elements(lru)
    <3>1. /\ Touch(lru, k) \in Seq(Keys) /\ Once(Touch(lru, k))
          /\ Elements(Touch(lru, k)) = Elements(lru) \cup {k}
      BY <2>1, Touched
    <3>2. QED
      BY <3>1, <2>2 DEF InLru
  <2>3. QED
    BY <2>1, <2>2
<1>2. \A k : InLru(k)' <=> InLru(k)
  BY <1>1 DEF InLru
<1>3. TypeInv'
  BY <1>1, <1>2 DEF CacheIInv, TypeInv, IsJournal
<1>4. BufferInv'
  BY <1>0, <1>2 DEF CacheIInv, BufferInv
<1>5. DiskInv'
  BY <1>0 DEF CacheIInv, DiskInv, DiskSays, Found
<1>6. SizeInv'
  BY <1>1 DEF CacheIInv, SizeInv, SumOf
<1>7. SeqInv'
  BY DEF CacheIInv, SeqInv
<1>8. ASSUME Known' => Known, step \notin Publishing \cup Halting, step' \notin Publishing
      PROVE  MemoryInv'
  <2>1. Found' = Found
    BY DEF Found
  <2>2. ASSUME NEW k \in Keys PROVE KeyInv(k)'
    BY <1>0, <1>2, <1>8, <2>1, KeyStays DEF CacheIInv
  <2>3. QED
    BY <2>2 DEF MemoryInv
<1>9. QED
  BY <1>2, <1>3, <1>4, <1>5, <1>6, <1>7, <1>8

\* A step about one key.
LEMMA OneKey ==
    ASSUME MemoryInv, NEW k \in Keys, KeyInv(k)', up' = up, Known' => Known,
           \A j \in Keys \ {k} :
              /\ entry'[j] = entry[j] /\ (InLru(j) => InLru(j)')
              /\ clean'[j] = clean[j] /\ dirty'[j] = dirty[j] /\ own'[j] = own[j] /\ pub'[j] = pub[j]
              /\ (j \in durable' => j \in durable) /\ (j \in torn => j \in torn')
              /\ Told(Found', j) = Told(Found, j) \/ entry[j].editor = 0,
           key = k \/ step \notin Publishing \cup Halting, key' = k \/ step' \notin Publishing
    PROVE  MemoryInv'
<1>1. ASSUME NEW j \in Keys \ {k} PROVE KeyInv(j)'
  <2>1. /\ j \in Keys /\ (key = j => step \notin Publishing) /\ (key' = j => step' \notin Publishing)
        /\ key = j /\ step \in Halting => key' = j /\ step' \in Halting
    OBVIOUS
  <2>2. QED
    BY <2>1, KeyStays
<1>2. QED
  BY <1>1 DEF MemoryInv

\* A step about the files of one entry, or its place in memory.
LEMMA OneEntry ==
    ASSUME CacheIInv, NEW k \in Keys, InLru(k), KeyInv(k)', DiskSays(k, Told(Found, k))',
           UNCHANGED <<journal, backup, up, writer, nextSeq, edits, pub>>, trimFailed' \in BOOLEAN,
           buffer' = buffer \/ (buffer' \in Seq(Entries) /\ BufferInv'),
           size' \in Nat, Known' => Known,
           clean' \in [Keys -> Contents], dirty' \in [Keys -> Contents], entry' \in [Keys -> EntryType],
           lru' \in Seq(Keys), Once(lru'), InLru(k)' \/ entry'[k] = NoEntry,
           durable' \in SUBSET Keys, torn' \in SUBSET Keys,
           leaked' \subseteq Keys \X Index \X (1..Recovered),
           \A j \in Keys \ {k} :
              /\ entry'[j] = entry[j] /\ (InLru(j) <=> InLru(j)')
              /\ clean'[j] = clean[j] /\ dirty'[j] = dirty[j] /\ own'[j] = own[j]
              /\ (j \in durable' => j \in durable) /\ (j \in torn <=> j \in torn'),
           key = k \/ step \notin Publishing \cup Halting, key' = k \/ step' \notin Publishing
    PROVE  TypeInv' /\ BufferInv' /\ DiskInv' /\ MemoryInv'
<1>1. TypeInv'
  <2>1. \A j \in Keys : ~InLru(j)' => entry'[j] = NoEntry
    BY DEF CacheIInv, TypeInv
  <2>2. /\ journal' \in Seq(Lines) /\ backup' \in Seq(Lines) /\ buffer' \in Seq(Entries)
        /\ IsJournal(journal)' /\ IsJournal(backup)'
    BY DEF CacheIInv, TypeInv, IsJournal
  <2>3. QED
    BY <2>1, <2>2 DEF CacheIInv, TypeInv
<1>2. ASSUME buffer' = buffer PROVE BufferInv'
  <2>1. buffer \in Seq(Entries)
    BY DEF CacheIInv, TypeInv
  <2>2. ASSUME NEW n \in 1..Len(buffer) PROVE buffer[n].key \in Keys
    <3>1. buffer[n] \in Entries
      BY <2>1
    <3>2. QED
      BY <3>1 DEF Entries
  <2>3. QED
    BY <1>2, <2>2 DEF CacheIInv, BufferInv
<1>3. Found' = Found
  BY DEF Found
<1>4. DiskInv'
  <2>1. ASSUME NEW j \in Keys \ {k} PROVE DiskSays(j, Told(Found, j))'
    BY <1>3 DEF CacheIInv, DiskInv, DiskSays
  <2>2. QED
    BY <2>1 DEF DiskInv
<1>5. MemoryInv'
  BY <1>3, OneKey DEF CacheIInv
<1>6. QED
  BY <1>1, <1>2, <1>4, <1>5

\* One file changes.
Changed(f, k, i, v) == [f EXCEPT ![k][i] = v]

\* It keeps its other value, and the other keys theirs.
LEMMA FileChanged ==
    ASSUME NEW f \in [Keys -> Contents], NEW k \in Keys, NEW i \in Index, NEW v \in 0..Recovered
    PROVE  /\ Changed(f, k, i, v) \in [Keys -> Contents] /\ Changed(f, k, i, v)[k][i] = v
           /\ \A j \in Keys \ {k} : Changed(f, k, i, v)[j] = f[j]
           /\ \A h \in Index \ {i} : Changed(f, k, i, v)[k][h] = f[k][h]
<1>1. f[k] \in Contents
  OBVIOUS
<1>2. [f[k] EXCEPT ![i] = v] \in Contents
  BY <1>1 DEF Contents
<1>3. Changed(f, k, i, v) = [f EXCEPT ![k] = [f[k] EXCEPT ![i] = v]]
  BY DEF Changed
<1>4. Changed(f, k, i, v)[k] = [f[k] EXCEPT ![i] = v]
  BY <1>3
<1>5. QED
  BY <1>1, <1>2, <1>3, <1>4 DEF Contents

\* What counts of the temporary files.
LEMMA OwnFiles ==
    ASSUME NEW d \in [Keys -> Contents], NEW l
    PROVE  /\ OwnOf(d, l) \in [Keys -> Contents]
           /\ \A k \in Keys, i \in Index :
                OwnOf(d, l)[k][i] = Kept(l, k, i, d[k][i]) /\ OwnOf(d, l)[k][i] \in {0, d[k][i]}
<1>1. MaxEdits \in Nat
  BY CacheAssumption
<1>2. ASSUME NEW k \in Keys, NEW i \in Index PROVE d[k][i] \in 0..Recovered
  BY DEF Contents
<1>3. 0 \in 0..Recovered
  BY <1>1 DEF Recovered
<1>4. \A k \in Keys : OwnOf(d, l)[k] = [i \in Index |-> Kept(l, k, i, d[k][i])]
  BY DEF OwnOf
<1>5. ASSUME NEW k \in Keys PROVE OwnOf(d, l)[k] \in Contents
  BY <1>2, <1>3, <1>4 DEF Contents, Kept
<1>6. ASSUME NEW k \in Keys, NEW i \in Index
      PROVE  OwnOf(d, l)[k][i] = Kept(l, k, i, d[k][i]) /\ OwnOf(d, l)[k][i] \in {0, d[k][i]}
  BY <1>4 DEF Kept
<1>7. QED
  BY <1>5, <1>6 DEF OwnOf

\* What counts changes from o to n: only file i of k, where it is now nothing or v.
OwnMoves(o, n, k, i, v) ==
    /\ n \in [Keys -> Contents] /\ n[k][i] \in {0, v}
    /\ \A j \in Keys \ {k} : n[j] = o[j]
    /\ \A h \in Index \ {i} : n[k][h] = o[k][h]

\* A temporary file that is written, published or deleted.
LEMMA OwnChanged ==
    ASSUME NEW d \in [Keys -> Contents], NEW l, NEW k \in Keys, NEW i \in Index, NEW v \in 0..Recovered
    PROVE  OwnMoves(OwnOf(d, l), OwnOf(Changed(d, k, i, v), l), k, i, v)
<1> DEFINE own1 == OwnOf(d, l)
           e == Changed(d, k, i, v)
           own2 == OwnOf(e, l)
<1>1. /\ e \in [Keys -> Contents] /\ e[k][i] = v
      /\ \A j \in Keys \ {k} : e[j] = d[j]
      /\ \A h \in Index \ {i} : e[k][h] = d[k][h]
  BY FileChanged
<1> HIDE DEF e
<1>2. /\ own1 \in [Keys -> Contents] /\ own2 \in [Keys -> Contents]
      /\ \A j \in Keys, h \in Index :
           /\ own1[j][h] = Kept(l, j, h, d[j][h])
           /\ own2[j][h] = Kept(l, j, h, e[j][h]) /\ own2[j][h] \in {0, e[j][h]}
  BY <1>1, OwnFiles
<1> HIDE DEF own1, own2
<1>3. own2[k][i] \in {0, v} /\ \A h \in Index \ {i} : own2[k][h] = own1[k][h]
  BY <1>1, <1>2
<1>4. ASSUME NEW j \in Keys \ {k} PROVE own2[j] = own1[j]
  <2>1. \A h \in Index : own2[j][h] = own1[j][h]
    BY <1>1, <1>2
  <2>2. own1[j] \in Contents /\ own2[j] \in Contents
    BY <1>2
  <2>3. QED
    BY <2>1, <2>2 DEF Contents
<1>5. QED
  BY <1>2, <1>3, <1>4 DEF own1, own2, e, OwnMoves

\* What counts of the temporary files of the cache is as many files.
LEMMA OwnTyped ==
    ASSUME TypeInv
    PROVE  own \in [Keys -> Contents]
BY OwnFiles DEF TypeInv, own

\* A temporary file of the cache is deleted.
LEMMA OwnDeleted ==
    ASSUME TypeInv, NEW k \in Keys, NEW i \in Index, dirty' = Changed(dirty, k, i, 0), leaked' = leaked
    PROVE  /\ own' \in [Keys -> Contents] /\ own'[k][i] = 0
           /\ \A j \in Keys \ {k} : own'[j] = own[j]
           /\ \A h \in Index \ {i} : own'[k][h] = own[k][h]
<1>1. dirty \in [Keys -> Contents] /\ 0 \in 0..Recovered
  BY CacheAssumption DEF TypeInv, Recovered
<1>2. own = OwnOf(dirty, leaked) /\ own' = OwnOf(Changed(dirty, k, i, 0), leaked)
  BY DEF own
<1>3. OwnMoves(own, own', k, i, 0)
  BY ONLY <1>1, <1>2, OwnChanged, k \in Keys, i \in Index
<1>4. QED
  BY <1>3 DEF OwnMoves

\* No files.
LEMMA NoFile ==
    ASSUME NEW c \in Contents, \A i \in Index : c[i] = 0
    PROVE  c = NoFiles
BY DEF Contents, NoFiles

-----------------------------------------------------------------------------
(* Sizes and numbers of edits. *)

\* lru is finite, so the lengths of its entries have a sum.
LEMMA SumFinite ==
    ASSUME NEW K \in SUBSET Keys, IsFiniteSet(K), NEW e
    PROVE  /\ IsFiniteSet({x \in K \X Index : e[x[1]].len[x[2]] = 1})
           /\ SumOf(K, e) \in Nat
<1> DEFINE S == {x \in K \X Index : e[x[1]].len[x[2]] = 1}
<1>1. IsFiniteSet(Index)
  BY FS_Interval, 1 \in Int, 2 \in Int DEF Index
<1>2. IsFiniteSet(K \X Index)
  BY <1>1, FS_Product
<1>3. S \in SUBSET (K \X Index)
  OBVIOUS
<1> HIDE DEF S
<1>4. IsFiniteSet(S) /\ Cardinality(S) \in Nat
  BY <1>2, <1>3, FS_Subset, FS_CardinalityType
<1>5. QED
  BY <1>4 DEF SumOf, S

\* The same lengths.
LEMMA SumSame ==
    ASSUME NEW K, NEW M, NEW e, NEW f,
           \A k \in K \cup M, i \in Index :
              k \in K /\ e[k].len[i] = 1 <=> k \in M /\ f[k].len[i] = 1
    PROVE  SumOf(M, f) = SumOf(K, e)
<1>1. {x \in K \X Index : e[x[1]].len[x[2]] = 1} = {x \in M \X Index : f[x[1]].len[x[2]] = 1}
  OBVIOUS
<1>2. QED
  BY <1>1 DEF SumOf

\* One length goes.
LEMMA SumLess ==
    ASSUME NEW K \in SUBSET Keys, IsFiniteSet(K), NEW e, NEW f, NEW k \in K, NEW i \in Index,
           e[k].len[i] = 1, f[k].len[i] # 1,
           \A j \in K, h \in Index : <<j, h>> # <<k, i>> => f[j].len[h] = e[j].len[h]
    PROVE  SumOf(K, f) = SumOf(K, e) - 1
<1> DEFINE S == {x \in K \X Index : e[x[1]].len[x[2]] = 1}
           T == {x \in K \X Index : f[x[1]].len[x[2]] = 1}
<1>1. T = S \ {<<k, i>>} /\ <<k, i>> \in S
  OBVIOUS
<1>2. IsFiniteSet(S)
  BY SumFinite
<1> HIDE DEF S, T
<1>3. Cardinality(T) = Cardinality(S) - 1
  BY <1>1, <1>2, FS_RemoveElement
<1>4. QED
  BY <1>3 DEF S, T, SumOf

\* The entries somebody edits.
Editing == {k \in Keys : entry[k].editor # 0}

\* Only entries of lruEntries are edited, so there are finitely many.
LEMMA EditingFinite ==
    ASSUME TypeInv
    PROVE  /\ IsFiniteSet(Editing) /\ Cardinality(Editing) \in Nat
           /\ Elements(lru) \in SUBSET Keys /\ IsFiniteSet(Elements(lru))
           /\ SumOf(Elements(lru), entry) \in Nat
<1>1. IsFiniteSet(Elements(lru))
  BY ElementsCounted DEF TypeInv
<1>2. Editing \in SUBSET Elements(lru)
  BY EntryTypes DEF TypeInv, Editing, InLru
<1>3. Elements(lru) \in SUBSET Keys
  BY DEF TypeInv, Elements
<1>4. QED
  BY <1>1, <1>2, <1>3, FS_Subset, FS_CardinalityType, SumFinite

\* As many edits as before.
LEMMA SeqSame ==
    ASSUME SeqInv, up' = up, nextSeq' = nextSeq, edits' = edits,
           \A k \in Keys : entry'[k].editor # 0 <=> entry[k].editor # 0
    PROVE  SeqInv'
<1>1. {k \in Keys : entry[k].editor # 0}' = {k \in Keys : entry[k].editor # 0}
  OBVIOUS
<1>2. QED
  BY <1>1 DEF SeqInv

\* An edit has ended, and may have taken a sequence number.
LEMMA SeqEnded ==
    ASSUME TypeInv, SeqInv, up, up' = up, nextSeq' = nextSeq \/ nextSeq' = nextSeq + 1, edits' = edits,
           NEW k \in Keys, entry[k].editor # 0, entry'[k].editor = 0,
           \A j \in Keys \ {k} : entry'[j].editor = entry[j].editor
    PROVE  SeqInv' /\ nextSeq' \in 0..MaxEdits /\ nextSeq \in 0..MaxEdits
<1> DEFINE S == {j \in Keys : entry[j].editor # 0}
           T == {j \in Keys : entry'[j].editor # 0}
<1>1. T = S \ {k} /\ k \in S
  OBVIOUS
<1>2. IsFiniteSet(S) /\ Cardinality(S) \in Nat
  BY EditingFinite DEF Editing
<1>3. nextSeq + Cardinality(S) <= edits /\ nextSeq \in 0..MaxEdits /\ edits \in 0..MaxEdits
  BY DEF SeqInv, TypeInv
<1> HIDE DEF S, T
<1>4. Cardinality(T) = Cardinality(S) - 1 /\ IsFiniteSet(T)
  BY <1>1, <1>2, FS_RemoveElement
<1>5. Cardinality(T) \in Nat
  BY <1>4, FS_CardinalityType
<1>6. nextSeq' + Cardinality(T) <= edits' /\ nextSeq' \in 0..MaxEdits
  <2>1. MaxEdits \in Nat
    BY CacheAssumption
  <2>2. QED
    BY <2>1, <1>2, <1>3, <1>4, <1>5
<1>7. QED
  BY <1>3, <1>6 DEF SeqInv, T

-----------------------------------------------------------------------------
(* Steps that only move on. *)

\* removeEntry begins.
LEMMA RemoveEntryKeeps ==
    ASSUME CacheIInv, trimFailed' = trimFailed, up, NEW k \in Keys, InLru(k), RemoveEntry(k),
           UNCHANGED <<disk, up, buffer, writer, entry, size, nextSeq, edits, pub, durable, torn, leaked>>,
           lru' = lru \/ lru' = Touch(lru, k),
           \/ method = "none" /\ method' \in {"get", "remove"}
           \/ step \in {"trim", "evictAll"} /\ method' = method
    PROVE  CacheIInv'
<1>1. CacheIInv
  OBVIOUS
<1>2. step \notin Publishing \cup Halting \cup Loading \cup Replacing \cup {"closed", "closing"}
  BY DEF CacheIInv, StepInv, Loading, Replacing, Purging, Removing, Aborting, Publishing, Halting
<1>3. /\ step' = (IF entry[k].editor = 0 THEN "deleteClean" ELSE "deleteDirty")
      /\ key' = k /\ nth' = 1
  BY DEF RemoveEntry, ToFiles
<1>4. Known /\ Known' /\ step' \notin Publishing
  BY <1>3 DEF Known, Publishing
<1>5. trimFailed' \in BOOLEAN
  BY DEF CacheIInv, TypeInv
<1>6. /\ TypeInv' /\ BufferInv' /\ DiskInv' /\ SizeInv' /\ SeqInv' /\ MemoryInv'
      /\ \A j : InLru(j)' <=> InLru(j)
  BY <1>2, <1>4, <1>5, ControlKeeps
<1>7. StepInv' /\ ReadInv'
  BY <1>2, <1>3, <1>6 DEF CacheIInv, StepInv, ReadInv, Loading, Replacing, Purging, Removing,
     Aborting, Publishing, AtFiles, Index
<1>8. WriterInv'
  BY <1>2, <1>3 DEF CacheIInv, WriterInv, Loading, Replacing, disk
<1>9. UnitInv'
  BY <1>3 DEF CacheIInv, UnitInv, MemoryInv, KeyInv, Purging, Aborting, Publishing, Halting, Index
<1>10. QED
  BY <1>6, <1>7, <1>8, <1>9 DEF CacheIInv

\* The steps at no file and not at the journal, of which no part of the invariant speaks.
Between == {"rest", "trim", "evictAll", "closing", "flushWriter", "closeWriter"}

\* A step from one of these to another changes nothing but the order of lru.
LEMMA BetweenKeeps ==
    ASSUME CacheIInv, trimFailed' \in BOOLEAN, up, step \in Between, step' \in Between, StepInv',
           UNCHANGED <<disk, up, buffer, writer, entry, size, nextSeq, edits, pub, durable, torn, leaked>>,
           lru' = lru \/ \E k \in Keys : InLru(k) /\ lru' = Touch(lru, k)
    PROVE  CacheIInv'
<1>1. /\ step \notin Publishing \cup Halting /\ step' \notin Publishing \cup Halting
      /\ step' \notin Loading \cup Replacing \cup AtFiles \cup {"closed"}
  BY DEF Between, Loading, Replacing, Purging, Removing, Aborting, Publishing, AtFiles, Halting
<1>2. Known /\ Known'
  BY DEF Known
<1>3. TypeInv' /\ BufferInv' /\ DiskInv' /\ SizeInv' /\ SeqInv' /\ MemoryInv'
  BY <1>1, <1>2, ControlKeeps
<1>4. WriterInv' /\ UnitInv' /\ ReadInv'
  BY <1>1 DEF CacheIInv, WriterInv, UnitInv, ReadInv, Loading, Replacing, Purging, Removing,
     Aborting, Publishing, AtFiles, Halting, Between, disk
<1>5. QED
  BY <1>3, <1>4 DEF CacheIInv

\* evictAll, flush, close and the job of the cleanup thread begin.
LEMMA CallKeeps ==
    ASSUME CacheIInv, EvictAll \/ Flush \/ Close \/ Cleanup
    PROVE  CacheIInv'
<1> USE DEF EvictAll, Flush, Close, Cleanup, Call, AtRest, memory, ghost
<1>1. step \in Between /\ step' \in Between /\ StepInv'
  BY DEF CacheIInv, StepInv, Between, Loading, Replacing, Purging, Removing,
     Aborting, Publishing, AtFiles
<1>2. trimFailed' \in BOOLEAN
  BY DEF CacheIInv, TypeInv
<1>3. QED
  BY <1>1, <1>2, BetweenKeeps

\* An edit that is refused only touches its entry.
LEMMA EditRefusedKeeps ==
    ASSUME CacheIInv, NEW k \in Keys, EditRefused(k)
    PROVE  CacheIInv'
<1> USE DEF EditRefused, AtRest, ghost, todo
<1>1. step \in Between /\ step' \in Between /\ StepInv'
  <2>1. step = "rest"
    BY DEF CacheIInv, StepInv
  <2>2. QED
    BY <2>1 DEF CacheIInv, StepInv, Between, Loading, Replacing, Purging, Removing,
       Aborting, Publishing, AtFiles
<1>2. trimFailed' \in BOOLEAN
  BY DEF CacheIInv, TypeInv
<1>3. QED
  BY <1>1, <1>2, BetweenKeeps

\* remove: what removeEntry does first.
LEMMA RemoveKeyKeeps ==
    ASSUME CacheIInv, NEW k \in Keys, RemoveKey(k)
    PROVE  CacheIInv'
<1>1. QED
  BY RemoveEntryKeeps DEF RemoveKey, AtRest, memory, ghost

\* The eldest entry goes.
LEMMA EldestKeeps ==
    ASSUME CacheIInv, Trim \/ EvictNext
    PROVE  CacheIInv'
<1>1. /\ trimFailed \in BOOLEAN /\ lru \in Seq(Keys)
      /\ step \in Between /\ up
      /\ method \in {"evictAll", "flush", "close", "cleanup"}
      /\ step = "trim" => method # "evictAll"
  BY DEF CacheIInv, TypeInv, StepInv, Trim, EvictNext, Between, Loading, Replacing, Purging,
     Removing, Aborting, Publishing, AtFiles
<1>2. CASE RemoveEntry(Head(lru)) /\ lru # <<>> /\ method' = method /\ trimFailed' = trimFailed
  <2>1. Head(lru) \in Keys /\ InLru(Head(lru))
    BY <1>1, <1>2, MovedOn DEF InLru, Elements, Members
  <2>2. QED
    BY <2>1, <1>2, <1>1, RemoveEntryKeeps DEF Trim, EvictNext, memory, ghost
<1>3. CASE ~(RemoveEntry(Head(lru)) /\ lru # <<>> /\ method' = method /\ trimFailed' = trimFailed)
  <2>0. trimFailed' \in BOOLEAN
    BY <1>1 DEF Trim, EvictNext
  <2>1. \/ Return
        \/ Goto("flushWriter") /\ method = "flush"
        \/ Goto("closeWriter") /\ method \in {"close", "cleanup"}
    <3>1. CASE Trim /\ size > MaxSize
      BY <3>1, <1>1, <1>3 DEF Trim
    <3>2. CASE Trim /\ ~(size > MaxSize)
      BY <3>2, <1>1 DEF Trim, RebuildOrNot
    <3>3. CASE EvictNext
      BY <3>3, <1>1, <1>3 DEF EvictNext
    <3>4. QED
      BY <3>1, <3>2, <3>3
  <2>2. up' = up
    BY DEF Trim, EvictNext
  <2>3. step' \in Between /\ StepInv'
    BY <1>1, <2>1, <2>2 DEF CacheIInv, StepInv, Between, Return, Goto, Loading, Replacing, Purging,
       Removing, Aborting, Publishing, AtFiles
  <2>4. QED
    BY <1>1, <2>0, <2>1, <2>3, BetweenKeeps DEF Trim, EvictNext, memory, ghost
<1>4. QED
  BY <1>2, <1>3

\* An entry somebody edits has been found in lru, and its edit is not one from the journal.
LEMMA EditedEntry ==
    ASSUME CacheIInv, NEW k \in Keys, entry[k].editor # 0 \/ entry[k].held \/ entry[k].readable
    PROVE  /\ InLru(k)
           /\ entry[k].held => entry[k].editor # 0
           /\ up /\ entry[k].editor # 0 => entry[k].editor \notin {0, Recovered}
<1>1. InLru(k)
  BY DEF CacheIInv, TypeInv, NoEntry
<1>2. KeyInv(k)
  BY DEF CacheIInv, MemoryInv
<1>3. QED
  BY <1>1, <1>2 DEF KeyInv

\* close goes to the next edit to abort, or a client fails to write.
LEMMA HaltKeeps ==
    ASSUME CacheIInv, up, step \in Between, NEW k \in Keys, entry[k].editor # 0,
           UNCHANGED <<disk, up, buffer, writer, memory, trimFailed, nextSeq, edits, pub, durable, torn, leaked>>,
           \/ method' = "write" /\ ToFiles("deleteDirty", k)
           \/ method' = "close" /\ ToFiles("abortDirty", k)
    PROVE  CacheIInv'
<1>1. step \notin Publishing \cup Halting /\ step' \notin Publishing
  BY DEF Between, Aborting, Publishing, Halting, ToFiles
<1>2. /\ TypeInv' /\ BufferInv' /\ DiskInv' /\ SizeInv' /\ SeqInv' /\ MemoryInv'
      /\ \A j : InLru(j)' <=> InLru(j)
  BY <1>1, ControlKeeps DEF Known, CacheIInv, TypeInv, memory
<1>3. InLru(k) /\ entry[k].editor \notin {0, Recovered}
  BY EditedEntry
<1>4. StepInv' /\ WriterInv' /\ UnitInv' /\ ReadInv'
  BY <1>2, <1>3 DEF CacheIInv, StepInv, WriterInv, UnitInv, ReadInv, ToFiles, Loading, Replacing, Purging,
     Removing, Aborting, Publishing, AtFiles, Halting, Between, Index, disk, memory
<1>5. QED
  BY <1>2, <1>4 DEF CacheIInv

\* close: the next edit is aborted, or none is left.
LEMMA AbortNextKeeps ==
    ASSUME CacheIInv, AbortNext
    PROVE  CacheIInv'
<1> USE DEF AbortNext, memory, ghost
<1>1. method = "close" /\ up /\ step \in Between
  BY DEF CacheIInv, StepInv, Between, Loading, Replacing, Purging, Removing, Aborting, Publishing, AtFiles
<1>2. ASSUME NEW k \in Keys, FirstEdited(k), ToFiles("abortDirty", k), UNCHANGED method
      PROVE  CacheIInv'
  <2>1. entry[k].editor # 0
    BY <1>2 DEF FirstEdited
  <2>2. QED
    BY <1>1, <1>2, <2>1, HaltKeeps
<1>3. CASE NoneEdited /\ Leave("trim")
  <2>1. trimFailed' \in BOOLEAN
    BY DEF CacheIInv, TypeInv
  <2>2. step' \in Between /\ StepInv'
    BY <1>1, <1>3 DEF CacheIInv, StepInv, Between, Leave, Loading, Replacing, Purging, Removing,
       Aborting, Publishing, AtFiles
  <2>3. QED
    BY <1>1, <2>1, <2>2, BetweenKeeps
<1>4. QED
  BY <1>2, <1>3

\* The sink of a value fails, and the editor begins to detach.
LEMMA WriteFailsKeeps ==
    ASSUME CacheIInv, NEW k \in Keys, WriteFails(k)
    PROVE  CacheIInv'
<1> USE DEF WriteFails, AtRest, memory
<1>1. step \in Between
  BY DEF CacheIInv, StepInv, Between
<1>2. entry[k].editor # 0
  BY EditedEntry
<1>3. QED
  BY <1>1, <1>2, HaltKeeps

-----------------------------------------------------------------------------
(* Opening. *)

\* The first line of a journal says nothing, and each line adds what it says.
LEMMA ToldRead ==
    ASSUME NEW L \in Seq(Lines), NEW k
    PROVE  /\ IsJournal(L) /\ L # <<>> => Told(SubSeq(L, 1, 1), k) = Line("NONE", k)
           /\ \A n \in 1..Len(L) :
                 /\ Told(SubSeq(L, 1, n), k) =
                      IF Decisive(L[n], k) THEN L[n] ELSE Told(SubSeq(L, 1, n - 1), k)
           /\ Told(SubSeq(L, 1, Len(L)), k) = Told(L, k)
<1>1. Len(L) \in Nat
  OBVIOUS
<1>2. ASSUME NEW n \in 1..Len(L)
      PROVE  /\ SubSeq(L, 1, n - 1) \in Seq(Lines)
             /\ SubSeq(L, 1, n) = Append(SubSeq(L, 1, n - 1), L[n])
  <2> DEFINE a == SubSeq(L, 1, n - 1)
             b == SubSeq(L, 1, n)
             c == Append(a, L[n])
  <2>1. /\ a \in Seq(Lines) /\ Len(a) = n - 1 /\ \A i \in 1..n - 1 : a[i] = L[i]
        /\ b \in Seq(Lines) /\ Len(b) = n /\ \A i \in 1..n : b[i] = L[i]
    OBVIOUS
  <2> HIDE DEF a, b
  <2>2. c \in Seq(Lines) /\ Len(c) = n /\ c[n] = L[n] /\ \A i \in 1..n - 1 : c[i] = L[i]
    BY <2>1
  <2> HIDE DEF c
  <2>3. \A i \in 1..Len(b) : b[i] = c[i]
    BY <2>1, <2>2
  <2>4. b = c
    BY <2>1, <2>2, <2>3, SeqEqual
  <2>5. QED
    BY <2>1, <2>4 DEF a, b, c
<1>3. ASSUME NEW n \in 1..Len(L)
      PROVE  Told(SubSeq(L, 1, n), k) =
               IF Decisive(L[n], k) THEN L[n] ELSE Told(SubSeq(L, 1, n - 1), k)
  <2> DEFINE a == SubSeq(L, 1, n - 1)
             b == SubSeq(L, 1, n)
  <2>1. L[n] \in Lines /\ a \in Seq(Lines) /\ b = Append(a, L[n])
    BY <1>2
  <2> HIDE DEF a, b
  <2>2. Told(b, k) = IF Decisive(L[n], k) THEN L[n] ELSE Told(a, k)
    BY <2>1, ToldAppended
  <2>3. QED
    BY <2>2 DEF a, b
<1>4. ASSUME IsJournal(L), L # <<>> PROVE Told(SubSeq(L, 1, 1), k) = Line("NONE", k)
  <2>1. 1 \in 1..Len(L) /\ L[1].op = "HEADER"
    BY <1>4 DEF IsJournal
  <2>2. SubSeq(L, 1, 1 - 1) = <<>>
    OBVIOUS
  <2>3. QED
    BY <2>1, <2>2, <1>3, ToldNothing DEF Decisive
<1>5. SubSeq(L, 1, Len(L)) = L
  <2> DEFINE b == SubSeq(L, 1, Len(L))
  <2>1. b \in Seq(Lines) /\ Len(b) = Len(L) /\ \A i \in 1..Len(L) : b[i] = L[i]
    OBVIOUS
  <2> HIDE DEF b
  <2>2. b = L
    BY <2>1, SeqEqual
  <2>3. QED
    BY <2>2 DEF b
<1>6. QED
  BY <1>3, <1>4, <1>5

\* Before its first line, a journal is read with no entries.
LEMMA ReadStarts ==
    ASSUME TypeInv, lru = <<>>, NEW J \in Seq(Lines), IsJournal(J), J # <<>>
    PROVE  /\ 2 \in 2..(Len(J) + 1) /\ J[1].op # "TORN"
           /\ \A k \in Keys : entry[k] = NoEntry /\ ReadSays(k, Told(SubSeq(J, 1, 1), k))
<1>1. Len(J) \in Nat \ {0} /\ J[1].op = "HEADER"
  BY DEF IsJournal
<1>2. \A k \in Keys : entry[k] = NoEntry
  BY DEF TypeInv, InLru, Elements
<1>3. ASSUME NEW k \in Keys PROVE ReadSays(k, Told(SubSeq(J, 1, 1), k))
  <2> DEFINE t == Told(SubSeq(J, 1, 1), k)
  <2>1. t = Line("NONE", k)
    BY ToldRead
  <2> HIDE DEF t
  <2>2. t.op = "NONE"
    BY <2>1, LineTypes
  <2>3. NoEntry.len = NoFiles
    BY DEF NoEntry
  <2>4. ReadSays(k, t)
    BY <2>2, <2>3, <1>2 DEF ReadSays
  <2>5. QED
    BY <2>4 DEF t
<1>4. QED
  BY <1>1, <1>2, <1>3

\* Without a journal there is nothing.
LEMMA NothingSaid ==
    ASSUME CacheIInv, journal = <<>>, backup = <<>>, NEW k \in Keys
    PROVE  k \notin durable /\ (k \notin torn => clean[k] = NoFiles /\ own[k] = NoFiles)
<1>1. Told(Found, k) = Line("NONE", k)
  <2>1. Found = <<>>
    BY DEF Found
  <2>2. QED
    BY <2>1, ToldNothing
<1>2. Told(Found, k).op = "NONE"
  BY <1>1, LineTypes
<1>3. QED
  BY <1>2 DEF CacheIInv, DiskInv, DiskSays

\* initialize: which journal file there is decides where it begins.
LEMMA OpenKeeps ==
    ASSUME CacheIInv, Open
    PROVE  CacheIInv'
<1> USE DEF Open
<1>1. lru = <<>> /\ trimFailed \in BOOLEAN /\ journal \in Seq(Lines) /\ IsJournal(journal)
      /\ step = "rest" /\ writer = "none"
  BY DEF CacheIInv, TypeInv, StepInv, ReadInv, WriterInv
<1>2. /\ step' \in {"dropOld", "fromBackup", "read", "toBackup"} /\ ~up'
      /\ step' \in {"dropOld", "fromBackup", "read"} => nth' = 2 /\ (journal # <<>> \/ backup # <<>>)
      /\ step' \in {"dropOld", "read"} => journal # <<>>
      /\ step' = "fromBackup" => journal = <<>> /\ backup # <<>>
      /\ step' = "toBackup" => journal = <<>> /\ backup = <<>>
  OBVIOUS
<1>3. step \notin Publishing \cup Halting /\ step' \notin Publishing
  BY <1>1, <1>2 DEF Aborting, Publishing, Halting
<1>4. Known' => step' = "toBackup"
  BY <1>2 DEF Known, Loading
<1>5. /\ TypeInv' /\ BufferInv' /\ DiskInv' /\ SizeInv' /\ SeqInv'
      /\ \A k : InLru(k)' <=> InLru(k)
      /\ ~Known' => MemoryInv'
  BY <1>1, <1>3, ControlKeeps DEF memory, ghost
<1>6. ASSUME step' = "toBackup", NEW k \in Keys PROVE KeyInv(k)'
  <2>1. k \notin durable /\ (k \notin torn => clean[k] = NoFiles /\ own[k] = NoFiles)
    BY <1>2, <1>6, NothingSaid
  <2>2. entry[k] = NoEntry
    BY <1>1 DEF CacheIInv, TypeInv, InLru, Elements
  <2>3. entry'[k] = NoEntry /\ clean' = clean /\ own' = own /\ durable' = durable /\ torn' = torn
    BY <2>2, OwnSame DEF memory, disk, ghost
  <2>4. QED
    BY <2>1, <2>3, <1>2, LineTypes DEF KeyInv, Unedited, NoEntry, NoFiles
<1>7. MemoryInv'
  BY <1>4, <1>5, <1>6 DEF MemoryInv
<1>8. StepInv' /\ WriterInv' /\ UnitInv'
  BY <1>1, <1>2 DEF CacheIInv, StepInv, WriterInv, UnitInv, Loading, Replacing, Purging,
     Removing, Aborting, Publishing, AtFiles, Halting, disk
<1>9. ReadInv'
  <2>1. step' = "read" =>
           /\ nth' \in 2..(Len(journal) + 1) /\ journal[nth' - 1].op # "TORN"
           /\ \A k \in Keys : ReadSays(k, Told(SubSeq(journal, 1, nth' - 1), k))
    BY <1>1, <1>2, ReadStarts DEF CacheIInv
  <2>2. lru' = lru /\ entry' = entry /\ journal' = journal
    BY DEF memory, disk
  <2>3. QED
    BY <2>1, <2>2, <1>1, <1>2 DEF ReadInv, ReadSays, InLru
<1>10. QED
  BY <1>5, <1>7, <1>8, <1>9 DEF CacheIInv

\* A line is read.
LEMMA ReadKeeps ==
    ASSUME CacheIInv, Read
    PROVE  CacheIInv'
<1> DEFINE x == journal[nth]
           j == x.key
<1>1. /\ ~up /\ up' = up /\ step = "read" /\ step' = "read" /\ method' = method /\ method = "open" /\ key' = key
      /\ nth' = nth + 1 /\ ~Known /\ ~Known' /\ writer = "none" /\ buffer = <<>>
      /\ UNCHANGED <<disk, buffer, writer, size, trimFailed, nextSeq, edits, pub, durable, torn, leaked>>
  BY DEF CacheIInv, StepInv, WriterInv, Read, Known, Loading, Replacing, Purging, Removing,
     Aborting, Publishing, ghost
<1>2. /\ journal \in Seq(Lines) /\ IsJournal(journal) /\ lru \in Seq(Keys) /\ Once(lru)
      /\ entry \in [Keys -> EntryType] /\ \A k \in Keys : ~InLru(k) => entry[k] = NoEntry
  BY DEF CacheIInv, TypeInv
<1>3. /\ nth \in 2..Len(journal) /\ x.op # "TORN"
      /\ \A k \in Keys : ReadSays(k, Told(SubSeq(journal, 1, nth - 1), k))
  BY <1>1, <1>2 DEF CacheIInv, ReadInv, Read
<1>4. x \in Entries
  <2>1. x \in Lines /\ x.op # "HEADER"
    BY <1>2, <1>3 DEF IsJournal
  <2>2. QED
    BY <2>1, <1>3, LineTypes DEF Lines
<1>5. /\ j \in Keys /\ x.op \in {"CLEAN", "DIRTY", "READ", "REMOVE"} /\ x.len \in [Index -> 0..1]
  BY <1>4 DEF Entries
<1>6. /\ lru' \in Seq(Keys) /\ Once(lru')
      /\ \A k : InLru(k)' <=> IF k = j THEN x.op # "REMOVE" ELSE InLru(k)
  <2>1. lru' = IF x.op = "REMOVE" THEN WithoutKey(lru, j) ELSE Touch(lru, j)
    BY DEF Read, ReadLine
  <2>2. /\ Touch(lru, j) \in Seq(Keys) /\ Once(Touch(lru, j))
        /\ Elements(Touch(lru, j)) = Elements(lru) \cup {j}
        /\ WithoutKey(lru, j) \in Seq(Keys) /\ Once(WithoutKey(lru, j))
        /\ Elements(WithoutKey(lru, j)) = Elements(lru) \ {j}
    BY <1>2, <1>5, Touched
  <2> HIDE DEF x, j
  <2>3. QED
    BY <2>1, <2>2 DEF InLru
<1> DEFINE e == CASE x.op = "REMOVE" -> NoEntry
                  [] x.op = "CLEAN" -> [entry[j] EXCEPT !.readable = TRUE, !.editor = 0, !.len = x.len]
                  [] x.op = "DIRTY" -> [entry[j] EXCEPT !.editor = Recovered]
                  [] x.op = "READ" -> entry[j]
<1>7. entry' = [entry EXCEPT ![j] = e]
  BY SMTT(30) DEF Read, ReadLine
<1> HIDE DEF x, j
<1>8. /\ e \in EntryType /\ e.editor \in {0, Recovered, entry[j].editor}
      /\ \/ e = NoEntry
         \/ e.held = entry[j].held /\ e.left = entry[j].left /\ e.writes = entry[j].writes
      /\ x.op = "REMOVE" => e = NoEntry
      /\ x.op = "CLEAN" => e.readable /\ e.editor = 0 /\ e.len = x.len
      /\ x.op = "DIRTY" => /\ e.readable = entry[j].readable /\ e.len = entry[j].len
                          /\ e.editor = Recovered
      /\ x.op = "READ" => e = entry[j]
  <2>1. entry[j] \in EntryType /\ Recovered \in 0..Recovered /\ 0 \in 0..Recovered /\ NoEntry \in EntryType
    BY <1>2, <1>5, EntryTypes
  <2>2. CASE x.op = "REMOVE"
    <3>1. e = NoEntry
      BY <2>2
    <3> HIDE DEF e
    <3>2. QED
      BY <3>1, <2>1, <2>2, EntryTypes
  <2>3. CASE x.op = "CLEAN"
    BY <2>1, <2>3, <1>5 DEF EntryType
  <2>4. CASE x.op = "DIRTY"
    BY <2>1, <2>4 DEF EntryType
  <2>5. CASE x.op = "READ"
    BY <2>1, <2>5
  <2>6. QED
    BY <2>2, <2>3, <2>4, <2>5, <1>5
<1> HIDE DEF e
<1>9. \A k \in Keys : ~InLru(k)' => entry'[k] = NoEntry
  BY <1>2, <1>5, <1>6, <1>7, <1>8
<1>10. TypeInv'
  <2>1. entry' \in [Keys -> EntryType]
    BY <1>2, <1>5, <1>7, <1>8
  <2>2. QED
    BY <2>1, <1>1, <1>6, <1>9 DEF CacheIInv, TypeInv, IsJournal, disk
<1>11. BufferInv' /\ DiskInv' /\ SizeInv' /\ SeqInv'
  BY <1>1, OwnSame DEF CacheIInv, BufferInv, DiskInv, DiskSays, Found, SizeInv, SeqInv, disk
<1>12. StepInv' /\ WriterInv' /\ UnitInv'
  BY <1>1 DEF CacheIInv, StepInv, WriterInv, UnitInv, Loading, Replacing, Purging,
     Removing, Aborting, Publishing, AtFiles, Halting, disk
<1>13. ASSUME NEW k \in Keys PROVE KeyInv(k)'
  <2>1. KeyInv(k)
    BY DEF CacheIInv, MemoryInv
  <2>2. entry[j].editor \in {0, Recovered} /\ ~entry[j].held /\ entry[j].left \subseteq entry[j].writes
    BY <1>1, <1>5 DEF CacheIInv, MemoryInv, KeyInv
  <2>3. e.editor \in {0, Recovered} /\ ~e.held /\ e.left \subseteq e.writes
    BY <2>2, <1>8, EntryTypes
  <2>4. entry'[k] = IF k = j THEN e ELSE entry[k]
    BY <1>2, <1>5, <1>7
  <2>5. QED
    BY <2>1, <2>3, <2>4, <1>1 DEF KeyInv
<1>14. MemoryInv'
  BY <1>13 DEF MemoryInv
<1>15. ASSUME NEW k \in Keys, NEW u, u = Told(SubSeq(journal, 1, nth), k)
       PROVE  /\ u.op \in {"NONE", "REMOVE"} => entry'[k] = NoEntry
              /\ u.op = "CLEAN" => /\ InLru(k)' /\ entry'[k].readable
                                  /\ entry'[k].editor = 0 /\ entry'[k].len = u.len
              /\ u.op = "DIRTY" => InLru(k)' /\ entry'[k].editor = Recovered
              /\ ~entry'[k].readable => entry'[k].len = NoFiles
  <2> DEFINE t == Told(SubSeq(journal, 1, nth - 1), k)
  <2>1. nth \in 1..Len(journal)
    BY <1>2, <1>3
  <2>2. u = IF Decisive(x, k) THEN x ELSE t
    BY <1>2, <1>15, <2>1, ToldRead DEF x
  <2>3. ReadSays(k, t)
    BY <1>3
  <2> HIDE DEF t
  <2>4. entry'[k] = IF k = j THEN e ELSE entry[k]
    BY <1>2, <1>5, <1>7
  <2>5. Decisive(x, k) <=> k = j /\ x.op # "READ"
    BY <1>5 DEF Decisive, j
  <2>6. InLru(k)' <=> IF k = j THEN x.op # "REMOVE" ELSE InLru(k)
    BY <1>6
  <2>7. CASE ~Decisive(x, k)
    BY <2>2, <2>3, <2>4, <2>5, <2>6, <2>7, <1>8 DEF ReadSays
  <2>8. CASE Decisive(x, k)
    <3>1. u = x /\ k = j /\ entry'[k] = e /\ (~entry[k].readable => entry[k].len = NoFiles)
      BY <2>2, <2>3, <2>4, <2>5, <2>8 DEF ReadSays
    <3>2. x.op \in {"CLEAN", "DIRTY", "REMOVE"}
      BY <2>8 DEF Decisive
    <3>3. QED
      BY <3>1, <3>2, <2>6, <1>8, EntryTypes
  <2>9. QED
    BY <2>7, <2>8
<1>16. ReadInv'
  <2>1. nth' - 1 = nth /\ journal' = journal /\ nth' \in 2..(Len(journal) + 1)
    BY <1>1, <1>2, <1>3 DEF disk
  <2>2. journal[nth].op # "TORN"
    BY <1>3 DEF x
  <2>3. \A k \in Keys : ReadSays(k, Told(SubSeq(journal, 1, nth - 1), k))'
    BY <2>1, <1>15 DEF ReadSays
  <2>4. QED
    BY <2>1, <2>2, <2>3, <1>1 DEF ReadInv
<1>17. QED
  BY <1>10, <1>11, <1>12, <1>14, <1>16 DEF CacheIInv

\* The journal has been read: what it says of the entries is what they are.
LEMMA ReadEndsKeeps ==
    ASSUME CacheIInv, ReadEnds
    PROVE  CacheIInv'
<1> USE DEF ReadEnds
<1>1. /\ ~up /\ step = "read" /\ method = "open" /\ writer = "none" /\ trimFailed \in BOOLEAN
      /\ journal # <<>> /\ journal \in Seq(Lines) /\ IsJournal(journal)
  BY DEF CacheIInv, TypeInv, StepInv, WriterInv, Loading, Replacing, Purging, Removing,
     Aborting, Publishing
<1>2. /\ nth \in 2..(Len(journal) + 1) /\ journal[nth - 1].op # "TORN"
      /\ \A k \in Keys : ReadSays(k, Told(SubSeq(journal, 1, nth - 1), k))
  BY <1>1 DEF CacheIInv, ReadInv
<1>3. step' \in {"toBackup", "newWriter"} /\ key' = NoKey /\ method' = method /\ Found = journal
  BY <1>1 DEF Leave, Found
<1>4. /\ TypeInv' /\ BufferInv' /\ DiskInv' /\ SizeInv' /\ SeqInv'
      /\ \A k : InLru(k)' <=> InLru(k)
  BY <1>1, ControlKeeps DEF memory, ghost
<1>5. ASSUME NEW k \in Keys PROVE ReadSays(k, Told(journal, k))
  <2>1. CASE nth = Len(journal) + 1
    BY <2>1, <1>1, <1>2, ToldRead
  <2>2. CASE nth # Len(journal) + 1
    <3>1. nth \in 1..Len(journal) /\ journal[nth].op = "TORN"
      BY <2>2, <1>1, <1>2
    <3>2. nth = Len(journal) /\ ~Decisive(journal[nth], k)
      BY <3>1, <1>1 DEF IsJournal, Decisive
    <3>3. QED
      BY <3>1, <3>2, <1>1, <1>2, ToldRead
  <2>3. QED
    BY <2>1, <2>2
<1>6. ASSUME NEW k \in Keys PROVE KeyInv(k)'
  <2> DEFINE t == Told(journal, k)
  <2>1. KeyInv(k) /\ DiskSays(k, t)
    BY <1>3 DEF CacheIInv, MemoryInv, DiskInv
  <2>2. ReadSays(k, t)
    BY <1>5
  <2>3. t.op \in {"NONE", "CLEAN", "DIRTY", "REMOVE"}
    BY <1>1, ToldCases, LineTypes DEF Decides, Decisive
  <2>4. Told(Found', k) = t
    BY <1>3 DEF disk, Found
  <2> HIDE DEF t
  <2>d. /\ up' = up /\ entry' = entry /\ clean' = clean /\ own' = own /\ pub' = pub
        /\ durable' = durable /\ torn' = torn /\ (InLru(k)' <=> InLru(k))
        /\ \A i \in Index : entry[k].readable \/ entry[k].len[i] = 0
    BY <2>2, <1>4, OwnSame DEF memory, disk, ghost, ReadSays, NoFiles
  <2>5. CASE t.op \in {"NONE", "REMOVE"}
    <3>1. entry[k].editor = 0 /\ k \notin durable
      BY <2>1, <2>2, <2>5, EntryTypes DEF ReadSays, DiskSays
    <3>2. k \notin torn => Unedited(k)'
      BY <2>1, <2>5, <2>d DEF DiskSays, Unedited, NoFiles
    <3>3. QED
      BY <2>1, <2>d, <3>1, <3>2, <1>1, LineTypes DEF KeyInv
  <2>6. CASE t.op = "CLEAN"
    <3>1. entry[k].editor = 0 /\ entry[k].readable /\ entry[k].len = t.len /\ InLru(k)
      BY <2>2, <2>6 DEF ReadSays
    <3>2. ASSUME k \notin torn PROVE Unedited(k)'
      <4>1. own[k] = NoFiles
        <5>1. own[k] \in Contents /\ \A i \in Index : own[k][i] = 0
          BY <2>1, <2>6, <3>2, OwnTyped DEF DiskSays, CacheIInv
        <5>2. QED
          BY <5>1 DEF Contents, NoFiles
      <4>2. QED
        BY <4>1, <3>1, <3>2, <2>1, <2>6, <2>d DEF DiskSays, Unedited
    <3>3. QED
      BY <2>1, <2>d, <3>1, <3>2, <1>1, LineTypes DEF KeyInv
  <2>7. CASE t.op = "DIRTY"
    <3>1. entry[k].editor = Recovered /\ k \notin durable
      BY <2>1, <2>2, <2>7 DEF ReadSays, DiskSays
    <3>2. QED
      BY <2>1, <2>d, <2>4, <2>7, <3>1, <1>1, LineTypes DEF KeyInv
  <2>8. QED
    BY <2>3, <2>5, <2>6, <2>7
<1>7. MemoryInv'
  BY <1>6 DEF MemoryInv
<1>8. StepInv' /\ UnitInv' /\ ReadInv'
  BY <1>1, <1>3 DEF CacheIInv, StepInv, UnitInv, ReadInv, Loading, Replacing, Purging,
     Removing, Aborting, Publishing, AtFiles, Halting
<1>9. WriterInv'
  <2>1. step' = "newWriter" => ~EndsTorn(journal)
    BY <1>1, <1>2 DEF Leave, EndsTorn
  <2>2. QED
    BY <2>1, <1>1, <1>3 DEF CacheIInv, WriterInv, Loading, Replacing, disk
<1>10. QED
  BY <1>4, <1>7, <1>8, <1>9 DEF CacheIInv

\* processJournal comes to the next unfinished edit.
LEMMA PurgeNextKeeps ==
    ASSUME CacheIInv, PurgeNext
    PROVE  CacheIInv'
<1> USE DEF PurgeNext, memory, ghost
<1>1. PICK k \in Keys : FirstEdited(k) /\ ToFiles("purgeClean", k)
  OBVIOUS
<1>2. entry[k].editor # 0 /\ step = "purge" /\ method = "open" /\ ~up /\ trimFailed \in BOOLEAN
  BY <1>1 DEF FirstEdited, CacheIInv, TypeInv, StepInv, Loading, Replacing, Purging,
     Removing, Aborting, Publishing
<1>3. InLru(k) /\ entry[k].editor = Recovered
  BY <1>2, EditedEntry DEF CacheIInv, MemoryInv, KeyInv
<1>4. /\ TypeInv' /\ BufferInv' /\ DiskInv' /\ SizeInv' /\ SeqInv' /\ MemoryInv'
      /\ \A j : InLru(j)' <=> InLru(j)
  BY <1>1, <1>2, ControlKeeps DEF ToFiles, Aborting, Publishing, Halting, Known, Loading
<1>5. StepInv' /\ WriterInv' /\ UnitInv' /\ ReadInv'
  BY <1>1, <1>2, <1>3, <1>4 DEF CacheIInv, StepInv, WriterInv, UnitInv, ReadInv, ToFiles, Loading,
     Replacing, Purging, Removing, Aborting, Publishing, AtFiles, Halting, Index, disk
<1>6. QED
  BY <1>4, <1>5 DEF CacheIInv

\* Nothing unfinished is left: the cache is open.
LEMMA OpenedKeeps ==
    ASSUME CacheIInv, Opened
    PROVE  CacheIInv'
<1> USE DEF Opened, ghost
<1>1. step = "purge" /\ method = "open" /\ ~up
  BY DEF CacheIInv, StepInv, Loading, Replacing, Purging, Removing, Aborting, Publishing
<1>2. /\ up' /\ step' = "rest" /\ method' = "none" /\ nth' = 0
      /\ UNCHANGED <<disk, lru, entry, buffer, writer, trimFailed, nextSeq, edits, pub, durable, torn, leaked>>
      /\ size' = SumOf(Elements(lru), entry)
  BY DEF Return
<1>3. \A k \in Keys : entry[k].editor = 0
  BY EntryTypes DEF CacheIInv, TypeInv, NoneEdited, InLru
<1>4. TypeInv'
  <2>1. size' \in Nat
    BY <1>2, EditingFinite DEF CacheIInv
  <2>2. up' \in BOOLEAN
    BY DEF Opened
  <2>3. QED
    BY <2>1, <2>2, <1>2 DEF CacheIInv, TypeInv, IsJournal, InLru, disk
<1>5. BufferInv' /\ DiskInv'
  BY <1>2, OwnSame DEF CacheIInv, BufferInv, DiskInv, DiskSays, Found, InLru, disk
<1>6. SizeInv'
  <2>1. SumOf(Elements(lru), entry)' = size' /\ size' \in Nat
    BY <1>2, EditingFinite DEF CacheIInv, SumOf
  <2>2. QED
    BY <2>1 DEF SizeInv
<1>7. SeqInv'
  <2>1. {k \in Keys : entry'[k].editor # 0} = {}
    BY <1>2, <1>3
  <2>2. nextSeq' = 0 /\ edits' \in Nat
    BY <1>1, <1>2 DEF CacheIInv, SeqInv, TypeInv
  <2>3. QED
    BY <2>1, <2>2, FS_EmptySet DEF SeqInv
<1>8. ASSUME NEW k \in Keys PROVE KeyInv(k)'
  <2>1. KeyInv(k) /\ Known /\ \A i \in Index : ~Published(k, i)
    BY <1>1 DEF CacheIInv, MemoryInv, Known, Loading, Published, Publishing
  <2>2. QED
    BY <2>1, <1>2, <1>3, LineTypes, OwnSame DEF KeyInv, Unedited, InLru, disk
<1>9. MemoryInv'
  BY <1>8 DEF MemoryInv
<1>10. StepInv' /\ WriterInv' /\ UnitInv' /\ ReadInv'
  BY <1>1, <1>2 DEF CacheIInv, StepInv, WriterInv, UnitInv, ReadInv, Loading,
     Replacing, Purging, Removing, Aborting, Publishing, AtFiles, Halting, disk
<1>11. QED
  BY <1>4, <1>5, <1>6, <1>7, <1>9, <1>10 DEF CacheIInv

\* processJournal: the files of an edit nobody completed go, then its entry.
LEMMA PurgedEntry ==
    ASSUME CacheIInv, step \in Purging
    PROVE  /\ method = "open" /\ ~up /\ Known
           /\ key \in Keys /\ InLru(key) /\ nth \in Index
           /\ entry[key].editor = Recovered /\ KeyInv(key)
           /\ key \notin durable /\ (key \notin torn => Told(Found, key).op = "DIRTY")
<1>1. /\ method = "open" /\ ~up /\ Known
      /\ key \in Keys /\ InLru(key) /\ nth \in Index
      /\ entry[key].editor = Recovered
  BY DEF CacheIInv, StepInv, UnitInv, Known, Loading, Replacing, Purging, Removing, Aborting,
     Publishing, AtFiles
<1>2. KeyInv(key)
  BY <1>1 DEF CacheIInv, MemoryInv
<1>3. QED
  BY <1>1, <1>2, LineTypes DEF KeyInv

\* processJournal deletes a file of an unfinished edit.
LEMMA UnlinkKeeps ==
    ASSUME CacheIInv, UnlinkClean \/ UnlinkDirty
    PROVE  CacheIInv'
<1> SUFFICES ASSUME NEW k, k = key PROVE CacheIInv'
  OBVIOUS
<1> USE DEF memory, ghost
<1>1. step \in {"purgeClean", "purgeDirty"} /\ step \in Purging
  BY DEF UnlinkClean, UnlinkDirty, Purging
<1>2. /\ method = "open" /\ ~up /\ Known
      /\ k = key /\ k \in Keys /\ InLru(k) /\ nth \in Index
      /\ entry[k].editor = Recovered /\ KeyInv(k)
      /\ k \notin durable /\ (k \notin torn => Told(Found, k).op = "DIRTY")
  BY <1>1, PurgedEntry
<1>3. /\ UNCHANGED <<journal, backup, up, buffer, writer, memory, trimFailed, nextSeq, ghost, method, key>>
      /\ step' \in Purging /\ nth' \in Index
  BY <1>1, <1>2 DEF UnlinkClean, UnlinkDirty, Goto, Purging, Index
<1>4. /\ \/ clean' = Changed(clean, k, nth, 0) /\ dirty' = dirty
         \/ clean' = clean /\ dirty' = Changed(dirty, k, nth, 0)
      /\ clean \in [Keys -> Contents] /\ dirty \in [Keys -> Contents] /\ 0 \in 0..Recovered
  BY SMTT(30), <1>2, EntryTypes, CacheAssumption DEF CacheIInv, TypeInv, UnlinkClean, UnlinkDirty, Recovered, Changed
<1>5. /\ clean' \in [Keys -> Contents] /\ dirty' \in [Keys -> Contents]
      /\ \A j \in Keys \ {k} : clean'[j] = clean[j] /\ dirty'[j] = dirty[j]
  BY <1>2, <1>4, FileChanged
<1>o. /\ \A j \in Keys \ {k} : own'[j] = own[j]
      /\ dirty' = dirty => own' = own
      /\ dirty' = Changed(dirty, k, nth, 0) =>
           own'[k][nth] = 0 /\ \A h \in Index \ {nth} : own'[k][h] = own[k][h]
  BY <1>2, <1>3, <1>4, OwnSame, OwnDeleted DEF CacheIInv
<1>6. Found' = Found
  BY <1>3 DEF Found
<1>7. DiskSays(k, Told(Found, k))'
  BY <1>2, <1>3, <1>6 DEF DiskSays
<1>8. KeyInv(k)'
  <2>1. \A i \in Index : ~Published(k, i)
    BY <1>1 DEF Published, Publishing, Purging
  <2>2. QED
    BY <2>1, <1>2, <1>3, <1>6, LineTypes DEF KeyInv, InLru
<1>9. step \notin Publishing \cup Halting /\ step' \notin Publishing \cup Halting /\ (Known' => Known)
  BY <1>2, <1>1, <1>3 DEF Purging, Publishing, Aborting, Halting
<1>10. TypeInv' /\ BufferInv' /\ DiskInv' /\ MemoryInv'
  BY <1>2, <1>3, <1>5, <1>o, <1>7, <1>8, <1>9, OneEntry DEF CacheIInv, TypeInv, InLru
<1>11. SizeInv' /\ SeqInv'
  BY <1>3, <1>2, SeqSame DEF CacheIInv, SizeInv
<1>12. UnitInv'
  BY <1>1, <1>2, <1>3, <1>4, <1>o DEF UnlinkClean, UnlinkDirty, Changed, Goto, CacheIInv, UnitInv, Purging,
     Publishing, Aborting, Halting, Index, Contents
<1>13. StepInv' /\ WriterInv' /\ ReadInv'
  BY <1>1, <1>2, <1>3 DEF CacheIInv, StepInv, WriterInv, ReadInv, InLru, Loading,
     Replacing, Purging, Removing, Aborting, Publishing, AtFiles
<1>14. QED
  BY <1>10, <1>11, <1>12, <1>13 DEF CacheIInv

\* An unfinished edit is forgotten once its files are gone.
LEMMA ForgetKeeps ==
    ASSUME CacheIInv, Forget
    PROVE  CacheIInv'
<1> SUFFICES ASSUME NEW k, k = key PROVE CacheIInv'
  OBVIOUS
<1> USE DEF Forget, ghost
<1>1. step = "forget" /\ step \in Purging
  BY DEF Purging
<1>2. /\ method = "open" /\ ~up /\ Known
      /\ k = key /\ k \in Keys /\ InLru(k) /\ nth \in Index
      /\ entry[k].editor = Recovered /\ KeyInv(k)
      /\ k \notin durable /\ (k \notin torn => Told(Found, k).op = "DIRTY")
  BY <1>1, PurgedEntry
<1>3. /\ UNCHANGED <<disk, up, buffer, writer, size, trimFailed, nextSeq, ghost, method>>
      /\ step' = "purge" /\ key' = NoKey
  BY DEF Leave
<1>4. /\ lru \in Seq(Keys) /\ Once(lru) /\ entry \in [Keys -> EntryType]
      /\ clean \in [Keys -> Contents] /\ dirty \in [Keys -> Contents]
      /\ size \in Nat /\ trimFailed \in BOOLEAN /\ durable \subseteq Keys /\ torn \subseteq Keys
      /\ leaked \subseteq Keys \X Index \X (1..Recovered)
      /\ own \in [Keys -> Contents] /\ own' = own
  BY <1>3, OwnTyped, OwnSame DEF CacheIInv, TypeInv, disk
<1>5. /\ lru' \in Seq(Keys) /\ Once(lru') /\ Elements(lru') = Elements(lru) \ {k}
      /\ entry' \in [Keys -> EntryType] /\ entry' = [entry EXCEPT ![k] = NoEntry]
  BY <1>2, <1>4, Touched, EntryTypes
<1>6. Found' = Found
  BY <1>3 DEF Found, disk
<1>7. DiskSays(k, Told(Found, k))'
  BY <1>2, <1>3, <1>6 DEF DiskSays, disk
<1>8. KeyInv(k)'
  <2>1. clean[k] = NoFiles /\ own[k] = NoFiles
    <3>1. \A i \in Index : clean[k][i] = 0 /\ own[k][i] = 0
      BY <1>1 DEF CacheIInv, UnitInv
    <3>2. clean[k] \in Contents /\ own[k] \in Contents
      BY <1>2, <1>4
    <3>3. QED
      BY <3>1, <3>2, NoFile
  <2>2. entry'[k] = NoEntry /\ clean' = clean /\ own' = own /\ durable' = durable
    BY <1>2, <1>3, <1>4, <1>5 DEF disk
  <2>3. QED
    BY <2>1, <2>2, <1>2, <1>3, EntryTypes, LineTypes DEF KeyInv, Unedited, NoFiles
<1>9. step \notin Publishing \cup Halting /\ step' \notin Publishing \cup Halting /\ (Known' => Known)
  BY <1>2, <1>1, <1>3 DEF Purging, Publishing, Aborting, Halting
<1>10. TypeInv' /\ BufferInv' /\ DiskInv' /\ MemoryInv'
  <2>1. \A j \in Keys \ {k} : entry'[j] = entry[j] /\ (InLru(j) <=> InLru(j)')
    BY <1>2, <1>4, <1>5 DEF InLru
  <2>2. entry'[k] = NoEntry
    BY <1>2, <1>4, <1>5
  <2>3. QED
    BY <2>1, <2>2, <1>2, <1>3, <1>4, <1>5, <1>7, <1>8, <1>9, OneEntry DEF disk
<1>11. SizeInv' /\ SeqInv'
  BY <1>3, <1>2 DEF CacheIInv, SizeInv, SeqInv
<1>12. StepInv' /\ WriterInv' /\ UnitInv' /\ ReadInv'
  BY <1>1, <1>2, <1>3 DEF CacheIInv, StepInv, WriterInv, UnitInv, ReadInv, Loading,
     Replacing, Purging, Removing, Aborting, Publishing, AtFiles, Halting, disk
<1>13. QED
  BY <1>10, <1>11, <1>12 DEF CacheIInv

-----------------------------------------------------------------------------
(* The files of an entry. *)

\* Where removeEntry, an aborted edit and a commit are.
LEMMA AtEntry ==
    ASSUME CacheIInv, step \in Removing \cup Aborting \cup Publishing
    PROVE  /\ up /\ Known /\ key \in Keys /\ InLru(key) /\ nth \in Index /\ KeyInv(key)
           /\ step \in Removing => method \in {"write", "get", "remove", "evictAll", "flush", "close", "cleanup"}
           /\ step \in Aborting => method \in {"abort", "commit", "close"}
           /\ step \in Publishing => method = "commit"
           /\ step \in {"deleteClean", "removed"} => entry[key].editor = 0 /\ method # "write"
           /\ step \in Halting \cup Publishing =>
                /\ entry[key].editor \notin {0, Recovered} /\ key \notin durable
                /\ key \notin torn => Edited(key) /\ Told(Found, key).op = "DIRTY"
<1>1. /\ up /\ Known /\ key \in Keys /\ InLru(key) /\ nth \in Index
      /\ step \in Removing => method \in {"write", "get", "remove", "evictAll", "flush", "close", "cleanup"}
      /\ step \in Aborting => method \in {"abort", "commit", "close"}
      /\ step \in Publishing => method = "commit"
      /\ step \in {"deleteClean", "removed"} => method # "write"
  BY DEF CacheIInv, StepInv, Known, Loading, Replacing, Purging, Removing, Aborting,
     Publishing, AtFiles
<1>2. KeyInv(key)
  BY <1>1 DEF CacheIInv, MemoryInv
<1>3. /\ step \in {"deleteClean", "removed"} => entry[key].editor = 0
      /\ step \in Halting \cup Publishing => entry[key].editor \notin {0, Recovered}
  BY DEF CacheIInv, UnitInv
<1>4. QED
  BY <1>1, <1>2, <1>3 DEF KeyInv, Edited

\* Two steps on the files of an entry: one to the next file, or one beyond the last.
LEMMA DeleteDirtyKeeps ==
    ASSUME CacheIInv, DeleteDirty
    PROVE  CacheIInv'
<1> SUFFICES ASSUME NEW k, k = key PROVE CacheIInv'
  OBVIOUS
<1> USE DEF DeleteDirty, memory, ghost
<1>1. /\ step \in Halting /\ step \in Removing \cup Aborting /\ step \notin Publishing
      /\ step \in {"deleteDirty", "abortDirty"}
  BY DEF Halting, Removing, Aborting, Publishing
<1>2. /\ up /\ Known /\ k = key /\ k \in Keys /\ InLru(k) /\ nth \in Index /\ KeyInv(k)
      /\ entry[k].editor \notin {0, Recovered} /\ k \notin durable
      /\ k \notin torn => Edited(k) /\ Told(Found, k).op = "DIRTY"
      /\ method \in {"abort", "commit", "close"} \/ step \in Removing
  BY <1>1, AtEntry
<1>3. /\ UNCHANGED <<journal, backup, clean, up, buffer, writer, memory, trimFailed, nextSeq, ghost, method, key>>
      /\ IF nth = 1 THEN nth' = 2 /\ step' = step
         ELSE nth' = nth /\ step' = IF step = "deleteDirty" THEN "detach" ELSE "aborted"
      /\ step' \in Halting
  BY <1>1 DEF NextValue, Goto, Halting, Aborting
<1>4. /\ dirty' \in [Keys -> Contents] /\ dirty'[k][nth] = 0
      /\ \A j \in Keys \ {k} : dirty'[j] = dirty[j]
      /\ \A h \in Index \ {nth} : dirty'[k][h] = dirty[k][h]
      /\ own' \in [Keys -> Contents] /\ own'[k][nth] = 0
      /\ \A j \in Keys \ {k} : own'[j] = own[j]
      /\ \A h \in Index \ {nth} : own'[k][h] = own[k][h]
  <2>1. dirty \in [Keys -> Contents] /\ 0 \in 0..Recovered
    BY EntryTypes, CacheAssumption DEF CacheIInv, TypeInv, Recovered
  <2>2. dirty' = Changed(dirty, k, nth, 0)
    BY <1>2 DEF Changed
  <2>3. /\ Changed(dirty, k, nth, 0) \in [Keys -> Contents] /\ Changed(dirty, k, nth, 0)[k][nth] = 0
        /\ \A j \in Keys \ {k} : Changed(dirty, k, nth, 0)[j] = dirty[j]
        /\ \A h \in Index \ {nth} : Changed(dirty, k, nth, 0)[k][h] = dirty[k][h]
    BY ONLY <1>2, <2>1, FileChanged
  <2>4. TypeInv /\ leaked' = leaked
    BY <1>3 DEF CacheIInv
  <2>5. /\ own' \in [Keys -> Contents] /\ own'[k][nth] = 0
        /\ \A j \in Keys \ {k} : own'[j] = own[j]
        /\ \A h \in Index \ {nth} : own'[k][h] = own[k][h]
    BY ONLY <1>2, <2>2, <2>4, OwnDeleted
  <2>6. QED
    BY ONLY <2>2, <2>3, <2>5
<1>5. Found' = Found /\ step' \notin Publishing
  BY <1>3 DEF Found, Publishing, Halting, Aborting
<1>6. DiskSays(k, Told(Found, k))'
  BY <1>2, <1>3, <1>5 DEF DiskSays
<1>7. \A i \in Index : ~Published(k, i) /\ ~Published(k, i)'
  BY <1>1, <1>5 DEF Published
<1>8. Edited(k) => Edited(k)'
  BY <1>2, <1>3, <1>4, <1>5, <1>7 DEF Edited, Publishing
<1>9. KeyInv(k)'
  BY <1>2, <1>3, <1>5, <1>7, <1>8, LineTypes DEF KeyInv, InLru
<1>10. TypeInv' /\ BufferInv' /\ DiskInv' /\ MemoryInv'
  <2>1. /\ UNCHANGED <<journal, backup, up, writer, nextSeq, edits, pub, key, clean>>
        /\ UNCHANGED <<trimFailed, buffer, size, entry, lru, durable, torn>>
    BY <1>3
  <2>2. /\ trimFailed' \in BOOLEAN /\ buffer' = buffer /\ size' \in Nat /\ (Known' => Known)
        /\ clean' \in [Keys -> Contents] /\ dirty' \in [Keys -> Contents]
        /\ entry' \in [Keys -> EntryType] /\ lru' \in Seq(Keys) /\ Once(lru')
        /\ durable' \in SUBSET Keys /\ torn' \in SUBSET Keys
        /\ leaked' \subseteq Keys \X Index \X (1..Recovered)
    BY <2>1, <1>2, <1>3, <1>4 DEF CacheIInv, TypeInv
  <2>3. /\ InLru(k)' /\ \A j \in Keys : InLru(j) <=> InLru(j)'
        /\ \A j \in Keys \ {k} : clean'[j] = clean[j] /\ dirty'[j] = dirty[j] /\ own'[j] = own[j]
    BY <2>1, <1>2, <1>3, <1>4 DEF InLru
  <2>4. QED
    BY <2>1, <2>2, <2>3, <1>2, <1>5, <1>6, <1>9, OneEntry
<1>11. SizeInv' /\ SeqInv'
  BY <1>3, <1>2, SeqSame DEF CacheIInv, SizeInv
<1>12. UnitInv'
  <2>1. \A j \in Index : j < nth => own[k][j] = 0
    BY <1>1, <1>2 DEF CacheIInv, UnitInv
  <2>2. CASE nth = 1
    BY <2>1, <2>2, <1>1, <1>2, <1>3, <1>4 DEF UnitInv, Purging, Publishing, Aborting, Halting, Index
  <2>3. CASE nth = 2
    <3>1. own'[k] = NoFiles
      <4>1. own'[k] \in Contents /\ \A i \in Index : own'[k][i] = 0
        BY <2>1, <2>3, <1>2, <1>4 DEF Index
      <4>2. QED
        BY <4>1, NoFile
    <3>2. QED
      BY <3>1, <2>3, <1>1, <1>2, <1>3 DEF UnitInv, Purging, Publishing, Aborting, Halting, Index
  <2>4. QED
    BY <2>2, <2>3, <1>2 DEF Index
<1>13. StepInv' /\ WriterInv' /\ ReadInv'
  BY <1>1, <1>2, <1>3 DEF CacheIInv, StepInv, WriterInv, ReadInv, InLru, Loading, Halting, Index,
     Replacing, Purging, Removing, Aborting, Publishing, AtFiles
<1>14. QED
  BY <1>10, <1>11, <1>12, <1>13 DEF CacheIInv

\* A temporary file stays behind although detach() goes on.
LEMMA OwnLeaked ==
    ASSUME TypeInv, NEW k \in Keys, NEW i \in Index, dirty[k][i] # 0, dirty' = dirty,
           leaked' = leaked \cup {<<k, i, dirty[k][i]>>}
    PROVE  /\ own' \in [Keys -> Contents] /\ own'[k][i] = 0
           /\ \A j \in Keys \ {k} : own'[j] = own[j]
           /\ \A h \in Index \ {i} : own'[k][h] = own[k][h]
           /\ leaked' \subseteq Keys \X Index \X (1..Recovered)
<1>1. dirty \in [Keys -> Contents] /\ MaxEdits \in Nat
  BY CacheAssumption DEF TypeInv
<1>2. /\ own \in [Keys -> Contents] /\ own' \in [Keys -> Contents]
      /\ \A j \in Keys, h \in Index :
           own[j][h] = Kept(leaked, j, h, dirty[j][h]) /\ own'[j][h] = Kept(leaked', j, h, dirty[j][h])
  BY <1>1, OwnFiles DEF own
<1>3. own'[k][i] = 0
  BY <1>2 DEF Kept
<1>4. ASSUME NEW j \in Keys, NEW h \in Index, j # k \/ h # i PROVE own'[j][h] = own[j][h]
  BY <1>2, <1>4 DEF Kept
<1>5. ASSUME NEW j \in Keys \ {k} PROVE own'[j] = own[j]
  <2>1. own[j] \in Contents /\ own'[j] \in Contents
    BY <1>2
  <2>2. QED
    BY <2>1, <1>4 DEF Contents
<1>6. leaked' \subseteq Keys \X Index \X (1..Recovered)
  <2>1. dirty[k][i] \in 1..Recovered
    BY <1>1 DEF Contents, Recovered
  <2>2. QED
    BY <2>1 DEF TypeInv
<1>7. QED
  BY <1>2, <1>3, <1>4, <1>5, <1>6

\* detach() swallows a failing deletion: the file is left behind.
LEMMA DeleteDirtyFailsKeeps ==
    ASSUME CacheIInv, DeleteDirtyFails
    PROVE  CacheIInv'
<1> SUFFICES ASSUME NEW k, k = key PROVE CacheIInv'
  OBVIOUS
<1> USE DEF DeleteDirtyFails, memory
<1>1. /\ step \in Halting /\ step \in Removing /\ step \notin Publishing /\ step = "deleteDirty"
  BY DEF Halting, Removing, Publishing
<1>2. /\ up /\ Known /\ k = key /\ k \in Keys /\ InLru(k) /\ nth \in Index /\ KeyInv(k)
      /\ entry[k].editor \notin {0, Recovered} /\ k \notin durable
      /\ k \notin torn => Edited(k) /\ Told(Found, k).op = "DIRTY"
  BY <1>1, AtEntry
<1>3. /\ UNCHANGED <<journal, backup, clean, dirty, up, buffer, writer, memory, trimFailed, nextSeq,
                     edits, pub, durable, torn, method, key>>
      /\ IF nth = 1 THEN nth' = 2 /\ step' = step ELSE nth' = nth /\ step' = "detach"
      /\ step' \in Halting
  BY <1>1 DEF NextValue, Goto, Halting, Aborting, disk
<1>4. /\ own' \in [Keys -> Contents] /\ own'[k][nth] = 0
      /\ \A j \in Keys \ {k} : own'[j] = own[j]
      /\ \A h \in Index \ {nth} : own'[k][h] = own[k][h]
      /\ leaked' \subseteq Keys \X Index \X (1..Recovered)
  BY <1>2, <1>3, OwnLeaked DEF CacheIInv
<1>5. Found' = Found /\ step' \notin Publishing
  BY <1>3 DEF Found, Publishing, Halting, Aborting
<1>6. DiskSays(k, Told(Found, k))'
  BY <1>2, <1>3, <1>5 DEF DiskSays
<1>7. \A i \in Index : ~Published(k, i) /\ ~Published(k, i)'
  BY <1>1, <1>5 DEF Published
<1>8. Edited(k) => Edited(k)'
  BY <1>2, <1>3, <1>4, <1>5, <1>7 DEF Edited, Publishing
<1>9. KeyInv(k)'
  BY <1>2, <1>3, <1>5, <1>7, <1>8, LineTypes DEF KeyInv, InLru
<1>10. TypeInv' /\ BufferInv' /\ DiskInv' /\ MemoryInv'
  <2>1. /\ UNCHANGED <<journal, backup, up, writer, nextSeq, edits, pub, key, clean, dirty>>
        /\ UNCHANGED <<trimFailed, buffer, size, entry, lru, durable, torn>>
    BY <1>3
  <2>2. /\ trimFailed' \in BOOLEAN /\ buffer' = buffer /\ size' \in Nat /\ (Known' => Known)
        /\ clean' \in [Keys -> Contents] /\ dirty' \in [Keys -> Contents]
        /\ entry' \in [Keys -> EntryType] /\ lru' \in Seq(Keys) /\ Once(lru')
        /\ durable' \in SUBSET Keys /\ torn' \in SUBSET Keys
        /\ leaked' \subseteq Keys \X Index \X (1..Recovered)
    BY <2>1, <1>2, <1>3, <1>4 DEF CacheIInv, TypeInv
  <2>3. /\ InLru(k)' /\ \A j \in Keys : InLru(j) <=> InLru(j)'
        /\ \A j \in Keys \ {k} : clean'[j] = clean[j] /\ dirty'[j] = dirty[j] /\ own'[j] = own[j]
    BY <2>1, <1>2, <1>3, <1>4 DEF InLru
  <2>4. QED
    BY <2>1, <2>2, <2>3, <1>2, <1>5, <1>6, <1>9, OneEntry
<1>11. SizeInv' /\ SeqInv'
  BY <1>3, <1>2, SeqSame DEF CacheIInv, SizeInv
<1>12. UnitInv'
  <2>1. \A j \in Index : j < nth => own[k][j] = 0
    BY <1>1, <1>2 DEF CacheIInv, UnitInv
  <2>2. CASE nth = 1
    BY <2>1, <2>2, <1>1, <1>2, <1>3, <1>4 DEF UnitInv, Purging, Publishing, Aborting, Halting, Index
  <2>3. CASE nth = 2
    <3>1. own'[k] = NoFiles
      <4>1. own'[k] \in Contents /\ \A i \in Index : own'[k][i] = 0
        BY <2>1, <2>3, <1>2, <1>4 DEF Index
      <4>2. QED
        BY <4>1, NoFile
    <3>2. QED
      BY <3>1, <2>3, <1>1, <1>2, <1>3 DEF UnitInv, Purging, Publishing, Aborting, Halting, Index
  <2>4. QED
    BY <2>2, <2>3, <1>2 DEF Index
<1>13. StepInv' /\ WriterInv' /\ ReadInv'
  BY <1>1, <1>2, <1>3 DEF CacheIInv, StepInv, WriterInv, ReadInv, InLru, Loading, Halting, Index,
     Replacing, Purging, Removing, Aborting, Publishing, AtFiles
<1>14. QED
  BY <1>10, <1>11, <1>12, <1>13 DEF CacheIInv

\* The editor is detached once its temporary files are gone.
LEMMA DetachKeeps ==
    ASSUME CacheIInv, Detach
    PROVE  CacheIInv'
<1> SUFFICES ASSUME NEW k, k = key PROVE CacheIInv'
  OBVIOUS
<1> USE DEF Detach, ghost
<1>1. step = "detach" /\ step \in Halting /\ step \in Removing /\ step \notin Publishing
  BY DEF Halting, Removing, Publishing
<1>2. /\ up /\ Known /\ k = key /\ k \in Keys /\ InLru(k) /\ nth \in Index /\ KeyInv(k)
      /\ entry[k].editor \notin {0, Recovered} /\ k \notin durable
      /\ k \notin torn => Edited(k) /\ Told(Found, k).op = "DIRTY"
      /\ method \in {"write", "get", "remove", "evictAll", "flush", "close", "cleanup"}
  BY <1>1, AtEntry
<1>3. /\ UNCHANGED <<disk, up, buffer, writer, lru, size, trimFailed, nextSeq, ghost>>
      /\ \/ method = "write" /\ method' = "none" /\ step' = "rest" /\ nth' = 0
         \/ method # "write" /\ method' = method /\ step' = "deleteClean" /\ key' = k /\ nth' = 1
      /\ step' \notin Publishing \cup Halting
  BY <1>2 DEF Return, ToFiles, Publishing, Halting, Aborting
<1>4. entry \in [Keys -> EntryType] /\ own[k] = NoFiles /\ own' = own
  BY <1>1, <1>2, <1>3, OwnSame DEF CacheIInv, TypeInv, UnitInv, disk
<1>5. /\ entry' \in [Keys -> EntryType]
      /\ \A j \in Keys \ {k} : entry'[j] = entry[j]
      /\ entry'[k].editor = 0 /\ ~entry'[k].held /\ entry'[k].writes = {} /\ entry'[k].left = {}
      /\ entry'[k].readable = entry[k].readable /\ entry'[k].len = entry[k].len
  <2>1. entry[k] \in EntryType
    BY <1>2, <1>4
  <2>2. entry' = [entry EXCEPT ![k] = Released(entry[k])]
    BY <1>2
  <2>3. QED
    BY <2>1, <2>2, <1>2, <1>4, ReleasedEntry
<1>6. Found' = Found
  BY <1>3 DEF Found, disk
<1>7. DiskSays(k, Told(Found, k))'
  BY <1>2, <1>3, <1>6 DEF DiskSays, disk
<1>8. \A i \in Index : ~Published(k, i) /\ ~Published(k, i)'
  BY <1>1, <1>3 DEF Published
<1>9. Edited(k) => Unedited(k)'
  BY <1>2, <1>3, <1>4, <1>5, <1>8 DEF Edited, Unedited, disk
<1>10. KeyInv(k)'
  BY <1>2, <1>3, <1>5, <1>6, <1>8, <1>9, LineTypes DEF KeyInv, InLru
<1>11. TypeInv' /\ BufferInv' /\ DiskInv' /\ MemoryInv'
  BY SMTT(30), <1>2, <1>3, <1>4, <1>5, <1>7, <1>10, OneEntry DEF CacheIInv, TypeInv, InLru, disk
<1>12. SizeInv'
  <2>1. \A j \in Keys, i \in Index : entry'[j].len[i] = entry[j].len[i]
    BY <1>5
  <2>2. SumOf(Elements(lru), entry') = SumOf(Elements(lru), entry)
    <3> DEFINE K == Elements(lru)
    <3>1. K \in SUBSET Keys
      BY EditingFinite DEF CacheIInv
    <3> HIDE DEF K
    <3>2. ASSUME NEW f, f = entry', NEW e, e = entry PROVE SumOf(K, f) = SumOf(K, e)
      <4>1. \A j \in K \cup K, i \in Index :
               j \in K /\ e[j].len[i] = 1 <=> j \in K /\ f[j].len[i] = 1
        BY <2>1, <3>1, <3>2
      <4>2. QED
        BY ONLY <4>1, SumSame
    <3>3. QED
      BY <3>2 DEF K
  <2>3. QED
    BY <2>2, <1>3, <1>2 DEF CacheIInv, SizeInv, SumOf
<1>13. SeqInv'
  BY <1>2, <1>3, <1>5, SeqEnded DEF CacheIInv
<1>14. StepInv' /\ WriterInv' /\ UnitInv' /\ ReadInv'
  BY <1>1, <1>2, <1>3, <1>5 DEF CacheIInv, StepInv, WriterInv, UnitInv, ReadInv, InLru, Loading, Halting, Index,
     Replacing, Purging, Removing, Aborting, Publishing, AtFiles, disk
<1>15. QED
  BY <1>11, <1>12, <1>13, <1>14 DEF CacheIInv

\* The length of one value changes.
Relen(e, i, v) == [e EXCEPT !.len[i] = v]

\* The rest of the entry stays.
LEMMA LenChanged ==
    ASSUME NEW e \in EntryType, NEW i \in Index, NEW v \in {0, 1}
    PROVE  /\ Relen(e, i, v) \in EntryType /\ Relen(e, i, v).len[i] = v
           /\ \A h \in Index \ {i} : Relen(e, i, v).len[h] = e.len[h]
           /\ Relen(e, i, v).readable = e.readable /\ Relen(e, i, v).editor = e.editor
           /\ Relen(e, i, v).held = e.held /\ Relen(e, i, v).writes = e.writes
           /\ Relen(e, i, v).left = e.left
<1>1. [e.len EXCEPT ![i] = v] \in [Index -> 0..1]
  BY DEF EntryType
<1>2. Relen(e, i, v) = [e EXCEPT !.len = [e.len EXCEPT ![i] = v]]
  BY DEF Relen
<1>3. QED
  BY <1>1, <1>2 DEF EntryType

\* removeEntry: a value goes.
LEMMA DeleteCleanKeeps ==
    ASSUME CacheIInv, DeleteClean
    PROVE  CacheIInv'
<1> SUFFICES ASSUME NEW k, k = key PROVE CacheIInv'
  OBVIOUS
<1>1. step = "deleteClean" /\ step \in Removing /\ step \notin Publishing \cup Halting
  BY DEF DeleteClean, Halting, Removing, Publishing, Aborting
<1>2. /\ up /\ Known /\ k = key /\ k \in Keys /\ InLru(k) /\ nth \in Index /\ KeyInv(k)
      /\ entry[k].editor = 0
      /\ method \in {"get", "remove", "evictAll", "flush", "close", "cleanup"}
  BY <1>1, AtEntry
<1>3. /\ UNCHANGED <<journal, backup, dirty, up, buffer, writer, lru, trimFailed, nextSeq,
                     edits, pub, torn, leaked, method, key>>
      /\ IF nth = 1 THEN nth' = 2 /\ step' = step ELSE nth' = nth /\ step' = "removed"
      /\ durable' = durable \ {k} /\ size' = size - entry[k].len[nth]
      /\ clean' = Changed(clean, k, nth, 0)
      /\ entry' = [entry EXCEPT ![k] = Relen(entry[k], nth, 0)]
      /\ step' \notin Publishing \cup Halting
  BY <1>1 DEF DeleteClean, NextValue, Goto, Halting, Aborting, Publishing, Changed, Relen
<1>4. /\ clean \in [Keys -> Contents] /\ 0 \in 0..Recovered /\ 0 \in 0..1
      /\ entry \in [Keys -> EntryType] /\ entry[k] \in EntryType
      /\ size \in Nat /\ torn \subseteq Keys /\ durable \subseteq Keys
  BY SMTT(30), <1>2, EntryTypes, CacheAssumption DEF CacheIInv, TypeInv, Recovered
<1>o. own' = own
  BY <1>3, OwnSame
<1>5. /\ clean' \in [Keys -> Contents] /\ clean'[k][nth] = 0
      /\ \A j \in Keys \ {k} : clean'[j] = clean[j]
      /\ \A h \in Index \ {nth} : clean'[k][h] = clean[k][h]
  <2>1. /\ Changed(clean, k, nth, 0) \in [Keys -> Contents] /\ Changed(clean, k, nth, 0)[k][nth] = 0
        /\ \A j \in Keys \ {k} : Changed(clean, k, nth, 0)[j] = clean[j]
        /\ \A h \in Index \ {nth} : Changed(clean, k, nth, 0)[k][h] = clean[k][h]
    BY ONLY <1>2, <1>4, FileChanged
  <2>2. QED
    BY ONLY <1>3, <2>1
<1>6. /\ entry' \in [Keys -> EntryType] /\ entry'[k].len[nth] = 0
      /\ \A j \in Keys \ {k} : entry'[j] = entry[j]
      /\ \A h \in Index \ {nth} : entry'[k].len[h] = entry[k].len[h]
      /\ entry'[k].readable = entry[k].readable /\ entry'[k].editor = entry[k].editor
      /\ entry'[k].held = entry[k].held /\ entry'[k].writes = entry[k].writes
      /\ entry'[k].left = entry[k].left
  <2>1. /\ Relen(entry[k], nth, 0) \in EntryType /\ Relen(entry[k], nth, 0).len[nth] = 0
        /\ \A h \in Index \ {nth} : Relen(entry[k], nth, 0).len[h] = entry[k].len[h]
        /\ Relen(entry[k], nth, 0).readable = entry[k].readable
        /\ Relen(entry[k], nth, 0).editor = entry[k].editor
        /\ Relen(entry[k], nth, 0).held = entry[k].held
        /\ Relen(entry[k], nth, 0).writes = entry[k].writes
        /\ Relen(entry[k], nth, 0).left = entry[k].left
    <3>1. entry[k] \in EntryType /\ nth \in Index /\ 0 \in {0, 1}
      BY <1>2, <1>4
    <3>2. QED
      BY ONLY <3>1, LenChanged
  <2>2. entry'[k] = Relen(entry[k], nth, 0)
    BY <1>2, <1>3, <1>4
  <2>3. QED
    BY <2>1, <2>2, <1>2, <1>3, <1>4
<1>7. Found' = Found
  BY <1>3 DEF Found
<1>8. DiskSays(k, Told(Found, k))'
  <2>1. DiskSays(k, Told(Found, k))
    BY <1>2 DEF CacheIInv, DiskInv
  <2>2. clean[k] = NoFiles => clean'[k] = NoFiles
    <3>1. clean'[k] \in Contents
      BY <1>2, <1>5
    <3>2. clean[k] = NoFiles => \A i \in Index : clean'[k][i] = 0
      BY <1>2, <1>5 DEF NoFiles
    <3>3. QED
      BY <3>1, <3>2, NoFile
  <2>3. QED
    BY <2>1, <2>2, <1>2, <1>3, <1>5, <1>7, <1>o DEF DiskSays
<1>9. \A i \in Index : ~Published(k, i) /\ ~Published(k, i)'
  BY <1>1, <1>3 DEF Published
<1>10. KeyInv(k)'
  <2>1. Unedited(k) => Unedited(k)'
    BY <1>2, <1>3, <1>5, <1>6, <1>o DEF Unedited
  <2>2. QED
    BY <2>1, <1>2, <1>3, <1>6, <1>9, LineTypes DEF KeyInv, InLru
<1>11. SumOf(Elements(lru), entry') = SumOf(Elements(lru), entry) - entry[k].len[nth]
       /\ size' \in Nat
  <2> DEFINE K == Elements(lru)
  <2>1. K \in SUBSET Keys /\ IsFiniteSet(K) /\ SumOf(K, entry) \in Nat /\ k \in K
    BY <1>2, EditingFinite DEF CacheIInv, InLru
  <2>2. SumOf(K, entry) <= size
    BY <1>2 DEF CacheIInv, SizeInv
  <2> HIDE DEF K
  <2>3. entry[k].len[nth] \in 0..1
    BY <1>2, <1>4 DEF EntryType
  <2>4. ASSUME NEW f, f = entry', NEW e, e = entry, NEW i, i = nth
        PROVE  SumOf(K, f) = SumOf(K, e) - e[k].len[i] /\ SumOf(K, f) \in Nat
    <3>1. SumOf(K, f) \in Nat /\ SumOf(K, e) \in Nat
      BY ONLY <2>1, SumFinite
    <3>2. CASE e[k].len[i] = 1
      <4>1. e[k].len[i] = 1 /\ f[k].len[i] # 1 /\ i \in Index
        BY <3>2, <1>6, <2>4, <1>2
      <4>2. \A j \in K, h \in Index : <<j, h>> # <<k, i>> => f[j].len[h] = e[j].len[h]
        BY <1>6, <2>4, <2>1
      <4>3. SumOf(K, f) = SumOf(K, e) - 1
        BY ONLY <4>1, <4>2, <2>1, SumLess
      <4>4. QED
        BY <3>1, <3>2, <4>3
    <3>3. CASE e[k].len[i] = 0
      <4>1. \A j \in K \cup K, h \in Index :
               j \in K /\ e[j].len[h] = 1 <=> j \in K /\ f[j].len[h] = 1
        BY <1>6, <2>4, <2>1, <3>3
      <4>2. SumOf(K, f) = SumOf(K, e)
        BY ONLY <4>1, SumSame
      <4>3. QED
        BY <3>1, <3>3, <4>2
    <3>4. QED
      BY <3>2, <3>3, <2>3, <2>4
  <2>5. SumOf(K, entry') = SumOf(K, entry) - entry[k].len[nth] /\ SumOf(K, entry') \in Nat
    BY <2>4
  <2>6. QED
    BY <2>1, <2>2, <2>3, <2>5, <1>3, <1>4 DEF K
<1>12. SizeInv'
  <2>1. SumOf(Elements(lru), entry) \in Nat /\ entry[k].len[nth] \in 0..1
    BY <1>2, <1>4, EditingFinite DEF CacheIInv, EntryType
  <2>2. SumOf(Elements(lru), entry)' = SumOf(Elements(lru), entry')
    BY <1>3 DEF SumOf
  <2>3. QED
    BY <2>1, <2>2, <1>11, <1>2, <1>3, <1>4 DEF CacheIInv, SizeInv
<1>13. TypeInv' /\ BufferInv' /\ DiskInv' /\ MemoryInv'
  BY <1>1, <1>2, <1>3, <1>4, <1>5, <1>6, <1>8, <1>10, <1>11, <1>o, OneEntry DEF CacheIInv, TypeInv, InLru
<1>14. SeqInv'
  BY <1>3, <1>6, SeqSame DEF CacheIInv
<1>15. UnitInv'
  BY <1>1, <1>2, <1>3, <1>5, <1>6 DEF CacheIInv, UnitInv, Purging, Publishing, Aborting, Halting, Index
<1>16. StepInv' /\ WriterInv' /\ ReadInv'
  BY <1>1, <1>2, <1>3 DEF CacheIInv, StepInv, WriterInv, ReadInv, InLru, Loading, Halting, Index,
     Replacing, Purging, Removing, Aborting, Publishing, AtFiles
<1>17. QED
  BY <1>12, <1>13, <1>14, <1>15, <1>16 DEF CacheIInv

\* removeEntry ends: a REMOVE line is written, and the entry goes.
LEMMA RemovedKeeps ==
    ASSUME CacheIInv, Removed
    PROVE  CacheIInv'
<1> SUFFICES ASSUME NEW k, k = key PROVE CacheIInv'
  OBVIOUS
<1>1. step = "removed" /\ step \in Removing /\ step \notin Publishing \cup Halting
  BY DEF Removed, Halting, Removing, Publishing, Aborting
<1>2. /\ up /\ Known /\ k = key /\ k \in Keys /\ InLru(k) /\ nth \in Index /\ KeyInv(k)
      /\ entry[k].editor = 0
      /\ method \in {"get", "remove", "evictAll", "flush", "close", "cleanup"}
  BY <1>1, AtEntry
<1>3. /\ UNCHANGED <<journal, backup, clean, dirty, up, writer, size, nextSeq, edits, pub, durable, torn, leaked>>
      /\ buffer' = IF writer = "file" THEN Append(buffer, Line("REMOVE", k)) ELSE buffer
      /\ lru' = WithoutKey(lru, k) /\ entry' = [entry EXCEPT ![k] = NoEntry]
      /\ trimFailed' \in BOOLEAN
      /\ \/ method \in {"get", "remove"} /\ method' = "none" /\ step' = "rest"
         \/ method = "evictAll" /\ method' = method /\ step' = "evictAll"
         \/ method \in {"flush", "close", "cleanup"} /\ method' = method /\ step' = "trim"
      /\ step' \notin Publishing \cup Halting
  <2>1. trimFailed' \in BOOLEAN
    BY DEF Removed, CacheIInv, TypeInv
  <2>2. \/ method \in {"get", "remove"} /\ method' = "none" /\ step' = "rest"
        \/ method = "evictAll" /\ method' = method /\ step' = "evictAll"
        \/ method \in {"flush", "close", "cleanup"} /\ method' = method /\ step' = "trim"
    BY <1>2 DEF Removed, Return, Leave
  <2>3. QED
    BY <2>1, <2>2, <1>2 DEF Removed, Log, files, Halting, Aborting, Publishing
<1>4. /\ clean \in [Keys -> Contents] /\ dirty \in [Keys -> Contents]
      /\ entry \in [Keys -> EntryType] /\ lru \in Seq(Keys) /\ Once(lru)
      /\ size \in Nat /\ torn \subseteq Keys /\ durable \subseteq Keys /\ buffer \in Seq(Entries)
      /\ leaked \subseteq Keys \X Index \X (1..Recovered) /\ own' = own
  BY <1>3, OwnSame DEF CacheIInv, TypeInv
<1>5. /\ clean[k] = NoFiles /\ k \notin durable /\ \A i \in Index : entry[k].len[i] = 0
      /\ k \notin torn => own[k] = NoFiles
  <2>1. k \notin durable /\ \A i \in Index : clean[k][i] = 0 /\ entry[k].len[i] = 0
    BY <1>1, <1>2 DEF CacheIInv, UnitInv
  <2>2. clean[k] \in Contents
    BY <1>2, <1>4
  <2>3. QED
    BY <2>1, <2>2, <1>2, NoFile DEF KeyInv, Unedited
<1>6. /\ lru' \in Seq(Keys) /\ Once(lru') /\ Elements(lru') = Elements(lru) \ {k}
      /\ entry' \in [Keys -> EntryType] /\ entry'[k] = NoEntry
      /\ \A j \in Keys \ {k} : entry'[j] = entry[j] /\ (InLru(j) <=> InLru(j)')
      /\ ~InLru(k)'
  <2>1. lru' \in Seq(Keys) /\ Once(lru') /\ Elements(lru') = Elements(lru) \ {k}
    BY <1>2, <1>3, <1>4, Touched
  <2>2. QED
    BY <2>1, <1>2, <1>3, <1>4, EntryTypes DEF InLru
<1>7. Found' = Found
  BY <1>3 DEF Found
<1>8. DiskSays(k, Told(Found, k))'
  <2>1. DiskSays(k, Told(Found, k))
    BY <1>2 DEF CacheIInv, DiskInv
  <2>2. QED
    BY <2>1, <1>3, <1>4, <1>7 DEF DiskSays
<1>9. KeyInv(k)'
  BY <1>2, <1>3, <1>4, <1>5, <1>6, EntryTypes, LineTypes DEF KeyInv, Unedited, NoFiles
<1>10. buffer' \in Seq(Entries) /\ BufferInv'
  <2>1. Line("REMOVE", k) \in Entries /\ Line("REMOVE", k).op = "REMOVE" /\ Line("REMOVE", k).key = k
    BY <1>2, LineTypes DEF Line
  <2>2. /\ buffer' \in Seq(Entries)
        /\ \A n \in 1..Len(buffer') :
              (n \in 1..Len(buffer) /\ buffer'[n] = buffer[n]) \/ buffer'[n] = Line("REMOVE", k)
    BY <2>1, <1>3, <1>4
  <2>3. \A n \in 1..Len(buffer) : buffer[n].key \in Keys
    <3>1. \A n \in 1..Len(buffer) : buffer[n] \in Entries
      BY <1>4
    <3>2. QED
      BY <3>1 DEF Entries
  <2>4. ASSUME NEW n \in 1..Len(buffer')
        PROVE  /\ buffer'[n].op \in {"READ", "REMOVE"}
               /\ buffer'[n].op = "REMOVE" =>
                    /\ buffer'[n].key \notin Elements(lru') /\ buffer'[n].key \notin durable'
                    /\ buffer'[n].key \notin torn' =>
                          clean'[buffer'[n].key] = NoFiles /\ own'[buffer'[n].key] = NoFiles
    <3>1. CASE buffer'[n] = Line("REMOVE", k)
      BY <3>1, <2>1, <1>3, <1>4, <1>5, <1>6 DEF InLru
    <3>2. CASE n \in 1..Len(buffer) /\ buffer'[n] = buffer[n]
      BY <3>2, <2>3, <1>3, <1>4, <1>6 DEF CacheIInv, BufferInv, InLru
    <3>3. QED
      BY <3>1, <3>2, <2>2
  <2>5. QED
    BY <2>2, <2>4 DEF BufferInv, InLru
<1>11. TypeInv' /\ BufferInv' /\ DiskInv' /\ MemoryInv'
  BY <1>1, <1>2, <1>3, <1>4, <1>6, <1>8, <1>9, <1>10, OneEntry
<1>12. SizeInv'
  <2> DEFINE K == Elements(lru)
             M == Elements(lru')
  <2>1. K \subseteq Keys /\ M = K \ {k}
    BY <1>6, EditingFinite DEF CacheIInv
  <2> HIDE DEF K, M
  <2>2. ASSUME NEW f, f = entry', NEW e, e = entry, NEW N, N = M PROVE SumOf(N, f) = SumOf(K, e)
    <3>1. \A j \in K \cup N, i \in Index :
             j \in K /\ e[j].len[i] = 1 <=> j \in N /\ f[j].len[i] = 1
      BY <2>1, <2>2, <1>5, <1>6
    <3>2. QED
      BY ONLY <3>1, SumSame
  <2>3. SumOf(Elements(lru), entry)' = SumOf(Elements(lru), entry)
    BY <2>2 DEF K, M, SumOf
  <2>4. QED
    BY <2>3, <1>3, <1>2 DEF CacheIInv, SizeInv
<1>13. SeqInv'
  BY <1>2, <1>3, <1>6, EntryTypes, SeqSame DEF CacheIInv
<1>14. StepInv' /\ WriterInv' /\ UnitInv' /\ ReadInv'
  BY <1>1, <1>2, <1>3 DEF CacheIInv, StepInv, WriterInv, UnitInv, ReadInv, Loading, Halting,
     Replacing, Purging, Removing, Aborting, Publishing, AtFiles
<1>15. QED
  BY <1>11, <1>12, <1>13, <1>14 DEF CacheIInv

\* completeEdit: a temporary file becomes the value.
LEMMA PublishKeeps ==
    ASSUME CacheIInv, Publish
    PROVE  CacheIInv'
<1> SUFFICES ASSUME NEW k, k = key PROVE CacheIInv'
  OBVIOUS
<1>1. step = "publish" /\ step \in Publishing /\ step \notin Removing \cup Halting
  BY DEF Publish, Halting, Removing, Publishing, Aborting
<1>2. /\ up /\ Known /\ k = key /\ k \in Keys /\ InLru(k) /\ nth \in Index /\ KeyInv(k)
      /\ entry[k].editor \notin {0, Recovered} /\ k \notin durable
      /\ k \notin torn => Edited(k) /\ Told(Found, k).op = "DIRTY"
      /\ method = "commit" /\ entry[k].left = {}
  BY <1>1, AtEntry DEF CacheIInv, UnitInv
<1>3. /\ UNCHANGED <<journal, backup, up, buffer, writer, lru, trimFailed, nextSeq,
                     edits, pub, durable, leaked, method, key>>
      /\ torn' = IF Leaked(k, nth) THEN torn \cup {k} ELSE torn
      /\ IF nth = 1 THEN nth' = 2 /\ step' = step ELSE nth' = nth /\ step' = "committed"
      /\ step' \in Publishing /\ step' \notin Halting
      /\ \/ dirty[k][nth] = 0 /\ UNCHANGED <<clean, dirty, entry, size>>
         \/ /\ dirty[k][nth] # 0
            /\ size' = size - entry[k].len[nth] + 1
            /\ clean' = Changed(clean, k, nth, dirty[k][nth])
            /\ dirty' = Changed(dirty, k, nth, 0)
            /\ entry' = [entry EXCEPT ![k] = Relen(entry[k], nth, 1)]
  BY <1>1, <1>2 DEF Publish, NextValue, Goto, Halting, Aborting, Publishing, Changed, Relen, files, memory, ghost
<1>4. /\ clean \in [Keys -> Contents] /\ dirty \in [Keys -> Contents]
      /\ 0 \in 0..Recovered /\ 1 \in {0, 1} /\ dirty[k][nth] \in 0..Recovered
      /\ entry \in [Keys -> EntryType] /\ entry[k] \in EntryType
      /\ entry[k].len[nth] \in 0..1
      /\ size \in Nat /\ torn \subseteq Keys /\ durable \subseteq Keys
  <2>1. /\ clean \in [Keys -> Contents] /\ dirty \in [Keys -> Contents]
        /\ entry \in [Keys -> EntryType]
        /\ size \in Nat /\ torn \subseteq Keys /\ durable \subseteq Keys
    BY DEF CacheIInv, TypeInv
  <2>2. dirty[k][nth] \in 0..Recovered /\ entry[k].len[nth] \in 0..1
    BY <2>1, <1>2 DEF Contents, EntryType
  <2>3. QED
    BY <2>1, <2>2, <1>2, CacheAssumption DEF Recovered
<1>5. ASSUME dirty[k][nth] # 0
      PROVE  /\ clean' \in [Keys -> Contents] /\ clean'[k][nth] = dirty[k][nth]
             /\ \A j \in Keys \ {k} : clean'[j] = clean[j]
             /\ \A h \in Index \ {nth} : clean'[k][h] = clean[k][h]
  <2> SUFFICES ASSUME NEW v, v = dirty[k][nth]
               PROVE  /\ clean' \in [Keys -> Contents] /\ clean'[k][nth] = v
                      /\ \A j \in Keys \ {k} : clean'[j] = clean[j]
                      /\ \A h \in Index \ {nth} : clean'[k][h] = clean[k][h]
    OBVIOUS
  <2>1. k \in Keys /\ nth \in Index /\ clean \in [Keys -> Contents] /\ v \in 0..Recovered
    BY <1>2, <1>4
  <2>2. /\ Changed(clean, k, nth, v) \in [Keys -> Contents] /\ Changed(clean, k, nth, v)[k][nth] = v
        /\ \A j \in Keys \ {k} : Changed(clean, k, nth, v)[j] = clean[j]
        /\ \A h \in Index \ {nth} : Changed(clean, k, nth, v)[k][h] = clean[k][h]
    BY ONLY <2>1, FileChanged
  <2>3. clean' = Changed(clean, k, nth, v)
    BY <1>3, <1>5
  <2>4. QED
    BY ONLY <2>2, <2>3
<1>6. ASSUME dirty[k][nth] # 0
      PROVE  /\ dirty' \in [Keys -> Contents] /\ dirty'[k][nth] = 0
             /\ \A j \in Keys \ {k} : dirty'[j] = dirty[j]
             /\ \A h \in Index \ {nth} : dirty'[k][h] = dirty[k][h]
  <2>1. /\ Changed(dirty, k, nth, 0) \in [Keys -> Contents] /\ Changed(dirty, k, nth, 0)[k][nth] = 0
        /\ \A j \in Keys \ {k} : Changed(dirty, k, nth, 0)[j] = dirty[j]
        /\ \A h \in Index \ {nth} : Changed(dirty, k, nth, 0)[k][h] = dirty[k][h]
    <3>1. k \in Keys /\ nth \in Index /\ dirty \in [Keys -> Contents] /\ 0 \in 0..Recovered
      BY <1>2, <1>4
    <3>2. QED
      BY ONLY <3>1, FileChanged
  <2>2. QED
    BY ONLY <1>3, <1>6, <2>1
<1>7. ASSUME dirty[k][nth] # 0
      PROVE  /\ entry' \in [Keys -> EntryType] /\ entry'[k].len[nth] = 1
             /\ \A j \in Keys \ {k} : entry'[j] = entry[j]
             /\ \A h \in Index \ {nth} : entry'[k].len[h] = entry[k].len[h]
             /\ entry'[k].readable = entry[k].readable /\ entry'[k].editor = entry[k].editor
             /\ entry'[k].held = entry[k].held /\ entry'[k].writes = entry[k].writes
             /\ entry'[k].left = entry[k].left
  <2>1. /\ Relen(entry[k], nth, 1) \in EntryType /\ Relen(entry[k], nth, 1).len[nth] = 1
        /\ \A h \in Index \ {nth} : Relen(entry[k], nth, 1).len[h] = entry[k].len[h]
        /\ Relen(entry[k], nth, 1).readable = entry[k].readable
        /\ Relen(entry[k], nth, 1).editor = entry[k].editor
        /\ Relen(entry[k], nth, 1).held = entry[k].held
        /\ Relen(entry[k], nth, 1).writes = entry[k].writes
        /\ Relen(entry[k], nth, 1).left = entry[k].left
    <3>1. entry[k] \in EntryType /\ nth \in Index /\ 1 \in {0, 1}
      BY <1>2, <1>4
    <3>2. QED
      BY ONLY <3>1, LenChanged
  <2>2. entry' = [entry EXCEPT ![k] = Relen(entry[k], nth, 1)]
    BY <1>3, <1>7
  <2>3. entry'[k] = Relen(entry[k], nth, 1) /\ \A j \in Keys \ {k} : entry'[j] = entry[j]
    BY <1>2, <2>2, <1>4
  <2>4. QED
    BY ZenonT(40), <2>1, <2>2, <2>3, <1>4
<1>o. /\ \A j \in Keys \ {k} : own'[j] = own[j]
      /\ dirty[k][nth] = 0 => own' = own
      /\ dirty[k][nth] # 0 => own'[k][nth] = 0 /\ \A h \in Index \ {nth} : own'[k][h] = own[k][h]
      /\ torn \subseteq torn' /\ torn' \subseteq torn \cup {k}
      /\ k \notin torn' => own[k][nth] = dirty[k][nth]
  <2>1. k \in Keys /\ nth \in Index /\ TypeInv /\ leaked' = leaked
    BY <1>2, <1>3 DEF CacheIInv
  <2>2. ASSUME dirty[k][nth] = 0 PROVE own' = own
    BY <2>1, <2>2, <1>3, OwnSame
  <2>3. ASSUME dirty[k][nth] # 0
        PROVE  /\ own'[k][nth] = 0 /\ \A h \in Index \ {nth} : own'[k][h] = own[k][h]
               /\ \A j \in Keys \ {k} : own'[j] = own[j]
    <3>1. dirty' = Changed(dirty, k, nth, 0)
      BY <1>3, <2>3
    <3>2. QED
      BY ONLY <2>1, <2>3, <3>1, OwnDeleted
  <2>4. torn \subseteq torn' /\ torn' \subseteq torn \cup {k} /\ (k \notin torn' => ~Leaked(k, nth))
    BY <1>3
  <2>5. ~Leaked(k, nth) => own[k][nth] = dirty[k][nth]
    BY <2>1, <1>4, OwnFiles DEF own, Kept, Leaked
  <2>6. (\A j \in Keys \ {k} : own'[j] = own[j]) /\ (dirty[k][nth] = 0 => own' = own)
    BY <2>2, <2>3
  <2>7. QED
    BY <2>3, <2>4, <2>5, <2>6
<1>8. /\ clean' \in [Keys -> Contents] /\ dirty' \in [Keys -> Contents]
      /\ entry' \in [Keys -> EntryType] /\ size' \in Nat
      /\ \A j \in Keys \ {k} : clean'[j] = clean[j] /\ dirty'[j] = dirty[j] /\ entry'[j] = entry[j]
      /\ entry'[k].readable = entry[k].readable /\ entry'[k].editor = entry[k].editor
      /\ entry'[k].held = entry[k].held /\ entry'[k].writes = entry[k].writes
      /\ entry'[k].left = entry[k].left
  <2>1. CASE dirty[k][nth] = 0
    BY <2>1, <1>3, <1>4
  <2>2. CASE dirty[k][nth] # 0
    <3>1. size' \in Nat
      BY <2>2, <1>3, <1>4
    <3>2. QED
      BY <3>1, <2>2, <1>5, <1>6, <1>7
  <2>3. QED
    BY <2>1, <2>2
<1>9. Found' = Found
  BY <1>3 DEF Found
<1>10. DiskSays(k, Told(Found, k))'
  BY <1>2, <1>3, <1>9, <1>o DEF DiskSays
<1>11. \A i \in Index : Published(k, i)' <=> (Published(k, i) \/ (i = nth /\ nth \in entry[k].writes))
  <2>1. \A i \in Index : Published(k, i) <=> i \in entry[k].writes /\ i < nth
    BY <1>1, <1>2 DEF Published
  <2>2. \A i \in Index : Published(k, i)' <=> i \in entry[k].writes /\ (step' = "publish" => i < nth')
    BY <1>2, <1>3, <1>8 DEF Published
  <2>3. \A i \in Index : (step' = "publish" => i < nth') <=> (i < nth \/ i = nth)
    BY <1>1, <1>2, <1>3 DEF Index
  <2>4. QED
    BY <2>1, <2>2, <2>3
<1>12. ASSUME k \notin torn'
       PROVE  Edited(k)' /\ \A i \in Index : ~entry'[k].readable /\ entry'[k].len[i] = 1 => Published(k, i)'
  <2>1. /\ Edited(k)
        /\ \A i \in Index : ~entry[k].readable /\ entry[k].len[i] = 1 => Published(k, i)
        /\ Told(Found, k).op = "DIRTY"
    BY <1>2, <1>9, <1>12, <1>o DEF KeyInv
  <2>2. ~Published(k, nth) /\ step = "publish" /\ key = k
    BY <1>1, <1>2 DEF Published, Index
  <2>3. step' = "publish" => nth' = 2 /\ nth = 1
    BY <1>3, <1>2 DEF Index
  <2>4. CASE dirty[k][nth] = 0
    <3>1. nth \notin entry[k].writes
      BY <2>1, <2>2, <2>4, <1>2, <1>1 DEF Edited, Halting, Aborting, Index
    <3>2. UNCHANGED <<clean, dirty, own, entry, pub>> /\ \A i \in Index : Published(k, i)' <=> Published(k, i)
      BY <3>1, <2>4, <1>3, <1>11, <1>o
    <3>3. Edited(k)'
      <4>1. \A i \in Index : step' = "publish" /\ i >= nth' => i >= nth
        BY <2>3 DEF Index
      <4>2. QED
        BY <4>1, <3>2, <2>1, <2>2, <1>1, <1>3, <1>2, <1>9 DEF Edited
    <3>4. QED
      BY <3>2, <3>3, <2>1
  <2>5. CASE dirty[k][nth] # 0
    <3>1. nth \in entry[k].writes \ entry[k].left /\ dirty[k][nth] = entry[k].editor
      BY <2>1, <2>5, <1>2, <1>12, <1>o DEF Edited
    <3>2. \A i \in Index : Published(k, i)' <=> Published(k, i) \/ i = nth
      BY <3>1, <1>11
    <3>3. /\ clean'[k][nth] = entry'[k].editor /\ own'[k][nth] = 0 /\ entry'[k].len[nth] = 1
          /\ \A i \in Index \ {nth} : /\ clean'[k][i] = clean[k][i] /\ dirty'[k][i] = dirty[k][i]
                                      /\ own'[k][i] = own[k][i] /\ entry'[k].len[i] = entry[k].len[i]
      BY <3>1, <2>5, <1>5, <1>6, <1>7, <1>o
    <3>4. Told(Found, k)'.op = "DIRTY"
      BY <2>1, <1>9
    <3>5. ASSUME NEW i \in Index
          PROVE  /\ Published(k, i)' => clean'[k][i] = entry'[k].editor /\ own'[k][i] = 0
                 /\ clean'[k][i] # 0 =>
                      /\ entry'[k].len[i] = 1
                      /\ Published(k, i)' \/ (entry'[k].readable /\ clean'[k][i] = pub'[k][i])
                 /\ own'[k][i] # 0 => i \in entry'[k].writes \ entry'[k].left
                                      /\ own'[k][i] = entry'[k].editor
                 /\ i \in entry'[k].writes \ entry'[k].left /\ entry'[k].readable /\ ~Published(k, i)'
                      => dirty'[k][i] = entry'[k].editor
                 /\ step' = "publish" /\ ~entry'[k].readable /\ i >= nth' => dirty'[k][i] # 0
      <4>1. CASE i = nth
        BY <4>1, <3>2, <3>3, <1>2, <2>3 DEF Index
      <4>2. CASE i # nth
        <5>1. /\ Published(k, i) => clean[k][i] = entry[k].editor /\ own[k][i] = 0
              /\ clean[k][i] # 0 =>
                   /\ entry[k].len[i] = 1
                   /\ Published(k, i) \/ (entry[k].readable /\ clean[k][i] = pub[k][i])
              /\ own[k][i] # 0 => i \in entry[k].writes \ entry[k].left
                                   /\ own[k][i] = entry[k].editor
              /\ i \in entry[k].writes \ entry[k].left /\ entry[k].readable /\ ~Published(k, i)
                   => dirty[k][i] = entry[k].editor
              /\ ~entry[k].readable /\ i >= nth => dirty[k][i] # 0
          BY <2>1, <2>2, <1>1 DEF Edited
        <5>2. step' = "publish" /\ i >= nth' => i >= nth
          BY <2>3 DEF Index
        <5>3. QED
          BY <4>2, <5>1, <5>2, <3>2, <3>3, <1>8, <1>3
      <4>3. QED
        BY <4>1, <4>2
    <3>6. Edited(k)'
      BY <3>4, <3>5 DEF Edited
    <3>7. QED
      BY <3>2, <3>3, <3>6, <2>1, <1>8
  <2>6. QED
    BY <2>4, <2>5
<1>13. KeyInv(k)'
  BY <1>2, <1>3, <1>8, <1>12, <1>o DEF KeyInv, InLru
<1>14. SumOf(Elements(lru), entry') - SumOf(Elements(lru), entry) = size' - size
  <2> DEFINE K == Elements(lru)
  <2>1. K \in SUBSET Keys /\ IsFiniteSet(K) /\ SumOf(K, entry) \in Nat /\ k \in K
    BY <1>2, EditingFinite DEF CacheIInv, InLru
  <2> HIDE DEF K
  <2>2. CASE dirty[k][nth] = 0
    <3>1. entry' = entry /\ size' = size
      BY <2>2, <1>3
    <3>2. QED
      BY <3>1, <2>1, <1>4 DEF K
  <2>3. ASSUME dirty[k][nth] # 0, NEW f, f = entry', NEW e, e = entry, NEW i, i = nth
        PROVE  SumOf(K, f) = SumOf(K, e) + 1 - e[k].len[i] /\ SumOf(K, e) \in Nat
    <3>1. SumOf(K, f) \in Nat /\ SumOf(K, e) \in Nat
      BY ONLY <2>1, SumFinite
    <3>2. CASE e[k].len[i] = 0
      <4>1. e[k].len[i] # 1 /\ f[k].len[i] = 1 /\ i \in Index
        BY <3>2, <1>7, <2>3, <1>2
      <4>2. \A j \in K, h \in Index : <<j, h>> # <<k, i>> => e[j].len[h] = f[j].len[h]
        BY <1>7, <2>3, <2>1
      <4>3. SumOf(K, e) = SumOf(K, f) - 1
        BY ONLY <4>1, <4>2, <2>1, SumLess
      <4>4. QED
        BY <3>1, <3>2, <4>3
    <3>3. CASE e[k].len[i] = 1
      <4>1. \A j \in K \cup K, h \in Index :
               j \in K /\ e[j].len[h] = 1 <=> j \in K /\ f[j].len[h] = 1
        BY <1>7, <2>3, <2>1, <3>3
      <4>2. SumOf(K, f) = SumOf(K, e)
        BY ONLY <4>1, SumSame
      <4>3. QED
        BY <3>1, <3>3, <4>2
    <3>4. QED
      BY <3>2, <3>3, <1>4, <2>3
  <2>4. CASE dirty[k][nth] # 0
    <3>1. SumOf(K, entry') = SumOf(K, entry) + 1 - entry[k].len[nth] /\ SumOf(K, entry) \in Nat
      BY <2>3, <2>4
    <3>2. QED
      BY <3>1, <2>4, <1>3, <1>4 DEF K
  <2>5. QED
    BY <2>2, <2>4
<1>15. SizeInv'
  <2>1. SumOf(Elements(lru), entry) \in Nat /\ size' \in Nat /\ size \in Nat
    BY <1>4, <1>8, EditingFinite DEF CacheIInv
  <2>2. SumOf(Elements(lru), entry)' = SumOf(Elements(lru), entry')
    BY <1>3 DEF SumOf
  <2>3. SumOf(Elements(lru), entry') \in Nat
    <3> DEFINE K == Elements(lru)
    <3>1. K \in SUBSET Keys /\ IsFiniteSet(K)
      BY EditingFinite DEF CacheIInv
    <3> HIDE DEF K
    <3>2. ASSUME NEW f, f = entry' PROVE SumOf(K, f) \in Nat
      BY ONLY <3>1, SumFinite
    <3>3. QED
      BY <3>2 DEF K
  <2>4. QED
    BY <2>1, <2>2, <2>3, <1>14, <1>2, <1>3, <1>o DEF CacheIInv, SizeInv
<1>16. TypeInv' /\ BufferInv' /\ DiskInv' /\ MemoryInv'
  <2>1. /\ torn' \in SUBSET Keys /\ leaked' \subseteq Keys \X Index \X (1..Recovered)
        /\ \A j \in Keys \ {k} : j \in torn <=> j \in torn'
    BY <1>2, <1>3, <1>4, <1>o DEF CacheIInv, TypeInv
  <2>2. QED
    BY <2>1, <1>1, <1>2, <1>3, <1>4, <1>8, <1>10, <1>13, <1>o, OneEntry DEF CacheIInv, TypeInv, InLru
<1>17. SeqInv'
  BY <1>3, <1>8, SeqSame DEF CacheIInv
<1>18. UnitInv'
  BY <1>2, <1>3, <1>8 DEF UnitInv, Purging, Publishing, Halting, Aborting
<1>19. StepInv' /\ WriterInv' /\ ReadInv'
  BY SMTT(30), <1>1, <1>2, <1>3 DEF CacheIInv, StepInv, WriterInv, ReadInv, InLru, Loading, Halting, Index,
     Replacing, Purging, Removing, Aborting, Publishing, AtFiles
<1>20. QED
  BY <1>15, <1>16, <1>17, <1>18, <1>19 DEF CacheIInv

\* Fewer entries.
LEMMA SumFewer ==
    ASSUME NEW K \in SUBSET Keys, IsFiniteSet(K), NEW M \in SUBSET K, NEW e, NEW f,
           \A j \in M, i \in Index : f[j].len[i] = e[j].len[i]
    PROVE  SumOf(M, f) <= SumOf(K, e) /\ SumOf(M, f) \in Nat /\ SumOf(K, e) \in Nat
<1> DEFINE S == {x \in K \X Index : e[x[1]].len[x[2]] = 1}
           T == {x \in M \X Index : f[x[1]].len[x[2]] = 1}
<1>1. T \in SUBSET S
  OBVIOUS
<1>2. IsFiniteSet(S)
  BY SumFinite
<1> HIDE DEF S, T
<1>3. IsFiniteSet(T) /\ Cardinality(T) <= Cardinality(S)
  BY <1>1, <1>2, FS_Subset
<1>4. Cardinality(T) \in Nat /\ Cardinality(S) \in Nat
  BY <1>2, <1>3, FS_CardinalityType
<1>5. QED
  BY <1>3, <1>4 DEF S, T, SumOf

\* An edit ends with a line: CLEAN for what is there now, REMOVE for nothing.
LEMMA EditEnds ==
    ASSUME CacheIInv, NEW k \in Keys, k = key, step \in {"committed", "aborted"},
           NEW x \in Entries, x.key = k, x.op \in {"CLEAN", "REMOVE"}, LogFlushed(x),
           UNCHANGED <<backup, clean, dirty, up, size, trimFailed, edits, torn, leaked>>,
           nextSeq' = nextSeq \/ nextSeq' = nextSeq + 1,
           entry' \in [Keys -> EntryType], pub' \in [Keys -> Contents],
           \A j \in Keys \ {k} : entry'[j] = entry[j] /\ pub'[j] = pub[j],
           entry'[k].editor = 0, ~entry'[k].held, entry'[k].left = {},
           x.op = "CLEAN" => /\ lru' = lru /\ entry'[k].readable
                            /\ entry'[k].len = entry[k].len /\ x.len = entry[k].len,
           x.op = "REMOVE" => lru' = WithoutKey(lru, k) /\ entry'[k] = NoEntry,
           durable' \in SUBSET (durable \cup {k}),
           k \in durable' =>
             x.op = "CLEAN" /\ writer' = "file" /\ k \notin torn /\ clean[k] = pub'[k],
           k \notin torn =>
             /\ own[k] = NoFiles
             /\ \A i \in Index : clean[k][i] # 0 =>
                  x.op = "CLEAN" /\ clean[k][i] = pub'[k][i] /\ entry[k].len[i] = 1
             /\ x.op = "REMOVE" => \A i \in Index : entry[k].len[i] # 1,
           step' \in {"rest", "closing"}, StepInv'
    PROVE  CacheIInv'
<1>1. step \in Aborting \cup Publishing /\ step' \notin Publishing /\ up /\ Known /\ Known'
  <2>1. step \in Aborting \cup Publishing /\ step' \notin Publishing
    BY DEF Aborting, Publishing
  <2>2. QED
    BY <2>1, AtEntry DEF Known
<1>2. /\ InLru(k) /\ KeyInv(k) /\ entry[k].editor \notin {0, Recovered} /\ k \notin durable
      /\ k \notin torn => Told(Found, k).op = "DIRTY"
  BY <1>1, AtEntry DEF Halting
<1>o. own' = own
  BY OwnSame
<1>3. TypeInv /\ WriterInv /\ BufferInv /\ DiskInv /\ MemoryInv
  BY DEF CacheIInv
<1>4. /\ journal' \in Seq(Lines) /\ IsJournal(journal')
      /\ buffer' = <<>> /\ writer' \in {writer, "broken"}
      /\ writer' = "file" => journal' # <<>> /\ ~EndsTorn(journal')
      /\ journal = <<>> <=> journal' = <<>>
      /\ \A j \in Keys :
           \/ Decisive(x, j) /\ Told(Found', j) = x
           \/ DiskSays(j, Told(Found', j)) /\ (InLru(j) => Told(Found', j) = Told(Found, j))
      /\ \A j \in Keys : writer' = "file" /\ Decisive(x, j) => Told(Found', j) = x
  BY <1>3, LineFlushed
<1>5. Decisive(x, k) /\ \A j \in Keys \ {k} : ~Decisive(x, j)
  BY DEF Decisive
<1>6. /\ lru \in Seq(Keys) /\ Once(lru) /\ entry \in [Keys -> EntryType]
      /\ size \in Nat /\ torn \subseteq Keys /\ durable \subseteq Keys
      /\ \A j \in Keys : ~InLru(j) => entry[j] = NoEntry
  BY <1>3 DEF TypeInv
<1>7. /\ lru' \in Seq(Keys) /\ Once(lru')
      /\ x.op = "CLEAN" => Elements(lru') = Elements(lru)
      /\ x.op = "REMOVE" => Elements(lru') = Elements(lru) \ {k}
  BY SMTT(30), <1>6, Touched
<1>8. /\ \A j \in Keys \ {k} : InLru(j)' <=> InLru(j)
      /\ x.op = "CLEAN" => InLru(k)'
  BY <1>2, <1>7 DEF InLru
<1>9. SeqInv' /\ nextSeq' \in 0..MaxEdits
  BY <1>1, <1>2, SeqEnded DEF CacheIInv
<1>10. TypeInv'
  <2>1. \A j \in Keys : ~InLru(j)' => entry'[j] = NoEntry
    BY <1>6, <1>8
  <2>2. QED
    BY <2>1, <1>4, <1>6, <1>7, <1>9, <1>3 DEF TypeInv, IsJournal
<1>11. BufferInv'
  BY <1>4 DEF BufferInv
<1>12. ASSUME NEW j \in Keys PROVE DiskSays(j, Told(Found, j))'
  <2>1. CASE j # k
    <3>1. DiskSays(j, Told(Found', j))
      BY <2>1, <1>4, <1>5
    <3>2. pub'[j] = pub[j] /\ (j \in durable' => j \in durable)
      BY <2>1
    <3>3. QED
      BY <3>1, <3>2, <1>o DEF DiskSays
  <2>2. CASE j = k
    <3>1. Told(Found', k) = x \/ (Told(Found', k) = Told(Found, k) /\ k \notin durable')
      BY <1>2, <1>4, <1>5
    <3>2. k \notin torn /\ x.op = "REMOVE" => clean[k] = NoFiles
      <4>1. clean[k] \in Contents
        BY <1>3 DEF TypeInv
      <4>2. k \notin torn /\ x.op = "REMOVE" => \A i \in Index : clean[k][i] = 0
        OBVIOUS
      <4>3. QED
        BY <4>1, <4>2, NoFile
    <3>3. DiskSays(k, Told(Found, k))'
      BY <3>1, <3>2, <1>2, <1>o DEF DiskSays, NoFiles
    <3>4. QED
      BY <3>3, <2>2
  <2>3. QED
    BY <2>1, <2>2
<1>13. DiskInv'
  BY <1>12 DEF DiskInv
<1>14. KeyInv(k)'
  BY <1>1, <1>2, <1>8, <1>o, EntryTypes, LineTypes DEF KeyInv, Unedited, NoFiles
<1>15. MemoryInv'
  <2>1. ASSUME NEW j \in Keys \ {k}
        PROVE  Told(Found', j) = Told(Found, j) \/ entry[j].editor = 0
    BY <1>4, <1>5, <1>6, EntryTypes
  <2>2. \A j \in Keys \ {k} : j \in durable' => j \in durable
    OBVIOUS
  <2>3. QED
    BY <2>1, <2>2, <1>1, <1>3, <1>8, <1>14, <1>o, OneKey
<1>16. SizeInv'
  <2> DEFINE K == Elements(lru)
             M == Elements(lru')
  <2>1. K \in SUBSET Keys /\ IsFiniteSet(K) /\ SumOf(K, entry) \in Nat
    BY <1>3, EditingFinite
  <2>2. M = K \/ (x.op = "REMOVE" /\ M = K \ {k})
    BY <1>7
  <2>3. SumOf(K, entry) <= size /\ (torn = {} => SumOf(K, entry) = size)
    BY <1>1 DEF CacheIInv, SizeInv
  <2> HIDE DEF K, M
  <2>4. CASE x.op = "CLEAN"
    <3>1. M = K
      BY <2>2, <2>4
    <3>2. ASSUME NEW f, f = entry', NEW e, e = entry PROVE SumOf(K, f) = SumOf(K, e)
      <4>1. \A j \in K \cup K, i \in Index :
               j \in K /\ e[j].len[i] = 1 <=> j \in K /\ f[j].len[i] = 1
        BY <2>1, <2>4, <3>2
      <4>2. QED
        BY ONLY <4>1, SumSame
    <3>3. SumOf(K, entry') = SumOf(K, entry)
      BY SMTT(30), <3>2
    <3>4. SumOf(M, entry') <= size' /\ (torn' = {} => SumOf(M, entry') = size')
      BY <3>1, <3>3, <2>3
    <3>5. QED
      BY ONLY <3>4 DEF SizeInv, SumOf, M
  <2>5. CASE x.op = "REMOVE"
    <3>1. M = K \ {k} /\ M \in SUBSET K
      BY <2>2, <2>5, <1>7 DEF K, M
    <3>2. ASSUME NEW f, f = entry', NEW e, e = entry, NEW N, N = M
          PROVE  /\ SumOf(N, f) <= SumOf(K, e) /\ SumOf(N, f) \in Nat
                 /\ k \notin torn => SumOf(N, f) = SumOf(K, e)
      <4>1. N \in SUBSET K /\ \A j \in N, i \in Index : f[j].len[i] = e[j].len[i]
        BY <2>1, <3>1, <3>2
      <4>2. SumOf(N, f) <= SumOf(K, e) /\ SumOf(N, f) \in Nat
        BY ONLY <2>1, <4>1, SumFewer
      <4>3. ASSUME k \notin torn PROVE SumOf(N, f) = SumOf(K, e)
        <5>1. \A j \in K \cup N, i \in Index :
                 j \in K /\ e[j].len[i] = 1 <=> j \in N /\ f[j].len[i] = 1
          BY <4>1, <4>3, <2>5, <3>1, <3>2
        <5>2. QED
          BY ONLY <5>1, SumSame
      <4>4. QED
        BY <4>2, <4>3
    <3>3. /\ SumOf(M, entry') <= SumOf(K, entry) /\ SumOf(M, entry') \in Nat
          /\ k \notin torn => SumOf(M, entry') = SumOf(K, entry)
      BY <3>2
    <3>4. SumOf(M, entry') <= size' /\ (torn' = {} => SumOf(M, entry') = size')
      BY <3>3, <2>1, <2>3, <1>6
    <3>5. QED
      BY ONLY <3>4 DEF SizeInv, SumOf, M
  <2>6. QED
    BY <2>4, <2>5
<1>17. WriterInv' /\ UnitInv' /\ ReadInv'
  <2>1. WriterInv'
    BY <1>1, <1>4 DEF CacheIInv, WriterInv, Loading, Halting, Replacing, Purging, Removing, Aborting,
       Publishing, AtFiles
  <2>2. UnitInv'
    BY <1>1, <1>4 DEF CacheIInv, UnitInv, Loading, Halting, Replacing, Purging, Removing, Aborting,
       Publishing, AtFiles
  <2>3. ReadInv'
    BY <1>1, <1>4 DEF CacheIInv, ReadInv
  <2>4. QED
    BY <2>1, <2>2, <2>3
<1>18. QED
  BY <1>9, <1>10, <1>11, <1>13, <1>15, <1>16, <1>17 DEF CacheIInv

\* The lines an edit ends with.
LEMMA CleanLineEntry ==
    ASSUME TypeInv, NEW k \in Keys
    PROVE  /\ CleanLine(k) \in Entries /\ CleanLine(k).key = k /\ CleanLine(k).op = "CLEAN"
           /\ CleanLine(k).len = entry[k].len
           /\ Line("REMOVE", k) \in Entries /\ Line("REMOVE", k).key = k /\ Line("REMOVE", k).op = "REMOVE"
<1>1. entry[k].len \in [Index -> 0..1]
  BY DEF TypeInv, EntryType
<1>2. QED
  BY <1>1, LineTypes DEF CleanLine, Line, Entries

\* completeEdit ends: the edit is published.
LEMMA CommittedKeeps ==
    ASSUME CacheIInv, Committed
    PROVE  CacheIInv'
<1> SUFFICES ASSUME NEW k, k = key PROVE CacheIInv'
  OBVIOUS
<1>1. step = "committed" /\ step \in Publishing /\ step \notin Removing
  BY DEF Committed, Removing, Publishing
<1>2. /\ up /\ Known /\ k = key /\ k \in Keys /\ InLru(k) /\ KeyInv(k)
      /\ entry[k].editor \notin {0, Recovered} /\ k \notin durable
      /\ k \notin torn => Edited(k)
      /\ method = "commit" /\ entry[k].left = {}
  BY <1>1, AtEntry DEF CacheIInv, UnitInv
<1>3. TypeInv /\ StepInv /\ SeqInv
  BY DEF CacheIInv
<1>4. /\ CleanLine(k) \in Entries /\ CleanLine(k).key = k /\ CleanLine(k).op = "CLEAN"
      /\ CleanLine(k).len = entry[k].len /\ LogFlushed(CleanLine(k))
  BY <1>2, <1>3, CleanLineEntry DEF Committed
<1>5. /\ UNCHANGED <<backup, clean, dirty, up, size, trimFailed, edits, torn, leaked, lru>>
      /\ nextSeq' = nextSeq + 1
      /\ durable' = IF Safe(k) THEN durable \cup {k} ELSE durable
      /\ step' = "rest" /\ method' = "none"
      /\ entry' = [entry EXCEPT ![k] = [Released(@) EXCEPT !.readable = TRUE, !.seq = nextSeq]]
      /\ pub' = [pub EXCEPT ![k] =
                   [i \in Index |-> IF i \in entry[k].writes THEN entry[k].editor ELSE @[i]]]
  BY <1>2 DEF Committed, files, Return
<1>6. /\ entry \in [Keys -> EntryType] /\ entry[k] \in EntryType
      /\ pub \in [Keys -> Contents] /\ nextSeq \in 0..MaxEdits
      /\ clean[k] \in Contents /\ own[k] \in Contents
  BY <1>2, <1>3, OwnTyped DEF TypeInv
<1>7. /\ entry' \in [Keys -> EntryType] /\ \A j \in Keys \ {k} : entry'[j] = entry[j]
      /\ entry'[k].editor = 0 /\ ~entry'[k].held /\ entry'[k].left = {}
      /\ entry'[k].readable /\ entry'[k].len = entry[k].len
  <2> DEFINE r == Released(entry[k])
             c == [r EXCEPT !.readable = TRUE, !.seq = nextSeq]
  <2>1. /\ r \in EntryType
        /\ r.editor = 0 /\ ~r.held /\ r.writes = {} /\ r.left = {} /\ r.len = entry[k].len
    BY <1>6, ReleasedEntry
  <2>2. entry' = [entry EXCEPT ![k] = c]
    BY <1>5
  <2> HIDE DEF r
  <2>3. /\ c \in EntryType /\ c.readable
        /\ c.editor = 0 /\ ~c.held /\ c.left = {} /\ c.len = entry[k].len
    BY <2>1, <1>6 DEF EntryType
  <2> HIDE DEF c
  <2>4. QED
    BY <2>2, <2>3, <1>2, <1>6
<1>8. /\ pub' \in [Keys -> Contents] /\ \A j \in Keys \ {k} : pub'[j] = pub[j]
      /\ \A i \in Index : pub'[k][i] = IF i \in entry[k].writes THEN entry[k].editor ELSE pub[k][i]
  <2>1. entry[k].editor \in 0..Recovered /\ pub[k] \in Contents
    BY <1>2, <1>6 DEF EntryType
  <2>2. pub'[k] = [i \in Index |-> IF i \in entry[k].writes THEN entry[k].editor ELSE pub[k][i]]
    BY <1>2, <1>5, <1>6
  <2>3. pub'[k] \in Contents
    BY <2>1, <2>2 DEF Contents
  <2>4. QED
    BY <2>2, <2>3, <1>2, <1>5, <1>6
<1>9. ASSUME k \notin torn
      PROVE  /\ own[k] = NoFiles
             /\ \A i \in Index : clean[k][i] # 0 =>
                   clean[k][i] = pub'[k][i] /\ entry[k].len[i] = 1
  <2>1. \A i \in Index : Published(k, i) <=> i \in entry[k].writes
    BY <1>1, <1>2 DEF Published
  <2>2. \A i \in Index : own[k][i] = 0
    BY <2>1, <1>2, <1>9 DEF Edited
  <2>3. \A i \in Index : clean[k][i] # 0 => clean[k][i] = pub'[k][i] /\ entry[k].len[i] = 1
    BY <2>1, <1>2, <1>8, <1>9 DEF Edited
  <2>4. QED
    BY <2>2, <2>3, <1>6, NoFile
<1>10. StepInv' /\ step' \in {"rest", "closing"} /\ step \in {"committed", "aborted"}
  BY <1>1, <1>2, <1>3, <1>5 DEF StepInv, Loading, Replacing, Purging, Removing, Aborting, Publishing, AtFiles
<1>11. /\ durable' \in SUBSET (durable \cup {k})
       /\ k \in durable' => writer' = "file" /\ k \notin torn /\ clean[k] = pub'[k]
  BY <1>2, <1>5 DEF Safe
<1>12. QED
  <2> DEFINE x == CleanLine(k)
  <2>1. /\ x \in Entries /\ x.key = k /\ x.op = "CLEAN"
        /\ x.len = entry[k].len /\ LogFlushed(x)
    BY <1>4
  <2> HIDE DEF x
  <2>2. QED
    BY <2>1, <1>2, <1>5, <1>7, <1>8, <1>9, <1>10, <1>11, EditEnds

\* An aborted edit ends.
LEMMA AbortedKeeps ==
    ASSUME CacheIInv, Aborted
    PROVE  CacheIInv'
<1> SUFFICES ASSUME NEW k, k = key PROVE CacheIInv'
  OBVIOUS
<1>1. step = "aborted" /\ step \in Aborting /\ step \in Halting /\ step \notin Publishing \cup Removing
  BY DEF Aborted, Aborting, Halting, Publishing, Removing
<1>2. /\ up /\ Known /\ k = key /\ k \in Keys /\ InLru(k) /\ KeyInv(k)
      /\ entry[k].editor \notin {0, Recovered} /\ k \notin durable
      /\ k \notin torn => Edited(k)
      /\ method \in {"abort", "commit", "close"} /\ own[k] = NoFiles
  BY <1>1, AtEntry DEF CacheIInv, UnitInv
<1>3. TypeInv /\ StepInv /\ SeqInv
  BY DEF CacheIInv
<1>4. /\ CleanLine(k) \in Entries /\ CleanLine(k).key = k /\ CleanLine(k).op = "CLEAN"
      /\ CleanLine(k).len = entry[k].len
      /\ Line("REMOVE", k) \in Entries /\ Line("REMOVE", k).key = k /\ Line("REMOVE", k).op = "REMOVE"
  BY <1>2, <1>3, CleanLineEntry
<1>5. /\ UNCHANGED <<backup, clean, dirty, up, size, trimFailed, nextSeq, edits, pub, torn, leaked>>
      /\ step' \in {"rest", "closing"}
      /\ method' = IF step' = "closing" THEN "close" ELSE "none"
  BY <1>2 DEF Aborted, files, Return, Leave
<1>6. /\ entry \in [Keys -> EntryType] /\ entry[k] \in EntryType
      /\ pub \in [Keys -> Contents] /\ clean[k] \in Contents
  BY <1>2, <1>3 DEF TypeInv
<1>7. StepInv' /\ step \in {"committed", "aborted"}
  BY <1>1, <1>2, <1>3, <1>5 DEF StepInv, Loading, Replacing, Purging, Removing, Aborting, Publishing, AtFiles
<1>8. ASSUME k \notin torn, NEW i \in Index
      PROVE  /\ clean[k][i] # 0 => /\ entry[k].readable /\ clean[k][i] = pub[k][i]
                                   /\ entry[k].len[i] = 1
             /\ ~entry[k].readable => entry[k].len[i] # 1
  <2>1. ~Published(k, i)
    BY <1>1 DEF Published
  <2>2. QED
    BY <2>1, <1>2, <1>8 DEF Edited, KeyInv
<1>9. CASE entry[k].readable
  <2> DEFINE x == CleanLine(k)
  <2>1. /\ x \in Entries /\ x.key = k /\ x.op = "CLEAN"
        /\ x.len = entry[k].len /\ LogFlushed(x)
    BY <1>2, <1>4, <1>9 DEF Aborted
  <2> HIDE DEF x
  <2>2. /\ entry' = [entry EXCEPT ![k] = Released(entry[k])] /\ lru' = lru
        /\ durable' = IF Safe(k) THEN durable \cup {k} ELSE durable
    BY <1>2, <1>9 DEF Aborted
  <2>3. /\ entry' \in [Keys -> EntryType] /\ \A j \in Keys \ {k} : entry'[j] = entry[j]
        /\ entry'[k].editor = 0 /\ ~entry'[k].held /\ entry'[k].left = {}
        /\ entry'[k].readable /\ entry'[k].len = entry[k].len
    BY <2>2, <1>2, <1>6, <1>9, ReleasedEntry
  <2>4. /\ durable' \in SUBSET (durable \cup {k})
        /\ k \in durable' => writer' = "file" /\ k \notin torn /\ clean[k] = pub'[k]
    BY <2>2, <1>2 DEF Safe
  <2>5. QED
    BY <2>1, <2>2, <2>3, <2>4, <1>2, <1>5, <1>6, <1>7, <1>8, EditEnds
<1>10. CASE ~entry[k].readable
  <2> DEFINE x == Line("REMOVE", k)
  <2>1. x \in Entries /\ x.key = k /\ x.op = "REMOVE" /\ LogFlushed(x)
    BY <1>2, <1>4, <1>10 DEF Aborted
  <2> HIDE DEF x
  <2>2. /\ entry' = [entry EXCEPT ![k] = NoEntry] /\ lru' = WithoutKey(lru, k) /\ durable' = durable
    BY <1>2, <1>10 DEF Aborted
  <2>3. /\ entry' \in [Keys -> EntryType] /\ \A j \in Keys \ {k} : entry'[j] = entry[j]
        /\ entry'[k] = NoEntry
        /\ entry'[k].editor = 0 /\ ~entry'[k].held /\ entry'[k].left = {}
    BY <2>2, <1>2, <1>6, EntryTypes
  <2>4. QED
    BY <2>1, <2>2, <2>3, <1>2, <1>5, <1>6, <1>7, <1>8, <1>10, EditEnds
<1>11. QED
  BY <1>9, <1>10

-----------------------------------------------------------------------------
(* The journal is written, rebuilt and read. *)

\* A step about the journal files and the writer.
LEMMA LogKeeps ==
    ASSUME CacheIInv,
           UNCHANGED <<clean, dirty, up, memory, trimFailed, nextSeq, edits, pub, durable, torn, leaked>>,
           buffer' = <<>>, writer' \in {"none", "file", "broken", "blackhole"},
           journal' \in Seq(Lines), backup' \in Seq(Lines), IsJournal(journal'), IsJournal(backup'),
           \A k \in Keys : /\ DiskSays(k, Told(Found', k))
                           /\ InLru(k) => Told(Found', k) = Told(Found, k),
           Known' => Known, step \notin Publishing \cup Halting, step' \notin Publishing
    PROVE  TypeInv' /\ BufferInv' /\ DiskInv' /\ MemoryInv' /\ SizeInv' /\ SeqInv'
<1> USE DEF memory
<1>o. own' = own
  BY OwnSame
<1>1. TypeInv'
  BY DEF CacheIInv, TypeInv, InLru, IsJournal
<1>2. BufferInv'
  BY DEF BufferInv
<1>3. DiskInv'
  BY <1>o DEF DiskInv, DiskSays
<1>4. SizeInv'
  BY DEF CacheIInv, SizeInv, SumOf
<1>5. SeqInv'
  BY DEF CacheIInv, SeqInv
<1>6. ASSUME NEW k \in Keys PROVE KeyInv(k)'
  <2>1. Told(Found', k) = Told(Found, k) \/ entry[k].editor = 0
    BY EntryTypes DEF CacheIInv, TypeInv
  <2>2. InLru(k) => InLru(k)'
    BY DEF InLru
  <2>3. QED
    BY <2>1, <2>2, <1>o, KeyStays DEF CacheIInv
<1>7. QED
  BY <1>1, <1>2, <1>3, <1>4, <1>5, <1>6 DEF MemoryInv

\* The journal found says what it said.
LEMMA SameFound ==
    ASSUME CacheIInv, Found' = Found
    PROVE  \A k \in Keys : /\ DiskSays(k, Told(Found', k))
                           /\ InLru(k) => Told(Found', k) = Told(Found, k)
BY DEF CacheIInv, DiskInv

\* The buffer is written out, or cut short.
LEMMA WriteOutKeeps ==
    ASSUME CacheIInv, WriteOut
    PROVE  CacheIInv'
<1>1. /\ up /\ Known
      /\ \/ step = "flushWriter" /\ method = "flush"
         \/ step = "closeWriter" /\ method \in {"close", "cleanup"}
      /\ step \notin Publishing \cup Halting
  BY DEF WriteOut, CacheIInv, StepInv, Known, Loading, Replacing, Purging, Removing, Aborting,
     Publishing, AtFiles, Halting
<1>2. /\ UNCHANGED <<backup, clean, dirty, up, memory, trimFailed, nextSeq, edits, pub, durable, torn, leaked>>
      /\ buffer' = <<>>
      /\ \/ method = "flush" /\ method' = "none" /\ step' = "rest" /\ writer' \in {writer, "broken"}
         \/ method = "close" /\ method' = method /\ step' = "closed" /\ writer' = "none"
         \/ method = "cleanup" /\ method' = method /\ step' = "toBackup" /\ writer' = "none"
      /\ step' \notin Publishing \cup Halting
  BY <1>1 DEF WriteOut, files, Return, Goto, Publishing, Halting, Aborting
<1>3. /\ writer # "file" => journal' = journal
      /\ writer = "file" => \/ journal' = journal \o buffer
                            \/ /\ \E part \in CutShort(buffer) : journal' = journal \o part
                               /\ writer' # "file"
  BY DEF WriteOut
<1>4. TypeInv /\ WriterInv /\ BufferInv /\ DiskInv
  BY DEF CacheIInv
<1>5. /\ journal' \in Seq(Lines) /\ IsJournal(journal')
      /\ writer = "file" /\ writer' = "file" => journal' # <<>> /\ ~EndsTorn(journal')
      /\ \A k \in Keys : /\ DiskSays(k, Told(Found', k))
                         /\ InLru(k) => Told(Found', k) = Told(Found, k)
  <2>1. CASE writer # "file"
    <3>1. Found' = Found
      BY <2>1, <1>2, <1>3 DEF Found
    <3>2. QED
      BY <2>1, <3>1, <1>3, <1>4, SameFound DEF TypeInv
  <2>2. CASE writer = "file"
    <3>1. PICK p : /\ p = buffer \/ p \in CutShort(buffer)
                   /\ writer' = "file" => p = buffer
                   /\ journal' = journal \o p
      BY <2>2, <1>3
    <3>2. /\ journal' \in Seq(Lines) /\ journal' # <<>> /\ IsJournal(journal')
          /\ p = buffer => ~EndsTorn(journal')
          /\ \A k \in Keys : /\ DiskSays(k, Told(journal', k))
                             /\ InLru(k) => Told(journal', k) = Told(Found, k)
      BY <2>2, <3>1, <1>4, BufferWritten
    <3>3. Found' = journal'
      BY <3>2 DEF Found
    <3>4. QED
      BY <3>1, <3>2, <3>3
  <2>3. QED
    BY <2>1, <2>2
<1>6. TypeInv' /\ BufferInv' /\ DiskInv' /\ MemoryInv' /\ SizeInv' /\ SeqInv'
  <2>1. /\ backup' \in Seq(Lines) /\ IsJournal(backup')
        /\ writer' \in {"none", "file", "broken", "blackhole"}
    BY <1>2, <1>4 DEF TypeInv
  <2>2. QED
    BY <2>1, <1>1, <1>2, <1>5, LogKeeps
<1>7. WriterInv'
  BY <1>1, <1>2, <1>3, <1>4, <1>5 DEF WriterInv, Loading, Replacing
<1>8. StepInv' /\ UnitInv' /\ ReadInv'
  BY <1>1, <1>2 DEF CacheIInv, StepInv, UnitInv, ReadInv, Loading, Halting,
     Replacing, Purging, Removing, Aborting, Publishing, AtFiles
<1>9. QED
  BY <1>6, <1>7, <1>8 DEF CacheIInv

\* rebuildJournal: the journal becomes the backup.
LEMMA ToBackupKeeps ==
    ASSUME CacheIInv, ToBackup
    PROVE  CacheIInv'
<1>1. /\ step = "toBackup" /\ method \in {"open", "cleanup"} /\ writer = "none" /\ buffer = <<>>
      /\ step \notin Publishing \cup Halting
  BY DEF ToBackup, CacheIInv, StepInv, WriterInv, Loading, Replacing, Purging, Removing, Aborting,
     Publishing, AtFiles, Halting
<1>2. /\ UNCHANGED <<clean, dirty, up, memory, trimFailed, nextSeq, edits, pub, durable, torn, leaked>>
      /\ buffer' = <<>> /\ writer' = "none" /\ method' = method /\ step' = "toJournal"
      /\ step' \notin Publishing \cup Halting
      /\ journal' = <<>> /\ backup' \in {journal, backup}
      /\ backup' = IF journal = <<>> THEN backup ELSE journal
  BY <1>1 DEF ToBackup, files, ghost, Goto, Publishing, Halting, Aborting
<1>3. /\ <<>> \in Seq(Lines) /\ journal \in Seq(Lines) /\ backup \in Seq(Lines)
      /\ IsJournal(<<>>) /\ IsJournal(journal) /\ IsJournal(backup)
  BY DEF CacheIInv, TypeInv, IsJournal
<1>4. Found' = Found
  BY <1>2 DEF Found
<1>5. Known' => Known
  BY <1>1, <1>2 DEF Known, Loading
<1>6. TypeInv' /\ BufferInv' /\ DiskInv' /\ MemoryInv' /\ SizeInv' /\ SeqInv'
  BY <1>1, <1>2, <1>3, <1>4, <1>5, SameFound, LogKeeps
<1>7. StepInv' /\ WriterInv' /\ UnitInv' /\ ReadInv'
  BY <1>1, <1>2 DEF CacheIInv, StepInv, WriterInv, UnitInv, ReadInv, Loading, Halting,
     Replacing, Purging, Removing, Aborting, Publishing, AtFiles
<1>8. QED
  BY <1>6, <1>7 DEF CacheIInv

\* The backup goes, or becomes the journal.
LEMMA BackupKeeps ==
    ASSUME CacheIInv, DropBackup \/ FromBackup
    PROVE  CacheIInv'
<1>1. /\ step \in {"dropBackup", "dropOld", "fromBackup"} /\ writer = "none" /\ buffer = <<>>
      /\ method \in {"open", "cleanup"} /\ (step # "dropBackup" => method = "open" /\ ~up)
      /\ step \notin Publishing \cup Halting
      /\ step \in {"dropBackup", "dropOld"} => journal # <<>>
      /\ step = "dropBackup" => ~EndsTorn(journal)
      /\ step = "fromBackup" => journal = <<>> /\ backup # <<>>
      /\ step # "dropBackup" => lru = <<>> /\ nth = 2
  BY DEF DropBackup, FromBackup, CacheIInv, StepInv, WriterInv, ReadInv, Loading, Replacing, Purging,
     Removing, Aborting, Publishing, AtFiles, Halting
<1>2. /\ UNCHANGED <<clean, dirty, up, memory, trimFailed, nextSeq, edits, pub, durable, torn, leaked>>
      /\ buffer' = <<>> /\ writer' = "none" /\ method' = method /\ nth' = nth
      /\ journal' = (IF step = "fromBackup" THEN backup ELSE journal) /\ backup' = <<>>
      /\ step' = (IF step = "dropBackup" THEN "newWriter" ELSE "read")
      /\ step' \notin Publishing \cup Halting
  BY <1>1 DEF DropBackup, FromBackup, files, ghost, Goto, Publishing, Halting, Aborting
<1>3. /\ <<>> \in Seq(Lines) /\ journal \in Seq(Lines) /\ backup \in Seq(Lines)
      /\ IsJournal(<<>>) /\ IsJournal(journal) /\ IsJournal(backup) /\ TypeInv
  BY DEF CacheIInv, TypeInv, IsJournal
<1>4. Found' = Found /\ journal' # <<>>
  BY <1>1, <1>2 DEF Found
<1>5. Known' => Known
  BY <1>1, <1>2 DEF Known, Loading
<1>6. TypeInv' /\ BufferInv' /\ DiskInv' /\ MemoryInv' /\ SizeInv' /\ SeqInv'
  BY <1>1, <1>2, <1>3, <1>4, <1>5, SameFound, LogKeeps
<1>7. StepInv' /\ WriterInv' /\ UnitInv'
  BY <1>1, <1>2, <1>4 DEF CacheIInv, StepInv, WriterInv, UnitInv, EndsTorn, Loading, Halting,
     Replacing, Purging, Removing, Aborting, Publishing, AtFiles
<1>8. ReadInv'
  <2>1. CASE step = "dropBackup"
    BY <2>1, <1>1, <1>2 DEF CacheIInv, ReadInv, StepInv, Replacing, Loading, Purging, Removing,
       Aborting, Publishing
  <2>2. CASE step # "dropBackup"
    <3>1. ASSUME NEW J, J = journal'
          PROVE  /\ 2 \in 2..(Len(J) + 1) /\ J[1].op # "TORN"
                 /\ \A k \in Keys : entry[k] = NoEntry /\ ReadSays(k, Told(SubSeq(J, 1, 1), k))
      <4>1. J \in Seq(Lines) /\ IsJournal(J) /\ J # <<>> /\ lru = <<>>
        BY <2>2, <3>1, <1>1, <1>2, <1>3, <1>4
      <4>2. QED
        BY <4>1, <1>3, ReadStarts
    <3>2. nth' = 2 /\ step' = "read" /\ 2 - 1 = 1 /\ UNCHANGED <<lru, entry>>
      BY <2>2, <1>1, <1>2 DEF memory
    <3>3. /\ 2 \in 2..(Len(journal') + 1) /\ journal'[1].op # "TORN"
          /\ \A k \in Keys : ReadSays(k, Told(SubSeq(journal', 1, 1), k))
      BY <3>1
    <3>4. \A k \in Keys : ReadSays(k, Told(SubSeq(journal, 1, 1), k))'
      BY <3>2, <3>3 DEF ReadSays, InLru
    <3>5. \A k \in Keys : ReadSays(k, Told(SubSeq(journal, 1, nth - 1), k))'
      BY <3>2, <3>4
    <3>6. QED
      BY <3>2, <3>3, <3>5, <1>1, <1>2 DEF ReadInv
  <2>3. QED
    BY <2>1, <2>2
<1>9. QED
  BY <1>6, <1>7, <1>8 DEF CacheIInv

\* A new writer appends to a journal that ends in a whole line.
LEMMA NewWriterKeeps ==
    ASSUME CacheIInv, NewWriter
    PROVE  CacheIInv'
<1>1. /\ step = "newWriter" /\ writer = "none" /\ buffer = <<>>
      /\ \/ method = "open" /\ ~up
         \/ method = "cleanup" /\ up
      /\ step \notin Publishing \cup Halting /\ journal # <<>> /\ ~EndsTorn(journal)
  BY DEF NewWriter, CacheIInv, StepInv, WriterInv, Loading, Replacing, Purging,
     Removing, Aborting, Publishing, AtFiles, Halting
<1>2. /\ UNCHANGED <<journal, backup, clean, dirty, up, memory, trimFailed, nextSeq, edits, pub, durable, torn, leaked>>
      /\ buffer' = <<>> /\ writer' = "file"
      /\ \/ method = "open" /\ method' = method /\ step' = "purge"
         \/ method = "cleanup" /\ method' = "none" /\ step' = "rest"
      /\ step' \notin Publishing \cup Halting
  BY <1>1 DEF NewWriter, disk, ghost, Leave, Return, Publishing, Halting, Aborting
<1>3. journal \in Seq(Lines) /\ backup \in Seq(Lines) /\ IsJournal(journal) /\ IsJournal(backup)
  BY DEF CacheIInv, TypeInv
<1>4. Found' = Found
  BY <1>2 DEF Found
<1>5. Known' => Known
  BY <1>1, <1>2 DEF Known, Loading
<1>6. TypeInv' /\ BufferInv' /\ DiskInv' /\ MemoryInv' /\ SizeInv' /\ SeqInv'
  BY <1>1, <1>2, <1>3, <1>4, <1>5, SameFound, LogKeeps
<1>7. StepInv' /\ WriterInv' /\ UnitInv' /\ ReadInv'
  BY <1>1, <1>2 DEF CacheIInv, StepInv, WriterInv, UnitInv, ReadInv, EndsTorn, Loading, Halting,
     Replacing, Purging, Removing, Aborting, Publishing, AtFiles, disk
<1>8. QED
  BY <1>6, <1>7 DEF CacheIInv

\* What the process knew is gone, and the journal says what the files hold.
LEMMA LostKeeps ==
    ASSUME CacheIInv, MemoryLost,
           UNCHANGED <<backup, dirty, edits, pub, durable, torn, leaked>>,
           journal' \in Seq(Lines), IsJournal(journal'), clean' \in [Keys -> Contents], DiskInv'
    PROVE  CacheIInv'
<1>1. /\ up' = FALSE /\ method' = "none" /\ step' = "rest"
      /\ lru' = <<>> /\ entry' = [k \in Keys |-> NoEntry] /\ size' = 0
      /\ buffer' = <<>> /\ writer' = "none" /\ trimFailed' = FALSE /\ nextSeq' = 0
  BY DEF MemoryLost, Return
<1>2. /\ lru' \in Seq(Keys) /\ Once(lru') /\ entry' \in [Keys -> EntryType] /\ 0 \in 0..MaxEdits
      /\ \A k \in Keys : entry'[k] = NoEntry
  BY <1>1, EntryTypes, CacheAssumption DEF Once
<1>3. TypeInv'
  <2>1. up' \in BOOLEAN /\ trimFailed' \in BOOLEAN
    BY <1>1
  <2>2. buffer' \in Seq(Entries) /\ size' \in Nat /\ nextSeq' \in 0..MaxEdits
    BY <1>1, <1>2
  <2>3. backup' \in Seq(Lines) /\ IsJournal(backup')
    BY DEF CacheIInv, TypeInv
  <2>4. IsJournal(journal)' /\ IsJournal(backup)'
    BY <2>3 DEF IsJournal
  <2>5. /\ clean' \in [Keys -> Contents] /\ dirty' \in [Keys -> Contents]
        /\ pub' \in [Keys -> Contents] /\ edits' \in 0..MaxEdits
        /\ durable' \subseteq Keys /\ torn' \subseteq Keys
        /\ leaked' \subseteq Keys \X Index \X (1..Recovered)
    BY DEF CacheIInv, TypeInv
  <2>6. QED
    BY <2>1, <2>2, <2>3, <2>4, <2>5, <1>1, <1>2 DEF TypeInv
<1>4. BufferInv'
  BY <1>1 DEF BufferInv
<1>5. DiskInv'
  OBVIOUS
<1>6. MemoryInv'
  <2>1. ~Known'
    BY <1>1 DEF Known
  <2>2. QED
    BY <2>1, <1>1, <1>2, EntryTypes, LineTypes DEF MemoryInv, KeyInv
<1>7. StepInv' /\ WriterInv' /\ UnitInv' /\ ReadInv' /\ SizeInv' /\ SeqInv'
  BY <1>1 DEF StepInv, WriterInv, UnitInv, ReadInv, SizeInv, SeqInv, EndsTorn, Loading, Halting,
     Replacing, Purging, Removing, Aborting, Publishing, AtFiles
<1>8. QED
  BY <1>3, <1>4, <1>5, <1>6, <1>7 DEF CacheIInv

\* close ends: the cache can be opened again.
LEMMA ClosedKeeps ==
    ASSUME CacheIInv, Closed
    PROVE  CacheIInv'
<1>1. Found' = Found /\ journal' \in Seq(Lines) /\ IsJournal(journal') /\ clean' \in [Keys -> Contents]
  BY DEF Closed, Found, disk, CacheIInv, TypeInv
<1>2. \A k \in Keys : DiskSays(k, Told(Found', k))
  BY <1>1, SameFound DEF CacheIInv
<1>3. DiskInv'
  BY <1>2, OwnSame DEF DiskInv, DiskSays, Closed, disk, ghost
<1>4. QED
  BY <1>1, <1>3, LostKeeps DEF Closed, disk, ghost

\* The process dies with some lines in the buffer.
LEMMA CrashKeeps ==
    ASSUME CacheIInv, Crash
    PROVE  CacheIInv'
<1>1. TypeInv /\ WriterInv /\ BufferInv /\ DiskInv
  BY DEF CacheIInv
<1>2. /\ journal' \in Seq(Lines) /\ IsJournal(journal')
      /\ \A k \in Keys : DiskSays(k, Told(Found', k))
  <2>1. CASE writer # "file"
    <3>1. journal' = journal /\ Found' = Found
      BY <2>1 DEF Crash, Found
    <3>2. QED
      BY <3>1, <1>1, SameFound DEF TypeInv
  <2>2. CASE writer = "file"
    <3>1. PICK p \in CutShort(buffer) : journal' = journal \o p
      BY <2>2 DEF Crash
    <3>2. /\ journal' \in Seq(Lines) /\ journal' # <<>> /\ IsJournal(journal')
          /\ \A k \in Keys : DiskSays(k, Told(journal', k))
      BY <2>2, <3>1, <1>1, BufferWritten
    <3>3. Found' = journal'
      BY <3>2 DEF Found
    <3>4. QED
      BY <3>2, <3>3
  <2>3. QED
    BY <2>1, <2>2
<1>3. UNCHANGED <<backup, dirty, edits, pub, durable, torn, leaked>> /\ MemoryLost
  BY DEF Crash
<1>4. CASE clean' = clean
  <2>1. clean' \in [Keys -> Contents]
    BY <1>1, <1>4 DEF TypeInv
  <2>2. DiskInv'
    BY <1>2, <1>3, <1>4, OwnSame DEF DiskInv, DiskSays
  <2>3. QED
    BY <1>2, <1>3, <2>1, <2>2, LostKeeps
<1>5. CASE step = "publish" /\ clean' = [clean EXCEPT ![key][nth] = 0]
  <2>1. PICK k : k = key
    OBVIOUS
  <2>2. k \in Keys /\ nth \in Index /\ k \notin durable
        /\ clean \in [Keys -> Contents] /\ 0 \in 0..Recovered
    BY <1>1, <1>5, <2>1, AtEntry, CacheAssumption DEF Publishing, TypeInv, Halting, Recovered
  <2>3. clean' = Changed(clean, k, nth, 0)
    BY <1>5, <2>1 DEF Changed
  <2>4. /\ clean' \in [Keys -> Contents] /\ clean'[k][nth] = 0
        /\ \A j \in Keys \ {k} : clean'[j] = clean[j]
        /\ \A h \in Index \ {nth} : clean'[k][h] = clean[k][h]
    BY <2>2, <2>3, FileChanged
  <2>5. ASSUME NEW j \in Keys PROVE DiskSays(j, Told(Found, j))'
    <3>1. CASE j # k
      BY <3>1, <1>2, <1>3, <2>4, OwnSame DEF DiskSays
    <3>2. CASE j = k
      <4>1. clean[k] = NoFiles => clean'[k] = NoFiles
        BY <2>2, <2>4, NoFile DEF NoFiles
      <4>2. QED
        BY <3>2, <4>1, <1>2, <1>3, <2>2, <2>4, OwnSame DEF DiskSays
    <3>3. QED
      BY <3>1, <3>2
  <2>6. DiskInv'
    BY <2>5 DEF DiskInv
  <2>7. QED
    BY <1>2, <1>3, <2>4, <2>6, LostKeeps
<1>6. QED
  BY <1>4, <1>5 DEF Crash, HalfPublished

\* A rebuilt journal has the line of each entry, and no other.
LEMMA RebuiltTold ==
    ASSUME TypeInv
    PROVE  LET J == <<Header>> \o [n \in 1..Len(lru) |-> RebuiltLine(lru[n])]
           IN  /\ J \in Seq(Lines) /\ J # <<>> /\ IsJournal(J) /\ ~EndsTorn(J)
               /\ \A k \in Keys : Told(J, k) = IF InLru(k) THEN RebuiltLine(k) ELSE Line("NONE", k)
<1> DEFINE h == <<Header>>
           q == [n \in 1..Len(lru) |-> RebuiltLine(lru[n])]
           J == h \o q
<1>1. lru \in Seq(Keys) /\ Once(lru) /\ Len(lru) \in Nat
  BY DEF TypeInv
<1>2. ASSUME NEW k \in Keys
      PROVE  /\ RebuiltLine(k) \in Entries /\ RebuiltLine(k) \in Lines /\ RebuiltLine(k).key = k
             /\ RebuiltLine(k).op \in {"DIRTY", "CLEAN"}
  BY CleanLineEntry, LineTypes DEF RebuiltLine, Line
<1>3. q \in Seq(Lines) /\ Len(q) = Len(lru) /\ \A n \in 1..Len(lru) : q[n] = RebuiltLine(lru[n])
  BY <1>1, <1>2
<1>4. h \in Seq(Lines) /\ Len(h) = 1 /\ h[1] = Header
  BY LineTypes
<1> HIDE DEF h, q
<1>5. /\ J \in Seq(Lines) /\ Len(J) = Len(lru) + 1 /\ J[1] = Header
      /\ \A n \in 1..Len(lru) : J[n + 1] = RebuiltLine(lru[n])
  <2>0. /\ J \in Seq(Lines) /\ Len(J) = Len(h) + Len(q)
        /\ \A i \in 1..Len(h) + Len(q) : J[i] = IF i <= Len(h) THEN h[i] ELSE q[i - Len(h)]
    <3>1. h \in Seq(Lines) /\ q \in Seq(Lines)
      BY <1>3, <1>4
    <3>2. QED
      BY ONLY <3>1, ConcatProperties
  <2> HIDE DEF J
  <2>1. J \in Seq(Lines) /\ Len(J) = 1 + Len(lru) /\ J[1] = h[1]
    BY <2>0, <1>1, <1>3, <1>4
  <2>2. ASSUME NEW n \in 1..Len(lru) PROVE J[n + 1] = RebuiltLine(lru[n])
    <3>1. n + 1 \in 1..Len(h) + Len(q) /\ (n + 1) - Len(h) = n /\ ~(n + 1 <= Len(h))
      BY <1>1, <1>3, <1>4
    <3>2. J[n + 1] = q[n]
      BY <3>1, <2>0
    <3>3. QED
      BY <3>2, <1>3
  <2>3. QED
    BY <2>1, <2>2, <1>1, <1>4
<1> HIDE DEF J
<1>6. ASSUME NEW m \in 1..Len(J)
      PROVE  \/ m = 1 /\ J[m] = Header
             \/ m > 1 /\ m - 1 \in 1..Len(lru) /\ J[m] = RebuiltLine(lru[m - 1])
  <2>1. CASE m = 1
    BY <2>1, <1>5
  <2>2. CASE m > 1
    <3>1. m - 1 \in 1..Len(lru) /\ (m - 1) + 1 = m
      BY <2>2, <1>1, <1>5
    <3>2. J[(m - 1) + 1] = RebuiltLine(lru[m - 1])
      BY <3>1, <1>5
    <3>3. QED
      BY <2>2, <3>1, <3>2
  <2>3. QED
    BY <2>1, <2>2, <1>1, <1>5
<1>7. ASSUME NEW m \in 1..Len(J), m > 1
      PROVE  /\ lru[m - 1] \in Keys /\ J[m] = RebuiltLine(lru[m - 1]) /\ J[m].key = lru[m - 1]
             /\ J[m].op \in {"DIRTY", "CLEAN"}
  BY <1>1, <1>2, <1>6, <1>7
<1>8. IsJournal(J)
  BY <1>1, <1>5, <1>6, <1>7, LineTypes DEF IsJournal
<1>9. J # <<>> /\ ~EndsTorn(J)
  <2>1. Len(J) \in 1..Len(J)
    BY <1>1, <1>5
  <2>2. J[Len(J)].op # "TORN"
    BY <2>1, <1>6, <1>7, LineTypes
  <2>3. QED
    BY <2>2, <1>5, <1>1 DEF EndsTorn
<1>10. ASSUME NEW k \in Keys
       PROVE  Told(J, k) = IF InLru(k) THEN RebuiltLine(k) ELSE Line("NONE", k)
  <2>1. ASSUME NEW m \in 1..Len(J), Decisive(J[m], k) PROVE m > 1 /\ lru[m - 1] = k
    BY <2>1, <1>6, <1>7, LineTypes DEF Decisive
  <2>2. CASE InLru(k)
    <3>1. PICK n \in 1..Len(lru) : lru[n] = k
      BY <2>2 DEF InLru, Elements
    <3>2. n + 1 \in 1..Len(J) /\ J[n + 1] = RebuiltLine(k)
      BY <3>1, <1>1, <1>5
    <3>3. Decisive(J[n + 1], k)
      BY <3>2, <1>2 DEF Decisive
    <3>4. ASSUME NEW m \in (n + 2)..Len(J) PROVE ~Decisive(J[m], k)
      <4>1. m \in 1..Len(J) /\ m - 1 \in 1..Len(lru) /\ m - 1 # n
        BY <1>1, <1>5
      <4>2. QED
        BY <4>1, <2>1, <3>1, <1>1 DEF Once
    <3>5. Decides(J, k, n + 1)
      BY <3>2, <3>3, <3>4 DEF Decides
    <3>6. QED
      BY <2>2, <3>2, <3>5, <1>5, ToldLine
  <2>3. CASE ~InLru(k)
    <3>1. \A m \in 1..Len(J) : ~Decisive(J[m], k)
      <4>1. ASSUME NEW m \in 1..Len(J), Decisive(J[m], k) PROVE FALSE
        <5>1. m > 1 /\ lru[m - 1] = k /\ m - 1 \in 1..Len(lru)
          BY <4>1, <2>1, <1>6
        <5>2. QED
          BY <5>1, <2>3 DEF InLru, Elements
      <4>2. QED
        BY <4>1
    <3>2. QED
      BY <2>3, <3>1, <1>5, ToldCases DEF Decides
  <2>4. QED
    BY <2>2, <2>3
<1>11. QED
  BY <1>5, <1>8, <1>9, <1>10 DEF J, h, q

\* rebuildJournal: the new journal takes its place.
LEMMA ToJournalKeeps ==
    ASSUME CacheIInv, ToJournal
    PROVE  CacheIInv'
<1>1. /\ step = "toJournal" /\ method \in {"open", "cleanup"} /\ writer = "none" /\ buffer = <<>>
      /\ step \notin Publishing \cup Halting /\ Known
  BY DEF ToJournal, CacheIInv, StepInv, WriterInv, Known, Loading, Replacing, Purging, Removing, Aborting,
     Publishing, AtFiles, Halting
<1>2. /\ UNCHANGED <<backup, clean, dirty, up, lru, entry, size, trimFailed, nextSeq, edits, pub, torn, leaked>>
      /\ buffer' = <<>> /\ writer' = "none" /\ method' = method /\ step' = "dropBackup"
      /\ step' \notin Publishing \cup Halting
      /\ journal' = <<Header>> \o [n \in 1..Len(lru) |-> RebuiltLine(lru[n])]
      /\ durable' = durable \cup {k \in Elements(lru) \ torn :
                      entry[k].readable /\ entry[k].editor = 0 /\ clean[k] = pub[k]}
      /\ own' = own
  BY <1>1, OwnSame DEF ToJournal, files, memory, Goto, Publishing, Halting, Aborting
<1>3. TypeInv /\ DiskInv /\ MemoryInv
  BY DEF CacheIInv
<1>4. /\ journal' \in Seq(Lines) /\ journal' # <<>> /\ IsJournal(journal') /\ ~EndsTorn(journal')
      /\ \A k \in Keys : Told(journal', k) = IF InLru(k) THEN RebuiltLine(k) ELSE Line("NONE", k)
  <2> DEFINE J == <<Header>> \o [n \in 1..Len(lru) |-> RebuiltLine(lru[n])]
  <2>1. /\ J \in Seq(Lines) /\ J # <<>> /\ IsJournal(J) /\ ~EndsTorn(J)
        /\ \A k \in Keys : Told(J, k) = IF InLru(k) THEN RebuiltLine(k) ELSE Line("NONE", k)
    BY <1>3, RebuiltTold
  <2>2. journal' = J
    BY <1>2
  <2> HIDE DEF J
  <2>3. QED
    BY <2>1, <2>2
<1>5. Found' = journal'
  BY <1>4 DEF Found
<1>6. /\ durable \subseteq Keys /\ durable' \subseteq Keys /\ lru \in Seq(Keys)
      /\ clean \in [Keys -> Contents] /\ dirty \in [Keys -> Contents]
      /\ \A k \in Keys : ~InLru(k) => entry[k] = NoEntry
  <2>1. Elements(lru) \subseteq Keys
    BY <1>3, EditingFinite
  <2>2. QED
    BY <2>1, <1>2, <1>3 DEF TypeInv
<1>7. TypeInv'
  BY <1>2, <1>3, <1>4, <1>6 DEF TypeInv, InLru, IsJournal
<1>8. BufferInv'
  BY <1>2 DEF BufferInv
<1>9. ASSUME NEW k \in Keys
      PROVE  /\ entry[k].editor # 0 => Told(Found', k).op = "DIRTY"
             /\ InLru(k) /\ entry[k].editor = 0 =>
                  Told(Found', k).op = "CLEAN" /\ Told(Found', k).len = entry[k].len
             /\ ~InLru(k) => Told(Found', k).op = "NONE"
  <2>1. ~InLru(k) => entry[k].editor = 0
    BY <1>6, EntryTypes
  <2>2. Told(Found', k) = IF InLru(k) THEN RebuiltLine(k) ELSE Line("NONE", k)
    BY <1>4, <1>5
  <2>3. /\ Line("NONE", k).op = "NONE" /\ Line("DIRTY", k).op = "DIRTY"
        /\ CleanLine(k).op = "CLEAN" /\ CleanLine(k).len = entry[k].len
    BY <1>3, CleanLineEntry DEF Line
  <2>4. QED
    BY <2>1, <2>2, <2>3 DEF RebuiltLine
<1>10. ASSUME NEW k \in Keys
       PROVE  /\ k \in durable' => /\ InLru(k) /\ entry[k].readable /\ entry[k].editor = 0
                                   /\ k \notin torn /\ clean[k] = pub[k]
  <2>1. DiskSays(k, Told(Found, k)) /\ KeyInv(k)
    BY <1>3 DEF DiskInv, MemoryInv
  <2>2. QED
    BY <2>1, <1>1, <1>2 DEF DiskSays, KeyInv, InLru
<1>11. ASSUME NEW k \in Keys PROVE DiskSays(k, Told(Found, k))'
  <2> SUFFICES ASSUME NEW t, t = Told(Found', k) PROVE DiskSays(k, Told(Found, k))'
    OBVIOUS
  <2>1. /\ entry[k].editor # 0 => t.op = "DIRTY"
        /\ InLru(k) /\ entry[k].editor = 0 => t.op = "CLEAN" /\ t.len = entry[k].len
        /\ ~InLru(k) => t.op = "NONE"
    BY <1>9
  <2>2. k \notin torn /\ entry[k].editor = 0 => Unedited(k)
    BY <1>1, <1>3 DEF MemoryInv, KeyInv
  <2>3. k \notin torn /\ ~InLru(k) => clean[k] = NoFiles /\ own[k] = NoFiles
    <3>1. ~InLru(k) => entry[k].editor = 0 /\ ~entry[k].readable
      BY <1>6, EntryTypes
    <3>2. k \notin torn /\ ~InLru(k) => own[k] = NoFiles /\ \A i \in Index : clean[k][i] = 0
      BY <2>2, <3>1 DEF Unedited
    <3>3. clean[k] \in Contents
      BY <1>6
    <3>4. QED
      BY <3>2, <3>3, NoFile
  <2>4. QED
    BY <2>1, <2>2, <2>3, <1>2, <1>10 DEF DiskSays, Unedited, NoFiles
<1>12. DiskInv'
  BY <1>11 DEF DiskInv
<1>13. ASSUME NEW k \in Keys PROVE KeyInv(k)'
  <2>1. KeyInv(k) /\ \A i \in Index : ~Published(k, i) /\ ~Published(k, i)'
    BY <1>1, <1>2, <1>3 DEF MemoryInv, Published
  <2>2. Edited(k) /\ entry[k].editor # 0 => Edited(k)'
    BY <2>1, <1>1, <1>2, <1>9 DEF Edited, Publishing, Halting
  <2>3. Unedited(k) => Unedited(k)'
    BY <1>2 DEF Unedited
  <2>4. InLru(k)' <=> InLru(k)
    BY <1>2 DEF InLru
  <2>5. QED
    BY <2>1, <2>2, <2>3, <2>4, <1>1, <1>2, <1>9, <1>10, LineTypes DEF KeyInv
<1>14. MemoryInv'
  BY <1>13 DEF MemoryInv
<1>15. SizeInv' /\ SeqInv'
  BY <1>2 DEF CacheIInv, SizeInv, SeqInv, SumOf
<1>16. StepInv' /\ WriterInv' /\ UnitInv' /\ ReadInv'
  BY <1>1, <1>2, <1>4 DEF CacheIInv, StepInv, WriterInv, UnitInv, ReadInv, Loading, Halting,
     Replacing, Purging, Removing, Aborting, Publishing, AtFiles
<1>17. QED
  BY <1>7, <1>8, <1>12, <1>14, <1>15, <1>16 DEF CacheIInv

-----------------------------------------------------------------------------
(* A file operation throws. *)

\* The step that throws leaves its method where the invariant still holds.
LEMMA OpFailsKeeps ==
    ASSUME CacheIInv, OpFails
    PROVE  CacheIInv'
<1> SUFFICES ASSUME NEW k, k = key PROVE CacheIInv'
  OBVIOUS
<1>1. /\ up /\ Known
      /\ \/ method = "cleanup" /\ step \in Rebuilding
         \/ step = "deleteClean" /\ method \in {"get", "remove", "evictAll", "flush", "close", "cleanup"}
         \/ step = "abortDirty" /\ method \in {"abort", "commit", "close"}
         \/ step = "publish" /\ method = "commit"
  <2>1. step \in {"abortDirty", "deleteClean", "publish"} \cup Rebuilding
    BY DEF OpFails, Throwing
  <2>2. step \in {"abortDirty", "deleteClean", "publish"} => step \in Removing \cup Aborting \cup Publishing
    BY DEF Removing, Aborting, Publishing
  <2>3. CASE step \in {"abortDirty", "deleteClean", "publish"}
    BY <2>2, <2>3, AtEntry DEF Removing, Aborting, Publishing
  <2>4. CASE step \in Rebuilding
    BY <2>4 DEF OpFails, CacheIInv, StepInv, Known, Rebuilding, Loading, Replacing, Purging, Removing,
       Aborting, Publishing
  <2>5. QED
    BY <2>1, <2>3, <2>4
<1>2. /\ UNCHANGED <<journal, backup, dirty, up, memory, nextSeq, edits, pub, durable, leaked>>
      /\ clean' = clean \/ (step = "publish" /\ clean' = Changed(clean, k, nth, 0))
      /\ step = "publish" => dirty[k][nth] # 0
      /\ \/ /\ method = "cleanup" /\ step = "deleteClean"
            /\ trimFailed' \in BOOLEAN
            /\ \/ method' = method /\ step' = "closeWriter"
               \/ method' = "none" /\ step' = "rest"
            /\ UNCHANGED <<buffer, writer, torn>>
         \/ /\ method = "cleanup" /\ step \in Rebuilding
            /\ writer' = "blackhole" /\ buffer' = <<>> /\ method' = "none" /\ step' = "rest"
            /\ UNCHANGED <<trimFailed, torn>>
         \/ /\ method = "commit" /\ entry[k].writes # Index
            /\ method' = "abort" /\ step' = "abortDirty" /\ key' = k /\ nth' = 1
            /\ torn' = IF Leaked(k, nth) THEN torn \cup {k} ELSE torn
            /\ UNCHANGED <<buffer, writer, trimFailed>>
         \/ /\ method # "cleanup"
            /\ torn' = IF step = "deleteClean" THEN torn ELSE torn \cup {k}
            /\ method' = "none" /\ step' = "rest"
            /\ UNCHANGED <<buffer, writer, trimFailed>>
  <2>1. HalfPublished
    BY DEF OpFails
  <2>2. clean' = clean \/ (step = "publish" /\ clean' = Changed(clean, k, nth, 0))
    BY <2>1 DEF HalfPublished, Changed
  <2>3. QED
    BY <1>1, <2>2 DEF OpFails, Return, Leave, ToFiles
<1>3. TypeInv /\ StepInv /\ trimFailed \in BOOLEAN
  BY DEF CacheIInv, TypeInv
<1>4. CASE step = "deleteClean"
  <2>1. /\ UNCHANGED <<disk, up, buffer, writer, lru, entry, size, nextSeq, edits, pub, durable, torn, leaked>>
        /\ trimFailed' \in BOOLEAN
        /\ \/ method = "cleanup" /\ method' = method /\ step' = "closeWriter"
           \/ method' = "none" /\ step' = "rest"
    BY <1>4, <1>1, <1>2, <1>3 DEF disk, memory, Rebuilding
  <2>2. step \notin Publishing \cup Halting /\ step' \notin Publishing \cup Halting /\ (Known' => Known)
    BY <1>1, <1>4, <2>1 DEF Publishing, Halting, Aborting
  <2>3. TypeInv' /\ BufferInv' /\ DiskInv' /\ SizeInv' /\ SeqInv' /\ MemoryInv'
    BY <2>1, <2>2, ControlKeeps
  <2>4. StepInv' /\ WriterInv' /\ UnitInv' /\ ReadInv'
    BY <2>1, <1>1 DEF CacheIInv, StepInv, WriterInv, UnitInv, ReadInv, Loading, Halting,
       Replacing, Purging, Removing, Aborting, Publishing, AtFiles, disk
  <2>5. QED
    BY <2>3, <2>4 DEF CacheIInv
<1>5. CASE step \in Rebuilding
  <2>1. /\ UNCHANGED <<journal, backup, clean, dirty, up, memory, trimFailed, nextSeq, edits, pub,
                       durable, torn, leaked>>
        /\ writer' = "blackhole" /\ buffer' = <<>> /\ method' = "none" /\ step' = "rest"
    BY <1>5, <1>1, <1>2 DEF Rebuilding
  <2>2. step \notin Publishing \cup Halting /\ step' \notin Publishing \cup Halting /\ (Known' => Known)
    BY <1>1, <1>5, <2>1 DEF Publishing, Halting, Aborting, Rebuilding
  <2>3. Found' = Found
    BY <2>1 DEF Found
  <2>4. TypeInv' /\ BufferInv' /\ DiskInv' /\ MemoryInv' /\ SizeInv' /\ SeqInv'
    BY <2>1, <2>2, <2>3, <1>3, SameFound, LogKeeps DEF TypeInv
  <2>5. StepInv' /\ WriterInv' /\ UnitInv' /\ ReadInv'
    BY <2>1, <1>1 DEF CacheIInv, StepInv, WriterInv, UnitInv, ReadInv, Loading, Halting,
       Replacing, Purging, Removing, Aborting, Publishing, AtFiles, disk
  <2>6. QED
    BY <2>4, <2>5 DEF CacheIInv
<1>6. CASE step \in {"abortDirty", "publish"}
  <2>1. step \in Halting \cup Publishing /\ step \in Aborting \cup Publishing
    BY <1>6 DEF Halting, Publishing, Aborting
  <2>2. /\ k = key /\ k \in Keys /\ InLru(k) /\ nth \in Index /\ KeyInv(k)
        /\ entry[k].editor \notin {0, Recovered} /\ k \notin durable
        /\ k \notin torn => Edited(k) /\ Told(Found, k).op = "DIRTY"
    BY <2>1, AtEntry
  <2>3. /\ UNCHANGED <<journal, backup, dirty, up, buffer, writer, memory, trimFailed, nextSeq, edits, pub,
                       durable, leaked>>
        /\ step' \notin Publishing /\ (Known' => Known)
        /\ own' = own
        /\ \/ /\ method = "commit" /\ entry[k].writes # Index
              /\ torn' = IF Leaked(k, nth) THEN torn \cup {k} ELSE torn
              /\ method' = "abort" /\ step' = "abortDirty" /\ key' = k /\ nth' = 1
           \/ torn' = torn \cup {k} /\ method' = "none" /\ step' = "rest"
    BY <1>1, <1>2, <1>6, OwnSame DEF Rebuilding, Publishing
  <2>4. /\ clean' \in [Keys -> Contents] /\ \A j \in Keys \ {k} : clean'[j] = clean[j]
        /\ \A i \in Index : clean'[k][i] = clean[k][i] \/ clean'[k][i] = 0
    <3>1. CASE clean' = clean
      BY <3>1, <1>3 DEF TypeInv
    <3>2. CASE clean' = Changed(clean, k, nth, 0)
      <4>1. clean \in [Keys -> Contents] /\ k \in Keys /\ nth \in Index /\ 0 \in 0..Recovered
        BY <1>3, <2>2, EntryTypes, CacheAssumption DEF TypeInv, Recovered
      <4>2. /\ Changed(clean, k, nth, 0) \in [Keys -> Contents] /\ Changed(clean, k, nth, 0)[k][nth] = 0
            /\ \A j \in Keys \ {k} : Changed(clean, k, nth, 0)[j] = clean[j]
            /\ \A h \in Index \ {nth} : Changed(clean, k, nth, 0)[k][h] = clean[k][h]
        BY ONLY <4>1, FileChanged
      <4>3. QED
        BY ONLY <3>2, <4>2
    <3>3. QED
      BY <3>1, <3>2, <1>2
  <2>5. Found' = Found
    BY <2>3 DEF Found
  <2>6. DiskSays(k, Told(Found, k))'
    BY <2>2, <2>3, <2>5 DEF DiskSays
  <2>7. ASSUME k \notin torn'
        PROVE  /\ Edited(k)' /\ \A i \in Index : ~Published(k, i)
               /\ k \notin torn
    <3>1. /\ method = "commit" /\ entry[k].writes # Index /\ torn' = torn /\ k \notin torn /\ ~Leaked(k, nth)
          /\ step' = "abortDirty" /\ key' = k
      BY <2>3, <2>7
    <3>2. entry[k].writes = {1}
      BY <3>1, <2>2 DEF KeyInv
    <3>3. \A i \in Index : ~Published(k, i)
      <4>1. CASE step = "abortDirty"
        BY <4>1 DEF Published, Publishing
      <4>2. CASE step = "publish"
        <5>1. nth \in entry[k].writes
          <6>1. own[k][nth] = dirty[k][nth]
            BY <3>1, <2>2, <1>3, OwnFiles DEF TypeInv, own, Kept, Leaked
          <6>2. QED
            BY <4>2, <6>1, <1>2, <2>2, <3>1 DEF Edited
        <5>2. QED
          BY <4>2, <5>1, <3>2 DEF Published
      <4>3. QED
        BY <4>1, <4>2, <1>6
    <3>4. \A i \in Index : ~Published(k, i)'
      BY <2>3 DEF Published
    <3>5. step' \in Halting
      BY <3>1 DEF Halting, Aborting
    <3>6. Edited(k)'
      BY <3>1, <3>3, <3>4, <3>5, <2>2, <2>3, <2>4, <2>5 DEF Edited, memory
    <3>7. QED
      BY <3>1, <3>3, <3>6
  <2>8. KeyInv(k)'
    BY <2>2, <2>3, <2>7 DEF KeyInv, InLru, memory
  <2>9. TypeInv' /\ BufferInv' /\ DiskInv' /\ MemoryInv'
    <3>1. UNCHANGED <<lru, entry, size>>
      BY <2>3 DEF memory
    <3>2. /\ dirty' \in [Keys -> Contents] /\ entry' \in [Keys -> EntryType] /\ lru' \in Seq(Keys)
          /\ Once(lru') /\ size' \in Nat /\ torn' \in SUBSET Keys /\ durable' \in SUBSET Keys
          /\ trimFailed' \in BOOLEAN /\ leaked' \subseteq Keys \X Index \X (1..Recovered)
      BY <2>2, <2>3, <3>1, <1>3 DEF TypeInv
    <3>3. /\ InLru(k)' /\ \A j \in Keys \ {k} : InLru(j) <=> InLru(j)'
      BY <2>2, <3>1 DEF InLru
    <3>4. \A j \in Keys \ {k} : j \in torn <=> j \in torn'
      BY <2>3
    <3>5. QED
      BY <2>2, <2>3, <2>4, <2>6, <2>8, <3>1, <3>2, <3>3, <3>4, OneEntry
  <2>10. SizeInv' /\ SeqInv'
    <3>1. torn' = {} => torn = {}
      BY <2>3
    <3>2. QED
      BY <3>1, <2>3 DEF CacheIInv, SizeInv, SeqInv, SumOf, memory
  <2>11. StepInv' /\ WriterInv' /\ UnitInv' /\ ReadInv'
    BY <2>2, <2>3, <1>1, <1>6 DEF CacheIInv, StepInv, WriterInv, UnitInv, ReadInv, InLru, Loading, Halting,
       Replacing, Purging, Removing, Aborting, Publishing, AtFiles, Index, memory
  <2>12. QED
    BY <2>9, <2>10, <2>11 DEF CacheIInv
<1>7. QED
  BY <1>1, <1>4, <1>5, <1>6

-----------------------------------------------------------------------------
(* What clients call. *)

\* Where a call finds the cache.
LEMMA BetweenCalls ==
    ASSUME CacheIInv, AtRest
    PROVE  /\ up /\ Known /\ method = "none" /\ step = "rest" /\ step \in Between
           /\ step \notin Publishing \cup Halting /\ \A k, i : ~Published(k, i)
<1>1. up /\ method = "none" /\ step = "rest" /\ step \notin Publishing \cup Halting
  BY DEF AtRest, CacheIInv, StepInv, Loading, Replacing, Purging, Removing, Aborting, Publishing, Halting
<1>2. QED
  BY <1>1 DEF Known, Between, Published

\* get: a snapshot and a READ line, nothing, or removeEntry.
LEMMA GetKeeps ==
    ASSUME CacheIInv, NEW k \in Keys, Get(k)
    PROVE  CacheIInv'
<1>1. AtRest /\ InLru(k) /\ lru' = Touch(lru, k)
  BY DEF Get
<1>2. /\ up /\ Known /\ method = "none" /\ step = "rest" /\ step \in Between
      /\ step \notin Publishing \cup Halting /\ \A i : ~Published(k, i)
  BY <1>1, BetweenCalls
<1>3. /\ UNCHANGED <<journal, backup, clean, dirty, up, writer, entry, size, trimFailed, nextSeq, edits, pub,
                     durable, torn, leaked>>
      /\ own' = own
      /\ \/ buffer' = buffer
         \/ writer = "file" /\ buffer' = Append(buffer, Line("READ", k))
      /\ \/ UNCHANGED todo
         \/ method' = "get" /\ RemoveEntry(k) /\ buffer' = buffer
  BY OwnSame DEF Get, Log, log, files
<1>4. TypeInv /\ BufferInv /\ DiskInv /\ MemoryInv /\ StepInv
  BY DEF CacheIInv
<1>5. CASE method' = "get" /\ RemoveEntry(k) /\ buffer' = buffer
  BY <1>1, <1>2, <1>3, <1>5, RemoveEntryKeeps DEF disk
<1>6. CASE UNCHANGED todo
  <2>1. /\ step' = step /\ method' = method /\ key' = key /\ nth' = nth
        /\ step' \notin Publishing \cup Halting /\ Known'
    BY <1>6, <1>2, <1>3 DEF todo, Known
  <2>2. lru' \in Seq(Keys) /\ Once(lru') /\ Elements(lru') = Elements(lru)
    <3>1. lru \in Seq(Keys) /\ Once(lru)
      BY <1>4 DEF TypeInv
    <3>2. /\ Touch(lru, k) \in Seq(Keys) /\ Once(Touch(lru, k))
          /\ Elements(Touch(lru, k)) = Elements(lru) \cup {k}
      BY <3>1, Touched
    <3>3. QED
      BY <3>2, <1>1 DEF InLru
  <2>3. \A j : InLru(j)' <=> InLru(j)
    BY <2>2 DEF InLru
  <2>4. buffer' \in Seq(Entries) /\ BufferInv'
    <3>1. Line("READ", k) \in Entries /\ Line("READ", k).op = "READ" /\ buffer \in Seq(Entries)
      BY <1>4, LineTypes DEF Line, TypeInv
    <3>2. /\ buffer' \in Seq(Entries)
          /\ \A n \in 1..Len(buffer') :
                (n \in 1..Len(buffer) /\ buffer'[n] = buffer[n]) \/ buffer'[n] = Line("READ", k)
      BY <3>1, <1>3
    <3>3. ASSUME NEW n \in 1..Len(buffer')
          PROVE  /\ buffer'[n].op \in {"READ", "REMOVE"}
                 /\ buffer'[n].op = "REMOVE" =>
                      /\ buffer'[n].key \notin Elements(lru') /\ buffer'[n].key \notin durable'
                      /\ buffer'[n].key \notin torn' =>
                            clean'[buffer'[n].key] = NoFiles /\ own'[buffer'[n].key] = NoFiles
      BY <3>1, <3>2, <2>2, <1>3, <1>4 DEF BufferInv, InLru
    <3>4. QED
      BY <3>2, <3>3 DEF BufferInv, InLru
  <2>5. Found' = Found
    BY <1>3 DEF Found
  <2>6. KeyInv(k)' /\ DiskSays(k, Told(Found, k))'
    <3>1. DiskSays(k, Told(Found, k))'
      BY <1>3, <1>4, <2>5 DEF DiskInv, DiskSays
    <3>2. KeyInv(k)'
      BY <1>1, <1>2, <1>3, <1>4, <2>1, <2>3, <2>5, KeyStays
    <3>3. QED
      BY <3>1, <3>2
  <2>7. TypeInv' /\ BufferInv' /\ DiskInv' /\ MemoryInv'
    BY <1>1, <1>2, <1>3, <1>4, <2>1, <2>2, <2>3, <2>4, <2>6, OneEntry DEF TypeInv
  <2>8. SizeInv' /\ SeqInv'
    BY <1>3, <2>2 DEF CacheIInv, SizeInv, SeqInv, SumOf
  <2>9. StepInv' /\ WriterInv' /\ UnitInv' /\ ReadInv'
    BY <1>2, <1>3, <2>1 DEF CacheIInv, StepInv, WriterInv, UnitInv, ReadInv, Loading, Halting,
       Replacing, Purging, Removing, Aborting, Publishing, AtFiles
  <2>10. QED
    BY <2>7, <2>8, <2>9 DEF CacheIInv
<1>7. QED
  BY <1>3, <1>5, <1>6

\* One more edit.
LEMMA SeqStarted ==
    ASSUME TypeInv, SeqInv, up, up' = up, nextSeq' = nextSeq, edits' = edits + 1,
           NEW k \in Keys, entry[k].editor = 0, entry'[k].editor # 0,
           \A j \in Keys \ {k} : entry'[j].editor = entry[j].editor
    PROVE  SeqInv'
<1> DEFINE S == {j \in Keys : entry[j].editor # 0}
           T == {j \in Keys : entry'[j].editor # 0}
<1>1. T = S \cup {k} /\ k \notin S
  OBVIOUS
<1>2. IsFiniteSet(S) /\ Cardinality(S) \in Nat
  BY EditingFinite DEF Editing
<1>3. nextSeq + Cardinality(S) <= edits /\ nextSeq \in 0..MaxEdits /\ edits \in 0..MaxEdits
  BY DEF SeqInv, TypeInv
<1> HIDE DEF S, T
<1>4. Cardinality(T) = Cardinality(S) + 1
  BY <1>1, <1>2, FS_AddElement
<1>5. nextSeq' + Cardinality(T) <= edits'
  <2>1. MaxEdits \in Nat
    BY CacheAssumption
  <2>2. QED
    BY <2>1, <1>2, <1>3, <1>4
<1>6. QED
  BY <1>5 DEF SeqInv, T

\* edit begins an edit, or finds the journal broken.
LEMMA EditEntryKeeps ==
    ASSUME CacheIInv, NEW k \in Keys, NEW w \in {Index, {1}}, EditEntry(k, w)
    PROVE  CacheIInv'
<1>1. /\ AtRest /\ entry[k].editor = 0 /\ edits < MaxEdits
      /\ LogFlushed(Line("DIRTY", k)) /\ backup' = backup
  BY DEF EditEntry
<1>2. /\ up /\ Known /\ method = "none" /\ step = "rest" /\ step \in Between
      /\ step \notin Publishing \cup Halting /\ \A i : ~Published(k, i)
  BY <1>1, BetweenCalls
<1>3. /\ UNCHANGED <<backup, clean, dirty, up, size, trimFailed, nextSeq, pub, torn, leaked, method, step, key, nth>>
      /\ durable' = durable \ {k} /\ own' = own
      /\ \/ /\ writer' # "file" /\ lru' \in {lru, Touch(lru, k)} /\ (~InLru(k) => lru' = lru)
            /\ UNCHANGED <<entry, edits>>
         \/ /\ writer' = "file" /\ lru' = Touch(lru, k) /\ edits' = edits + 1
            /\ entry' = [entry EXCEPT ![k] = [@ EXCEPT !.editor = edits + 1, !.held = TRUE,
                                                        !.writes = w, !.left = w]]
  BY OwnSame DEF EditEntry, files, todo
<1>4. TypeInv /\ WriterInv /\ BufferInv /\ DiskInv /\ MemoryInv /\ KeyInv(k)
  BY DEF CacheIInv, MemoryInv
<1>5. /\ lru \in Seq(Keys) /\ Once(lru) /\ edits \in 0..MaxEdits /\ MaxEdits \in Nat
      /\ entry \in [Keys -> EntryType] /\ entry[k] \in EntryType
      /\ durable \subseteq Keys /\ torn \subseteq Keys
      /\ \A j \in Keys : ~InLru(j) => entry[j] = NoEntry
  BY <1>4, CacheAssumption DEF TypeInv
<1>6. /\ lru' \in Seq(Keys) /\ Once(lru')
      /\ \/ Elements(lru') = Elements(lru) \cup {k}
         \/ Elements(lru') = Elements(lru) /\ writer' # "file"
  <2>1. /\ Touch(lru, k) \in Seq(Keys) /\ Once(Touch(lru, k))
        /\ Elements(Touch(lru, k)) = Elements(lru) \cup {k}
    BY <1>5, Touched
  <2>2. lru' = Touch(lru, k) \/ (lru' = lru /\ writer' # "file")
    BY <1>3
  <2>3. QED
    BY <2>1, <2>2, <1>5
<1>7. \A j \in Keys \ {k} : InLru(j)' <=> InLru(j)
  BY <1>6 DEF InLru
<1>8. InLru(k) => InLru(k)'
  BY <1>6 DEF InLru
<1>9. writer' = "file" => InLru(k)'
  BY <1>6 DEF InLru
<1>10. /\ entry' \in [Keys -> EntryType] /\ edits' \in 0..MaxEdits
       /\ \A j \in Keys \ {k} : entry'[j] = entry[j]
       /\ entry'[k].readable = entry[k].readable /\ entry'[k].len = entry[k].len
       /\ \/ writer' # "file" /\ entry' = entry
          \/ /\ writer' = "file" /\ entry'[k].editor = edits + 1 /\ entry'[k].held
             /\ entry'[k].writes = w /\ entry'[k].left = w
       /\ edits + 1 \notin {0, Recovered}
  <2>1. edits + 1 \in 0..MaxEdits /\ edits + 1 \in 0..Recovered /\ edits + 1 \notin {0, Recovered}
    BY <1>1, <1>5 DEF Recovered
  <2>2. CASE writer' # "file"
    BY <2>1, <2>2, <1>3, <1>5
  <2>3. CASE writer' = "file"
    <3> DEFINE c == [entry[k] EXCEPT !.editor = edits + 1, !.held = TRUE, !.writes = w, !.left = w]
    <3>1. entry' = [entry EXCEPT ![k] = c] /\ edits' = edits + 1
      BY <2>3, <1>3
    <3>2. w \in SUBSET Index
      BY DEF Index
    <3>3. /\ c \in EntryType /\ c.editor = edits + 1 /\ c.held /\ c.writes = w /\ c.left = w
          /\ c.readable = entry[k].readable /\ c.len = entry[k].len
      BY <2>1, <3>2, <1>5 DEF EntryType
    <3> HIDE DEF c
    <3>4. QED
      BY <2>1, <2>3, <3>1, <3>3, <1>5
  <2>4. QED
    BY <2>2, <2>3
<1>11. Line("DIRTY", k) \in Entries /\ Line("DIRTY", k).op = "DIRTY" /\ Line("DIRTY", k).key = k
  BY LineTypes DEF Line
<1>12. /\ journal' \in Seq(Lines) /\ IsJournal(journal')
       /\ buffer' = <<>> /\ writer' \in {writer, "broken"}
       /\ writer' = "file" => journal' # <<>> /\ ~EndsTorn(journal')
       /\ \A j \in Keys \ {k} : DiskSays(j, Told(Found', j)) /\ (InLru(j) => Told(Found', j) = Told(Found, j))
       /\ Told(Found', k).op = "DIRTY" \/ DiskSays(k, Told(Found', k))
       /\ writer' = "file" => Told(Found', k).op = "DIRTY"
  <2> DEFINE x == Line("DIRTY", k)
  <2>1. x \in Entries /\ x.op = "DIRTY" /\ x.key = k /\ LogFlushed(x)
    BY <1>1, <1>11
  <2> HIDE DEF x
  <2>2. Decisive(x, k) /\ \A j \in Keys \ {k} : ~Decisive(x, j)
    BY <2>1 DEF Decisive
  <2>3. /\ journal' \in Seq(Lines) /\ IsJournal(journal')
        /\ buffer' = <<>> /\ writer' \in {writer, "broken"}
        /\ writer' = "file" => journal' # <<>> /\ ~EndsTorn(journal')
        /\ \A j \in Keys :
             \/ Decisive(x, j) /\ Told(Found', j) = x
             \/ DiskSays(j, Told(Found', j)) /\ (InLru(j) => Told(Found', j) = Told(Found, j))
        /\ \A j \in Keys : writer' = "file" /\ Decisive(x, j) => Told(Found', j) = x
    BY <2>1, <1>1, <1>4, LineFlushed
  <2>4. QED
    BY <2>1, <2>2, <2>3
<1>13. TypeInv'
  <2>1. \A j \in Keys : ~InLru(j)' => entry'[j] = NoEntry
    BY <1>5, <1>7, <1>8, <1>9, <1>10
  <2>2. QED
    BY <2>1, <1>3, <1>4, <1>5, <1>6, <1>10, <1>12 DEF TypeInv, IsJournal
<1>14. BufferInv'
  BY <1>12 DEF BufferInv
<1>15. DiskInv'
  <2>1. ASSUME NEW j \in Keys PROVE DiskSays(j, Told(Found, j))'
    <3>1. CASE j = k
      BY <3>1, <1>3, <1>12 DEF DiskSays
    <3>2. CASE j # k
      <4>1. DiskSays(j, Told(Found', j)) /\ (j \in durable' <=> j \in durable)
        BY <3>2, <1>3, <1>12
      <4>2. QED
        BY <4>1, <1>3 DEF DiskSays
    <3>3. QED
      BY <3>1, <3>2
  <2>2. QED
    BY <2>1 DEF DiskInv
<1>16. step' = "rest" /\ step' \notin Publishing \cup Halting /\ Known' /\ k \notin durable'
       /\ \A i : ~Published(k, i)'
  BY <1>2, <1>3 DEF Known, Published
<1>17. KeyInv(k)'
  <2>1. k \notin torn =>
          /\ Unedited(k)
          /\ \A i \in Index : ~(~entry[k].readable /\ entry[k].len[i] = 1)
    BY <1>1, <1>2, <1>4 DEF KeyInv
  <2>2. CASE writer' # "file"
    <3>1. Unedited(k) => Unedited(k)'
      BY <2>2, <1>3, <1>10 DEF Unedited
    <3>2. QED
      BY <2>1, <2>2, <3>1, <1>1, <1>3, <1>4, <1>10, <1>16, LineTypes DEF KeyInv
  <2>3. CASE writer' = "file"
    <3>1. Unedited(k) => Edited(k)'
      <4>1. Told(Found, k)'.op = "DIRTY"
        BY <2>3, <1>12
      <4>2. QED
        BY <2>3, <4>1, <1>3, <1>10, <1>16 DEF Unedited, Edited, NoFiles
    <3>2. QED
      BY <2>1, <2>3, <3>1, <1>2, <1>3, <1>4, <1>10, <1>16, LineTypes DEF KeyInv
  <2>4. QED
    BY <2>2, <2>3
<1>18. MemoryInv'
  <2>1. ASSUME NEW j \in Keys \ {k}
        PROVE  Told(Found', j) = Told(Found, j) \/ entry[j].editor = 0
    BY <1>5, <1>12, EntryTypes
  <2>2. \A j \in Keys \ {k} :
          /\ entry'[j] = entry[j] /\ (InLru(j) => InLru(j)')
          /\ clean'[j] = clean[j] /\ dirty'[j] = dirty[j] /\ own'[j] = own[j] /\ pub'[j] = pub[j]
          /\ (j \in durable' => j \in durable) /\ (j \in torn => j \in torn')
    BY <1>3, <1>7, <1>10
  <2>3. QED
    BY <2>1, <2>2, <1>2, <1>3, <1>4, <1>16, <1>17, OneKey
<1>19. SizeInv'
  <2> DEFINE K == Elements(lru)
             M == Elements(lru')
  <2>1. K \subseteq Keys /\ (M = K \/ M = K \cup {k}) /\ (k \notin K => entry[k] = NoEntry)
    BY <1>4, <1>5, <1>6, EditingFinite DEF InLru
  <2> HIDE DEF K, M
  <2>2. ASSUME NEW f, f = entry', NEW e, e = entry, NEW N, N = M PROVE SumOf(N, f) = SumOf(K, e)
    <3>1. \A j \in Keys, i \in Index : f[j].len[i] = e[j].len[i]
      BY <2>2, <1>10
    <3>2. \A j \in N : j \in Keys
      BY <2>1, <2>2
    <3>3. \A i \in Index : k \notin K => e[k].len[i] # 1
      BY <2>1, <2>2, EntryTypes DEF NoFiles
    <3>4. \A j \in K \cup N, i \in Index :
             j \in K /\ e[j].len[i] = 1 <=> j \in N /\ f[j].len[i] = 1
      BY <2>1, <2>2, <3>1, <3>2, <3>3
    <3>5. QED
      BY ONLY <3>4, SumSame
  <2>3. SumOf(Elements(lru), entry)' = SumOf(Elements(lru), entry)
    BY <2>2 DEF K, M, SumOf
  <2>4. QED
    BY <2>3, <1>2, <1>3 DEF CacheIInv, SizeInv
<1>20. SeqInv'
  <2>1. CASE writer' # "file"
    BY <2>1, <1>3 DEF CacheIInv, SeqInv
  <2>2. CASE writer' = "file"
    BY <2>2, <1>1, <1>2, <1>3, <1>4, <1>10, SeqStarted DEF CacheIInv
  <2>3. QED
    BY <2>1, <2>2
<1>21. StepInv' /\ WriterInv' /\ UnitInv' /\ ReadInv'
  BY <1>2, <1>3, <1>12 DEF CacheIInv, StepInv, WriterInv, UnitInv, ReadInv, Loading, Halting,
     Replacing, Purging, Removing, Aborting, Publishing, AtFiles
<1>22. QED
  BY <1>13, <1>14, <1>15, <1>18, <1>19, <1>20, <1>21 DEF CacheIInv

\* What the client who holds an editor finds.
LEMMA HeldEntry ==
    ASSUME CacheIInv, AtRest, NEW k \in Keys, entry[k].held
    PROVE  /\ up /\ Known /\ method = "none" /\ step = "rest" /\ step \notin Publishing \cup Halting
           /\ \A i : ~Published(k, i)
           /\ InLru(k) /\ KeyInv(k) /\ entry[k].editor \notin {0, Recovered} /\ k \notin durable
           /\ k \notin torn => Edited(k) /\ Told(Found, k).op = "DIRTY"
<1>1. InLru(k) /\ up /\ entry[k].editor \notin {0, Recovered}
  BY EditedEntry DEF AtRest
<1>2. KeyInv(k)
  BY DEF CacheIInv, MemoryInv
<1>3. /\ up /\ Known /\ method = "none" /\ step = "rest" /\ step \notin Publishing \cup Halting
      /\ \A i : ~Published(k, i)
  BY BetweenCalls
<1>4. QED
  BY <1>1, <1>2, <1>3 DEF KeyInv, Edited

\* A client opens one of the files it replaces.
LEMMA WriteKeeps ==
    ASSUME CacheIInv, NEW k \in Keys, NEW i \in Index, Write(k, i)
    PROVE  CacheIInv'
<1>1. /\ up /\ Known /\ method = "none" /\ step = "rest" /\ step \notin Publishing \cup Halting
      /\ \A j : ~Published(k, j)
      /\ InLru(k) /\ KeyInv(k) /\ entry[k].editor \notin {0, Recovered} /\ k \notin durable
      /\ k \notin torn => Edited(k) /\ Told(Found, k).op = "DIRTY"
  BY HeldEntry DEF Write
<1>2. /\ UNCHANGED <<journal, backup, clean, up, buffer, writer, lru, size, trimFailed, nextSeq,
                     edits, pub, durable, leaked, method, step, key, nth>>
      /\ entry' = [entry EXCEPT ![k].left = @ \ {i}]
      /\ i \in entry[k].left
      /\ \/ dirty' = Changed(dirty, k, i, entry[k].editor) /\ torn' = torn
         \/ dirty' = dirty /\ torn' = IF entry[k].readable THEN torn \cup {k} ELSE torn
  BY DEF Write, todo, Changed
<1>3. TypeInv /\ StepInv /\ DiskInv
  BY DEF CacheIInv
<1>4. /\ entry \in [Keys -> EntryType] /\ entry[k] \in EntryType /\ dirty \in [Keys -> Contents]
      /\ clean \in [Keys -> Contents] /\ entry[k].editor \in 0..Recovered
      /\ lru \in Seq(Keys) /\ Once(lru) /\ size \in Nat /\ torn \subseteq Keys /\ durable \subseteq Keys
      /\ trimFailed \in BOOLEAN
  BY <1>3 DEF TypeInv, EntryType
<1>5. /\ entry' \in [Keys -> EntryType] /\ \A j \in Keys \ {k} : entry'[j] = entry[j]
      /\ entry'[k].readable = entry[k].readable /\ entry'[k].len = entry[k].len
      /\ entry'[k].editor = entry[k].editor /\ entry'[k].held = entry[k].held
      /\ entry'[k].writes = entry[k].writes /\ entry'[k].left = entry[k].left \ {i}
  <2> DEFINE c == [entry[k] EXCEPT !.left = entry[k].left \ {i}]
  <2>1. /\ c \in EntryType /\ c.left = entry[k].left \ {i}
        /\ c.readable = entry[k].readable /\ c.len = entry[k].len
        /\ c.editor = entry[k].editor /\ c.held = entry[k].held /\ c.writes = entry[k].writes
    BY <1>4 DEF EntryType
  <2>2. entry' = [entry EXCEPT ![k] = c]
    BY <1>2
  <2> HIDE DEF c
  <2>3. QED
    BY <2>1, <2>2, <1>4
<1>6. /\ dirty' \in [Keys -> Contents] /\ \A j \in Keys \ {k} : dirty'[j] = dirty[j]
      /\ \A h \in Index \ {i} : dirty'[k][h] = dirty[k][h]
      /\ \/ dirty'[k][i] = entry[k].editor /\ torn' = torn
         \/ dirty'[k][i] = dirty[k][i] /\ torn' = IF entry[k].readable THEN torn \cup {k} ELSE torn
  <2>1. CASE dirty' = dirty /\ torn' = IF entry[k].readable THEN torn \cup {k} ELSE torn
    BY <2>1, <1>4
  <2>2. ASSUME NEW v, v = entry[k].editor, dirty' = Changed(dirty, k, i, v)
        PROVE  /\ dirty' \in [Keys -> Contents] /\ dirty'[k][i] = v
               /\ \A j \in Keys \ {k} : dirty'[j] = dirty[j]
               /\ \A h \in Index \ {i} : dirty'[k][h] = dirty[k][h]
    <3>1. dirty \in [Keys -> Contents] /\ v \in 0..Recovered
      BY <2>2, <1>4
    <3>2. /\ Changed(dirty, k, i, v) \in [Keys -> Contents] /\ Changed(dirty, k, i, v)[k][i] = v
          /\ \A j \in Keys \ {k} : Changed(dirty, k, i, v)[j] = dirty[j]
          /\ \A h \in Index \ {i} : Changed(dirty, k, i, v)[k][h] = dirty[k][h]
      BY ONLY <3>1, FileChanged, k \in Keys, i \in Index
    <3>3. QED
      BY ONLY <2>2, <3>2
  <2>3. CASE dirty' = Changed(dirty, k, i, entry[k].editor) /\ torn' = torn
    BY <2>2, <2>3
  <2>4. QED
    BY <1>2, <2>1, <2>3
<1>15. /\ \A j \in Keys \ {k} : own'[j] = own[j]
       /\ \A h \in Index \ {i} : own'[k][h] = own[k][h]
       /\ \/ own'[k][i] \in {0, entry[k].editor}
          \/ dirty' = dirty /\ own' = own
  <2>1. ASSUME NEW v, v = entry[k].editor, dirty' = Changed(dirty, k, i, v)
        PROVE  /\ \A j \in Keys \ {k} : own'[j] = own[j]
               /\ \A h \in Index \ {i} : own'[k][h] = own[k][h]
               /\ own'[k][i] \in {0, v}
    <3>1. own' = OwnOf(Changed(dirty, k, i, v), leaked) /\ own = OwnOf(dirty, leaked)
      BY <2>1, <1>2 DEF own
    <3>2. dirty \in [Keys -> Contents] /\ v \in 0..Recovered
      BY <2>1, <1>4
    <3>3. OwnMoves(own, own', k, i, v)
      BY ONLY <3>1, <3>2, OwnChanged, k \in Keys, i \in Index
    <3>4. QED
      BY <3>3 DEF OwnMoves
  <2>2. CASE dirty' = dirty
    BY <2>2, <1>2, OwnSame
  <2>3. QED
    BY <2>1, <2>2, <1>2
<1>7. Found' = Found /\ step' \notin Publishing \cup Halting /\ Known' /\ \A j : ~Published(k, j)'
  BY <1>1, <1>2 DEF Found, Known, Published
<1>8. DiskSays(k, Told(Found, k))'
  <2>1. k \notin torn' => k \notin torn
    BY <1>6
  <2>2. QED
    BY <2>1, <1>1, <1>2, <1>7 DEF DiskSays
<1>9. KeyInv(k)'
  <2>1. ASSUME k \notin torn'
        PROVE  Edited(k)' /\ \A j \in Index : ~(~entry'[k].readable /\ entry'[k].len[j] = 1)
    <3>1. k \notin torn /\ Edited(k) /\ Told(Found, k)'.op = "DIRTY"
      BY <2>1, <1>1, <1>6, <1>7
    <3>2. \A j \in Index : ~(~entry'[k].readable /\ entry'[k].len[j] = 1)
      BY <3>1, <1>1, <1>5 DEF KeyInv
    <3>3. entry[k].left \subseteq entry[k].writes
      BY <1>1 DEF KeyInv
    <3>4. ASSUME NEW j \in Index
          PROVE  /\ clean'[k][j] # 0 => /\ entry'[k].len[j] = 1
                                        /\ entry'[k].readable /\ clean'[k][j] = pub'[k][j]
                 /\ own'[k][j] # 0 => j \in entry'[k].writes \ entry'[k].left
                                      /\ own'[k][j] = entry'[k].editor
                 /\ j \in entry'[k].writes \ entry'[k].left /\ entry'[k].readable
                      => dirty'[k][j] = entry'[k].editor
      <4>1. /\ clean[k][j] # 0 => entry[k].len[j] = 1 /\ entry[k].readable /\ clean[k][j] = pub[k][j]
            /\ own[k][j] # 0 => j \in entry[k].writes \ entry[k].left /\ own[k][j] = entry[k].editor
            /\ j \in entry[k].writes \ entry[k].left /\ entry[k].readable
                 => dirty[k][j] = entry[k].editor
        BY <3>1, <1>1 DEF Edited
      <4>2. CASE j = i
        <5>1. CASE dirty'[k][i] = entry[k].editor
          BY <4>1, <4>2, <5>1, <3>3, <1>2, <1>5, <1>15
        <5>2. CASE dirty'[k][i] = dirty[k][i] /\ torn' = IF entry[k].readable THEN torn \cup {k} ELSE torn
          BY <4>1, <4>2, <5>2, <2>1, <3>3, <1>2, <1>5, <1>15
        <5>3. QED
          BY <5>1, <5>2, <1>6
      <4>3. CASE j # i
        BY <4>1, <4>3, <1>2, <1>5, <1>6, <1>15
      <4>4. QED
        BY <4>2, <4>3
    <3>5. step' # "publish"
      BY <1>7 DEF Publishing
    <3>6. Edited(k)'
      BY <3>1, <3>4, <3>5, <1>7 DEF Edited
    <3>7. QED
      BY <3>2, <3>6
  <2>2. QED
    BY <2>1, <1>1, <1>2, <1>5, <1>7 DEF KeyInv, InLru
<1>10. TypeInv' /\ BufferInv' /\ DiskInv' /\ MemoryInv'
  <2>1. /\ torn' \in SUBSET Keys /\ \A j \in Keys \ {k} : j \in torn <=> j \in torn'
        /\ leaked' \subseteq Keys \X Index \X (1..Recovered)
    BY <1>2, <1>3, <1>4, <1>6 DEF TypeInv
  <2>2. \A j \in Keys : InLru(j) <=> InLru(j)'
    BY <1>2 DEF InLru
  <2>3. QED
    BY <2>1, <2>2, <1>1, <1>2, <1>4, <1>5, <1>6, <1>7, <1>8, <1>9, <1>15, OneEntry
<1>11. SizeInv'
  <2> DEFINE K == Elements(lru)
  <2>1. K \subseteq Keys
    BY <1>3, EditingFinite
  <2> HIDE DEF K
  <2>2. ASSUME NEW f, f = entry', NEW e, e = entry PROVE SumOf(K, f) = SumOf(K, e)
    <3>1. \A j \in K \cup K, h \in Index :
             j \in K /\ e[j].len[h] = 1 <=> j \in K /\ f[j].len[h] = 1
      BY <2>1, <2>2, <1>5
    <3>2. QED
      BY ONLY <3>1, SumSame
  <2>3. SumOf(Elements(lru), entry)' = SumOf(Elements(lru), entry)
    <3>1. SumOf(K, entry') = SumOf(K, entry)
      BY <2>2
    <3>2. SumOf(Elements(lru), entry') = SumOf(Elements(lru), entry)
      BY <3>1 DEF K
    <3>3. QED
      BY <3>2, <1>2 DEF SumOf
  <2>4. torn' = {} => torn = {}
    BY <1>6
  <2>5. QED
    BY <2>3, <2>4, <1>1, <1>2 DEF CacheIInv, SizeInv
<1>12. SeqInv'
  BY <1>2, <1>5, SeqSame DEF CacheIInv
<1>13. StepInv' /\ WriterInv' /\ UnitInv' /\ ReadInv'
  BY <1>1, <1>2 DEF CacheIInv, StepInv, WriterInv, UnitInv, ReadInv, Loading, Halting,
     Replacing, Purging, Removing, Aborting, Publishing, AtFiles
<1>14. QED
  BY <1>10, <1>11, <1>12, <1>13 DEF CacheIInv

\* commit or abort takes the edit over.
LEMMA TakenOverKeeps ==
    ASSUME CacheIInv, NEW k \in Keys, Commit(k) \/ Abort(k)
    PROVE  CacheIInv'
<1>1. /\ up /\ Known /\ method = "none" /\ step = "rest" /\ step \notin Publishing \cup Halting
      /\ \A j : ~Published(k, j)
      /\ InLru(k) /\ KeyInv(k) /\ entry[k].editor \notin {0, Recovered} /\ k \notin durable
      /\ k \notin torn => Edited(k) /\ Told(Found, k).op = "DIRTY"
  BY HeldEntry DEF Commit, Abort
<1>2. /\ UNCHANGED <<journal, backup, clean, dirty, up, buffer, writer, lru, size, trimFailed, nextSeq,
                     edits, pub, durable, torn, leaked>>
      /\ entry' = [entry EXCEPT ![k].held = FALSE] /\ own' = own
      /\ key' = k /\ nth' = 1 /\ method' \in {"commit", "abort"}
      /\ step' = "abortDirty" \/ (/\ step' = "publish" /\ method' = "commit" /\ entry[k].left = {}
                                  /\ ~entry[k].readable => \A j \in Index : dirty[k][j] # 0)
  BY OwnSame DEF Commit, Abort, ToFiles, disk, ghost
<1>3. TypeInv /\ StepInv /\ DiskInv
  BY DEF CacheIInv
<1>4. /\ entry \in [Keys -> EntryType] /\ entry[k] \in EntryType /\ dirty \in [Keys -> Contents]
      /\ clean \in [Keys -> Contents]
      /\ lru \in Seq(Keys) /\ Once(lru) /\ size \in Nat /\ torn \subseteq Keys /\ durable \subseteq Keys
      /\ trimFailed \in BOOLEAN
  BY <1>3 DEF TypeInv, EntryType
<1>5. /\ entry' \in [Keys -> EntryType] /\ \A j \in Keys \ {k} : entry'[j] = entry[j]
      /\ entry'[k].readable = entry[k].readable /\ entry'[k].len = entry[k].len
      /\ entry'[k].editor = entry[k].editor /\ ~entry'[k].held
      /\ entry'[k].writes = entry[k].writes /\ entry'[k].left = entry[k].left
  <2> DEFINE c == [entry[k] EXCEPT !.held = FALSE]
  <2>1. /\ c \in EntryType /\ c.left = entry[k].left /\ ~c.held
        /\ c.readable = entry[k].readable /\ c.len = entry[k].len
        /\ c.editor = entry[k].editor /\ c.writes = entry[k].writes
    BY <1>4 DEF EntryType
  <2>2. entry' = [entry EXCEPT ![k] = c]
    BY <1>2
  <2> HIDE DEF c
  <2>3. QED
    BY <2>1, <2>2, <1>4
<1>6. Found' = Found /\ Known' /\ \A j \in Index : ~Published(k, j)'
  BY <1>1, <1>2 DEF Found, Known, Published, Publishing, Index
<1>7. DiskSays(k, Told(Found, k))'
  BY <1>1, <1>2, <1>6 DEF DiskSays
<1>8. Edited(k) => Edited(k)'
  BY <1>1, <1>2, <1>5, <1>6 DEF Edited
<1>9. KeyInv(k)'
  BY <1>1, <1>2, <1>5, <1>6, <1>8 DEF KeyInv, InLru
<1>10. TypeInv' /\ BufferInv' /\ DiskInv' /\ MemoryInv'
  <2>1. /\ torn' \in SUBSET Keys /\ \A j \in Keys : InLru(j) <=> InLru(j)'
        /\ leaked' \subseteq Keys \X Index \X (1..Recovered)
    BY <1>2, <1>3, <1>4 DEF InLru, TypeInv
  <2>2. QED
    BY <2>1, <1>1, <1>2, <1>4, <1>5, <1>6, <1>7, <1>9, OneEntry
<1>11. SizeInv'
  <2> DEFINE K == Elements(lru)
  <2>1. K \subseteq Keys
    BY <1>3, EditingFinite
  <2> HIDE DEF K
  <2>2. ASSUME NEW f, f = entry', NEW e, e = entry PROVE SumOf(K, f) = SumOf(K, e)
    <3>1. \A j \in K \cup K, h \in Index :
             j \in K /\ e[j].len[h] = 1 <=> j \in K /\ f[j].len[h] = 1
      BY <2>1, <2>2, <1>5
    <3>2. QED
      BY ONLY <3>1, SumSame
  <2>3. SumOf(Elements(lru), entry)' = SumOf(Elements(lru), entry)
    <3>1. SumOf(K, entry') = SumOf(K, entry)
      BY <2>2
    <3>2. SumOf(Elements(lru), entry') = SumOf(Elements(lru), entry)
      BY <3>1 DEF K
    <3>3. QED
      BY <3>2, <1>2 DEF SumOf
  <2>4. QED
    BY <2>3, <1>1, <1>2 DEF CacheIInv, SizeInv
<1>12. SeqInv'
  BY <1>2, <1>5, SeqSame DEF CacheIInv
<1>13. step' \in {"abortDirty", "publish"} /\ (step' = "publish" => method' = "commit")
  BY <1>2
<1>14. StepInv' /\ WriterInv' /\ ReadInv'
  BY <1>1, <1>2, <1>13 DEF CacheIInv, StepInv, WriterInv, ReadInv, InLru, Loading, Halting, Index,
     Replacing, Purging, Removing, Aborting, Publishing, AtFiles
<1>15. UnitInv'
  BY <1>1, <1>2, <1>5, <1>13 DEF UnitInv, Purging, Publishing, Halting, Aborting, Index
<1>16. QED
  BY <1>10, <1>11, <1>12, <1>14, <1>15 DEF CacheIInv

-----------------------------------------------------------------------------
(* The invariant. *)

\* Nothing is on disk and the cache is not open.
LEMMA CacheInitIInv ==
    ASSUME CacheInit
    PROVE  CacheIInv
<1> USE DEF CacheInit
<1>1. /\ \A k \in Keys : entry[k] = NoEntry /\ clean[k] = NoFiles /\ dirty[k] = NoFiles
      /\ journal = <<>> /\ backup = <<>> /\ lru = <<>> /\ step = "rest" /\ method = "none" /\ ~up
  OBVIOUS
<1>8. \A k \in Keys : own[k] = NoFiles
  <2>1. dirty \in [Keys -> Contents]
    BY EntryTypes
  <2>2. own \in [Keys -> Contents] /\ \A k \in Keys, i \in Index : own[k][i] \in {0, dirty[k][i]}
    BY <2>1, OwnFiles DEF own
  <2>3. ASSUME NEW k \in Keys PROVE own[k] = NoFiles
    <3>1. \A i \in Index : own[k][i] = 0
      BY <2>2, <1>1 DEF NoFiles
    <3>2. QED
      BY <2>2, <3>1, NoFile
  <2>4. QED
    BY <2>3
<1>2. ~Known
  BY DEF Known
<1>3. TypeInv
  <2>1. <<>> \in Seq(Lines) /\ <<>> \in Seq(Entries) /\ <<>> \in Seq(Keys)
    OBVIOUS
  <2>2. IsJournal(journal) /\ IsJournal(backup) /\ Once(lru)
    BY <1>1 DEF IsJournal, Once
  <2>3. clean \in [Keys -> Contents] /\ pub \in [Keys -> Contents] /\ dirty \in [Keys -> Contents]
    BY EntryTypes
  <2>4. entry \in [Keys -> EntryType]
    BY EntryTypes
  <2>5. up \in BOOLEAN /\ trimFailed \in BOOLEAN
    OBVIOUS
  <2>6. nextSeq \in 0..MaxEdits /\ edits \in 0..MaxEdits /\ size \in Nat
    BY CacheAssumption
  <2>7. durable \subseteq Keys /\ torn \subseteq Keys /\ leaked \subseteq Keys \X Index \X (1..Recovered)
    OBVIOUS
  <2>8. QED
    BY <2>1, <2>2, <2>3, <2>4, <2>5, <2>6, <2>7, <1>1 DEF TypeInv
<1>4. DiskInv
  <2>1. ASSUME NEW k \in Keys PROVE DiskSays(k, Told(Found, k))
    <3>1. Told(Found, k) = Line("NONE", k) /\ Line("NONE", k).op = "NONE"
      <4>1. Found = <<>>
        BY <1>1 DEF Found
      <4>2. QED
        BY <4>1, ToldNothing, LineTypes
    <3>2. QED
      BY <3>1, <1>1, <1>8 DEF DiskSays
  <2>2. QED
    BY <2>1 DEF DiskInv
<1>5. MemoryInv
  BY <1>1, <1>2, EntryTypes, LineTypes DEF MemoryInv, KeyInv
<1>6. StepInv /\ WriterInv /\ BufferInv /\ UnitInv /\ SizeInv /\ SeqInv /\ ReadInv
  BY DEF StepInv, WriterInv, BufferInv, UnitInv, SizeInv, SeqInv, ReadInv, Loading, Halting,
     Replacing, Purging, Removing, Aborting, Publishing, AtFiles, EndsTorn
<1>7. QED
  BY <1>3, <1>4, <1>5, <1>6 DEF CacheIInv

\* Nothing changes.
LEMMA CacheStutters ==
    ASSUME CacheIInv, UNCHANGED cacheVars
    PROVE  CacheIInv'
<1>1. /\ UNCHANGED <<disk, up, method, step, key, nth, buffer, writer, lru, entry, size, trimFailed,
                     nextSeq, edits, pub, durable, torn, leaked>>
      /\ own' = own
  BY OwnSame DEF cacheVars, todo, memory, ghost, disk
<1>2. /\ TypeInv' /\ BufferInv' /\ DiskInv' /\ SizeInv' /\ SeqInv' /\ trimFailed \in BOOLEAN
  BY <1>1 DEF CacheIInv, TypeInv, BufferInv, DiskInv, DiskSays, SizeInv, SeqInv, SumOf, Found, InLru, disk
<1>3. MemoryInv'
  BY <1>1 DEF CacheIInv, MemoryInv, KeyInv, Known, Unedited, Edited, Published, Found, InLru, disk
<1>4. StepInv' /\ WriterInv' /\ UnitInv' /\ ReadInv'
  BY <1>1 DEF CacheIInv, StepInv, WriterInv, UnitInv, ReadInv, ReadSays, EndsTorn, InLru, disk
<1>5. QED
  BY <1>2, <1>3, <1>4 DEF CacheIInv

\* Every step of the cache keeps the invariant.
LEMMA CacheNextIInv ==
    ASSUME CacheIInv, [CacheNext]_cacheVars
    PROVE  CacheIInv'
<1>1. CASE Open
  BY <1>1, OpenKeeps
<1>2. CASE FileStep
  <2>1. CASE Read \/ ReadEnds \/ PurgeNext \/ Opened
    BY <2>1, ReadKeeps, ReadEndsKeeps, PurgeNextKeeps, OpenedKeeps
  <2>2. CASE UnlinkClean \/ UnlinkDirty \/ Forget \/ DeleteDirty \/ Detach
    BY <2>2, UnlinkKeeps, ForgetKeeps, DeleteDirtyKeeps, DetachKeeps
  <2>3. CASE DeleteClean \/ Removed \/ Publish \/ Committed \/ Aborted
    BY <2>3, DeleteCleanKeeps, RemovedKeeps, PublishKeeps, CommittedKeeps, AbortedKeeps
  <2>4. CASE Trim \/ EvictNext \/ AbortNext \/ WriteOut
    BY <2>4, EldestKeeps, AbortNextKeeps, WriteOutKeeps
  <2>5. CASE ToBackup \/ ToJournal \/ DropBackup \/ FromBackup \/ NewWriter \/ Closed
    BY <2>5, ToBackupKeeps, ToJournalKeeps, BackupKeeps, NewWriterKeeps, ClosedKeeps
  <2>6. QED
    BY <1>2, <2>1, <2>2, <2>3, <2>4, <2>5 DEF FileStep
<1>3. CASE DeleteDirtyFails \/ OpFails \/ Crash
  BY <1>3, DeleteDirtyFailsKeeps, OpFailsKeeps, CrashKeeps
<1>4. CASE ClientCall
  <2>1. ASSUME NEW k \in Keys, Get(k) \/ EditRefused(k) \/ WriteFails(k) \/ RemoveKey(k)
        PROVE  CacheIInv'
    BY <2>1, GetKeeps, EditRefusedKeeps, WriteFailsKeeps, RemoveKeyKeeps
  <2>2. ASSUME NEW k \in Keys, Edit(k) \/ EditSnapshot(k)
        PROVE  CacheIInv'
    <3>1. EditEntry(k, Index) \/ EditEntry(k, {1})
      BY <2>2 DEF Edit, EditSnapshot
    <3>2. Index \in {Index, {1}} /\ {1} \in {Index, {1}}
      OBVIOUS
    <3>3. QED
      BY <3>1, <3>2, EditEntryKeeps
  <2>3. ASSUME NEW k \in Keys, Commit(k) \/ Abort(k)
        PROVE  CacheIInv'
    BY <2>3, TakenOverKeeps
  <2>4. ASSUME NEW k \in Keys, NEW i \in Index, Write(k, i)
        PROVE  CacheIInv'
    BY <2>4, WriteKeeps
  <2>5. CASE EvictAll \/ Flush \/ Close \/ Cleanup
    BY <2>5, CallKeeps
  <2>6. QED
    BY <1>4, <2>1, <2>2, <2>3, <2>4, <2>5 DEF ClientCall
<1>5. CASE UNCHANGED cacheVars
  BY <1>5, CacheStutters
<1>6. QED
  BY <1>1, <1>2, <1>3, <1>4, <1>5 DEF CacheNext

\* Whatever crashes, whichever file operations fail: the journal on disk, the
\* files and the entries in memory agree as CacheIInv says (DiskLruCache).
THEOREM CacheAlwaysIInv == CacheSpec => []CacheIInv
<1>1. CacheInit => CacheIInv
  BY CacheInitIInv
<1>2. CacheIInv /\ [CacheNext]_cacheVars => CacheIInv'
  BY CacheNextIInv
<1>3. QED
  BY <1>1, <1>2, PTL DEF CacheSpec

\* An entry of the cache between two methods.
LEMMA AtRestEntry ==
    ASSUME CacheIInv, AtRest, NEW k \in Keys
    PROVE  /\ clean[k] \in Contents /\ pub[k] \in Contents /\ dirty[k] \in Contents
           /\ k \in durable => InLru(k) /\ entry[k].readable /\ clean[k] = pub[k]
           /\ k \notin torn => \A i \in Index :
                /\ clean[k][i] # 0 => entry[k].readable /\ clean[k][i] = pub[k][i] /\ entry[k].len[i] = 1
                /\ dirty[k][i] \in {0, entry[k].editor} \/ Leaked(k, i)
<1>1. KeyInv(k) /\ DiskSays(k, Told(Found, k))
  BY DEF CacheIInv, MemoryInv, DiskInv
<1>2. Known /\ up /\ \A i : ~Published(k, i)
  BY BetweenCalls
<1>3. clean[k] \in Contents /\ pub[k] \in Contents /\ dirty[k] \in Contents
  BY DEF CacheIInv, TypeInv
<1>4. k \in durable => InLru(k) /\ entry[k].readable /\ clean[k] = pub[k]
  BY <1>1, <1>2 DEF KeyInv, DiskSays
<1>5. ASSUME k \notin torn, NEW i \in Index
      PROVE  /\ clean[k][i] # 0 => entry[k].readable /\ clean[k][i] = pub[k][i] /\ entry[k].len[i] = 1
             /\ dirty[k][i] \in {0, entry[k].editor} \/ Leaked(k, i)
  <2>0. own[k][i] = IF Leaked(k, i) THEN 0 ELSE dirty[k][i]
    <3>1. dirty \in [Keys -> Contents]
      BY DEF CacheIInv, TypeInv
    <3>2. QED
      BY <3>1, OwnFiles DEF own, Kept, Leaked
  <2>1. CASE entry[k].editor = 0
    BY <2>0, <2>1, <1>1, <1>2, <1>5 DEF KeyInv, Unedited, NoFiles
  <2>2. CASE entry[k].editor # 0
    BY <2>0, <2>2, <1>1, <1>2, <1>5 DEF KeyInv, Edited
  <2>3. QED
    BY <2>1, <2>2
<1>6. QED
  BY <1>3, <1>4, <1>5

\* Between methods, a reader finds the values of the last commit of an entry,
\* never a mixture of two (completeEdit, processJournal).
THEOREM AlwaysWholeEntries == CacheSpec => []WholeEntries
<1>1. CacheIInv => WholeEntries
  <2> SUFFICES ASSUME CacheIInv, AtRest, NEW k \in Keys \ torn, 0 \notin {clean[k][i] : i \in Index}
               PROVE  clean[k] = pub[k]
    BY DEF WholeEntries
  <2>1. clean[k] \in Contents /\ pub[k] \in Contents /\ \A i \in Index : clean[k][i] = pub[k][i]
    BY AtRestEntry
  <2>2. QED
    BY <2>1 DEF Contents
<1>2. QED
  BY <1>1, CacheAlwaysIInv, PTL

\* What was committed and recorded survives crashes, restarts, rebuilds and
\* failed rebuilds, until it is edited or evicted (rebuildJournal, initialize).
THEOREM AlwaysCommittedSurvive == CacheSpec => []CommittedSurvive
<1>1. CacheIInv => CommittedSurvive
  <2> SUFFICES ASSUME CacheIInv, AtRest, NEW k \in durable
               PROVE  InLru(k) /\ entry[k].readable /\ clean[k] = pub[k]
    BY DEF CommittedSurvive
  <2>1. k \in Keys
    BY DEF CacheIInv, TypeInv
  <2>2. QED
    BY <2>1, AtRestEntry
<1>2. QED
  BY <1>1, CacheAlwaysIInv, PTL

\* The books of the cache are right: journals readJournal can read, an entry per
\* key, the size, and no file that no entry owns (DiskLruCache).
THEOREM CacheAlwaysKept == CacheSpec => []CacheInv
<1>1. CacheIInv => CacheTypeOK
  <2> SUFFICES ASSUME CacheIInv PROVE CacheTypeOK
    OBVIOUS
  <2>1. lru \in Seq(Keys) /\ Once(lru)
    BY DEF CacheIInv, TypeInv
  <2>2. Len(lru) = Cardinality(Elements(lru)) /\ Elements(lru) \subseteq Keys
    BY <2>1, ElementsCounted, EditingFinite DEF CacheIInv
  <2>3. QED
    BY <2>2 DEF CacheIInv, TypeInv, CacheTypeOK
<1>2. CacheIInv => SizeExact
  <2> SUFFICES ASSUME CacheIInv, AtRest, torn = {}
               PROVE  /\ size = SumOf(Elements(lru), entry)
                      /\ \A k \in Keys, i \in Index : clean[k][i] # 0 => entry[k].len[i] = 1
    BY DEF SizeExact
  <2>1. size = SumOf(Elements(lru), entry)
    BY DEF CacheIInv, SizeInv, AtRest
  <2>2. \A k \in Keys, i \in Index : clean[k][i] # 0 => entry[k].len[i] = 1
    BY AtRestEntry
  <2>3. QED
    BY <2>1, <2>2
<1>3. CacheIInv => NoLeak
  <2> SUFFICES ASSUME CacheIInv, AtRest, NEW k \in Keys \ torn, NEW i \in Index
               PROVE  /\ dirty[k][i] \in {0, entry[k].editor} \/ Leaked(k, i)
                      /\ clean[k][i] # 0 => InLru(k)
    BY DEF NoLeak
  <2>1. /\ dirty[k][i] \in {0, entry[k].editor} \/ Leaked(k, i)
        /\ clean[k][i] # 0 => entry[k].readable
    BY AtRestEntry
  <2>2. entry[k].readable => InLru(k)
    BY EditedEntry
  <2>3. QED
    BY <2>1, <2>2
<1>4. QED
  BY <1>1, <1>2, <1>3, CacheAlwaysIInv, PTL DEF CacheInv
=============================================================================
