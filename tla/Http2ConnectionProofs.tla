----------------------- MODULE Http2ConnectionProofs -----------------------
(***************************************************************************)
(* Proofs about Http2Connection, for any number of streams and any windows, *)
(* request bodies, replies and faults.                                     *)
(***************************************************************************)
EXTENDS Http2Connection, FiniteSetTheorems, WellFoundedInduction, TLAPS

\* What the reader, the executor and the thread in close() hold.
Reader ==
    [pc : {"idle", "headers", "finish", "remove", "store", "discard", "reset", "refuse", "refused"},
     s : 0..MaxStreams, n : Nat, fin : BOOLEAN, who : SUBSET Streams]
PartTypes ==
    /\ reader \in Reader
    /\ settle \in [pc : {"idle", "queued", "adding"}, to : Nat, delta : Int, who : SUBSET Streams]
    /\ closer \in [pc : {"no", "snapshot", "streams", "remove", "done"}, who : SUBSET Streams]
    /\ reader.pc \notin {"idle", "refuse"} => reader.s \in Streams
    /\ \A s \in Streams : st[s].pc = "send" => st[s].hand <= st[s].body

\* How far the thread of a call has come, and what that says of its stream: which ends are
\* closed, whether there was a response, and that its headers are there until they are taken.
Local(x) ==
    /\ x.pc \in {"new", "write", "send"} => ~x.outFinished /\ ~x.outClosed
    /\ x.pc \notin {"new", "write", "send", "shut", "done", "left", "unsent"} =>
         x.outFinished \/ x.outClosed
    /\ x.pc \in {"new", "write", "send", "shut", "headers", "read", "ack", "close"} => ~x.inClosed
    /\ x.pc \in {"discard", "cancel"} => x.inClosed
    /\ x.pc \in {"read", "ack", "close", "discard"} => x.responded
    /\ x.inClosed \/ x.inFinished \/ x.header => x.responded
    /\ x.pc \in {"write", "send", "shut", "headers"} /\ x.responded => x.header
    /\ x.pc \in {"check", "cancel", "remove"} /\ ~x.inClosed /\ x.responded => x.header
    /\ x.inClosed => x.buf = 0
    /\ x.pc = "remove" => ~IsOpen(x)
    /\ x.killer => x.err
LocalInv == \A s \in Streams : Local(st[s])

\* A stream that was not opened yet is as it was made, and nobody knows of it.
Fresh(x) ==
    /\ x.pc \in {"new", "done"} /\ x.asleep = "no" /\ x.peer = "silent"
    /\ ~x.err /\ ~x.killer /\ ~x.responded /\ x.credit = Window /\ x.unacked = 0 /\ x.buf = 0
OpenedInv ==
    /\ \A s \in Streams : IF s < next THEN st[s].pc # "new" ELSE Fresh(st[s])
    /\ \A s \in streams \cup settle.who \cup closer.who \cup reader.who : s < next
    /\ reader.s < next

\* What the executor and close() have done at which point.  No stream comes in after a
\* GOAWAY or once close() has begun.
CloserInv ==
    /\ settle.pc # "adding" => settle.who = {}
    /\ settle.pc = "queued" => settle.to \in Sizes
    /\ closer.pc \in {"no", "snapshot"} => closer.who = {}
    /\ closer.pc \notin {"no", "snapshot"} => streams = {}
    /\ closer.pc = "remove" => closer.who # {} /\ st[Min(closer.who)].err
    /\ closer.pc # "no" \/ gone < MaxStreams => shutdown
    /\ closed => closer.pc = "done"

\* What holds between two sections of the reader, and of a stream the peer has written to.
ReaderInv ==
    /\ reader.pc \in {"store", "discard", "finish"} => st[reader.s].responded
    /\ reader.pc = "discard" => st[reader.s].inClosed
    /\ reader.pc = "remove" => ~IsOpen(st[reader.s])
    /\ reader.pc = "refused" => st[reader.s].err
    /\ reader.pc = "reset" => reader.s \notin streams /\ st[reader.s].asleep # "connection"
    /\ \A s \in streams :
          st[s].peer # "silent" => st[s].responded \/ (reader.pc = "headers" /\ reader.s = s)
    /\ \A s \in streams : s > gone =>
          \/ reader.pc \in {"refuse", "refused"} /\ s \in reader.who
          \/ reader.pc = "refused" /\ reader.s = s

\* Another thread than the call's is about to take s out of the map.
Going(s) == st[s].killer \/ (reader.s = s /\ reader.pc \in {"remove", "refused"})

\* A stream in the map that failed, that both sides have finished or whose call came to an end
\* has somebody to take it out; not so one whose last flush failed.  One that is not in the map
\* is over, unless the reader or close() has yet to fail it.
MapInv ==
    /\ \A s \in streams :
         /\ st[s].err => Going(s) \/ st[s].pc = "remove"
         /\ ~IsOpen(st[s]) =>
              Going(s) \/ st[s].pc \in {"check", "discard", "cancel", "remove", "unflushed"}
         /\ st[s].pc = "cancel" /\ st[s].inFinished => Going(s)
         /\ st[s].pc = "done" => Going(s) /\ (st[s].err \/ st[s].inClosed)
    /\ \A s \in Streams \ streams : s < next =>
         ~IsOpen(st[s]) \/ (reader.pc = "reset" /\ reader.s = s) \/ s \in closer.who

\* Who sleeps where, and what for.
WaitInv == \A s \in Streams :
    /\ st[s].asleep = "stream" =>
         /\ ~st[s].err
         /\ \/ st[s].pc = "write" /\ st[s].win <= 0
            \/ st[s].pc = "headers" /\ ~st[s].header
            \/ st[s].pc = "read" /\ st[s].buf = 0 /\ ~st[s].inFinished
    /\ st[s].asleep = "connection" =>
         /\ st[s].pc = "send" /\ outLeft <= 0
         /\ st[s].err => Going(s) \/ (closer.pc = "remove" /\ s \in closer.who)
         /\ s \in streams \/ st[s].err \/ s \in closer.who

\* The window of the connection, and the windows of the streams.
ConnCredit == credit + unacked + InReader + OwedUpTo[MaxStreams] = Window
StreamCredit ==
    \A s \in streams : ~st[s].err /\ ~st[s].inClosed =>
        st[s].credit + st[s].unacked + st[s].buf + (IF reader.s = s THEN InReader ELSE 0) = Window

\* The inductive invariant.
IInv ==
    /\ TypeOK /\ PartTypes /\ LocalInv /\ OpenedInv /\ CloserInv /\ ReaderInv /\ MapInv /\ WaitInv
    /\ WindowsAgree /\ ConnCredit /\ StreamCredit

-----------------------------------------------------------------------------
(* Sums and least elements. *)

\* A non-empty set of natural numbers has a least element: the strict subset
\* ordering on the intervals 0..i is well-founded.
LEMMA LeastElement ==
    ASSUME NEW I \in SUBSET Nat, I # {}
    PROVE  \E i \in I : \A j \in I : i <= j
<1> DEFINE T == {0..i : i \in I}
           R == StrictSubsetOrdering(Nat)
<1>1. IsWellFoundedOn(R, FiniteSubsetsOf(Nat))
  BY FS_StrictSubsetOrderingWellFounded
<1>2. ASSUME NEW i \in I PROVE 0..i \in FiniteSubsetsOf(Nat)
  <2>1. IsFiniteSet(0..i)
    BY FS_Interval, 0 \in Int, i \in Int
  <2>2. QED
    BY <2>1 DEF FiniteSubsetsOf
<1>3. T \subseteq FiniteSubsetsOf(Nat) /\ T # {}
  BY <1>2
<1>4. PICK x \in T : \A y \in T : <<y, x>> \notin R
  <2> HIDE DEF T, R
  <2>1. QED
    BY <1>1, <1>3, WFMin
<1>5. PICK i \in I : x = 0..i
  OBVIOUS
<1>6. ASSUME NEW j \in I, j < i PROVE FALSE
  <2>1. 0..j \subseteq 0..i /\ i \in 0..i /\ i \notin 0..j
    BY <1>6
  <2>2. <<0..j, x>> \in R
    BY <2>1, <1>5 DEF StrictSubsetOrdering
  <2>3. QED
    BY <2>2, <1>4
<1>7. QED
  BY <1>6


\* A sum over the streams up to n exists as a function of n.
LEMMA SumExists ==
    ASSUME NEW M \in Nat, NEW h \in [1..M -> Int]
    PROVE  \E f \in [0..M -> Int] : f = [n \in 0..M |-> IF n = 0 THEN 0 ELSE h[n] + f[n - 1]]
<1> DEFINE Sums(f, n) == f[0] = 0 /\ \A k \in 1..n : f[k] = h[k] + f[k - 1]
           I == {n \in 0..M : ~ \E f \in [0..n -> Int] : Sums(f, n)}
<1>1. I = {}
  <2> SUFFICES ASSUME I # {} PROVE FALSE
    OBVIOUS
  <2>1. PICK i \in I : \A j \in I : i <= j
    <3>1. I \in SUBSET Nat
      OBVIOUS
    <3> HIDE DEF I
    <3>2. QED
      BY <3>1, LeastElement
  <2>2. i # 0
    <3>1. [k \in 0..0 |-> 0] \in [0..0 -> Int] /\ Sums([k \in 0..0 |-> 0], 0)
      OBVIOUS
    <3>2. QED
      BY <3>1
  <2>3. PICK f \in [0..(i - 1) -> Int] : Sums(f, i - 1)
    <3>1. i - 1 \in 0..M /\ ~(i <= i - 1)
      BY <2>1, <2>2
    <3>2. i - 1 \notin I
      BY <3>1, <2>1
    <3>3. QED
      BY <3>1, <3>2
  <2> DEFINE g == [k \in 0..i |-> IF k = i THEN h[i] + f[i - 1] ELSE f[k]]
  <2>4. g \in [0..i -> Int]
    BY <2>2, <2>3
  <2>5. Sums(g, i)
    BY SMTT(30), <2>2, <2>3
  <2>6. QED
    BY <2>1, <2>4, <2>5
<1>2. PICK f \in [0..M -> Int] : Sums(f, M)
  <2>1. M \in 0..M
    OBVIOUS
  <2>2. QED
    BY <1>1, <2>1
<1>3. f = [n \in 0..M |-> IF n = 0 THEN 0 ELSE h[n] + f[n - 1]]
  BY <1>2
<1>4. QED
  BY <1>3

\* f[n] is the sum of h up to n; h and k differ in one term, that of s.
Sums(f, h) == f[0] = 0 /\ \A n \in Streams : f[n] = h[n] + f[n - 1]
DifferAt(s, h, k) == \A t \in Streams : h[t] \in Int /\ k[t] \in Int /\ (t # s => k[t] = h[t])

\* Two sums whose terms differ at s differ by the difference of those terms.
LEMMA SumChange ==
    ASSUME NEW h, NEW k, NEW f, NEW g, NEW s \in Streams, DifferAt(s, h, k), Sums(f, h),
           Sums(g, k)
    PROVE  f[MaxStreams] \in Int /\ g[MaxStreams] = f[MaxStreams] + k[s] - h[s]
<1>0. PICK M \in Nat :
        /\ M = MaxStreams /\ s \in 1..M
        /\ \A t \in 1..M : h[t] \in Int /\ k[t] \in Int /\ (t # s => k[t] = h[t])
        /\ f[0] = 0 /\ g[0] = 0
        /\ \A n \in 1..M : f[n] = h[n] + f[n - 1] /\ g[n] = k[n] + g[n - 1]
  BY Http2Assumption DEF Streams, Sums, DifferAt
<1> DEFINE D(n) == IF n < s THEN 0 ELSE k[s] - h[s]
           I == {n \in 0..M : ~(f[n] \in Int /\ g[n] = f[n] + D(n))}
<1>1. I = {}
  <2> SUFFICES ASSUME I # {} PROVE FALSE
    OBVIOUS
  <2>1. PICK i \in I : \A j \in I : i <= j
    <3>1. I \in SUBSET Nat
      OBVIOUS
    <3> HIDE DEF I
    <3>2. QED
      BY <3>1, LeastElement
  <2>2. i # 0
    BY <1>0
  <2>3. i - 1 \in 0..M /\ i - 1 \notin I /\ i \in 1..M
    BY <1>0, <2>1, <2>2
  <2>4. f[i - 1] \in Int /\ g[i - 1] = f[i - 1] + D(i - 1)
    BY <2>3
  <2>5. f[i] = h[i] + f[i - 1] /\ g[i] = k[i] + g[i - 1]
    BY <1>0, <2>3
  <2>6. f[i] \in Int /\ g[i] = f[i] + D(i)
    <3>1. CASE i = s
      BY <3>1, <1>0, <2>3, <2>4, <2>5
    <3>2. CASE i < s
      BY <3>2, <1>0, <2>3, <2>4, <2>5
    <3>3. CASE i > s
      BY <3>3, <1>0, <2>3, <2>4, <2>5
    <3>4. QED
      BY <1>0, <3>1, <3>2, <3>3, <2>3
  <2>7. QED
    BY <2>6
<1>2. M \in 0..M /\ ~(M < s)
  BY <1>0
<1>3. QED
  BY <1>0, <1>1, <1>2

\* What OwedUpTo computes.
HeldIsSum ==
    (\A s \in Streams : Owed(s) \in Int) =>
        OwedUpTo = [n \in 0..MaxStreams |-> IF n = 0 THEN 0 ELSE Owed(n) + OwedUpTo[n - 1]]

\* The recursive function OwedUpTo is defined by its equation.
LEMMA HeldSum == HeldIsSum
<1> SUFFICES ASSUME \A s \in Streams : Owed(s) \in Int
             PROVE  OwedUpTo = [n \in 0..MaxStreams |->
                                  IF n = 0 THEN 0 ELSE Owed(n) + OwedUpTo[n - 1]]
  BY DEF HeldIsSum
<1> DEFINE h == [s \in Streams |-> Owed(s)]
<1>1. h \in [1..MaxStreams -> Int] /\ MaxStreams \in Nat
  BY Http2Assumption DEF Streams
<1>2. PICK f : f = [n \in 0..MaxStreams |-> IF n = 0 THEN 0 ELSE h[n] + f[n - 1]]
  <2> HIDE DEF h
  <2>1. QED
    BY <1>1, SumExists
<1>3. f = [n \in 0..MaxStreams |-> IF n = 0 THEN 0 ELSE Owed(n) + f[n - 1]]
  <2>1. \A n \in 0..MaxStreams : n # 0 => h[n] = Owed(n)
    BY Http2Assumption DEF Streams
  <2> HIDE DEF h
  <2>2. QED
    BY <1>2, <2>1
<1>4. QED
  BY <1>3 DEF OwedUpTo

\* So it is in the next state.
LEMMA HeldSumNext == HeldIsSum'
  BY HeldSum, PTL

\* A step that changes what is held on one stream.
LEMMA HeldChange ==
    ASSUME NEW s \in Streams,
           \A t \in Streams : Owed(t) \in Int /\ Owed(t)' \in Int /\ (t # s => Owed(t)' = Owed(t))
    PROVE  /\ OwedUpTo[MaxStreams] \in Int
           /\ OwedUpTo'[MaxStreams] = OwedUpTo[MaxStreams] + Owed(s)' - Owed(s)
<1> DEFINE h == [t \in Streams |-> Owed(t)]
           k == [t \in Streams |-> Owed(t)']
<1>1. /\ MaxStreams \in Nat /\ s \in 1..MaxStreams
      /\ \A t \in 1..MaxStreams : h[t] \in Int /\ k[t] \in Int /\ (t # s => k[t] = h[t])
  BY Http2Assumption DEF Streams
<1>2. OwedUpTo = [n \in 0..MaxStreams |-> IF n = 0 THEN 0 ELSE h[n] + OwedUpTo[n - 1]]
  <2>1. OwedUpTo = [n \in 0..MaxStreams |-> IF n = 0 THEN 0 ELSE Owed(n) + OwedUpTo[n - 1]]
    BY HeldSum DEF HeldIsSum
  <2>2. \A n \in 0..MaxStreams : n # 0 => h[n] = Owed(n)
    BY Http2Assumption DEF Streams
  <2> HIDE DEF h
  <2>3. QED
    BY <2>1, <2>2
<1>3. OwedUpTo' = [n \in 0..MaxStreams |-> IF n = 0 THEN 0 ELSE k[n] + OwedUpTo'[n - 1]]
  <2>1. OwedUpTo' = [n \in 0..MaxStreams |-> IF n = 0 THEN 0 ELSE Owed(n)' + OwedUpTo'[n - 1]]
    BY HeldSumNext DEF HeldIsSum
  <2>2. \A n \in 0..MaxStreams : n # 0 => k[n] = Owed(n)'
    BY Http2Assumption DEF Streams
  <2> HIDE DEF k
  <2>3. QED
    BY <2>1, <2>2
<1>4. k[s] = Owed(s)' /\ h[s] = Owed(s)
  OBVIOUS
<1> DEFINE f == OwedUpTo
           g == OwedUpTo'
<1>5. DifferAt(s, h, k)
  BY <1>1 DEF DifferAt, Streams
<1> HIDE DEF h, k
<1>6. Sums(f, h) /\ Sums(g, k)
  BY <1>1, <1>2, <1>3 DEF Sums, Streams
<1> HIDE DEF f, g
<1>7. f[MaxStreams] \in Int /\ g[MaxStreams] = f[MaxStreams] + k[s] - h[s]
  BY <1>5, <1>6, SumChange
<1>8. QED
  BY <1>4, <1>7 DEF f, g

-----------------------------------------------------------------------------
(* Records. *)

\* A numeral cannot be less than two numbers, and the least of a set is in it.
LEMMA MinTwo ==
    ASSUME NEW a \in Int, NEW b \in Int
    PROVE  Min({a, b}) \in {a, b} /\ Min({a, b}) <= a /\ Min({a, b}) <= b
<1>1. \E x \in {a, b} : \A y \in {a, b} : x <= y
  <2>1. CASE a <= b
    BY <2>1
  <2>2. CASE b <= a
    BY <2>2
  <2>3. QED
    BY <2>1, <2>2
<1>2. QED
  BY <1>1 DEF Min

\* The least stream of a set of streams is in it.
LEMMA MinIn ==
    ASSUME NEW W \in SUBSET Streams, W # {}
    PROVE  Min(W) \in W
<1>1. W \in SUBSET Nat
  BY Http2Assumption DEF Streams
<1>2. \E x \in W : \A y \in W : x <= y
  BY <1>1, LeastElement
<1>3. QED
  BY <1>2 DEF Min

\* A stream stays one when a field is given a value of the field's type.
Pcs == {"new", "write", "send", "shut", "check", "cancel", "remove", "headers", "read",
        "ack", "close", "discard", "done", "left", "unsent", "unflushed"}
SetFlags(x) ==
    \A v \in BOOLEAN :
        /\ [x EXCEPT !.err = v] \in Stream /\ [x EXCEPT !.killer = v] \in Stream
        /\ [x EXCEPT !.outFinished = v] \in Stream /\ [x EXCEPT !.outClosed = v] \in Stream
        /\ [x EXCEPT !.inFinished = v] \in Stream /\ [x EXCEPT !.inClosed = v] \in Stream
        /\ [x EXCEPT !.header = v] \in Stream /\ [x EXCEPT !.responded = v] \in Stream
SetNumbers(x) ==
    /\ \A v \in Nat :
        /\ [x EXCEPT !.buf = v] \in Stream /\ [x EXCEPT !.unacked = v] \in Stream
        /\ [x EXCEPT !.sent = v] \in Stream /\ [x EXCEPT !.body = v] \in Stream
        /\ [x EXCEPT !.hand = v] \in Stream
    /\ \A v \in Int :
        /\ [x EXCEPT !.credit = v] \in Stream /\ [x EXCEPT !.win = v] \in Stream
        /\ [x EXCEPT !.peerWin = v] \in Stream
SetPoints(x) ==
    /\ \A v \in Pcs : [x EXCEPT !.pc = v] \in Stream
    /\ \A v \in {"no", "stream", "connection"} : [x EXCEPT !.asleep = v] \in Stream
    /\ \A v \in {"silent", "open", "done"} : [x EXCEPT !.peer = v] \in Stream

\* Changing one field of a stream within its type leaves a stream.
LEMMA FieldsSet == \A x \in Stream : SetFlags(x) /\ SetNumbers(x) /\ SetPoints(x)
<1> SUFFICES ASSUME NEW x \in Stream PROVE SetFlags(x) /\ SetNumbers(x) /\ SetPoints(x)
  OBVIOUS
<1>1. SetFlags(x)
  BY DEF Stream, SetFlags
<1>2. SetNumbers(x)
  BY DEF Stream, SetNumbers
<1>3. SetPoints(x)
  <2>1. \A v \in Pcs : [x EXCEPT !.pc = v] \in Stream
    BY DEF Stream, Pcs
  <2>2. \A v \in {"no", "stream", "connection"} : [x EXCEPT !.asleep = v] \in Stream
    BY DEF Stream
  <2>3. \A v \in {"silent", "open", "done"} : [x EXCEPT !.peer = v] \in Stream
    BY DEF Stream
  <2>4. QED
    BY <2>1, <2>2, <2>3 DEF SetPoints
<1>4. QED
  BY <1>1, <1>2, <1>3

\* The types of the fields.
LEMMA Fields ==
    ASSUME NEW x \in Stream
    PROVE  /\ x.pc \in Pcs /\ x.asleep \in {"no", "stream", "connection"}
           /\ x.peer \in {"silent", "open", "done"}
           /\ {x.err, x.killer, x.outFinished, x.outClosed} \subseteq BOOLEAN
           /\ {x.inFinished, x.inClosed, x.header, x.responded} \subseteq BOOLEAN
           /\ {x.buf, x.unacked, x.sent, x.body, x.hand} \subseteq Nat
           /\ {x.credit, x.win, x.peerWin} \subseteq Int
  BY DEF Stream, Pcs

\* Parts of a stream that a step leaves alone.
SameEnds(y, x) ==
    /\ y.err = x.err /\ y.killer = x.killer /\ y.header = x.header /\ y.responded = x.responded
    /\ y.outFinished = x.outFinished /\ y.outClosed = x.outClosed
    /\ y.inFinished = x.inFinished /\ y.inClosed = x.inClosed
SameIn(y, x) == y.buf = x.buf /\ y.unacked = x.unacked /\ y.credit = x.credit
SameOut(y, x) == y.win = x.win /\ y.peerWin = x.peerWin
SameWork(y, x) == y.body = x.body /\ y.hand = x.hand

\* Nothing changes in what is held.
LEMMA HeldSame ==
    ASSUME \A t \in Streams : Owed(t) \in Int /\ Owed(t)' = Owed(t)
    PROVE  OwedUpTo[MaxStreams] \in Int /\ OwedUpTo'[MaxStreams] = OwedUpTo[MaxStreams]
<1>1. CASE Streams = {}
  <2>1. MaxStreams = 0
    BY <1>1, Http2Assumption DEF Streams
  <2>2. OwedUpTo[0] = 0 /\ OwedUpTo'[0] = 0
    BY <1>1, <2>1, HeldSum, HeldSumNext DEF HeldIsSum
  <2>3. QED
    BY <2>1, <2>2
<1>2. CASE Streams # {}
  <2>1. PICK s : s \in Streams
    BY <1>2
  <2>2. QED
    BY <2>1, HeldChange
<1>3. QED
  BY <1>1, <1>2

-----------------------------------------------------------------------------
(* The thread of a call.                                                   *)
(*                                                                         *)
(* A lemma for an action says first what the action makes of the state (y,  *)
(* the new record of its stream, field by field; its guard; what it leaves  *)
(* alone) and then takes the parts of the inductive invariant one by one.   *)

\* The sink is closed; on a closed connection the map is empty, so a call may end here.
LEMMA SinkCloseKeeps ==
    ASSUME IInv, faults' \in Nat, NEW s \in Streams, SinkClose(s)
    PROVE  IInv'
<1> USE DEF IInv
<1> DEFINE y == [st[s] EXCEPT !.outClosed = TRUE, !.pc = IF closed THEN "done" ELSE "check"]
<1>1. /\ y \in Stream /\ st' = [st EXCEPT ![s] = y]
      /\ y.outClosed /\ y.pc = IF closed THEN "done" ELSE "check"
      /\ y.err = st[s].err /\ y.killer = st[s].killer /\ y.header = st[s].header
      /\ y.responded = st[s].responded /\ y.outFinished = st[s].outFinished
      /\ y.inFinished = st[s].inFinished /\ y.inClosed = st[s].inClosed /\ SameIn(y, st[s])
      /\ SameOut(y, st[s]) /\ SameWork(y, st[s]) /\ y.asleep = st[s].asleep
      /\ y.peer = st[s].peer
  <2>1. st[s] \in Stream
    BY DEF TypeOK
  <2>2. y \in Stream
    BY <2>1, FieldsSet, Fields DEF SetFlags, SetNumbers, SetPoints, Pcs
  <2>3. st' = [st EXCEPT ![s] = y]
    BY DEF SinkClose, Becomes
  <2>4. QED
    BY <2>1, <2>2, <2>3 DEF Stream, SameEnds, SameIn, SameOut, SameWork
<1> HIDE DEF y
<1>2. /\ At(s, "shut")
      /\ UNCHANGED <<streams, next, shutdown, closed, outLeft, unacked, credit, reader,
                    settle, setting, closer, gone>>
  BY DEF SinkClose, Becomes, inVars, settingVars
<1>3. /\ st' \in [Streams -> Stream] /\ st'[s] = y
      /\ \A t \in Streams \ {s} : st'[t] = st[t]
  BY <1>1 DEF TypeOK
<1>4. TypeOK'
  BY <1>1, <1>2, <1>3 DEF TypeOK
<1>5. PartTypes'
  BY <1>1, <1>2, <1>3 DEF PartTypes, Reader, SameWork, At
<1>6. LocalInv'
  BY <1>1, <1>2, <1>3 DEF LocalInv, Local, IsOpen, SameEnds, SameIn, At
<1>7. OpenedInv'
  BY <1>1, <1>2, <1>3 DEF OpenedInv, Fresh, SameIn, SameEnds, At
<1>8. CloserInv'
  BY <1>1, <1>2, <1>3 DEF CloserInv, SameEnds
<1>9. ReaderInv'
  BY <1>1, <1>2, <1>3 DEF ReaderInv, IsOpen, SameEnds, At
<1>10. MapInv'
  BY <1>1, <1>2, <1>3 DEF MapInv, Going, IsOpen, CloserInv, SameEnds, At
<1>11. WaitInv'
  BY <1>1, <1>2, <1>3 DEF WaitInv, Going, SameEnds, SameIn, SameOut, At
<1>12. WindowsAgree'
  BY <1>1, <1>2, <1>3 DEF WindowsAgree, SameOut, SameWork, At
<1>13. ConnCredit'
  <2>1. \A t \in Streams : st[t].buf \in Nat /\ st[t].hand \in Nat
    BY Fields DEF TypeOK
  <2>2. \A t \in Streams : Owed(t) \in Int
    BY <2>1 DEF Owed
  <2>3. Owed(s)' = Owed(s)
    BY <1>1, <1>2, <1>3 DEF Owed, SameIn, SameWork, At
  <2>4. \A t \in Streams \ {s} : Owed(t)' = Owed(t)
    BY <1>1, <1>2, <1>3 DEF Owed
  <2>5. OwedUpTo'[MaxStreams] = OwedUpTo[MaxStreams]
    BY <2>2, <2>3, <2>4, HeldSame
  <2>6. QED
    BY <1>1, <1>2, <1>3, <2>5 DEF ConnCredit, InReader
<1>14. StreamCredit'
  BY <1>1, <1>2, <1>3 DEF StreamCredit, InReader, SameIn, SameEnds, At
<1>15. QED
  BY <1>4, <1>5, <1>6, <1>7, <1>8, <1>9, <1>10, <1>11, <1>12, <1>13, <1>14

\* A call that is abandoned leaves its stream in the map, open.
LEMMA AbandonKeeps ==
    ASSUME IInv, faults' \in Nat, NEW s \in Streams, Abandon(s)
    PROVE  IInv'
<1> USE DEF IInv
<1> DEFINE y == [st[s] EXCEPT !.pc = "left"]
<1>1. /\ y \in Stream /\ st' = [st EXCEPT ![s] = y]
      /\ y.pc = "left"
      /\ SameEnds(y, st[s]) /\ SameIn(y, st[s]) /\ SameOut(y, st[s]) /\ SameWork(y, st[s])
      /\ y.asleep = st[s].asleep /\ y.peer = st[s].peer
  <2>1. st[s] \in Stream
    BY DEF TypeOK
  <2>2. y \in Stream
    BY <2>1, FieldsSet, Fields DEF SetFlags, SetNumbers, SetPoints, Pcs
  <2>3. st' = [st EXCEPT ![s] = y]
    BY DEF Abandon, Becomes
  <2>4. QED
    BY <2>1, <2>2, <2>3 DEF Stream, SameEnds, SameIn, SameOut, SameWork
<1> HIDE DEF y
<1>2. /\ At(s, "write") \/ At(s, "read") \/ At(s, "shut")
      /\ UNCHANGED <<streams, next, shutdown, closed, outLeft, unacked, credit, reader,
                    settle, setting, closer, gone>>
  BY DEF Abandon, Becomes, inVars, settingVars
<1>3. /\ st' \in [Streams -> Stream] /\ st'[s] = y
      /\ \A t \in Streams \ {s} : st'[t] = st[t]
  BY <1>1 DEF TypeOK
<1>4. TypeOK'
  BY <1>1, <1>2, <1>3 DEF TypeOK
<1>5. PartTypes'
  BY <1>1, <1>2, <1>3 DEF PartTypes, Reader, SameWork, At
<1>6. LocalInv'
  BY <1>1, <1>2, <1>3 DEF LocalInv, Local, IsOpen, SameEnds, SameIn, At
<1>7. OpenedInv'
  BY <1>1, <1>2, <1>3 DEF OpenedInv, Fresh, SameIn, SameEnds, At
<1>8. CloserInv'
  BY <1>1, <1>2, <1>3 DEF CloserInv, SameEnds
<1>9. ReaderInv'
  BY <1>1, <1>2, <1>3 DEF ReaderInv, IsOpen, SameEnds, At
<1>10. MapInv'
  BY <1>1, <1>2, <1>3 DEF MapInv, Going, IsOpen, CloserInv, SameEnds, At
<1>11. WaitInv'
  BY <1>1, <1>2, <1>3 DEF WaitInv, Going, SameEnds, SameIn, SameOut, At
<1>12. WindowsAgree'
  BY <1>1, <1>2, <1>3 DEF WindowsAgree, SameOut, SameWork, At
<1>13. ConnCredit'
  <2>1. \A t \in Streams : st[t].buf \in Nat /\ st[t].hand \in Nat
    BY Fields DEF TypeOK
  <2>2. \A t \in Streams : Owed(t) \in Int
    BY <2>1 DEF Owed
  <2>3. Owed(s)' = Owed(s)
    BY <1>1, <1>2, <1>3 DEF Owed, SameIn, SameWork, At
  <2>4. \A t \in Streams \ {s} : Owed(t)' = Owed(t)
    BY <1>1, <1>2, <1>3 DEF Owed
  <2>5. OwedUpTo'[MaxStreams] = OwedUpTo[MaxStreams]
    BY <2>2, <2>3, <2>4, HeldSame
  <2>6. QED
    BY <1>1, <1>2, <1>3, <2>5 DEF ConnCredit, InReader
<1>14. StreamCredit'
  BY <1>1, <1>2, <1>3 DEF StreamCredit, InReader, SameIn, SameEnds, At
<1>15. QED
  BY <1>4, <1>5, <1>6, <1>7, <1>8, <1>9, <1>10, <1>11, <1>12, <1>13, <1>14

\* A flush that fails leaves the stream in the map, with its sink closed.
LEMMA FlushFailsKeeps ==
    ASSUME IInv, faults' \in Nat, NEW s \in Streams, FlushFails(s)
    PROVE  IInv'
<1> USE DEF IInv
<1> DEFINE y == [st[s] EXCEPT !.outClosed = TRUE, !.pc = "unflushed"]
<1>1. /\ y \in Stream /\ st' = [st EXCEPT ![s] = y]
      /\ y.outClosed /\ y.pc = "unflushed"
      /\ y.err = st[s].err /\ y.killer = st[s].killer /\ y.header = st[s].header
      /\ y.responded = st[s].responded /\ y.outFinished = st[s].outFinished
      /\ y.inFinished = st[s].inFinished /\ y.inClosed = st[s].inClosed /\ SameIn(y, st[s])
      /\ SameOut(y, st[s]) /\ SameWork(y, st[s]) /\ y.asleep = st[s].asleep
      /\ y.peer = st[s].peer
  <2>1. st[s] \in Stream
    BY DEF TypeOK
  <2>2. y \in Stream
    BY <2>1, FieldsSet, Fields DEF SetFlags, SetNumbers, SetPoints, Pcs
  <2>3. st' = [st EXCEPT ![s] = y]
    BY DEF FlushFails, Becomes
  <2>4. QED
    BY <2>1, <2>2, <2>3 DEF Stream, SameEnds, SameIn, SameOut, SameWork
<1> HIDE DEF y
<1>2. /\ At(s, "shut")
      /\ UNCHANGED <<streams, next, shutdown, closed, outLeft, unacked, credit, reader,
                    settle, setting, closer, gone>>
  BY DEF FlushFails, Becomes, inVars, settingVars
<1>3. /\ st' \in [Streams -> Stream] /\ st'[s] = y
      /\ \A t \in Streams \ {s} : st'[t] = st[t]
  BY <1>1 DEF TypeOK
<1>4. TypeOK'
  BY <1>1, <1>2, <1>3 DEF TypeOK
<1>5. PartTypes'
  BY <1>1, <1>2, <1>3 DEF PartTypes, Reader, SameWork, At
<1>6. LocalInv'
  BY <1>1, <1>2, <1>3 DEF LocalInv, Local, IsOpen, SameEnds, SameIn, At
<1>7. OpenedInv'
  BY <1>1, <1>2, <1>3 DEF OpenedInv, Fresh, SameIn, SameEnds, At
<1>8. CloserInv'
  BY <1>1, <1>2, <1>3 DEF CloserInv, SameEnds
<1>9. ReaderInv'
  BY <1>1, <1>2, <1>3 DEF ReaderInv, IsOpen, SameEnds, At
<1>10. MapInv'
  BY <1>1, <1>2, <1>3 DEF MapInv, Going, IsOpen, CloserInv, SameEnds, At
<1>11. WaitInv'
  BY <1>1, <1>2, <1>3 DEF WaitInv, Going, SameEnds, SameIn, SameOut, At
<1>12. WindowsAgree'
  BY <1>1, <1>2, <1>3 DEF WindowsAgree, SameOut, SameWork, At
<1>13. ConnCredit'
  <2>1. \A t \in Streams : st[t].buf \in Nat /\ st[t].hand \in Nat
    BY Fields DEF TypeOK
  <2>2. \A t \in Streams : Owed(t) \in Int
    BY <2>1 DEF Owed
  <2>3. Owed(s)' = Owed(s)
    BY <1>1, <1>2, <1>3 DEF Owed, SameIn, SameWork, At
  <2>4. \A t \in Streams \ {s} : Owed(t)' = Owed(t)
    BY <1>1, <1>2, <1>3 DEF Owed
  <2>5. OwedUpTo'[MaxStreams] = OwedUpTo[MaxStreams]
    BY <2>2, <2>3, <2>4, HeldSame
  <2>6. QED
    BY <1>1, <1>2, <1>3, <2>5 DEF ConnCredit, InReader
<1>14. StreamCredit'
  BY <1>1, <1>2, <1>3 DEF StreamCredit, InReader, SameIn, SameEnds, At
<1>15. QED
  BY <1>4, <1>5, <1>6, <1>7, <1>8, <1>9, <1>10, <1>11, <1>12, <1>13, <1>14

\* A call that is interrupted sleeps no more; a reader may go on, or not.
LEMMA InterruptKeeps ==
    ASSUME IInv, faults' \in Nat, NEW s \in Streams, Interrupt(s)
    PROVE  IInv'
<1> USE DEF IInv
<1> DEFINE y == [st[s] EXCEPT !.asleep = "no",
                               !.pc = IF @ = "read" THEN @
                                      ELSE IF @ = "send" THEN "unsent" ELSE "left"]
<1>1. /\ y \in Stream /\ st' = [st EXCEPT ![s] = y]
      /\ y.pc = (IF st[s].pc = "read" THEN "read"
                 ELSE IF st[s].pc = "send" THEN "unsent" ELSE "left")
      /\ SameEnds(y, st[s]) /\ SameIn(y, st[s]) /\ SameOut(y, st[s]) /\ SameWork(y, st[s])
      /\ y.asleep = "no" /\ y.peer = st[s].peer
  <2>1. st[s] \in Stream
    BY DEF TypeOK
  <2>2. y \in Stream
    BY <2>1, FieldsSet, Fields DEF SetFlags, SetNumbers, SetPoints, Pcs
  <2>3. st' = [st EXCEPT ![s] = y]
    BY DEF Interrupt, Becomes
  <2>4. QED
    BY <2>1, <2>2, <2>3 DEF Stream, SameEnds, SameIn, SameOut, SameWork
<1> HIDE DEF y
<1>2. /\ st[s].pc \in {"write", "headers", "read", "send"}
      /\ UNCHANGED <<streams, next, shutdown, closed, outLeft, unacked, credit, reader,
                    settle, setting, closer, gone>>
  BY Fields DEF Interrupt, Becomes, inVars, settingVars, WaitInv, TypeOK
<1>3. /\ st' \in [Streams -> Stream] /\ st'[s] = y
      /\ \A t \in Streams \ {s} : st'[t] = st[t]
  BY <1>1 DEF TypeOK
<1>4. TypeOK'
  BY <1>1, <1>2, <1>3 DEF TypeOK
<1>5. PartTypes'
  BY <1>1, <1>2, <1>3 DEF PartTypes, Reader, SameWork, At
<1>6. LocalInv'
  BY <1>1, <1>2, <1>3 DEF LocalInv, Local, IsOpen, SameEnds, SameIn, At
<1>7. OpenedInv'
  BY <1>1, <1>2, <1>3 DEF OpenedInv, Fresh, SameIn, SameEnds, At
<1>8. CloserInv'
  BY <1>1, <1>2, <1>3 DEF CloserInv, SameEnds
<1>9. ReaderInv'
  BY <1>1, <1>2, <1>3 DEF ReaderInv, IsOpen, SameEnds, At
<1>10. MapInv'
  BY <1>1, <1>2, <1>3 DEF MapInv, Going, IsOpen, CloserInv, SameEnds, At
<1>11. WaitInv'
  BY <1>1, <1>2, <1>3 DEF WaitInv, Going, SameEnds, SameIn, SameOut, At
<1>12. WindowsAgree'
  BY <1>1, <1>2, <1>3 DEF WindowsAgree, SameOut, SameWork, At
<1>13. ConnCredit'
  <2>1. \A t \in Streams : st[t].buf \in Nat /\ st[t].hand \in Nat
    BY Fields DEF TypeOK
  <2>2. \A t \in Streams : Owed(t) \in Int
    BY <2>1 DEF Owed
  <2>3. Owed(s)' = Owed(s)
    BY <1>1, <1>2, <1>3 DEF Owed, SameIn, SameWork, At
  <2>4. \A t \in Streams \ {s} : Owed(t)' = Owed(t)
    BY <1>1, <1>2, <1>3 DEF Owed
  <2>5. OwedUpTo'[MaxStreams] = OwedUpTo[MaxStreams]
    BY <2>2, <2>3, <2>4, HeldSame
  <2>6. QED
    BY <1>1, <1>2, <1>3, <2>5 DEF ConnCredit, InReader
<1>14. StreamCredit'
  BY <1>1, <1>2, <1>3 DEF StreamCredit, InReader, SameIn, SameEnds, At
<1>15. QED
  BY <1>4, <1>5, <1>6, <1>7, <1>8, <1>9, <1>10, <1>11, <1>12, <1>13, <1>14

\* A call that finds an error ends; whoever set the error takes the stream out of the map.
LEMMA TakeHeadersKeeps ==
    ASSUME IInv, faults' \in Nat, NEW s \in Streams, TakeHeaders(s)
    PROVE  IInv'
<1> USE DEF IInv
<1> DEFINE y == IF st[s].header THEN [st[s] EXCEPT !.header = FALSE, !.pc = "read"]
                  ELSE IF st[s].err THEN [st[s] EXCEPT !.pc = "done"]
                  ELSE [st[s] EXCEPT !.asleep = "stream"]
<1>1. /\ y \in Stream /\ st' = [st EXCEPT ![s] = y]
      /\ \/ st[s].header /\ ~y.header /\ y.pc = "read" /\ y.asleep = st[s].asleep
         \/ /\ ~st[s].header /\ st[s].err /\ ~y.header
            /\ y.pc = "done" /\ y.asleep = st[s].asleep
         \/ /\ ~st[s].header /\ ~st[s].err /\ ~y.header
            /\ y.pc = "headers" /\ y.asleep = "stream"
      /\ y.err = st[s].err /\ y.killer = st[s].killer /\ y.responded = st[s].responded
      /\ y.outFinished = st[s].outFinished /\ y.outClosed = st[s].outClosed
      /\ y.inFinished = st[s].inFinished /\ y.inClosed = st[s].inClosed /\ SameIn(y, st[s])
      /\ SameOut(y, st[s]) /\ SameWork(y, st[s]) /\ y.peer = st[s].peer
  <2>1. st[s] \in Stream
    BY DEF TypeOK
  <2>2. y \in Stream
    BY <2>1, FieldsSet, Fields DEF SetFlags, SetNumbers, SetPoints, Pcs
  <2>3. st' = [st EXCEPT ![s] = y]
    BY DEF TakeHeaders, Becomes
  <2>4. QED
    BY <2>1, <2>2, <2>3 DEF Stream, SameEnds, SameIn, SameOut, SameWork, TakeHeaders, At
<1> HIDE DEF y
<1>2. /\ At(s, "headers")
      /\ UNCHANGED <<streams, next, shutdown, closed, outLeft, unacked, credit, reader,
                    settle, setting, closer, gone>>
  BY DEF TakeHeaders, Becomes, inVars, settingVars
<1>3. /\ st' \in [Streams -> Stream] /\ st'[s] = y
      /\ \A t \in Streams \ {s} : st'[t] = st[t]
  BY <1>1 DEF TypeOK
<1>4. TypeOK'
  BY <1>1, <1>2, <1>3 DEF TypeOK
<1>5. PartTypes'
  BY <1>1, <1>2, <1>3 DEF PartTypes, Reader, SameWork, At
<1>6. LocalInv'
  BY <1>1, <1>2, <1>3 DEF LocalInv, Local, IsOpen, SameEnds, SameIn, At
<1>7. OpenedInv'
  BY <1>1, <1>2, <1>3 DEF OpenedInv, Fresh, SameIn, SameEnds, At
<1>8. CloserInv'
  BY <1>1, <1>2, <1>3 DEF CloserInv, SameEnds
<1>9. ReaderInv'
  BY <1>1, <1>2, <1>3 DEF ReaderInv, IsOpen, SameEnds, At
<1>10. MapInv'
  BY <1>1, <1>2, <1>3 DEF MapInv, Going, IsOpen, CloserInv, SameEnds, At
<1>11. WaitInv'
  BY <1>1, <1>2, <1>3 DEF WaitInv, Going, SameEnds, SameIn, SameOut, At
<1>12. WindowsAgree'
  BY <1>1, <1>2, <1>3 DEF WindowsAgree, SameOut, SameWork, At
<1>13. ConnCredit'
  <2>1. \A t \in Streams : st[t].buf \in Nat /\ st[t].hand \in Nat
    BY Fields DEF TypeOK
  <2>2. \A t \in Streams : Owed(t) \in Int
    BY <2>1 DEF Owed
  <2>3. Owed(s)' = Owed(s)
    BY <1>1, <1>2, <1>3 DEF Owed, SameIn, SameWork, At
  <2>4. \A t \in Streams \ {s} : Owed(t)' = Owed(t)
    BY <1>1, <1>2, <1>3 DEF Owed
  <2>5. OwedUpTo'[MaxStreams] = OwedUpTo[MaxStreams]
    BY <2>2, <2>3, <2>4, HeldSame
  <2>6. QED
    BY <1>1, <1>2, <1>3, <2>5 DEF ConnCredit, InReader
<1>14. StreamCredit'
  BY <1>1, <1>2, <1>3 DEF StreamCredit, InReader, SameIn, SameEnds, At
<1>15. QED
  BY <1>4, <1>5, <1>6, <1>7, <1>8, <1>9, <1>10, <1>11, <1>12, <1>13, <1>14

\* A stream that both sides have finished is taken out; one that only its call has finished is
\* cancelled first.
LEMMA CheckKeeps ==
    ASSUME IInv, faults' \in Nat, NEW s \in Streams, Check(s)
    PROVE  IInv'
<1> USE DEF IInv
<1> DEFINE y == [st[s] EXCEPT !.pc =
                      IF /\ ~st[s].inFinished /\ st[s].inClosed
                         /\ st[s].outFinished \/ st[s].outClosed
                      THEN "cancel" ELSE IF ~IsOpen(st[s]) THEN "remove" ELSE Following(st[s])]
<1>1. /\ y \in Stream /\ st' = [st EXCEPT ![s] = y]
      /\ y.pc = IF ~st[s].inFinished /\ st[s].inClosed /\ (st[s].outFinished \/ st[s].outClosed)
                THEN "cancel" ELSE IF ~IsOpen(st[s]) THEN "remove" ELSE Following(st[s])
      /\ SameEnds(y, st[s]) /\ SameIn(y, st[s]) /\ SameOut(y, st[s]) /\ SameWork(y, st[s])
      /\ y.asleep = st[s].asleep /\ y.peer = st[s].peer
  <2>1. st[s] \in Stream
    BY DEF TypeOK
  <2>2. y \in Stream
    BY <2>1, FieldsSet DEF SetPoints, Pcs, Following
  <2>3. st' = [st EXCEPT ![s] = y]
    BY DEF Check, Becomes
  <2>4. QED
    BY <2>1, <2>2, <2>3 DEF Stream, SameEnds, SameIn, SameOut, SameWork
<1> HIDE DEF y
<1>2. /\ At(s, "check")
      /\ UNCHANGED <<streams, next, shutdown, closed, outLeft, unacked, credit, reader,
                    settle, setting, closer, gone>>
  BY DEF Check, Becomes, inVars, settingVars
<1>3. /\ st' \in [Streams -> Stream] /\ st'[s] = y
      /\ \A t \in Streams \ {s} : st'[t] = st[t]
  BY <1>1 DEF TypeOK
<1>4. TypeOK'
  BY <1>1, <1>2, <1>3 DEF TypeOK, Following
<1>5. PartTypes'
  BY <1>1, <1>2, <1>3 DEF PartTypes, Reader, SameWork, At, Following
<1>6. LocalInv'
  BY <1>1, <1>2, <1>3 DEF LocalInv, Local, IsOpen, SameEnds, SameIn, At, Following
<1>7. OpenedInv'
  BY <1>1, <1>2, <1>3 DEF OpenedInv, Fresh, SameIn, SameEnds, At, Following
<1>8. CloserInv'
  BY <1>1, <1>2, <1>3 DEF CloserInv, SameEnds, Following
<1>9. ReaderInv'
  BY <1>1, <1>2, <1>3 DEF ReaderInv, IsOpen, SameEnds, At, Following
<1>10. MapInv'
  BY <1>1, <1>2, <1>3, Fields DEF MapInv, Going, IsOpen, CloserInv, SameEnds, At, Following,
     LocalInv, Local
<1>11. WaitInv'
  BY <1>1, <1>2, <1>3 DEF WaitInv, Going, SameEnds, SameIn, SameOut, At, Following
<1>12. WindowsAgree'
  BY <1>1, <1>2, <1>3 DEF WindowsAgree, SameOut, SameWork, At, Following
<1>13. ConnCredit'
  <2>1. \A t \in Streams : st[t].buf \in Nat /\ st[t].hand \in Nat
    BY Fields DEF TypeOK
  <2>2. \A t \in Streams : Owed(t) \in Int
    BY <2>1 DEF Owed
  <2>3. Owed(s)' = Owed(s)
    BY <1>1, <1>2, <1>3 DEF Owed, SameIn, SameWork, At, Following
  <2>4. \A t \in Streams \ {s} : Owed(t)' = Owed(t)
    BY <1>1, <1>2, <1>3 DEF Owed
  <2>5. OwedUpTo'[MaxStreams] = OwedUpTo[MaxStreams]
    BY <2>2, <2>3, <2>4, HeldSame
  <2>6. QED
    BY <1>1, <1>2, <1>3, <2>5 DEF ConnCredit, InReader
<1>14. StreamCredit'
  BY <1>1, <1>2, <1>3 DEF StreamCredit, InReader, SameIn, SameEnds, At, Following
<1>15. QED
  BY <1>4, <1>5, <1>6, <1>7, <1>8, <1>9, <1>10, <1>11, <1>12, <1>13, <1>14

\* The call waits only if there is neither data, nor an end, nor an error.
LEMMA ReadNothingKeeps ==
    ASSUME IInv, faults' \in Nat, NEW s \in Streams, ReadNothing(s)
    PROVE  IInv'
<1> USE DEF IInv
<1> DEFINE y == IF st[s].err \/ st[s].inFinished THEN [st[s] EXCEPT !.pc = "close"]
                  ELSE [st[s] EXCEPT !.asleep = "stream"]
<1>1. /\ y \in Stream /\ st' = [st EXCEPT ![s] = y]
      /\ IF st[s].err \/ st[s].inFinished THEN y.pc = "close" /\ y.asleep = "no"
         ELSE y.pc = "read" /\ y.asleep = "stream"
      /\ SameEnds(y, st[s]) /\ SameIn(y, st[s]) /\ SameOut(y, st[s]) /\ SameWork(y, st[s])
      /\ y.peer = st[s].peer
  <2>1. st[s] \in Stream
    BY DEF TypeOK
  <2>2. y \in Stream
    BY <2>1, FieldsSet, Fields DEF SetFlags, SetNumbers, SetPoints, Pcs
  <2>3. st' = [st EXCEPT ![s] = y]
    BY DEF ReadNothing, Becomes
  <2>4. QED
    BY <2>1, <2>2, <2>3 DEF Stream, SameEnds, SameIn, SameOut, SameWork, ReadNothing, At
<1> HIDE DEF y
<1>2. /\ At(s, "read") /\ st[s].buf = 0
      /\ UNCHANGED <<streams, next, shutdown, closed, outLeft, unacked, credit, reader,
                    settle, setting, closer, gone>>
  BY DEF ReadNothing, Becomes, inVars, settingVars
<1>3. /\ st' \in [Streams -> Stream] /\ st'[s] = y
      /\ \A t \in Streams \ {s} : st'[t] = st[t]
  BY <1>1 DEF TypeOK
<1>4. TypeOK'
  BY <1>1, <1>2, <1>3 DEF TypeOK
<1>5. PartTypes'
  BY <1>1, <1>2, <1>3 DEF PartTypes, Reader, SameWork, At
<1>6. LocalInv'
  BY <1>1, <1>2, <1>3 DEF LocalInv, Local, IsOpen, SameEnds, SameIn, At
<1>7. OpenedInv'
  BY <1>1, <1>2, <1>3 DEF OpenedInv, Fresh, SameIn, SameEnds, At
<1>8. CloserInv'
  BY <1>1, <1>2, <1>3 DEF CloserInv, SameEnds
<1>9. ReaderInv'
  BY <1>1, <1>2, <1>3 DEF ReaderInv, IsOpen, SameEnds, At
<1>10. MapInv'
  BY <1>1, <1>2, <1>3 DEF MapInv, Going, IsOpen, CloserInv, SameEnds, At
<1>11. WaitInv'
  BY <1>1, <1>2, <1>3 DEF WaitInv, Going, SameEnds, SameIn, SameOut, At
<1>12. WindowsAgree'
  BY <1>1, <1>2, <1>3 DEF WindowsAgree, SameOut, SameWork, At
<1>13. ConnCredit'
  <2>1. \A t \in Streams : st[t].buf \in Nat /\ st[t].hand \in Nat
    BY Fields DEF TypeOK
  <2>2. \A t \in Streams : Owed(t) \in Int
    BY <2>1 DEF Owed
  <2>3. Owed(s)' = Owed(s)
    BY <1>1, <1>2, <1>3 DEF Owed, SameIn, SameWork, At
  <2>4. \A t \in Streams \ {s} : Owed(t)' = Owed(t)
    BY <1>1, <1>2, <1>3 DEF Owed
  <2>5. OwedUpTo'[MaxStreams] = OwedUpTo[MaxStreams]
    BY <2>2, <2>3, <2>4, HeldSame
  <2>6. QED
    BY <1>1, <1>2, <1>3, <2>5 DEF ConnCredit, InReader
<1>14. StreamCredit'
  BY <1>1, <1>2, <1>3 DEF StreamCredit, InReader, SameIn, SameEnds, At
<1>15. QED
  BY <1>4, <1>5, <1>6, <1>7, <1>8, <1>9, <1>10, <1>11, <1>12, <1>13, <1>14

\* An error ends the writing; somebody else takes the stream out of the map.
LEMMA EmitFrameFails ==
    ASSUME IInv, faults' \in Nat, NEW s \in Streams, EmitFrame(s), st[s].err = TRUE
    PROVE  IInv'
<1> USE DEF IInv
<1> DEFINE y == [st[s] EXCEPT !.pc = "done"]
<1>1. /\ y \in Stream /\ st' = [st EXCEPT ![s] = y]
      /\ y.pc = "done"
      /\ SameEnds(y, st[s]) /\ SameIn(y, st[s]) /\ SameOut(y, st[s]) /\ SameWork(y, st[s])
      /\ y.asleep = st[s].asleep /\ y.peer = st[s].peer
  <2>1. st[s] \in Stream
    BY DEF TypeOK
  <2>2. y \in Stream
    BY <2>1, FieldsSet, Fields DEF SetFlags, SetNumbers, SetPoints, Pcs
  <2>3. st' = [st EXCEPT ![s] = y]
    BY DEF EmitFrame, Becomes
  <2>4. QED
    BY <2>1, <2>2, <2>3 DEF Stream, SameEnds, SameIn, SameOut, SameWork
<1> HIDE DEF y
<1>2. /\ At(s, "write")
      /\ UNCHANGED <<streams, next, shutdown, closed, outLeft, unacked, credit, reader,
                    settle, setting, closer, gone>>
  BY DEF EmitFrame, Becomes, inVars, settingVars
<1>3. /\ st' \in [Streams -> Stream] /\ st'[s] = y
      /\ \A t \in Streams \ {s} : st'[t] = st[t]
  BY <1>1 DEF TypeOK
<1>4. TypeOK'
  BY <1>1, <1>2, <1>3 DEF TypeOK
<1>5. PartTypes'
  BY <1>1, <1>2, <1>3 DEF PartTypes, Reader, SameWork, At
<1>6. LocalInv'
  BY <1>1, <1>2, <1>3 DEF LocalInv, Local, IsOpen, SameEnds, SameIn, At
<1>7. OpenedInv'
  BY <1>1, <1>2, <1>3 DEF OpenedInv, Fresh, SameIn, SameEnds, At
<1>8. CloserInv'
  BY <1>1, <1>2, <1>3 DEF CloserInv, SameEnds
<1>9. ReaderInv'
  BY <1>1, <1>2, <1>3 DEF ReaderInv, IsOpen, SameEnds, At
<1>10. MapInv'
  BY <1>1, <1>2, <1>3 DEF MapInv, Going, IsOpen, CloserInv, SameEnds, At
<1>11. WaitInv'
  BY <1>1, <1>2, <1>3 DEF WaitInv, Going, SameEnds, SameIn, SameOut, At
<1>12. WindowsAgree'
  BY <1>1, <1>2, <1>3 DEF WindowsAgree, SameOut, SameWork, At
<1>13. ConnCredit'
  <2>1. \A t \in Streams : st[t].buf \in Nat /\ st[t].hand \in Nat
    BY Fields DEF TypeOK
  <2>2. \A t \in Streams : Owed(t) \in Int
    BY <2>1 DEF Owed
  <2>3. Owed(s)' = Owed(s)
    BY <1>1, <1>2, <1>3 DEF Owed, SameIn, SameWork, At
  <2>4. \A t \in Streams \ {s} : Owed(t)' = Owed(t)
    BY <1>1, <1>2, <1>3 DEF Owed
  <2>5. OwedUpTo'[MaxStreams] = OwedUpTo[MaxStreams]
    BY <2>2, <2>3, <2>4, HeldSame
  <2>6. QED
    BY <1>1, <1>2, <1>3, <2>5 DEF ConnCredit, InReader
<1>14. StreamCredit'
  BY <1>1, <1>2, <1>3 DEF StreamCredit, InReader, SameIn, SameEnds, At
<1>15. QED
  BY <1>4, <1>5, <1>6, <1>7, <1>8, <1>9, <1>10, <1>11, <1>12, <1>13, <1>14

\* The call waits on its stream while the stream's window is used up.
LEMMA EmitFrameWaits ==
    ASSUME IInv, faults' \in Nat, NEW s \in Streams, EmitFrame(s), ~st[s].err, st[s].win <= 0
    PROVE  IInv'
<1> USE DEF IInv
<1> DEFINE y == [st[s] EXCEPT !.asleep = "stream"]
<1>1. /\ y \in Stream /\ st' = [st EXCEPT ![s] = y]
      /\ y.asleep = "stream"
      /\ SameEnds(y, st[s]) /\ SameIn(y, st[s]) /\ SameOut(y, st[s]) /\ SameWork(y, st[s])
      /\ y.pc = st[s].pc /\ y.peer = st[s].peer
  <2>1. st[s] \in Stream
    BY DEF TypeOK
  <2>2. y \in Stream
    BY <2>1, FieldsSet, Fields DEF SetFlags, SetNumbers, SetPoints, Pcs
  <2>3. st' = [st EXCEPT ![s] = y]
    BY DEF EmitFrame, Becomes
  <2>4. QED
    BY <2>1, <2>2, <2>3 DEF Stream, SameEnds, SameIn, SameOut, SameWork
<1> HIDE DEF y
<1>2. /\ At(s, "write")
      /\ UNCHANGED <<streams, next, shutdown, closed, outLeft, unacked, credit, reader,
                    settle, setting, closer, gone>>
  BY DEF EmitFrame, Becomes, inVars, settingVars
<1>3. /\ st' \in [Streams -> Stream] /\ st'[s] = y
      /\ \A t \in Streams \ {s} : st'[t] = st[t]
  BY <1>1 DEF TypeOK
<1>4. TypeOK'
  BY <1>1, <1>2, <1>3 DEF TypeOK
<1>5. PartTypes'
  BY <1>1, <1>2, <1>3 DEF PartTypes, Reader, SameWork, At
<1>6. LocalInv'
  BY <1>1, <1>2, <1>3 DEF LocalInv, Local, IsOpen, SameEnds, SameIn, At
<1>7. OpenedInv'
  BY <1>1, <1>2, <1>3 DEF OpenedInv, Fresh, SameIn, SameEnds, At
<1>8. CloserInv'
  BY <1>1, <1>2, <1>3 DEF CloserInv, SameEnds
<1>9. ReaderInv'
  BY <1>1, <1>2, <1>3 DEF ReaderInv, IsOpen, SameEnds, At
<1>10. MapInv'
  BY <1>1, <1>2, <1>3 DEF MapInv, Going, IsOpen, CloserInv, SameEnds, At
<1>11. WaitInv'
  BY <1>1, <1>2, <1>3 DEF WaitInv, Going, SameEnds, SameIn, SameOut, At
<1>12. WindowsAgree'
  BY <1>1, <1>2, <1>3 DEF WindowsAgree, SameOut, SameWork, At
<1>13. ConnCredit'
  <2>1. \A t \in Streams : st[t].buf \in Nat /\ st[t].hand \in Nat
    BY Fields DEF TypeOK
  <2>2. \A t \in Streams : Owed(t) \in Int
    BY <2>1 DEF Owed
  <2>3. Owed(s)' = Owed(s)
    BY <1>1, <1>2, <1>3 DEF Owed, SameIn, SameWork, At
  <2>4. \A t \in Streams \ {s} : Owed(t)' = Owed(t)
    BY <1>1, <1>2, <1>3 DEF Owed
  <2>5. OwedUpTo'[MaxStreams] = OwedUpTo[MaxStreams]
    BY <2>2, <2>3, <2>4, HeldSame
  <2>6. QED
    BY <1>1, <1>2, <1>3, <2>5 DEF ConnCredit, InReader
<1>14. StreamCredit'
  BY <1>1, <1>2, <1>3 DEF StreamCredit, InReader, SameIn, SameEnds, At
<1>15. QED
  BY <1>4, <1>5, <1>6, <1>7, <1>8, <1>9, <1>10, <1>11, <1>12, <1>13, <1>14

\* What is taken from the stream's window is in the call's hand.
LEMMA EmitFrameTakes ==
    ASSUME IInv, faults' \in Nat, NEW s \in Streams, EmitFrame(s), ~st[s].err, ~(st[s].win <= 0)
    PROVE  IInv'
<1> USE DEF IInv
<1> DEFINE n == Min({st[s].win, st[s].body})
<1>0. n \in Nat /\ n <= st[s].body /\ st[s].win - n \in Int /\ st[s].win \in Int
  <2>1. st[s].win \in Int /\ st[s].body \in Int /\ st[s].body >= 0
    BY Fields DEF TypeOK
  <2>2. n \in {st[s].win, st[s].body} /\ n <= st[s].body
    BY <2>1, MinTwo
  <2>3. QED
    BY <2>1, <2>2
<1> HIDE DEF n
<1> DEFINE y == [st[s] EXCEPT !.hand = n, !.win = @ - n, !.pc = "send"]
<1>1. /\ y \in Stream /\ st' = [st EXCEPT ![s] = y]
      /\ y.pc = "send" /\ y.hand <= st[s].body /\ y.win + y.hand = st[s].win
      /\ SameEnds(y, st[s]) /\ SameIn(y, st[s]) /\ y.peerWin = st[s].peerWin
      /\ y.body = st[s].body /\ y.asleep = st[s].asleep /\ y.peer = st[s].peer
  <2>1. st[s] \in Stream
    BY DEF TypeOK
  <2>2. y \in Stream
    BY <1>0, <2>1, FieldsSet DEF SetNumbers, SetPoints, Pcs
  <2>3. st' = [st EXCEPT ![s] = y]
    BY DEF EmitFrame, Becomes, n
  <2>4. QED
    BY <1>0, <2>1, <2>2, <2>3 DEF Stream, SameEnds, SameIn, SameOut, SameWork
<1> HIDE DEF y
<1>2. /\ At(s, "write")
      /\ UNCHANGED <<streams, next, shutdown, closed, outLeft, unacked, credit, reader,
                    settle, setting, closer, gone>>
  BY DEF EmitFrame, Becomes, inVars, settingVars
<1>3. /\ st' \in [Streams -> Stream] /\ st'[s] = y
      /\ \A t \in Streams \ {s} : st'[t] = st[t]
  BY <1>1 DEF TypeOK
<1>4. TypeOK'
  BY <1>1, <1>2, <1>3 DEF TypeOK
<1>5. PartTypes'
  BY <1>1, <1>2, <1>3 DEF PartTypes, Reader, SameWork, At
<1>6. LocalInv'
  BY <1>1, <1>2, <1>3 DEF LocalInv, Local, IsOpen, SameEnds, SameIn, At
<1>7. OpenedInv'
  BY <1>1, <1>2, <1>3 DEF OpenedInv, Fresh, SameIn, SameEnds, At
<1>8. CloserInv'
  BY <1>1, <1>2, <1>3 DEF CloserInv, SameEnds
<1>9. ReaderInv'
  BY <1>1, <1>2, <1>3 DEF ReaderInv, IsOpen, SameEnds, At
<1>10. MapInv'
  BY <1>1, <1>2, <1>3 DEF MapInv, Going, IsOpen, CloserInv, SameEnds, At
<1>11. WaitInv'
  BY <1>1, <1>2, <1>3 DEF WaitInv, Going, SameEnds, SameIn, SameOut, At
<1>12. WindowsAgree'
  <2>1. st[s].win \in Int /\ y.win \in Int /\ y.hand \in Nat /\ settle.delta \in Int
    BY <1>1, Fields DEF TypeOK, PartTypes
  <2>2. QED
    BY <1>1, <1>2, <1>3, <2>1 DEF WindowsAgree, At
<1>13. ConnCredit'
  <2>1. \A t \in Streams : st[t].buf \in Nat /\ st[t].hand \in Nat
    BY Fields DEF TypeOK
  <2>2. \A t \in Streams : Owed(t) \in Int
    BY <2>1 DEF Owed
  <2>3. Owed(s)' = Owed(s)
    BY <1>1, <1>2, <1>3 DEF Owed, SameIn, SameWork, At
  <2>4. \A t \in Streams \ {s} : Owed(t)' = Owed(t)
    BY <1>1, <1>2, <1>3 DEF Owed
  <2>5. OwedUpTo'[MaxStreams] = OwedUpTo[MaxStreams]
    BY <2>2, <2>3, <2>4, HeldSame
  <2>6. QED
    BY <1>1, <1>2, <1>3, <2>5 DEF ConnCredit, InReader
<1>14. StreamCredit'
  BY <1>1, <1>2, <1>3 DEF StreamCredit, InReader, SameIn, SameEnds, At
<1>15. QED
  BY <1>4, <1>5, <1>6, <1>7, <1>8, <1>9, <1>10, <1>11, <1>12, <1>13, <1>14

\* emitFrame, whichever way it goes.
LEMMA EmitFrameKeeps ==
    ASSUME IInv, faults' \in Nat, NEW s \in Streams, EmitFrame(s)
    PROVE  IInv'
  BY EmitFrameFails, EmitFrameWaits, EmitFrameTakes

\* The call waits on the connection while the connection's window is used up.
LEMMA WriteDataWaits ==
    ASSUME IInv, faults' \in Nat, NEW s \in Streams, WriteData(s), outLeft <= 0, s \in streams
    PROVE  IInv'
<1> USE DEF IInv
<1> DEFINE y == [st[s] EXCEPT !.asleep = "connection"]
<1>1. /\ y \in Stream /\ st' = [st EXCEPT ![s] = y]
      /\ y.asleep = "connection"
      /\ SameEnds(y, st[s]) /\ SameIn(y, st[s]) /\ SameOut(y, st[s]) /\ SameWork(y, st[s])
      /\ y.pc = st[s].pc /\ y.peer = st[s].peer
  <2>1. st[s] \in Stream
    BY DEF TypeOK
  <2>2. y \in Stream
    BY <2>1, FieldsSet, Fields DEF SetFlags, SetNumbers, SetPoints, Pcs
  <2>3. st' = [st EXCEPT ![s] = y]
    BY DEF WriteData
  <2>4. QED
    BY <2>1, <2>2, <2>3 DEF Stream, SameEnds, SameIn, SameOut, SameWork
<1> HIDE DEF y
<1>2. /\ At(s, "send")
      /\ UNCHANGED <<streams, next, shutdown, closed, outLeft, unacked, credit, reader,
                    settle, setting, closer, gone>>
  BY DEF WriteData, inVars, settingVars
<1>3. /\ st' \in [Streams -> Stream] /\ st'[s] = y
      /\ \A t \in Streams \ {s} : st'[t] = st[t]
  BY <1>1 DEF TypeOK
<1>4. TypeOK'
  BY <1>1, <1>2, <1>3 DEF TypeOK
<1>5. PartTypes'
  BY <1>1, <1>2, <1>3 DEF PartTypes, Reader, SameWork, At
<1>6. LocalInv'
  BY <1>1, <1>2, <1>3 DEF LocalInv, Local, IsOpen, SameEnds, SameIn, At
<1>7. OpenedInv'
  BY <1>1, <1>2, <1>3 DEF OpenedInv, Fresh, SameIn, SameEnds, At
<1>8. CloserInv'
  BY <1>1, <1>2, <1>3 DEF CloserInv, SameEnds
<1>9. ReaderInv'
  BY <1>1, <1>2, <1>3 DEF ReaderInv, IsOpen, SameEnds, At
<1>10. MapInv'
  BY <1>1, <1>2, <1>3 DEF MapInv, Going, IsOpen, CloserInv, SameEnds, At
<1>11. WaitInv'
  BY <1>1, <1>2, <1>3 DEF WaitInv, Going, SameEnds, SameIn, SameOut, At, MapInv
<1>12. WindowsAgree'
  BY <1>1, <1>2, <1>3 DEF WindowsAgree, SameOut, SameWork, At
<1>13. ConnCredit'
  <2>1. \A t \in Streams : st[t].buf \in Nat /\ st[t].hand \in Nat
    BY Fields DEF TypeOK
  <2>2. \A t \in Streams : Owed(t) \in Int
    BY <2>1 DEF Owed
  <2>3. Owed(s)' = Owed(s)
    BY <1>1, <1>2, <1>3 DEF Owed, SameIn, SameWork, At
  <2>4. \A t \in Streams \ {s} : Owed(t)' = Owed(t)
    BY <1>1, <1>2, <1>3 DEF Owed
  <2>5. OwedUpTo'[MaxStreams] = OwedUpTo[MaxStreams]
    BY <2>2, <2>3, <2>4, HeldSame
  <2>6. QED
    BY <1>1, <1>2, <1>3, <2>5 DEF ConnCredit, InReader
<1>14. StreamCredit'
  BY <1>1, <1>2, <1>3 DEF StreamCredit, InReader, SameIn, SameEnds, At
<1>15. QED
  BY <1>4, <1>5, <1>6, <1>7, <1>8, <1>9, <1>10, <1>11, <1>12, <1>13, <1>14

\* A stream that is out of the map, or a closed connection, ends the writing.
LEMMA WriteDataFails ==
    ASSUME IInv, faults' \in Nat, NEW s \in Streams, WriteData(s), s \notin streams,
           outLeft <= 0 \/ closed
    PROVE  IInv'
<1> USE DEF IInv
<1>0. outLeft' \in 0..PeerWindow /\ (outLeft <= 0 => outLeft' <= 0)
  <2>1. outLeft \in Int /\ st[s].hand \in Int /\ st[s].hand >= 0 /\ outLeft \in 0..PeerWindow
        /\ PeerWindow \in Nat
    BY Fields, Http2Assumption DEF TypeOK
  <2>2. /\ Min({outLeft, st[s].hand}) \in {outLeft, st[s].hand}
        /\ Min({outLeft, st[s].hand}) <= outLeft
    BY <2>1, MinTwo
  <2>3. outLeft' = outLeft \/ outLeft' = outLeft - Min({outLeft, st[s].hand})
    BY DEF WriteData
  <2>4. QED
    BY <2>1, <2>2, <2>3
<1> DEFINE y == [st[s] EXCEPT !.pc = "done"]
<1>1. /\ y \in Stream /\ st' = [st EXCEPT ![s] = y]
      /\ y.pc = "done"
      /\ SameEnds(y, st[s]) /\ SameIn(y, st[s]) /\ SameOut(y, st[s]) /\ SameWork(y, st[s])
      /\ y.asleep = st[s].asleep /\ y.peer = st[s].peer
  <2>1. st[s] \in Stream
    BY DEF TypeOK
  <2>2. y \in Stream
    BY <2>1, FieldsSet, Fields DEF SetFlags, SetNumbers, SetPoints, Pcs
  <2>3. st' = [st EXCEPT ![s] = y]
    BY DEF WriteData
  <2>4. QED
    BY <2>1, <2>2, <2>3 DEF Stream, SameEnds, SameIn, SameOut, SameWork
<1> HIDE DEF y
<1>2. /\ At(s, "send") /\ s \notin streams
      /\ outLeft' \in 0..PeerWindow /\ (outLeft <= 0 => outLeft' <= 0)
      /\ UNCHANGED <<streams, next, shutdown, closed, unacked, credit, reader, settle,
                    setting, closer, gone>>
  BY <1>0 DEF WriteData, inVars, settingVars
<1>3. /\ st' \in [Streams -> Stream] /\ st'[s] = y
      /\ \A t \in Streams \ {s} : st'[t] = st[t]
  BY <1>1 DEF TypeOK
<1>4. TypeOK'
  BY <1>1, <1>2, <1>3 DEF TypeOK
<1>5. PartTypes'
  BY <1>1, <1>2, <1>3 DEF PartTypes, Reader, SameWork, At
<1>6. LocalInv'
  BY <1>1, <1>2, <1>3 DEF LocalInv, Local, IsOpen, SameEnds, SameIn, At
<1>7. OpenedInv'
  BY <1>1, <1>2, <1>3 DEF OpenedInv, Fresh, SameIn, SameEnds, At
<1>8. CloserInv'
  BY <1>1, <1>2, <1>3 DEF CloserInv, SameEnds
<1>9. ReaderInv'
  BY <1>1, <1>2, <1>3 DEF ReaderInv, IsOpen, SameEnds, At
<1>10. MapInv'
  BY <1>1, <1>2, <1>3 DEF MapInv, Going, IsOpen, CloserInv, SameEnds, At
<1>11. WaitInv'
  BY <1>1, <1>2, <1>3 DEF WaitInv, Going, SameEnds, SameIn, SameOut, At
<1>12. WindowsAgree'
  BY <1>1, <1>2, <1>3 DEF WindowsAgree, SameOut, SameWork, At
<1>13. ConnCredit'
  <2>1. \A t \in Streams : st[t].buf \in Nat /\ st[t].hand \in Nat
    BY Fields DEF TypeOK
  <2>2. \A t \in Streams : Owed(t) \in Int
    BY <2>1 DEF Owed
  <2>3. Owed(s)' = Owed(s)
    BY <1>1, <1>2, <1>3 DEF Owed, SameIn, SameWork, At
  <2>4. \A t \in Streams \ {s} : Owed(t)' = Owed(t)
    BY <1>1, <1>2, <1>3 DEF Owed
  <2>5. OwedUpTo'[MaxStreams] = OwedUpTo[MaxStreams]
    BY <2>2, <2>3, <2>4, HeldSame
  <2>6. QED
    BY <1>1, <1>2, <1>3, <2>5 DEF ConnCredit, InReader
<1>14. StreamCredit'
  BY <1>1, <1>2, <1>3 DEF StreamCredit, InReader, SameIn, SameEnds, At
<1>15. QED
  BY <1>4, <1>5, <1>6, <1>7, <1>8, <1>9, <1>10, <1>11, <1>12, <1>13, <1>14

\* A write that fails has taken from both windows what the peer will not receive.
LEMMA DataFailsKeeps ==
    ASSUME IInv, faults' \in Nat, NEW s \in Streams, DataFails(s)
    PROVE  IInv'
<1> USE DEF IInv
<1>0. outLeft' \in 0..PeerWindow /\ (outLeft <= 0 => outLeft' <= 0)
  <2>1. outLeft \in Int /\ st[s].hand \in Int /\ st[s].hand >= 0 /\ outLeft \in 0..PeerWindow
        /\ PeerWindow \in Nat
    BY Fields, Http2Assumption DEF TypeOK
  <2>2. /\ Min({outLeft, st[s].hand}) \in {outLeft, st[s].hand}
        /\ Min({outLeft, st[s].hand}) <= outLeft
    BY <2>1, MinTwo
  <2>3. outLeft' = outLeft - Min({outLeft, st[s].hand})
    BY DEF DataFails
  <2>4. QED
    BY <2>1, <2>2, <2>3
<1> DEFINE y == [st[s] EXCEPT !.pc = "unsent"]
<1>1. /\ y \in Stream /\ st' = [st EXCEPT ![s] = y]
      /\ y.pc = "unsent"
      /\ SameEnds(y, st[s]) /\ SameIn(y, st[s]) /\ SameOut(y, st[s]) /\ SameWork(y, st[s])
      /\ y.asleep = st[s].asleep /\ y.peer = st[s].peer
  <2>1. st[s] \in Stream
    BY DEF TypeOK
  <2>2. y \in Stream
    BY <2>1, FieldsSet, Fields DEF SetFlags, SetNumbers, SetPoints, Pcs
  <2>3. st' = [st EXCEPT ![s] = y]
    BY DEF DataFails
  <2>4. QED
    BY <2>1, <2>2, <2>3 DEF Stream, SameEnds, SameIn, SameOut, SameWork
<1> HIDE DEF y
<1>2. /\ At(s, "send")
      /\ outLeft' \in 0..PeerWindow /\ (outLeft <= 0 => outLeft' <= 0)
      /\ UNCHANGED <<streams, next, shutdown, closed, unacked, credit, reader, settle,
                    setting, closer, gone>>
  BY <1>0 DEF DataFails, inVars, settingVars
<1>3. /\ st' \in [Streams -> Stream] /\ st'[s] = y
      /\ \A t \in Streams \ {s} : st'[t] = st[t]
  BY <1>1 DEF TypeOK
<1>4. TypeOK'
  BY <1>1, <1>2, <1>3 DEF TypeOK
<1>5. PartTypes'
  BY <1>1, <1>2, <1>3 DEF PartTypes, Reader, SameWork, At
<1>6. LocalInv'
  BY <1>1, <1>2, <1>3 DEF LocalInv, Local, IsOpen, SameEnds, SameIn, At
<1>7. OpenedInv'
  BY <1>1, <1>2, <1>3 DEF OpenedInv, Fresh, SameIn, SameEnds, At
<1>8. CloserInv'
  BY <1>1, <1>2, <1>3 DEF CloserInv, SameEnds
<1>9. ReaderInv'
  BY <1>1, <1>2, <1>3 DEF ReaderInv, IsOpen, SameEnds, At
<1>10. MapInv'
  BY <1>1, <1>2, <1>3 DEF MapInv, Going, IsOpen, CloserInv, SameEnds, At
<1>11. WaitInv'
  BY <1>1, <1>2, <1>3 DEF WaitInv, Going, SameEnds, SameIn, SameOut, At
<1>12. WindowsAgree'
  BY <1>1, <1>2, <1>3 DEF WindowsAgree, SameOut, SameWork, At
<1>13. ConnCredit'
  <2>1. \A t \in Streams : st[t].buf \in Nat /\ st[t].hand \in Nat
    BY Fields DEF TypeOK
  <2>2. \A t \in Streams : Owed(t) \in Int
    BY <2>1 DEF Owed
  <2>3. Owed(s)' = Owed(s)
    BY <1>1, <1>2, <1>3 DEF Owed, SameIn, SameWork, At
  <2>4. \A t \in Streams \ {s} : Owed(t)' = Owed(t)
    BY <1>1, <1>2, <1>3 DEF Owed
  <2>5. OwedUpTo'[MaxStreams] = OwedUpTo[MaxStreams]
    BY <2>2, <2>3, <2>4, HeldSame
  <2>6. QED
    BY <1>1, <1>2, <1>3, <2>5 DEF ConnCredit, InReader
<1>14. StreamCredit'
  BY <1>1, <1>2, <1>3 DEF StreamCredit, InReader, SameIn, SameEnds, At
<1>15. QED
  BY <1>4, <1>5, <1>6, <1>7, <1>8, <1>9, <1>10, <1>11, <1>12, <1>13, <1>14

\* What is written leaves the call's hand and the peer's window.
LEMMA WriteDataWrites ==
    ASSUME IInv, faults' \in Nat, NEW s \in Streams, WriteData(s), ~(outLeft <= 0), ~closed
    PROVE  IInv'
<1> USE DEF IInv
<1> DEFINE n == Min({outLeft, st[s].hand})
<1>0. /\ n \in Nat /\ n <= outLeft /\ n <= st[s].hand /\ outLeft \in 0..PeerWindow
      /\ st[s].hand \in Nat /\ st[s].body \in Nat /\ st[s].peerWin \in Int
      /\ st[s].hand <= st[s].body /\ PeerWindow \in Nat
  <2>1. /\ st[s].hand \in Int /\ st[s].hand >= 0 /\ st[s].body \in Nat /\ st[s].peerWin \in Int
        /\ outLeft \in 0..PeerWindow /\ PeerWindow \in Nat /\ outLeft \in Int
    BY Fields, Http2Assumption DEF TypeOK
  <2>2. st[s].hand <= st[s].body
    BY DEF WriteData, At, PartTypes
  <2>3. n \in {outLeft, st[s].hand} /\ n <= outLeft /\ n <= st[s].hand
    BY <2>1, MinTwo
  <2>4. QED
    BY <2>1, <2>2, <2>3
<1> HIDE DEF n
<1> DEFINE y == [st[s] EXCEPT !.hand = @ - n, !.body = @ - n, !.peerWin = @ - n,
                                     !.pc = IF n < st[s].hand THEN "send"
                                            ELSE IF n < st[s].body THEN "write" ELSE "shut"]
<1>1. /\ y \in Stream /\ st' = [st EXCEPT ![s] = y]
      /\ y.pc \in {"send", "write", "shut"} /\ (y.pc = "send") = (n < st[s].hand)
      /\ y.hand = st[s].hand - n /\ y.body = st[s].body - n /\ y.peerWin = st[s].peerWin - n
      /\ SameEnds(y, st[s]) /\ SameIn(y, st[s]) /\ y.win = st[s].win /\ y.asleep = st[s].asleep
      /\ y.peer = st[s].peer
  <2>1. st[s] \in Stream
    BY DEF TypeOK
  <2>2. y \in Stream
    <3>1. st[s].hand - n \in Nat /\ st[s].body - n \in Nat /\ st[s].peerWin - n \in Int
      BY <1>0
    <3>2. QED
      BY <2>1, <3>1, FieldsSet DEF SetNumbers, SetPoints, Pcs
  <2>3. st' = [st EXCEPT ![s] = y]
    <3>1. st \in [Streams -> Stream]
      BY DEF TypeOK
    <3>2. QED
      BY <2>1, <3>1 DEF WriteData, n, Stream
  <2>4. QED
    BY <1>0, <2>1, <2>2, <2>3 DEF Stream, SameEnds, SameIn, SameOut, SameWork
<1> HIDE DEF y
<1>2. /\ At(s, "send") /\ outLeft' = outLeft - n
      /\ UNCHANGED <<streams, next, shutdown, closed, unacked, credit, reader, settle,
                    setting, closer, gone>>
  BY DEF WriteData, n, inVars, settingVars
<1>3. /\ st' \in [Streams -> Stream] /\ st'[s] = y
      /\ \A t \in Streams \ {s} : st'[t] = st[t]
  BY <1>1 DEF TypeOK
<1>4. TypeOK'
  BY <1>1, <1>2, <1>3, <1>0 DEF TypeOK
<1>5. PartTypes'
  BY <1>1, <1>2, <1>3, <1>0 DEF PartTypes, Reader, SameWork, At
<1>6. LocalInv'
  BY <1>1, <1>2, <1>3 DEF LocalInv, Local, IsOpen, SameEnds, SameIn, At
<1>7. OpenedInv'
  BY <1>1, <1>2, <1>3 DEF OpenedInv, Fresh, SameIn, SameEnds, At
<1>8. CloserInv'
  BY <1>1, <1>2, <1>3 DEF CloserInv, SameEnds
<1>9. ReaderInv'
  BY <1>1, <1>2, <1>3 DEF ReaderInv, IsOpen, SameEnds, At
<1>10. MapInv'
  BY <1>1, <1>2, <1>3 DEF MapInv, Going, IsOpen, CloserInv, SameEnds, At
<1>11. WaitInv'
  BY <1>1, <1>2, <1>3, <1>0 DEF WaitInv, Going, SameEnds, SameIn, SameOut, At
<1>12. WindowsAgree'
  <2>1. st[s].win \in Int /\ settle.delta \in Int
    BY Fields DEF TypeOK, PartTypes
  <2>2. st[s].pc = "send" /\ (IF y.pc \in {"send", "unsent"} THEN y.hand ELSE 0) = st[s].hand - n
    BY <1>0, <1>1, <1>2 DEF At
  <2>3. QED
    BY <1>1, <1>2, <1>3, <1>0, <2>1, <2>2 DEF WindowsAgree
<1>13. ConnCredit'
  <2>1. \A t \in Streams : st[t].buf \in Nat /\ st[t].hand \in Nat
    BY Fields DEF TypeOK
  <2>2. \A t \in Streams : Owed(t) \in Int
    BY <2>1 DEF Owed
  <2>3. Owed(s)' = Owed(s)
    BY <1>1, <1>2, <1>3 DEF Owed, SameIn, SameWork, At
  <2>4. \A t \in Streams \ {s} : Owed(t)' = Owed(t)
    BY <1>1, <1>2, <1>3 DEF Owed
  <2>5. OwedUpTo'[MaxStreams] = OwedUpTo[MaxStreams]
    BY <2>2, <2>3, <2>4, HeldSame
  <2>6. QED
    BY <1>1, <1>2, <1>3, <2>5 DEF ConnCredit, InReader
<1>14. StreamCredit'
  BY <1>1, <1>2, <1>3 DEF StreamCredit, InReader, SameIn, SameEnds, At
<1>15. QED
  BY <1>4, <1>5, <1>6, <1>7, <1>8, <1>9, <1>10, <1>11, <1>12, <1>13, <1>14

\* writeData, whichever way it goes.
LEMMA WriteDataKeeps ==
    ASSUME IInv, faults' \in Nat, NEW s \in Streams, WriteData(s)
    PROVE  IInv'
<1>1. closed => s \notin streams
  BY DEF IInv, CloserInv
<1>2. CASE outLeft <= 0
  BY <1>2, WriteDataWaits, WriteDataFails
<1>3. CASE ~(outLeft <= 0)
  BY <1>1, <1>3, WriteDataFails, WriteDataWrites
<1>4. QED
  BY <1>2, <1>3

\* The stream is failed, or had failed already and somebody else takes it out of the map.
LEMMA CloseInternalKeeps ==
    ASSUME IInv, faults' \in Nat, NEW s \in Streams, CloseInternal(s)
    PROVE  IInv'
<1> USE DEF IInv
<1> DEFINE y == IF Closable(st[s]) THEN Failed([st[s] EXCEPT !.pc = "remove"])
                  ELSE [st[s] EXCEPT !.pc = "done"]
<1>1. /\ y \in Stream /\ st' = [st EXCEPT ![s] = y]
      /\ y.asleep = "no"
      /\ IF Closable(st[s]) THEN y.err /\ y.pc = "remove" ELSE y.err = st[s].err /\ y.pc = "done"
      /\ y.killer = st[s].killer /\ y.header = st[s].header /\ y.responded = st[s].responded
      /\ y.outFinished = st[s].outFinished /\ y.outClosed = st[s].outClosed
      /\ y.inFinished = st[s].inFinished /\ y.inClosed = st[s].inClosed /\ SameIn(y, st[s])
      /\ SameOut(y, st[s]) /\ SameWork(y, st[s]) /\ y.peer = st[s].peer
  <2>1. st[s] \in Stream
    BY DEF TypeOK
  <2>2. y \in Stream
    BY ZenonT(60), <2>1 DEF Stream, Failed, Woken
  <2>3. st' = [st EXCEPT ![s] = y]
    BY DEF CloseInternal, Becomes
  <2>4. QED
    BY <2>1, <2>2, <2>3 DEF Stream, SameEnds, SameIn, SameOut, SameWork,
       Failed, Woken, CloseInternal, At
<1> HIDE DEF y
<1>2. /\ At(s, "cancel")
      /\ UNCHANGED <<streams, next, shutdown, closed, outLeft, unacked, credit, reader,
                    settle, setting, closer, gone>>
  BY DEF CloseInternal, Becomes, inVars, settingVars
<1>3. /\ st' \in [Streams -> Stream] /\ st'[s] = y
      /\ \A t \in Streams \ {s} : st'[t] = st[t]
  BY <1>1 DEF TypeOK
<1>4. TypeOK'
  BY <1>1, <1>2, <1>3 DEF TypeOK
<1>5. PartTypes'
  BY <1>1, <1>2, <1>3 DEF PartTypes, Reader, SameWork, At
<1>6. LocalInv'
  BY <1>1, <1>2, <1>3 DEF LocalInv, Local, IsOpen, SameEnds, SameIn, At
<1>7. OpenedInv'
  BY <1>1, <1>2, <1>3 DEF OpenedInv, Fresh, SameIn, SameEnds, At
<1>8. CloserInv'
  BY <1>1, <1>2, <1>3 DEF CloserInv, SameEnds
<1>9. ReaderInv'
  BY <1>1, <1>2, <1>3 DEF ReaderInv, IsOpen, SameEnds, At
<1>10. MapInv'
  BY <1>1, <1>2, <1>3 DEF MapInv, Going, IsOpen, CloserInv, SameEnds, At, Closable,
     LocalInv, Local
<1>11. WaitInv'
  BY <1>1, <1>2, <1>3 DEF WaitInv, Going, SameEnds, SameIn, SameOut, At
<1>12. WindowsAgree'
  BY <1>1, <1>2, <1>3 DEF WindowsAgree, SameOut, SameWork, At
<1>13. ConnCredit'
  <2>1. \A t \in Streams : st[t].buf \in Nat /\ st[t].hand \in Nat
    BY Fields DEF TypeOK
  <2>2. \A t \in Streams : Owed(t) \in Int
    BY <2>1 DEF Owed
  <2>3. Owed(s)' = Owed(s)
    BY <1>1, <1>2, <1>3 DEF Owed, SameIn, SameWork, At
  <2>4. \A t \in Streams \ {s} : Owed(t)' = Owed(t)
    BY <1>1, <1>2, <1>3 DEF Owed
  <2>5. OwedUpTo'[MaxStreams] = OwedUpTo[MaxStreams]
    BY <2>2, <2>3, <2>4, HeldSame
  <2>6. QED
    BY <1>1, <1>2, <1>3, <2>5 DEF ConnCredit, InReader
<1>14. StreamCredit'
  BY <1>1, <1>2, <1>3 DEF StreamCredit, InReader, SameIn, SameEnds, At, LocalInv, Local
<1>15. QED
  BY <1>4, <1>5, <1>6, <1>7, <1>8, <1>9, <1>10, <1>11, <1>12, <1>13, <1>14

\* A timeout or cancel() fails the stream, wakes its call, and will take it out of the map.
LEMMA KillKeeps ==
    ASSUME IInv, faults' \in Nat, NEW s \in Streams, Kill(s)
    PROVE  IInv'
<1> USE DEF IInv
<1> DEFINE y == Failed([st[s] EXCEPT !.killer = TRUE])
<1>1. /\ y \in Stream /\ st' = [st EXCEPT ![s] = y]
      /\ y.err /\ y.killer /\ y.asleep = IF st[s].asleep = "stream" THEN "no" ELSE st[s].asleep
      /\ y.header = st[s].header /\ y.responded = st[s].responded
      /\ y.outFinished = st[s].outFinished /\ y.outClosed = st[s].outClosed
      /\ y.inFinished = st[s].inFinished /\ y.inClosed = st[s].inClosed /\ SameIn(y, st[s])
      /\ SameOut(y, st[s]) /\ SameWork(y, st[s]) /\ y.pc = st[s].pc /\ y.peer = st[s].peer
  <2>1. st[s] \in Stream
    BY DEF TypeOK
  <2>2. y \in Stream
    BY <2>1 DEF Stream, Failed, Woken
  <2>3. st' = [st EXCEPT ![s] = y]
    BY DEF Kill, Becomes
  <2>4. QED
    BY <2>1, <2>2, <2>3 DEF Stream, SameEnds, SameIn, SameOut, SameWork, Failed, Woken
<1> HIDE DEF y
<1>2. /\ Created(s) /\ Closable(st[s])
      /\ UNCHANGED <<streams, next, shutdown, closed, outLeft, unacked, credit, reader,
                    settle, setting, closer, gone>>
  BY DEF Kill, Becomes, inVars, settingVars
<1>3. /\ st' \in [Streams -> Stream] /\ st'[s] = y
      /\ \A t \in Streams \ {s} : st'[t] = st[t]
  BY <1>1 DEF TypeOK
<1>4. TypeOK'
  BY <1>1, <1>2, <1>3 DEF TypeOK, Created
<1>5. PartTypes'
  BY <1>1, <1>2, <1>3 DEF PartTypes, Reader, SameWork, At, Created
<1>6. LocalInv'
  BY <1>1, <1>2, <1>3 DEF LocalInv, Local, IsOpen, SameEnds, SameIn, At, Created
<1>7. OpenedInv'
  BY <1>1, <1>2, <1>3 DEF OpenedInv, Fresh, SameIn, SameEnds, At, Created
<1>8. CloserInv'
  BY <1>1, <1>2, <1>3 DEF CloserInv, SameEnds, Created
<1>9. ReaderInv'
  BY <1>1, <1>2, <1>3 DEF ReaderInv, IsOpen, SameEnds, At, Created
<1>10. MapInv'
  BY <1>1, <1>2, <1>3 DEF MapInv, Going, IsOpen, CloserInv, SameEnds, At, Created
<1>11. WaitInv'
  BY <1>1, <1>2, <1>3 DEF WaitInv, Going, SameEnds, SameIn, SameOut, At, Created
<1>12. WindowsAgree'
  BY <1>1, <1>2, <1>3 DEF WindowsAgree, SameOut, SameWork, At, Created
<1>13. ConnCredit'
  <2>1. \A t \in Streams : st[t].buf \in Nat /\ st[t].hand \in Nat
    BY Fields DEF TypeOK
  <2>2. \A t \in Streams : Owed(t) \in Int
    BY <2>1 DEF Owed
  <2>3. Owed(s)' = Owed(s)
    BY <1>1, <1>2, <1>3 DEF Owed, SameIn, SameWork, At, Created
  <2>4. \A t \in Streams \ {s} : Owed(t)' = Owed(t)
    BY <1>1, <1>2, <1>3 DEF Owed
  <2>5. OwedUpTo'[MaxStreams] = OwedUpTo[MaxStreams]
    BY <2>2, <2>3, <2>4, HeldSame
  <2>6. QED
    BY <1>1, <1>2, <1>3, <2>5 DEF ConnCredit, InReader
<1>14. StreamCredit'
  BY <1>1, <1>2, <1>3 DEF StreamCredit, InReader, SameIn, SameEnds, At, Created
<1>15. QED
  BY <1>4, <1>5, <1>6, <1>7, <1>8, <1>9, <1>10, <1>11, <1>12, <1>13, <1>14

\* A WINDOW_UPDATE for a stream wakes its writer.
LEMMA RecvStreamWindowUpdateKeeps ==
    ASSUME IInv, faults' \in Nat, NEW s \in Streams, RecvStreamWindowUpdate(s)
    PROVE  IInv'
<1> USE DEF IInv
<1> DEFINE y == Woken([st[s] EXCEPT !.peerWin = @ + 1, !.win = @ + 1])
<1>1. /\ y \in Stream /\ st' = [st EXCEPT ![s] = y]
      /\ y.win = st[s].win + 1 /\ y.peerWin = st[s].peerWin + 1
      /\ y.asleep = IF st[s].asleep = "stream" THEN "no" ELSE st[s].asleep
      /\ SameEnds(y, st[s]) /\ SameIn(y, st[s]) /\ SameWork(y, st[s]) /\ y.pc = st[s].pc
      /\ y.peer = st[s].peer
  <2>1. st[s] \in Stream
    BY DEF TypeOK
  <2>2. y \in Stream
    <3>1. st[s].peerWin + 1 \in Int /\ st[s].win + 1 \in Int
      BY <2>1, Fields
    <3>2. [st[s] EXCEPT !.peerWin = @ + 1, !.win = @ + 1] \in Stream
      BY <2>1, <3>1, FieldsSet DEF SetNumbers
    <3>3. QED
      BY <2>1, <3>2, FieldsSet, Fields DEF Woken, SetPoints
  <2>3. st' = [st EXCEPT ![s] = y]
    BY DEF RecvStreamWindowUpdate
  <2>4. QED
    BY <2>1, <2>2, <2>3 DEF Stream, SameEnds, SameIn, SameOut, SameWork, Woken
<1> HIDE DEF y
<1>2. /\ s \in streams
      /\ UNCHANGED <<streams, next, shutdown, closed, outLeft, unacked, credit, reader,
                    settle, setting, closer, gone>>
  BY DEF RecvStreamWindowUpdate, inVars, settingVars
<1>3. /\ st' \in [Streams -> Stream] /\ st'[s] = y
      /\ \A t \in Streams \ {s} : st'[t] = st[t]
  BY <1>1 DEF TypeOK
<1>4. TypeOK'
  BY <1>1, <1>2, <1>3 DEF TypeOK
<1>5. PartTypes'
  BY <1>1, <1>2, <1>3 DEF PartTypes, Reader, SameWork, At
<1>6. LocalInv'
  BY <1>1, <1>2, <1>3 DEF LocalInv, Local, IsOpen, SameEnds, SameIn, At
<1>7. OpenedInv'
  BY <1>1, <1>2, <1>3 DEF OpenedInv, Fresh, SameIn, SameEnds, At
<1>8. CloserInv'
  BY <1>1, <1>2, <1>3 DEF CloserInv, SameEnds
<1>9. ReaderInv'
  BY <1>1, <1>2, <1>3 DEF ReaderInv, IsOpen, SameEnds, At
<1>10. MapInv'
  BY <1>1, <1>2, <1>3 DEF MapInv, Going, IsOpen, CloserInv, SameEnds, At
<1>11. WaitInv'
  BY <1>1, <1>2, <1>3 DEF WaitInv, Going, SameEnds, SameIn, SameOut, At
<1>12. WindowsAgree'
  <2>1. /\ st[s].win \in Int /\ st[s].peerWin \in Int /\ st[s].hand \in Int /\ settle.delta \in Int
    BY Fields DEF TypeOK, PartTypes
  <2>2. QED
    BY <1>1, <1>2, <1>3, <2>1 DEF WindowsAgree, SameWork
<1>13. ConnCredit'
  <2>1. \A t \in Streams : st[t].buf \in Nat /\ st[t].hand \in Nat
    BY Fields DEF TypeOK
  <2>2. \A t \in Streams : Owed(t) \in Int
    BY <2>1 DEF Owed
  <2>3. Owed(s)' = Owed(s)
    BY <1>1, <1>2, <1>3 DEF Owed, SameIn, SameWork, At
  <2>4. \A t \in Streams \ {s} : Owed(t)' = Owed(t)
    BY <1>1, <1>2, <1>3 DEF Owed
  <2>5. OwedUpTo'[MaxStreams] = OwedUpTo[MaxStreams]
    BY <2>2, <2>3, <2>4, HeldSame
  <2>6. QED
    BY <1>1, <1>2, <1>3, <2>5 DEF ConnCredit, InReader
<1>14. StreamCredit'
  BY <1>1, <1>2, <1>3 DEF StreamCredit, InReader, SameIn, SameEnds, At
<1>15. QED
  BY <1>4, <1>5, <1>6, <1>7, <1>8, <1>9, <1>10, <1>11, <1>12, <1>13, <1>14

\* What is given back is not lost.
LEMMA GivenBack ==
    ASSUME TypeOK, NEW n \in Nat, NEW c \in Nat, GiveBack(n, c)
    PROVE  credit' \in Nat /\ unacked' \in Nat /\ credit' + unacked' = c + unacked + n
  BY DEF TypeOK, GiveBack

\* What is read moves from the buffer to the call's hand, and is told to the peer or counted.
LEMMA ReadKeeps ==
    ASSUME IInv, faults' \in Nat, NEW s \in Streams, Read(s)
    PROVE  IInv'
<1> USE DEF IInv
<1>a. PICK n \in 1..st[s].buf :
             Becomes(s, [st[s] EXCEPT !.buf = @ - n, !.hand = n, !.pc = "ack",
                          !.credit = IF ~st[s].err /\ st[s].unacked + n >= Window \div 2
                                     THEN @ + (st[s].unacked + n) ELSE @,
                          !.unacked = IF ~st[s].err /\ st[s].unacked + n >= Window \div 2
                                      THEN 0 ELSE st[s].unacked + n])
  BY DEF Read
<1> DEFINE total == st[s].unacked + n
           tell == ~st[s].err /\ total >= Window \div 2
<1>0. /\ n \in Nat /\ st[s].buf - n \in Nat /\ total \in Nat /\ st[s].credit + total \in Int
      /\ st[s].buf \in Nat /\ st[s].credit \in Int /\ st[s].unacked \in Nat
  BY Fields DEF TypeOK
<1> DEFINE y == [st[s] EXCEPT !.buf = @ - n, !.hand = n, !.pc = "ack",
                                     !.credit = IF tell THEN @ + total ELSE @,
                                     !.unacked = IF tell THEN 0 ELSE total]
<1>1. /\ y \in Stream /\ st' = [st EXCEPT ![s] = y]
      /\ y.pc = "ack" /\ y.hand + y.buf = st[s].buf
      /\ y.credit + y.unacked + y.buf = st[s].credit + st[s].unacked + st[s].buf
      /\ SameEnds(y, st[s]) /\ SameOut(y, st[s]) /\ y.body = st[s].body
      /\ y.asleep = st[s].asleep /\ y.peer = st[s].peer
  <2>1. st[s] \in Stream
    BY DEF TypeOK
  <2>2. y \in Stream
    <3> HIDE DEF tell, total
    <3>1. QED
      BY <1>0, <2>1, FieldsSet DEF SetNumbers, SetPoints, Pcs
  <2>3. st' = [st EXCEPT ![s] = y]
    BY <1>a DEF Becomes
  <2>4. QED
    <3>1. y.buf = st[s].buf - n /\ y.hand = n
      BY <2>1 DEF Stream
    <3>2. /\ y.credit = IF tell THEN st[s].credit + total ELSE st[s].credit
          /\ y.unacked = IF tell THEN 0 ELSE total
      BY <2>1 DEF Stream
    <3>3. y.credit + y.unacked + y.buf = st[s].credit + st[s].unacked + st[s].buf
      <4> HIDE DEF tell, y
      <4>1. CASE tell
        BY <1>0, <3>1, <3>2, <4>1
      <4>2. CASE ~tell
        BY <1>0, <3>1, <3>2, <4>2
      <4>3. QED
        BY <4>1, <4>2
    <3>4. y.hand + y.buf = st[s].buf
      <4> HIDE DEF tell, y
      <4>1. QED
        BY <1>0, <3>1
    <3>5. QED
      BY <2>1, <2>2, <2>3, <3>3, <3>4 DEF Stream, SameEnds, SameIn, SameOut, SameWork
<1> HIDE DEF y
<1>2. /\ At(s, "read")
      /\ UNCHANGED <<streams, next, shutdown, closed, outLeft, unacked, credit, reader,
                    settle, setting, closer, gone>>
  BY <1>a DEF Read, Becomes, inVars, settingVars
<1>3. /\ st' \in [Streams -> Stream] /\ st'[s] = y
      /\ \A t \in Streams \ {s} : st'[t] = st[t]
  BY <1>1 DEF TypeOK
<1>4. TypeOK'
  BY <1>1, <1>2, <1>3 DEF TypeOK
<1>5. PartTypes'
  BY <1>1, <1>2, <1>3 DEF PartTypes, Reader, SameWork, At
<1>6. LocalInv'
  BY <1>1, <1>2, <1>3 DEF LocalInv, Local, IsOpen, SameEnds, SameIn, At
<1>7. OpenedInv'
  BY <1>1, <1>2, <1>3 DEF OpenedInv, Fresh, SameIn, SameEnds, At
<1>8. CloserInv'
  BY <1>1, <1>2, <1>3 DEF CloserInv, SameEnds
<1>9. ReaderInv'
  BY <1>1, <1>2, <1>3 DEF ReaderInv, IsOpen, SameEnds, At
<1>10. MapInv'
  BY <1>1, <1>2, <1>3 DEF MapInv, Going, IsOpen, CloserInv, SameEnds, At
<1>11. WaitInv'
  BY <1>1, <1>2, <1>3 DEF WaitInv, Going, SameEnds, SameIn, SameOut, At
<1>12. WindowsAgree'
  BY <1>1, <1>2, <1>3 DEF WindowsAgree, SameOut, SameWork, At
<1>13. ConnCredit'
  <2>1. \A t \in Streams : st[t].buf \in Nat /\ st[t].hand \in Nat
    BY Fields DEF TypeOK
  <2>2. \A t \in Streams : Owed(t) \in Int
    BY <2>1 DEF Owed
  <2>3. Owed(s)' = Owed(s)
    BY <1>1, <1>2, <1>3, Fields DEF Owed, SameIn, SameWork, At, TypeOK
  <2>4. \A t \in Streams \ {s} : Owed(t)' = Owed(t)
    BY <1>1, <1>2, <1>3 DEF Owed
  <2>5. OwedUpTo'[MaxStreams] = OwedUpTo[MaxStreams]
    BY <2>2, <2>3, <2>4, HeldSame
  <2>6. QED
    BY <1>1, <1>2, <1>3, <2>5 DEF ConnCredit, InReader
<1>14. StreamCredit'
  <2>1. st[s].asleep = "no" /\ st[s].pc = "read"
    BY <1>2 DEF At
  <2>2. QED
    BY <1>1, <1>2, <1>3 DEF StreamCredit, InReader, SameEnds
<1>15. QED
  BY <1>4, <1>5, <1>6, <1>7, <1>8, <1>9, <1>10, <1>11, <1>12, <1>13, <1>14

\* What was read is given back to the connection's window.
LEMMA ReadAckKeeps ==
    ASSUME IInv, faults' \in Nat, NEW s \in Streams, ReadAck(s)
    PROVE  IInv'
<1> USE DEF IInv
<1>0. /\ credit' \in Nat /\ unacked' \in Nat
      /\ credit' + unacked' = credit + unacked + st[s].hand
  <2>1. st[s].hand \in Nat /\ credit \in Nat
    BY Fields DEF TypeOK
  <2>2. QED
    BY <2>1, GivenBack DEF ReadAck
<1> DEFINE y == [st[s] EXCEPT !.hand = 0, !.pc = "read"]
<1>1. /\ y \in Stream /\ st' = [st EXCEPT ![s] = y]
      /\ y.pc = "read" /\ y.hand = 0
      /\ SameEnds(y, st[s]) /\ SameIn(y, st[s]) /\ SameOut(y, st[s]) /\ y.body = st[s].body
      /\ y.asleep = st[s].asleep /\ y.peer = st[s].peer
  <2>1. st[s] \in Stream
    BY DEF TypeOK
  <2>2. y \in Stream
    BY <2>1, FieldsSet, Fields DEF SetFlags, SetNumbers, SetPoints, Pcs
  <2>3. st' = [st EXCEPT ![s] = y]
    BY <2>1 DEF ReadAck, TypeOK, Stream
  <2>4. QED
    BY <2>1, <2>2, <2>3 DEF Stream, SameEnds, SameIn, SameOut, SameWork
<1> HIDE DEF y
<1>2. /\ At(s, "ack") /\ credit' \in Nat /\ unacked' \in Nat
      /\ credit' + unacked' = credit + unacked + st[s].hand
      /\ UNCHANGED <<streams, next, shutdown, closed, outLeft, reader, settle, setting,
                    closer, gone>>
  BY <1>0 DEF ReadAck, inVars, settingVars
<1>3. /\ st' \in [Streams -> Stream] /\ st'[s] = y
      /\ \A t \in Streams \ {s} : st'[t] = st[t]
  BY <1>1 DEF TypeOK
<1>4. TypeOK'
  BY <1>1, <1>2, <1>3 DEF TypeOK
<1>5. PartTypes'
  BY <1>1, <1>2, <1>3 DEF PartTypes, Reader, SameWork, At
<1>6. LocalInv'
  BY <1>1, <1>2, <1>3 DEF LocalInv, Local, IsOpen, SameEnds, SameIn, At
<1>7. OpenedInv'
  BY <1>1, <1>2, <1>3 DEF OpenedInv, Fresh, SameIn, SameEnds, At
<1>8. CloserInv'
  BY <1>1, <1>2, <1>3 DEF CloserInv, SameEnds
<1>9. ReaderInv'
  BY <1>1, <1>2, <1>3 DEF ReaderInv, IsOpen, SameEnds, At
<1>10. MapInv'
  BY <1>1, <1>2, <1>3 DEF MapInv, Going, IsOpen, CloserInv, SameEnds, At
<1>11. WaitInv'
  BY <1>1, <1>2, <1>3 DEF WaitInv, Going, SameEnds, SameIn, SameOut, At
<1>12. WindowsAgree'
  BY <1>1, <1>2, <1>3 DEF WindowsAgree, SameOut, SameWork, At
<1>13. ConnCredit'
  <2>1. \A t \in Streams : /\ st[t].buf \in Nat /\ st[t].hand \in Nat
                           /\ st'[t].buf \in Nat /\ st'[t].hand \in Nat
    BY <1>3, Fields DEF TypeOK
  <2>2. \A t \in Streams : Owed(t) \in Int /\ Owed(t)' \in Int
    BY <2>1 DEF Owed
  <2>3. \A t \in Streams : t # s => Owed(t)' = Owed(t)
    BY <1>1, <1>2, <1>3 DEF Owed
  <2>4. Owed(s)' + st[s].hand = Owed(s)
    BY <1>1, <1>2, <1>3, <2>1 DEF Owed, SameIn, At
  <2>5. /\ OwedUpTo[MaxStreams] \in Int
        /\ OwedUpTo'[MaxStreams] = OwedUpTo[MaxStreams] + Owed(s)' - Owed(s)
    BY <2>2, <2>3, HeldChange
  <2>6. InReader \in Int /\ InReader' = InReader
    BY <1>1, <1>2, <1>3 DEF InReader, PartTypes, Reader
  <2>7. /\ unacked \in Int /\ credit \in Int /\ credit' \in Int /\ unacked' \in Int
        /\ st[s].hand \in Int
    BY <1>1, <1>2, <1>3, <2>1 DEF TypeOK
  <2>8. QED
    BY <1>1, <1>2, <1>3, <2>2, <2>4, <2>5, <2>6, <2>7 DEF ConnCredit
<1>14. StreamCredit'
  BY <1>1, <1>2, <1>3 DEF StreamCredit, InReader, SameIn, SameEnds, At
<1>15. QED
  BY <1>4, <1>5, <1>6, <1>7, <1>8, <1>9, <1>10, <1>11, <1>12, <1>13, <1>14

\* What was dropped with the buffer is given back to the connection's window.
LEMMA CloseAckKeeps ==
    ASSUME IInv, faults' \in Nat, NEW s \in Streams, CloseAck(s)
    PROVE  IInv'
<1> USE DEF IInv
<1>0. /\ credit' \in Nat /\ unacked' \in Nat
      /\ credit' + unacked' = credit + unacked + st[s].hand
  <2>1. st[s].hand \in Nat /\ credit \in Nat
    BY Fields DEF TypeOK
  <2>2. QED
    BY <2>1, GivenBack DEF CloseAck
<1> DEFINE y == [st[s] EXCEPT !.hand = 0, !.pc = "check"]
<1>1. /\ y \in Stream /\ st' = [st EXCEPT ![s] = y]
      /\ y.pc = "check" /\ y.hand = 0
      /\ SameEnds(y, st[s]) /\ SameIn(y, st[s]) /\ SameOut(y, st[s]) /\ y.body = st[s].body
      /\ y.asleep = st[s].asleep /\ y.peer = st[s].peer
  <2>1. st[s] \in Stream
    BY DEF TypeOK
  <2>2. y \in Stream
    BY <2>1, FieldsSet, Fields DEF SetFlags, SetNumbers, SetPoints, Pcs
  <2>3. st' = [st EXCEPT ![s] = y]
    BY <2>1 DEF CloseAck, TypeOK, Stream
  <2>4. QED
    BY <2>1, <2>2, <2>3 DEF Stream, SameEnds, SameIn, SameOut, SameWork
<1> HIDE DEF y
<1>2. /\ At(s, "discard") /\ credit' \in Nat /\ unacked' \in Nat
      /\ credit' + unacked' = credit + unacked + st[s].hand
      /\ UNCHANGED <<streams, next, shutdown, closed, outLeft, reader, settle, setting,
                    closer, gone>>
  BY <1>0 DEF CloseAck, inVars, settingVars
<1>3. /\ st' \in [Streams -> Stream] /\ st'[s] = y
      /\ \A t \in Streams \ {s} : st'[t] = st[t]
  BY <1>1 DEF TypeOK
<1>4. TypeOK'
  BY <1>1, <1>2, <1>3 DEF TypeOK
<1>5. PartTypes'
  BY <1>1, <1>2, <1>3 DEF PartTypes, Reader, SameWork, At
<1>6. LocalInv'
  BY <1>1, <1>2, <1>3 DEF LocalInv, Local, IsOpen, SameEnds, SameIn, At
<1>7. OpenedInv'
  BY <1>1, <1>2, <1>3 DEF OpenedInv, Fresh, SameIn, SameEnds, At
<1>8. CloserInv'
  BY <1>1, <1>2, <1>3 DEF CloserInv, SameEnds
<1>9. ReaderInv'
  BY <1>1, <1>2, <1>3 DEF ReaderInv, IsOpen, SameEnds, At
<1>10. MapInv'
  BY <1>1, <1>2, <1>3 DEF MapInv, Going, IsOpen, CloserInv, SameEnds, At
<1>11. WaitInv'
  BY <1>1, <1>2, <1>3 DEF WaitInv, Going, SameEnds, SameIn, SameOut, At
<1>12. WindowsAgree'
  BY <1>1, <1>2, <1>3 DEF WindowsAgree, SameOut, SameWork, At
<1>13. ConnCredit'
  <2>1. \A t \in Streams : /\ st[t].buf \in Nat /\ st[t].hand \in Nat
                           /\ st'[t].buf \in Nat /\ st'[t].hand \in Nat
    BY <1>3, Fields DEF TypeOK
  <2>2. \A t \in Streams : Owed(t) \in Int /\ Owed(t)' \in Int
    BY <2>1 DEF Owed
  <2>3. \A t \in Streams : t # s => Owed(t)' = Owed(t)
    BY <1>1, <1>2, <1>3 DEF Owed
  <2>4. Owed(s)' + st[s].hand = Owed(s)
    BY <1>1, <1>2, <1>3, <2>1 DEF Owed, SameIn, At
  <2>5. /\ OwedUpTo[MaxStreams] \in Int
        /\ OwedUpTo'[MaxStreams] = OwedUpTo[MaxStreams] + Owed(s)' - Owed(s)
    BY <2>2, <2>3, HeldChange
  <2>6. InReader \in Int /\ InReader' = InReader
    BY <1>1, <1>2, <1>3 DEF InReader, PartTypes, Reader
  <2>7. /\ unacked \in Int /\ credit \in Int /\ credit' \in Int /\ unacked' \in Int
        /\ st[s].hand \in Int
    BY <1>1, <1>2, <1>3, <2>1 DEF TypeOK
  <2>8. QED
    BY <1>1, <1>2, <1>3, <2>2, <2>4, <2>5, <2>6, <2>7 DEF ConnCredit
<1>14. StreamCredit'
  BY <1>1, <1>2, <1>3 DEF StreamCredit, InReader, SameIn, SameEnds, At
<1>15. QED
  BY <1>4, <1>5, <1>6, <1>7, <1>8, <1>9, <1>10, <1>11, <1>12, <1>13, <1>14

\* Closing the source moves the buffer to the call's hand.
LEMMA SourceCloseKeeps ==
    ASSUME IInv, faults' \in Nat, NEW s \in Streams, SourceClose(s)
    PROVE  IInv'
<1> USE DEF IInv
<1> DEFINE y == [st[s] EXCEPT !.inClosed = TRUE, !.hand = st[s].buf, !.buf = 0,
                                !.pc = IF st[s].buf > 0 THEN "discard" ELSE "check"]
<1>1. /\ y \in Stream /\ st' = [st EXCEPT ![s] = y]
      /\ y.pc = (IF st[s].buf > 0 THEN "discard" ELSE "check")
      /\ y.inClosed /\ y.hand = st[s].buf /\ y.buf = 0
      /\ y.err = st[s].err /\ y.killer = st[s].killer /\ y.header = st[s].header
      /\ y.responded = st[s].responded /\ y.outFinished = st[s].outFinished
      /\ y.outClosed = st[s].outClosed /\ y.inFinished = st[s].inFinished
      /\ y.unacked = st[s].unacked /\ y.credit = st[s].credit /\ SameOut(y, st[s])
      /\ y.body = st[s].body /\ y.asleep = st[s].asleep /\ y.peer = st[s].peer
  <2>1. st[s] \in Stream
    BY DEF TypeOK
  <2>2. y \in Stream
    BY <2>1, FieldsSet, Fields DEF SetFlags, SetNumbers, SetPoints, Pcs
  <2>3. st' = [st EXCEPT ![s] = y]
    BY DEF SourceClose, Becomes
  <2>4. QED
    BY <2>1, <2>2, <2>3 DEF Stream, SameEnds, SameIn, SameOut, SameWork
<1> HIDE DEF y
<1>2. /\ At(s, "close") \/ At(s, "read")
      /\ UNCHANGED <<streams, next, shutdown, closed, outLeft, unacked, credit, reader,
                    settle, setting, closer, gone>>
  BY DEF SourceClose, Becomes, inVars, settingVars
<1>3. /\ st' \in [Streams -> Stream] /\ st'[s] = y
      /\ \A t \in Streams \ {s} : st'[t] = st[t]
  BY <1>1 DEF TypeOK
<1>4. TypeOK'
  BY <1>1, <1>2, <1>3 DEF TypeOK
<1>5. PartTypes'
  BY <1>1, <1>2, <1>3 DEF PartTypes, Reader, SameWork, At
<1>6. LocalInv'
  BY <1>1, <1>2, <1>3 DEF LocalInv, Local, IsOpen, SameEnds, SameIn, At
<1>7. OpenedInv'
  BY <1>1, <1>2, <1>3 DEF OpenedInv, Fresh, SameIn, SameEnds, At
<1>8. CloserInv'
  BY <1>1, <1>2, <1>3 DEF CloserInv, SameEnds
<1>9. ReaderInv'
  BY <1>1, <1>2, <1>3 DEF ReaderInv, IsOpen, SameEnds, At
<1>10. MapInv'
  BY <1>1, <1>2, <1>3 DEF MapInv, Going, IsOpen, CloserInv, SameEnds, At, LocalInv, Local
<1>11. WaitInv'
  BY <1>1, <1>2, <1>3 DEF WaitInv, Going, SameEnds, SameIn, SameOut, At
<1>12. WindowsAgree'
  BY <1>1, <1>2, <1>3 DEF WindowsAgree, SameOut, SameWork, At
<1>13. ConnCredit'
  <2>1. \A t \in Streams : st[t].buf \in Nat /\ st[t].hand \in Nat
    BY Fields DEF TypeOK
  <2>2. \A t \in Streams : Owed(t) \in Int
    BY <2>1 DEF Owed
  <2>3. Owed(s)' = Owed(s)
    BY <1>1, <1>2, <1>3, Fields DEF Owed, SameIn, SameWork, At, TypeOK
  <2>4. \A t \in Streams \ {s} : Owed(t)' = Owed(t)
    BY <1>1, <1>2, <1>3 DEF Owed
  <2>5. OwedUpTo'[MaxStreams] = OwedUpTo[MaxStreams]
    BY <2>2, <2>3, <2>4, HeldSame
  <2>6. QED
    BY <1>1, <1>2, <1>3, <2>5 DEF ConnCredit, InReader
<1>14. StreamCredit'
  BY <1>1, <1>2, <1>3 DEF StreamCredit, InReader, SameIn, SameEnds, At
<1>15. QED
  BY <1>4, <1>5, <1>6, <1>7, <1>8, <1>9, <1>10, <1>11, <1>12, <1>13, <1>14

\* The reader takes a stream in the map to give it headers.
LEMMA RecvHeadersKeeps ==
    ASSUME IInv, faults' \in Nat, NEW s \in Streams, NEW fin \in BOOLEAN, RecvHeaders(s, fin)
    PROVE  IInv'
<1> USE DEF IInv
<1>0. s \in 0..MaxStreams
  BY Http2Assumption DEF Streams
<1> DEFINE y == [st[s] EXCEPT !.peer = IF fin THEN "done" ELSE "open"]
<1>1. /\ y \in Stream /\ st' = [st EXCEPT ![s] = y]
      /\ y.peer # "silent"
      /\ SameEnds(y, st[s]) /\ SameIn(y, st[s]) /\ SameOut(y, st[s]) /\ SameWork(y, st[s])
      /\ y.pc = st[s].pc /\ y.asleep = st[s].asleep
  <2>1. st[s] \in Stream
    BY DEF TypeOK
  <2>2. y \in Stream
    BY <2>1, FieldsSet, Fields DEF SetFlags, SetNumbers, SetPoints, Pcs
  <2>3. st' = [st EXCEPT ![s] = y]
    BY <2>1 DEF RecvHeaders, TypeOK, Stream
  <2>4. QED
    BY <2>1, <2>2, <2>3 DEF Stream, SameEnds, SameIn, SameOut, SameWork
<1> HIDE DEF y
<1>2. /\ reader.pc = "idle" /\ s < next
      /\ \/ /\ s \in streams
            /\ reader' = [pc |-> "headers", s |-> s, n |-> 0, fin |-> fin, who |-> {}]
         \/ s \notin streams /\ reader' = reader
      /\ UNCHANGED <<streams, next, shutdown, closed, outLeft, unacked, credit, settle,
                    setting, closer, gone>>
  BY DEF RecvHeaders, Receives, Reads, Created, inVars, settingVars
<1>3. /\ st' \in [Streams -> Stream] /\ st'[s] = y
      /\ \A t \in Streams \ {s} : st'[t] = st[t]
  BY <1>1 DEF TypeOK
<1>4. TypeOK'
  BY <1>1, <1>2, <1>3 DEF TypeOK
<1>5. PartTypes'
  BY <1>1, <1>2, <1>3, <1>0 DEF PartTypes, Reader, SameWork, At
<1>6. LocalInv'
  BY <1>1, <1>2, <1>3 DEF LocalInv, Local, IsOpen, SameEnds, SameIn, At
<1>7. OpenedInv'
  BY <1>1, <1>2, <1>3 DEF OpenedInv, Fresh, SameIn, SameEnds, At
<1>8. CloserInv'
  BY <1>1, <1>2, <1>3 DEF CloserInv, SameEnds
<1>9. ReaderInv'
  BY <1>1, <1>2, <1>3 DEF ReaderInv, IsOpen, SameEnds, At
<1>10. MapInv'
  BY <1>1, <1>2, <1>3 DEF MapInv, Going, IsOpen, CloserInv, SameEnds, At
<1>11. WaitInv'
  BY <1>1, <1>2, <1>3 DEF WaitInv, Going, SameEnds, SameIn, SameOut, At
<1>12. WindowsAgree'
  BY <1>1, <1>2, <1>3 DEF WindowsAgree, SameOut, SameWork, At
<1>13. ConnCredit'
  <2>1. \A t \in Streams : st[t].buf \in Nat /\ st[t].hand \in Nat
    BY Fields DEF TypeOK
  <2>2. \A t \in Streams : Owed(t) \in Int
    BY <2>1 DEF Owed
  <2>3. Owed(s)' = Owed(s)
    BY <1>1, <1>2, <1>3 DEF Owed, SameIn, SameWork, At
  <2>4. \A t \in Streams \ {s} : Owed(t)' = Owed(t)
    BY <1>1, <1>2, <1>3 DEF Owed
  <2>5. OwedUpTo'[MaxStreams] = OwedUpTo[MaxStreams]
    BY <2>2, <2>3, <2>4, HeldSame
  <2>6. QED
    BY <1>1, <1>2, <1>3, <2>5 DEF ConnCredit, InReader
<1>14. StreamCredit'
  BY <1>1, <1>2, <1>3 DEF StreamCredit, InReader, SameIn, SameEnds, At
<1>15. QED
  BY <1>4, <1>5, <1>6, <1>7, <1>8, <1>9, <1>10, <1>11, <1>12, <1>13, <1>14

\* After a shutdown the call ends without a stream.
LEMMA NewStreamRefused ==
    ASSUME IInv, faults' \in Nat, NEW s \in Streams, NewStream(s), shutdown = TRUE
    PROVE  IInv'
<1> USE DEF IInv
<1>0. s \in Int /\ next \in Int /\ ~(s < next) /\ s \notin streams
  <2>1. s \in Int /\ next \in Int /\ s >= next
    BY Http2Assumption DEF Streams, TypeOK, NewStream, OpenStream
  <2>2. QED
    BY <2>1 DEF OpenedInv
<1> DEFINE y == [st[s] EXCEPT !.pc = "done"]
<1>1. /\ y \in Stream /\ st' = [st EXCEPT ![s] = y]
      /\ y.pc = "done"
      /\ SameEnds(y, st[s]) /\ SameIn(y, st[s]) /\ SameOut(y, st[s]) /\ SameWork(y, st[s])
      /\ y.asleep = st[s].asleep /\ y.peer = st[s].peer
  <2>1. st[s] \in Stream
    BY DEF TypeOK
  <2>2. y \in Stream
    BY <2>1, FieldsSet, Fields DEF SetFlags, SetNumbers, SetPoints, Pcs
  <2>3. st' = [st EXCEPT ![s] = y]
    BY <2>1 DEF NewStream, OpenStream, TypeOK, Stream
  <2>4. QED
    BY <2>1, <2>2, <2>3 DEF Stream, SameEnds, SameIn, SameOut, SameWork
<1> HIDE DEF y
<1>2. /\ At(s, "new") /\ s >= next
      /\ UNCHANGED <<streams, next, shutdown, closed, outLeft, unacked, credit, reader,
                    settle, setting, closer, gone>>
  BY DEF NewStream, OpenStream, inVars, settingVars
<1>3. /\ st' \in [Streams -> Stream] /\ st'[s] = y
      /\ \A t \in Streams \ {s} : st'[t] = st[t]
  BY <1>1 DEF TypeOK
<1>4. TypeOK'
  BY <1>1, <1>2, <1>3 DEF TypeOK
<1>5. PartTypes'
  BY <1>1, <1>2, <1>3 DEF PartTypes, Reader, SameWork, At
<1>6. LocalInv'
  BY <1>1, <1>2, <1>3 DEF LocalInv, Local, IsOpen, SameEnds, SameIn, At
<1>7. OpenedInv'
  <2>1. Fresh(st[s])
    BY <1>0 DEF OpenedInv
  <2>2. Fresh(y)
    BY <1>1, <2>1 DEF Fresh, SameEnds, SameIn
  <2>3. QED
    BY <1>1, <1>2, <1>3, <1>0, <2>2 DEF OpenedInv
<1>8. CloserInv'
  BY <1>1, <1>2, <1>3 DEF CloserInv, SameEnds
<1>9. ReaderInv'
  BY <1>1, <1>2, <1>3, <1>0 DEF ReaderInv, IsOpen, SameEnds, At, OpenedInv
<1>10. MapInv'
  BY <1>1, <1>2, <1>3, <1>0 DEF MapInv, Going, IsOpen, CloserInv, SameEnds, At, OpenedInv
<1>11. WaitInv'
  BY <1>1, <1>2, <1>3, <1>0 DEF WaitInv, Going, SameEnds, SameIn, SameOut, At, OpenedInv
<1>12. WindowsAgree'
  BY <1>1, <1>2, <1>3, <1>0 DEF WindowsAgree, SameOut, SameWork, At, OpenedInv
<1>13. ConnCredit'
  <2>1. \A t \in Streams : st[t].buf \in Nat /\ st[t].hand \in Nat
    BY Fields DEF TypeOK
  <2>2. \A t \in Streams : Owed(t) \in Int
    BY <2>1 DEF Owed
  <2>3. Owed(s)' = Owed(s)
    BY <1>1, <1>2, <1>3 DEF Owed, SameIn, SameWork, At
  <2>4. \A t \in Streams \ {s} : Owed(t)' = Owed(t)
    BY <1>1, <1>2, <1>3 DEF Owed
  <2>5. OwedUpTo'[MaxStreams] = OwedUpTo[MaxStreams]
    BY <2>2, <2>3, <2>4, HeldSame
  <2>6. QED
    BY <1>1, <1>2, <1>3, <2>5 DEF ConnCredit, InReader
<1>14. StreamCredit'
  BY <1>1, <1>2, <1>3, <1>0 DEF StreamCredit, InReader, SameIn, SameEnds, At, OpenedInv
<1>15. QED
  BY <1>4, <1>5, <1>6, <1>7, <1>8, <1>9, <1>10, <1>11, <1>12, <1>13, <1>14

\* A new stream starts with both windows at the peer's setting, and nobody knows of it yet.
LEMMA OpenStreamKeeps ==
    ASSUME IInv, faults' \in Nat, NEW s \in Streams, NEW p, At(s, "new"), OpenStream(s, p),
           p = (IF Body[s] = 0 THEN "shut" ELSE "write") \/ p = "left",
           UNCHANGED <<shutdown, closed, outLeft, inVars, reader, settingVars, closer, gone>>
    PROVE  IInv'
<1> USE DEF IInv
<1>0. /\ s \in Int /\ next \in Int /\ s = next /\ s \notin streams /\ s \notin settle.who
      /\ s \in 1..MaxStreams /\ MaxStreams \in Nat
      /\ Body[s] \in Nat /\ setting \in Int /\ Fresh(st[s])
      /\ reader.s \in Int /\ reader.s # s /\ Window \in Nat /\ gone = MaxStreams
      /\ (\A t \in Streams : t \in Int)
  <2>1. /\ s \in Int /\ next \in Int /\ s = next /\ Body[s] \in Nat /\ setting \in Int
        /\ s \in 1..MaxStreams /\ MaxStreams \in Nat
        /\ (\A t \in Streams : t \in Int) /\ Window \in Nat
    BY Http2Assumption DEF Streams, TypeOK, OpenStream
  <2>2. reader.s \in Int
    BY Http2Assumption DEF PartTypes, Reader
  <2>3. gone = MaxStreams
    BY <2>1 DEF OpenStream, TypeOK, CloserInv
  <2>4. settle.who \subseteq Streams
    BY DEF PartTypes, Reader
  <2>5. reader.s # s
    BY <2>1, <2>2 DEF OpenedInv
  <2>6. Fresh(st[s]) /\ s \notin streams /\ s \notin settle.who
    BY <2>1, <2>4 DEF OpenedInv
  <2>7. QED
    BY <2>1, <2>2, <2>3, <2>5, <2>6
<1> DEFINE y == [st[s] EXCEPT !.pc = p,
                               !.body = Body[s], !.outFinished = (Body[s] = 0),
                               !.win = setting, !.peerWin = setting]
<1>1. /\ y \in Stream /\ st' = [st EXCEPT ![s] = y]
      /\ y.pc = p /\ p \in {"shut", "write", "left"} /\ y.outFinished = (Body[s] = 0)
      /\ (p = "shut" => y.outFinished) /\ (p = "write" => ~y.outFinished)
      /\ y.win = setting /\ y.peerWin = setting
      /\ y.err = st[s].err /\ y.killer = st[s].killer /\ y.header = st[s].header
      /\ y.responded = st[s].responded /\ y.outClosed = st[s].outClosed
      /\ y.inFinished = st[s].inFinished /\ y.inClosed = st[s].inClosed /\ SameIn(y, st[s])
      /\ y.hand = st[s].hand /\ y.asleep = st[s].asleep /\ y.peer = st[s].peer
  <2>1. st[s] \in Stream
    BY DEF TypeOK
  <2>2. y \in Stream
    BY ZenonT(60), <1>0, <2>1, FieldsSet, Fields DEF SetFlags, SetNumbers, SetPoints, Pcs
  <2>3. st' = [st EXCEPT ![s] = y]
    BY <2>1 DEF OpenStream, TypeOK, Stream
  <2>4. /\ p \in {"shut", "write", "left"}
        /\ (p = "shut" => Body[s] = 0) /\ (p = "write" => Body[s] # 0)
    OBVIOUS
  <2>5. /\ y.pc = p /\ y.outFinished = (Body[s] = 0) /\ y.win = setting /\ y.peerWin = setting
        /\ y.err = st[s].err /\ y.killer = st[s].killer /\ y.header = st[s].header
        /\ y.responded = st[s].responded /\ y.outClosed = st[s].outClosed
        /\ y.inFinished = st[s].inFinished /\ y.inClosed = st[s].inClosed /\ SameIn(y, st[s])
        /\ y.hand = st[s].hand /\ y.asleep = st[s].asleep /\ y.peer = st[s].peer
    BY <2>1 DEF Stream, SameIn
  <2>6. QED
    BY <2>2, <2>3, <2>4, <2>5
<1> HIDE DEF y
<1>2. /\ s = next /\ next' = next + 1
      /\ streams' = streams \cup {s} /\ shutdown = FALSE
      /\ UNCHANGED <<shutdown, closed, outLeft, unacked, credit, reader, settle, setting,
                    closer, gone>>
  BY DEF OpenStream, inVars, settingVars
<1>3. /\ st' \in [Streams -> Stream] /\ st'[s] = y
      /\ \A t \in Streams \ {s} : st'[t] = st[t]
  BY <1>1 DEF TypeOK
<1>4. TypeOK'
  BY <1>1, <1>2, <1>3, <1>0 DEF TypeOK, OpenedInv, Fresh, PartTypes, Reader, CloserInv
<1>5. PartTypes'
  BY <1>1, <1>2, <1>3 DEF PartTypes, Reader, SameWork, At
<1>6. LocalInv'
  BY <1>1, <1>2, <1>3, <1>0 DEF LocalInv, Local, IsOpen, SameEnds, SameIn, At, OpenedInv, Fresh,
     PartTypes, Reader, CloserInv, TypeOK
<1>7. OpenedInv'
  BY <1>1, <1>2, <1>3, <1>0 DEF OpenedInv, Fresh, SameIn, SameEnds, At, PartTypes, Reader,
     CloserInv, TypeOK
<1>8. CloserInv'
  BY <1>1, <1>2, <1>3, <1>0 DEF CloserInv, SameEnds, OpenedInv, Fresh, PartTypes, Reader,
     TypeOK
<1>9. ReaderInv'
  BY <1>1, <1>2, <1>3, <1>0 DEF ReaderInv, IsOpen, SameEnds, At, OpenedInv, Fresh,
     PartTypes, Reader, CloserInv, TypeOK
<1>10. MapInv'
  BY <1>1, <1>2, <1>3, <1>0 DEF MapInv, Going, IsOpen, CloserInv, SameEnds, At, OpenedInv,
     Fresh, PartTypes, Reader, TypeOK
<1>11. WaitInv'
  BY <1>1, <1>2, <1>3, <1>0 DEF WaitInv, Going, SameEnds, SameIn, SameOut, At, OpenedInv,
     Fresh, PartTypes, Reader, CloserInv, TypeOK
<1>12. WindowsAgree'
  BY <1>1, <1>2, <1>3, <1>0 DEF WindowsAgree, SameOut, SameWork, At, OpenedInv, Fresh,
     PartTypes, Reader, CloserInv, TypeOK
<1>13. ConnCredit'
  <2>1. \A t \in Streams : st[t].buf \in Nat /\ st[t].hand \in Nat
    BY Fields DEF TypeOK
  <2>2. \A t \in Streams : Owed(t) \in Int
    BY <2>1 DEF Owed
  <2>3. Owed(s)' = Owed(s)
    BY <1>1, <1>2, <1>3 DEF Owed, SameIn, SameWork, At
  <2>4. \A t \in Streams \ {s} : Owed(t)' = Owed(t)
    BY <1>1, <1>2, <1>3 DEF Owed
  <2>5. OwedUpTo'[MaxStreams] = OwedUpTo[MaxStreams]
    BY <2>2, <2>3, <2>4, HeldSame
  <2>6. QED
    BY <1>1, <1>2, <1>3, <2>5 DEF ConnCredit, InReader
<1>14. StreamCredit'
  BY <1>1, <1>2, <1>3, <1>0 DEF StreamCredit, InReader, SameIn, SameEnds, At, OpenedInv,
     Fresh, PartTypes, Reader, CloserInv, TypeOK
<1>15. QED
  BY <1>4, <1>5, <1>6, <1>7, <1>8, <1>9, <1>10, <1>11, <1>12, <1>13, <1>14

\* newStream fails: the stream is there, and its call is not.
LEMMA HeadersFailKeeps ==
    ASSUME IInv, faults' \in Nat, NEW s \in Streams, HeadersFail(s)
    PROVE  IInv'
  BY OpenStreamKeeps DEF HeadersFail

\* newStream, whichever way it goes.
LEMMA NewStreamKeeps ==
    ASSUME IInv, faults' \in Nat, NEW s \in Streams, NewStream(s)
    PROVE  IInv'
<1>1. CASE shutdown = TRUE
  BY <1>1, NewStreamRefused
<1>2. CASE shutdown = FALSE
  BY <1>2, OpenStreamKeeps DEF NewStream
<1>3. QED
  BY <1>1, <1>2 DEF IInv, TypeOK

\* A record of the reader.
LEMMA ReaderRecord ==
    ASSUME NEW pc \in {"idle", "headers", "finish", "remove", "store", "discard", "reset",
                      "refuse", "refused"},
           NEW s \in 0..MaxStreams, NEW n \in Nat, NEW fin \in BOOLEAN
    PROVE  /\ [pc |-> pc, s |-> s, n |-> n, fin |-> fin, who |-> {}] \in Reader
           /\ \A who \in SUBSET Streams :
                [pc |-> pc, s |-> s, n |-> n, fin |-> fin, who |-> who] \in Reader
  BY DEF Reader

-----------------------------------------------------------------------------
(* The reader thread. *)

\* The response's headers wake the call; a stream that is finished with them is taken out.
LEMMA ReceiveFirst ==
    ASSUME IInv, faults' \in Nat, NEW s \in Streams, ReceiveHeaders, reader.s = s,
           reader.pc = "headers"
    PROVE  IInv'
<1> USE DEF IInv
<1> DEFINE b == st[s].inFinished \/ reader.fin
           x == [st[s] EXCEPT !.header = TRUE, !.responded = TRUE, !.inFinished = b]
<1>b. b \in BOOLEAN /\ (st[s].inFinished => b)
  OBVIOUS
<1>c. /\ st' = [st EXCEPT ![s] = Woken(x)]
      /\ IF IsOpen(x) THEN reader' = Idle ELSE Reads("remove", s, 0, FALSE)
  BY DEF ReceiveHeaders
<1> HIDE DEF b
<1>0. 0 \in 0..MaxStreams /\ s \in 0..MaxStreams
      /\ (s \in streams => s <= gone)
      /\ s < next /\ 0 < next
  <2>1. s \in 0..MaxStreams /\ MaxStreams \in Nat
    BY Http2Assumption DEF Streams
  <2>2. next \in Int /\ gone \in Int /\ 0 < next
    BY <2>1 DEF TypeOK
  <2>3. QED
    BY <2>1, <2>2 DEF OpenedInv, ReaderInv
<1> DEFINE y == Woken(x)
<1>1. /\ y \in Stream /\ st' = [st EXCEPT ![s] = y]
      /\ y.asleep = IF st[s].asleep = "stream" THEN "no" ELSE st[s].asleep
      /\ y.inFinished \in BOOLEAN /\ (st[s].inFinished => y.inFinished)
      /\ y.header /\ y.responded
      /\ y.err = st[s].err /\ y.killer = st[s].killer /\ y.outFinished = st[s].outFinished
      /\ y.outClosed = st[s].outClosed /\ y.inClosed = st[s].inClosed /\ SameIn(y, st[s])
      /\ SameOut(y, st[s]) /\ SameWork(y, st[s]) /\ y.pc = st[s].pc /\ y.peer = st[s].peer
  <2>1. st[s] \in Stream
    BY DEF TypeOK
  <2>2. y \in Stream
    <3>1. x \in Stream
      BY <1>b, <2>1, FieldsSet DEF SetFlags
    <3>2. QED
      BY <3>1, Fields, FieldsSet DEF SetPoints, Woken
  <2>3. st' = [st EXCEPT ![s] = y]
    BY <1>c
  <2>4. QED
    BY <1>b, <2>1, <2>2, <2>3 DEF Stream, SameEnds, SameIn, SameOut, SameWork, Woken
<1>d. IsOpen(y) <=> IsOpen(x)
  <2>1. x \in Stream
    BY <1>b, FieldsSet DEF TypeOK, SetFlags
  <2>2. QED
    BY <2>1 DEF Woken, IsOpen, Stream
<1> HIDE DEF y, x
<1>2. /\ reader.pc = "headers" /\ reader.s = s /\ s \in 0..MaxStreams
      /\ (s \in streams => s <= gone)
      /\ s < next /\ 0 < next
      /\ \/ IsOpen(y) /\ reader' = [pc |-> "idle", s |-> 0, n |-> 0, fin |-> FALSE, who |-> {}]
         \/ ~IsOpen(y) /\ reader' = [pc |-> "remove", s |-> s, n |-> 0, fin |-> FALSE, who |-> {}]
      /\ UNCHANGED <<streams, next, shutdown, closed, outLeft, unacked, credit, settle,
                    setting, closer, gone>>
  BY <1>0, <1>c, <1>d DEF ReceiveHeaders, Reads, Idle, inVars, settingVars
<1>3. /\ st' \in [Streams -> Stream] /\ st'[s] = y
      /\ \A t \in Streams \ {s} : st'[t] = st[t]
  BY <1>1 DEF TypeOK
<1>4. TypeOK'
  BY <1>1, <1>2, <1>3 DEF TypeOK
<1>5. PartTypes'
  <2>1. reader' \in Reader
    BY <1>0, <1>2, ReaderRecord
  <2>2. QED
    BY <1>1, <1>2, <1>3, <2>1 DEF PartTypes, SameWork
<1>6. LocalInv'
  <2>1. Local(st[s]) /\ (reader.pc = "finish" => st[s].responded)
    BY <1>2 DEF LocalInv, ReaderInv
  <2>2. Local(y)
    BY <1>1, <1>2, <1>3, <2>1 DEF Local, IsOpen, SameEnds, SameIn
  <2>3. QED
    BY <1>3, <2>2 DEF LocalInv
<1>7. OpenedInv'
  BY <1>1, <1>2, <1>3 DEF OpenedInv, Fresh, SameIn, SameEnds, At
<1>8. CloserInv'
  BY <1>1, <1>2, <1>3 DEF CloserInv, SameEnds
<1>9. ReaderInv'
  BY <1>1, <1>2, <1>3 DEF ReaderInv, IsOpen, SameEnds, At, OpenedInv
<1>10. MapInv'
  BY <1>1, <1>2, <1>3 DEF MapInv, Going, IsOpen, CloserInv, SameEnds, At, LocalInv, Local
<1>11. WaitInv'
  <2>1. \A t \in Streams :
          /\ st'[t].asleep = "stream" => st'[t] = st[t]
          /\ st'[t].asleep = "connection" => st[t].asleep = "connection"
          /\ st'[t].pc = st[t].pc /\ st'[t].err = st[t].err
    BY <1>1, <1>3 DEF SameWork
  <2>2. \A t \in Streams : Going(t) => Going(t)'
    BY <1>1, <1>2, <1>3 DEF Going
  <2>3. UNCHANGED <<streams, outLeft, closer>>
    BY <1>2
  <2>4. QED
    BY <2>1, <2>2, <2>3 DEF WaitInv
<1>12. WindowsAgree'
  BY <1>1, <1>2, <1>3 DEF WindowsAgree, SameOut, SameWork, At
<1>13. ConnCredit'
  <2>1. \A t \in Streams : st[t].buf \in Nat /\ st[t].hand \in Nat
    BY Fields DEF TypeOK
  <2>2. \A t \in Streams : Owed(t) \in Int
    BY <2>1 DEF Owed
  <2>3. Owed(s)' = Owed(s)
    BY <1>1, <1>2, <1>3 DEF Owed, SameIn, SameWork, At
  <2>4. \A t \in Streams \ {s} : Owed(t)' = Owed(t)
    BY <1>1, <1>2, <1>3 DEF Owed
  <2>5. OwedUpTo'[MaxStreams] = OwedUpTo[MaxStreams]
    BY <2>2, <2>3, <2>4, HeldSame
  <2>6. QED
    BY <1>1, <1>2, <1>3, <2>5 DEF ConnCredit, InReader
<1>14. StreamCredit'
  BY <1>1, <1>2, <1>3 DEF StreamCredit, InReader, SameIn, SameEnds, At
<1>15. QED
  BY <1>4, <1>5, <1>6, <1>7, <1>8, <1>9, <1>10, <1>11, <1>12, <1>13, <1>14

\* The end of the data wakes the call; a stream that is finished with it is taken out.
LEMMA ReceiveFinish ==
    ASSUME IInv, faults' \in Nat, NEW s \in Streams, ReceiveHeaders, reader.s = s,
           reader.pc = "finish"
    PROVE  IInv'
<1> USE DEF IInv
<1> DEFINE b == st[s].inFinished \/ reader.fin
           x == [st[s] EXCEPT !.inFinished = b]
<1>b. b \in BOOLEAN /\ (st[s].inFinished => b)
  OBVIOUS
<1>c. /\ st' = [st EXCEPT ![s] = Woken(x)]
      /\ IF IsOpen(x) THEN reader' = Idle ELSE Reads("remove", s, 0, FALSE)
  BY DEF ReceiveHeaders
<1> HIDE DEF b
<1>0. 0 \in 0..MaxStreams /\ s \in 0..MaxStreams
      /\ (s \in streams => s <= gone)
      /\ s < next /\ 0 < next
  <2>1. s \in 0..MaxStreams /\ MaxStreams \in Nat
    BY Http2Assumption DEF Streams
  <2>2. next \in Int /\ gone \in Int /\ 0 < next
    BY <2>1 DEF TypeOK
  <2>3. QED
    BY <2>1, <2>2 DEF OpenedInv, ReaderInv
<1> DEFINE y == Woken(x)
<1>1. /\ y \in Stream /\ st' = [st EXCEPT ![s] = y]
      /\ y.asleep = IF st[s].asleep = "stream" THEN "no" ELSE st[s].asleep
      /\ y.inFinished \in BOOLEAN /\ (st[s].inFinished => y.inFinished)
      /\ y.err = st[s].err /\ y.killer = st[s].killer /\ y.header = st[s].header
      /\ y.responded = st[s].responded /\ y.outFinished = st[s].outFinished
      /\ y.outClosed = st[s].outClosed /\ y.inClosed = st[s].inClosed /\ SameIn(y, st[s])
      /\ SameOut(y, st[s]) /\ SameWork(y, st[s]) /\ y.pc = st[s].pc /\ y.peer = st[s].peer
  <2>1. st[s] \in Stream
    BY DEF TypeOK
  <2>2. y \in Stream
    <3>1. x \in Stream
      BY <1>b, <2>1, FieldsSet DEF SetFlags
    <3>2. QED
      BY <3>1, Fields, FieldsSet DEF SetPoints, Woken
  <2>3. st' = [st EXCEPT ![s] = y]
    BY <1>c
  <2>4. QED
    BY <1>b, <2>1, <2>2, <2>3 DEF Stream, SameEnds, SameIn, SameOut, SameWork, Woken
<1>d. IsOpen(y) <=> IsOpen(x)
  <2>1. x \in Stream
    BY <1>b, FieldsSet DEF TypeOK, SetFlags
  <2>2. QED
    BY <2>1 DEF Woken, IsOpen, Stream
<1> HIDE DEF y, x
<1>2. /\ reader.pc = "finish" /\ reader.s = s /\ s \in 0..MaxStreams
      /\ (s \in streams => s <= gone)
      /\ s < next /\ 0 < next
      /\ \/ IsOpen(y) /\ reader' = [pc |-> "idle", s |-> 0, n |-> 0, fin |-> FALSE, who |-> {}]
         \/ ~IsOpen(y) /\ reader' = [pc |-> "remove", s |-> s, n |-> 0, fin |-> FALSE, who |-> {}]
      /\ UNCHANGED <<streams, next, shutdown, closed, outLeft, unacked, credit, settle,
                    setting, closer, gone>>
  BY <1>0, <1>c, <1>d DEF ReceiveHeaders, Reads, Idle, inVars, settingVars
<1>3. /\ st' \in [Streams -> Stream] /\ st'[s] = y
      /\ \A t \in Streams \ {s} : st'[t] = st[t]
  BY <1>1 DEF TypeOK
<1>4. TypeOK'
  BY <1>1, <1>2, <1>3 DEF TypeOK
<1>5. PartTypes'
  <2>1. reader' \in Reader
    BY <1>0, <1>2, ReaderRecord
  <2>2. QED
    BY <1>1, <1>2, <1>3, <2>1 DEF PartTypes, SameWork
<1>6. LocalInv'
  <2>1. Local(st[s]) /\ (reader.pc = "finish" => st[s].responded)
    BY <1>2 DEF LocalInv, ReaderInv
  <2>2. Local(y)
    BY <1>1, <1>2, <1>3, <2>1 DEF Local, IsOpen, SameEnds, SameIn
  <2>3. QED
    BY <1>3, <2>2 DEF LocalInv
<1>7. OpenedInv'
  BY <1>1, <1>2, <1>3 DEF OpenedInv, Fresh, SameIn, SameEnds, At
<1>8. CloserInv'
  BY <1>1, <1>2, <1>3 DEF CloserInv, SameEnds
<1>9. ReaderInv'
  BY <1>1, <1>2, <1>3 DEF ReaderInv, IsOpen, SameEnds, At, OpenedInv
<1>10. MapInv'
  BY <1>1, <1>2, <1>3 DEF MapInv, Going, IsOpen, CloserInv, SameEnds, At, LocalInv, Local
<1>11. WaitInv'
  BY <1>1, <1>2, <1>3 DEF WaitInv, Going, SameEnds, SameIn, SameOut, At
<1>12. WindowsAgree'
  BY <1>1, <1>2, <1>3 DEF WindowsAgree, SameOut, SameWork, At
<1>13. ConnCredit'
  <2>1. \A t \in Streams : st[t].buf \in Nat /\ st[t].hand \in Nat
    BY Fields DEF TypeOK
  <2>2. \A t \in Streams : Owed(t) \in Int
    BY <2>1 DEF Owed
  <2>3. Owed(s)' = Owed(s)
    BY <1>1, <1>2, <1>3 DEF Owed, SameIn, SameWork, At
  <2>4. \A t \in Streams \ {s} : Owed(t)' = Owed(t)
    BY <1>1, <1>2, <1>3 DEF Owed
  <2>5. OwedUpTo'[MaxStreams] = OwedUpTo[MaxStreams]
    BY <2>2, <2>3, <2>4, HeldSame
  <2>6. QED
    BY <1>1, <1>2, <1>3, <2>5 DEF ConnCredit, InReader
<1>14. StreamCredit'
  BY <1>1, <1>2, <1>3 DEF StreamCredit, InReader, SameIn, SameEnds, At
<1>15. QED
  BY <1>4, <1>5, <1>6, <1>7, <1>8, <1>9, <1>10, <1>11, <1>12, <1>13, <1>14

\* receiveHeaders, for the headers and for the end of the data.
LEMMA ReceiveHeadersKeeps ==
    ASSUME IInv, faults' \in Nat, ReceiveHeaders
    PROVE  IInv'
  BY ReceiveFirst, ReceiveFinish DEF IInv, PartTypes, ReceiveHeaders

\* A stream that was reset is out of the map, and is failed now.
LEMMA ResetStream ==
    ASSUME IInv, faults' \in Nat, NEW s \in Streams, Reset, reader.s = s
    PROVE  IInv'
<1> USE DEF IInv
<1>0. 0 \in 0..MaxStreams /\ s \in 0..MaxStreams /\ next \in Int /\ 0 < next
      /\ reader.n \in Nat /\ reader.fin \in BOOLEAN /\ reader.s < next /\ gone \in Int
  <2>1. MaxStreams \in Nat /\ s \in 0..MaxStreams
    BY Http2Assumption DEF Streams
  <2>2. QED
    BY <2>1 DEF TypeOK, PartTypes, Reader, OpenedInv
<1> DEFINE y == IF st[s].err THEN st[s] ELSE Failed(st[s])
<1>1. /\ y \in Stream /\ st' = [st EXCEPT ![s] = y]
      /\ y.err
      /\ \/ st[s].err /\ y.asleep = st[s].asleep
         \/ y.asleep = IF st[s].asleep = "stream" THEN "no" ELSE st[s].asleep
      /\ y.killer = st[s].killer /\ y.header = st[s].header /\ y.responded = st[s].responded
      /\ y.outFinished = st[s].outFinished /\ y.outClosed = st[s].outClosed
      /\ y.inFinished = st[s].inFinished /\ y.inClosed = st[s].inClosed /\ SameIn(y, st[s])
      /\ SameOut(y, st[s]) /\ SameWork(y, st[s]) /\ y.pc = st[s].pc /\ y.peer = st[s].peer
  <2>1. st[s] \in Stream
    BY DEF TypeOK
  <2>2. y \in Stream
    <3>1. Failed(st[s]) \in Stream
      BY ZenonT(60), <2>1 DEF Stream, Failed, Woken
    <3>2. QED
      BY <2>1, <3>1
  <2>3. st' = [st EXCEPT ![s] = y]
    BY DEF Reset
  <2>4. QED
    BY <2>1, <2>2, <2>3 DEF Stream, SameEnds, SameIn, SameOut, SameWork, Failed, Woken
<1> HIDE DEF y
<1>2. /\ reader.pc = "reset" /\ reader.s = s /\ s < next /\ s \notin streams
      /\ reader' = [pc |-> "idle", s |-> 0, n |-> 0, fin |-> FALSE, who |-> {}]
      /\ UNCHANGED <<streams, next, shutdown, closed, outLeft, unacked, credit, settle,
                    setting, closer, gone>>
  BY <1>0 DEF Reset, Idle, ReaderInv, inVars, settingVars
<1>3. /\ st' \in [Streams -> Stream] /\ st'[s] = y
      /\ \A t \in Streams \ {s} : st'[t] = st[t]
  BY <1>1 DEF TypeOK
<1>4. TypeOK'
  BY <1>1, <1>2, <1>3 DEF TypeOK
<1>5. PartTypes'
  <2>1. reader' \in Reader
    BY <1>0, <1>2, ReaderRecord DEF PartTypes, Reader
  <2>2. QED
    BY <1>1, <1>2, <1>3, <2>1 DEF PartTypes, SameWork
<1>6. LocalInv'
  BY <1>1, <1>2, <1>3 DEF LocalInv, Local, IsOpen, SameEnds, SameIn, At
<1>7. OpenedInv'
  BY <1>1, <1>2, <1>3, <1>0 DEF OpenedInv
<1>8. CloserInv'
  BY <1>1, <1>2, <1>3 DEF CloserInv, SameEnds
<1>9. ReaderInv'
  BY <1>1, <1>2, <1>3 DEF ReaderInv, IsOpen, SameEnds, At
<1>10. MapInv'
  BY <1>1, <1>2, <1>3 DEF MapInv, Going, IsOpen, CloserInv, SameEnds, At, ReaderInv
<1>11. WaitInv'
  BY <1>1, <1>2, <1>3 DEF WaitInv, Going, SameEnds, SameIn, SameOut, At, ReaderInv
<1>12. WindowsAgree'
  BY <1>1, <1>2, <1>3 DEF WindowsAgree, SameOut, SameWork, At
<1>13. ConnCredit'
  <2>1. \A t \in Streams : st[t].buf \in Nat /\ st[t].hand \in Nat
    BY Fields DEF TypeOK
  <2>2. \A t \in Streams : Owed(t) \in Int
    BY <2>1 DEF Owed
  <2>3. Owed(s)' = Owed(s)
    BY <1>1, <1>2, <1>3 DEF Owed, SameIn, SameWork, At
  <2>4. \A t \in Streams \ {s} : Owed(t)' = Owed(t)
    BY <1>1, <1>2, <1>3 DEF Owed
  <2>5. OwedUpTo'[MaxStreams] = OwedUpTo[MaxStreams]
    BY <2>2, <2>3, <2>4, HeldSame
  <2>6. QED
    BY <1>1, <1>2, <1>3, <2>5 DEF ConnCredit, InReader
<1>14. StreamCredit'
  BY <1>1, <1>2, <1>3 DEF StreamCredit, InReader, SameIn, SameEnds, At
<1>15. QED
  BY <1>4, <1>5, <1>6, <1>7, <1>8, <1>9, <1>10, <1>11, <1>12, <1>13, <1>14

\* A stream that GOAWAY refuses is failed, and the reader will take it out of the map.
LEMMA RefuseStream ==
    ASSUME IInv, faults' \in Nat, NEW s \in Streams, Refuse, s = Min(reader.who), s \in reader.who
    PROVE  IInv'
<1> USE DEF IInv
<1>0. 0 \in 0..MaxStreams /\ s \in 0..MaxStreams /\ next \in Int /\ 0 < next
      /\ reader.n \in Nat /\ reader.fin \in BOOLEAN /\ reader.s < next /\ gone \in Int
  <2>1. MaxStreams \in Nat /\ s \in 0..MaxStreams
    BY SMTT(30), Http2Assumption DEF Streams
  <2>2. QED
    BY <2>1 DEF TypeOK, PartTypes, Reader, OpenedInv
<1> DEFINE y == IF st[s].err THEN st[s] ELSE Failed(st[s])
<1>1. /\ y \in Stream /\ st' = [st EXCEPT ![s] = y]
      /\ y.err
      /\ \/ st[s].err /\ y.asleep = st[s].asleep
         \/ y.asleep = IF st[s].asleep = "stream" THEN "no" ELSE st[s].asleep
      /\ y.killer = st[s].killer /\ y.header = st[s].header /\ y.responded = st[s].responded
      /\ y.outFinished = st[s].outFinished /\ y.outClosed = st[s].outClosed
      /\ y.inFinished = st[s].inFinished /\ y.inClosed = st[s].inClosed /\ SameIn(y, st[s])
      /\ SameOut(y, st[s]) /\ SameWork(y, st[s]) /\ y.pc = st[s].pc /\ y.peer = st[s].peer
  <2>1. st[s] \in Stream
    BY DEF TypeOK
  <2>2. y \in Stream
    <3>1. Failed(st[s]) \in Stream
      BY ZenonT(60), <2>1 DEF Stream, Failed, Woken
    <3>2. QED
      BY <2>1, <3>1
  <2>3. st' = [st EXCEPT ![s] = y]
    BY DEF Refuse
  <2>4. QED
    BY <2>1, <2>2, <2>3 DEF Stream, SameEnds, SameIn, SameOut, SameWork, Failed, Woken
<1> HIDE DEF y
<1>2. /\ reader.pc = "refuse" /\ s \in reader.who /\ s < next
      /\ reader' = [pc |-> "refused", s |-> s, n |-> reader.n, fin |-> reader.fin,
                   who |-> reader.who \ {s}]
      /\ UNCHANGED <<streams, next, shutdown, closed, outLeft, unacked, credit, settle,
                    setting, closer, gone>>
  BY ZenonT(60) DEF Refuse, PartTypes, Reader, OpenedInv, inVars, settingVars
<1>3. /\ st' \in [Streams -> Stream] /\ st'[s] = y
      /\ \A t \in Streams \ {s} : st'[t] = st[t]
  BY <1>1 DEF TypeOK
<1>4. TypeOK'
  BY <1>1, <1>2, <1>3 DEF TypeOK
<1>5. PartTypes'
  <2>1. reader' \in Reader
    BY <1>0, <1>2, ReaderRecord DEF PartTypes, Reader
  <2>2. QED
    BY <1>1, <1>2, <1>3, <2>1 DEF PartTypes, SameWork
<1>6. LocalInv'
  BY <1>1, <1>2, <1>3 DEF LocalInv, Local, IsOpen, SameEnds, SameIn, At
<1>7. OpenedInv'
  BY <1>1, <1>2, <1>3, <1>0 DEF OpenedInv
<1>8. CloserInv'
  BY <1>1, <1>2, <1>3 DEF CloserInv, SameEnds
<1>9. ReaderInv'
  BY <1>1, <1>2, <1>3 DEF ReaderInv, IsOpen, SameEnds, At
<1>10. MapInv'
  BY <1>1, <1>2, <1>3 DEF MapInv, Going, IsOpen, CloserInv, SameEnds, At
<1>11. WaitInv'
  BY <1>1, <1>2, <1>3 DEF WaitInv, Going, SameEnds, SameIn, SameOut, At
<1>12. WindowsAgree'
  BY <1>1, <1>2, <1>3 DEF WindowsAgree, SameOut, SameWork, At
<1>13. ConnCredit'
  <2>1. \A t \in Streams : st[t].buf \in Nat /\ st[t].hand \in Nat
    BY Fields DEF TypeOK
  <2>2. \A t \in Streams : Owed(t) \in Int
    BY <2>1 DEF Owed
  <2>3. Owed(s)' = Owed(s)
    BY <1>1, <1>2, <1>3 DEF Owed, SameIn, SameWork, At
  <2>4. \A t \in Streams \ {s} : Owed(t)' = Owed(t)
    BY <1>1, <1>2, <1>3 DEF Owed
  <2>5. OwedUpTo'[MaxStreams] = OwedUpTo[MaxStreams]
    BY <2>2, <2>3, <2>4, HeldSame
  <2>6. QED
    BY <1>1, <1>2, <1>3, <2>5 DEF ConnCredit, InReader
<1>14. StreamCredit'
  BY <1>1, <1>2, <1>3 DEF StreamCredit, InReader, SameIn, SameEnds, At
<1>15. QED
  BY <1>4, <1>5, <1>6, <1>7, <1>8, <1>9, <1>10, <1>11, <1>12, <1>13, <1>14

\* Data moves from the reader's hand to the buffer and wakes a reader that found it empty.
LEMMA StoreKept ==
    ASSUME IInv, faults' \in Nat, NEW s \in Streams, Store, s = reader.s, st[s].inClosed = FALSE
    PROVE  IInv'
<1> USE DEF IInv
<1>0. 0 \in 0..MaxStreams /\ s \in 0..MaxStreams /\ next \in Int /\ 0 < next
      /\ reader.n \in Nat /\ reader.fin \in BOOLEAN /\ reader.s < next /\ gone \in Int
  <2>1. MaxStreams \in Nat /\ s \in 0..MaxStreams
    BY Http2Assumption DEF Streams
  <2>2. QED
    BY <2>1 DEF TypeOK, PartTypes, Reader, OpenedInv
<1> DEFINE x == [st[s] EXCEPT !.buf = @ + reader.n]
<1> DEFINE y == IF st[s].buf = 0 THEN Woken(x) ELSE x
<1>1. /\ y \in Stream /\ st' = [st EXCEPT ![s] = y]
      /\ y.buf = st[s].buf + reader.n
      /\ \/ st[s].buf # 0 /\ y.asleep = st[s].asleep
         \/ y.asleep = IF st[s].asleep = "stream" THEN "no" ELSE st[s].asleep
      /\ SameEnds(y, st[s]) /\ y.unacked = st[s].unacked /\ y.credit = st[s].credit
      /\ SameOut(y, st[s]) /\ SameWork(y, st[s]) /\ y.pc = st[s].pc /\ y.peer = st[s].peer
  <2>1. st[s] \in Stream
    BY DEF TypeOK
  <2>2. y \in Stream
    <3>1. x \in Stream
      <4>1. st[s].buf + reader.n \in Nat
        BY <1>0, <2>1, Fields
      <4>2. QED
        BY <2>1, <4>1, FieldsSet DEF SetNumbers
    <3>2. QED
      BY <3>1, Fields, FieldsSet DEF SetPoints, Woken
  <2>3. st' = [st EXCEPT ![s] = y]
    BY DEF Store
  <2>4. QED
    BY <2>1, <2>2, <2>3 DEF Stream, SameEnds, SameIn, SameOut, SameWork, Woken
<1> HIDE DEF y, x
<1>2. /\ reader.pc = "store" /\ reader.s = s /\ reader.n \in Nat /\ st[s].inClosed = FALSE
      /\ \/ reader' = [pc |-> "finish", s |-> s, n |-> 0, fin |-> TRUE, who |-> {}]
         \/ reader' = [pc |-> "idle", s |-> 0, n |-> 0, fin |-> FALSE, who |-> {}]
      /\ UNCHANGED <<streams, next, shutdown, closed, outLeft, unacked, credit, settle,
                    setting, closer, gone>>
  BY <1>0 DEF Store, AfterData, Reads, Idle, inVars, settingVars
<1>3. /\ st' \in [Streams -> Stream] /\ st'[s] = y
      /\ \A t \in Streams \ {s} : st'[t] = st[t]
  BY <1>1 DEF TypeOK
<1>4. TypeOK'
  BY <1>1, <1>2, <1>3 DEF TypeOK
<1>5. PartTypes'
  <2>1. reader' \in Reader
    BY ZenonT(60), <1>0, <1>2, ReaderRecord
  <2>2. QED
    BY <1>1, <1>2, <1>3, <2>1 DEF PartTypes, SameWork
<1>6. LocalInv'
  BY <1>1, <1>2, <1>3 DEF LocalInv, Local, IsOpen, SameEnds, SameIn, At
<1>7. OpenedInv'
  BY <1>1, <1>2, <1>3, <1>0 DEF OpenedInv
<1>8. CloserInv'
  BY <1>1, <1>2, <1>3 DEF CloserInv, SameEnds
<1>9. ReaderInv'
  BY <1>1, <1>2, <1>3 DEF ReaderInv, IsOpen, SameEnds, At
<1>10. MapInv'
  BY <1>1, <1>2, <1>3 DEF MapInv, Going, IsOpen, CloserInv, SameEnds, At
<1>11. WaitInv'
  <2>1. st[s].buf \in Nat
    BY Fields DEF TypeOK
  <2>2. QED
    BY <1>1, <1>2, <1>3, <2>1 DEF WaitInv, Going, SameEnds, SameOut
<1>12. WindowsAgree'
  BY <1>1, <1>2, <1>3 DEF WindowsAgree, SameOut, SameWork, At
<1>13. ConnCredit'
  <2>1. \A t \in Streams : /\ st[t].buf \in Nat /\ st[t].hand \in Nat
                           /\ st'[t].buf \in Nat /\ st'[t].hand \in Nat
    BY <1>3, Fields DEF TypeOK
  <2>2. \A t \in Streams : Owed(t) \in Int /\ Owed(t)' \in Int
    BY <2>1 DEF Owed
  <2>3. \A t \in Streams : t # s => Owed(t)' = Owed(t)
    BY <1>1, <1>2, <1>3 DEF Owed
  <2>4. Owed(s)' = Owed(s) + reader.n
    BY <1>1, <1>2, <1>3, <2>1 DEF Owed, SameWork
  <2>5. /\ OwedUpTo[MaxStreams] \in Int
        /\ OwedUpTo'[MaxStreams] = OwedUpTo[MaxStreams] + Owed(s)' - Owed(s)
    BY <2>2, <2>3, HeldChange
  <2>6. InReader = reader.n /\ InReader' = 0
    BY <1>1, <1>2, <1>3 DEF InReader
  <2>7. unacked \in Int /\ credit \in Int
    BY DEF TypeOK
  <2>8. QED
    BY <1>1, <1>2, <1>3, <2>2, <2>4, <2>5, <2>6, <2>7 DEF ConnCredit
<1>14. StreamCredit'
  <2>1. /\ st[s].buf \in Int /\ st[s].credit \in Int /\ st[s].unacked \in Int
        /\ Window \in Int
    BY Fields, Http2Assumption DEF TypeOK
  <2>2. \A t \in streams : ~st[t].err /\ ~st[t].inClosed =>
            st[t].credit + st[t].unacked + st[t].buf + (IF t = s THEN reader.n ELSE 0) = Window
    BY <1>2 DEF StreamCredit, InReader
  <2>3. InReader' = 0
    BY <1>2 DEF InReader
  <2>4. ASSUME NEW t \in streams', ~st'[t].err, ~st'[t].inClosed
        PROVE  st'[t].credit + st'[t].unacked + st'[t].buf = Window
    <3>1. CASE t = s
      BY <1>1, <1>2, <1>3, <2>1, <2>2, <2>4, <3>1 DEF SameEnds
    <3>2. CASE t # s
      <4>1. st'[t] = st[t] /\ t \in streams
        BY <1>1, <1>2, <1>3, <3>2 DEF TypeOK
      <4>2. st[t].credit + st[t].unacked + st[t].buf + 0 = Window
        BY <2>2, <2>4, <3>2, <4>1
      <4>3. st[t].credit \in Int /\ st[t].unacked \in Int /\ st[t].buf \in Int
        BY <4>1, Fields DEF TypeOK
      <4>4. QED
        BY <4>1, <4>2, <4>3
    <3>3. QED
      BY <3>1, <3>2
  <2>5. \A t \in streams' : st'[t].credit \in Int /\ st'[t].unacked \in Int /\ st'[t].buf \in Int
    BY <1>1, <1>2, <1>3, Fields DEF TypeOK
  <2>6. QED
    BY <2>3, <2>4, <2>5 DEF StreamCredit
<1>15. QED
  BY <1>4, <1>5, <1>6, <1>7, <1>8, <1>9, <1>10, <1>11, <1>12, <1>13, <1>14

\* Data for a closed source stays in the reader's hand.
LEMMA StoreClosed ==
    ASSUME IInv, faults' \in Nat, Store, st[reader.s].inClosed = TRUE
    PROVE  IInv'
<1> USE DEF IInv
<1>0. 0 \in 0..MaxStreams /\ next \in Int /\ 0 < next
      /\ reader.n \in Nat /\ reader.fin \in BOOLEAN /\ reader.s < next /\ gone \in Int
  <2>1. MaxStreams \in Nat
    BY Http2Assumption
  <2>2. QED
    BY <2>1 DEF TypeOK, PartTypes, Reader, OpenedInv
<1>1. /\ reader.pc = "store" /\ st[reader.s].inClosed = TRUE
      /\ reader' = [pc |-> "discard", s |-> reader.s, n |-> reader.n, fin |-> reader.fin,
                    who |-> {}]
      /\ UNCHANGED <<st, streams, next, shutdown, closed, outLeft, unacked, credit,
                    settle, setting, closer, gone>>
  BY  DEF Store, Reads, inVars, settingVars
<1>2. TypeOK'
  BY <1>1 DEF TypeOK
<1>3. PartTypes'
  <2>1. reader' \in Reader
    BY <1>0, <1>1 DEF PartTypes, Reader
  <2>2. QED
    BY <1>1, <2>1 DEF PartTypes
<1>4. LocalInv'
  BY <1>1 DEF LocalInv, Local, IsOpen, SameEnds, SameIn, At
<1>5. OpenedInv'
  BY <1>1, <1>0 DEF OpenedInv
<1>6. CloserInv'
  BY <1>1 DEF CloserInv, SameEnds
<1>7. ReaderInv'
  BY <1>1 DEF ReaderInv, IsOpen, SameEnds, At
<1>8. MapInv'
  BY <1>1 DEF MapInv, Going, IsOpen, CloserInv, SameEnds, At
<1>9. WaitInv'
  BY <1>1 DEF WaitInv, Going, SameEnds, SameIn, SameOut, At
<1>10. WindowsAgree'
  BY <1>1 DEF WindowsAgree, SameOut, SameWork, At
<1>11. ConnCredit'
  <2>1. \A t \in Streams : st[t].buf \in Nat /\ st[t].hand \in Nat
    BY Fields DEF TypeOK
  <2>2. \A t \in Streams : Owed(t) \in Int /\ Owed(t)' = Owed(t)
    BY <1>1, <2>1 DEF Owed
  <2>3. OwedUpTo'[MaxStreams] = OwedUpTo[MaxStreams]
    BY <2>2, HeldSame
  <2>4. QED
    BY <1>1, <2>3 DEF ConnCredit, InReader
<1>12. StreamCredit'
  BY <1>1 DEF StreamCredit, InReader, SameIn, SameEnds, At
<1>13. QED
  BY <1>2, <1>3, <1>4, <1>5, <1>6, <1>7, <1>8, <1>9, <1>10, <1>11, <1>12

\* FramingSource.receive, whichever way it goes.
LEMMA StoreKeeps ==
    ASSUME IInv, faults' \in Nat, Store
    PROVE  IInv'
<1>1. reader.s \in Streams /\ st[reader.s].inClosed \in BOOLEAN
  <2>1. reader.s \in Streams
    BY DEF IInv, PartTypes, Store
  <2>2. QED
    BY <2>1, Fields DEF IInv, TypeOK
<1>2. QED
  BY <1>1, StoreKept, StoreClosed

\* Data for a closed source is given back to the connection's window.
LEMMA DiscardKeeps ==
    ASSUME IInv, faults' \in Nat, Discard
    PROVE  IInv'
<1> USE DEF IInv
<1>0. 0 \in 0..MaxStreams /\ next \in Int /\ 0 < next
      /\ reader.n \in Nat /\ reader.fin \in BOOLEAN /\ reader.s < next /\ gone \in Int
  <2>1. MaxStreams \in Nat
    BY Http2Assumption
  <2>2. QED
    BY <2>1 DEF TypeOK, PartTypes, Reader, OpenedInv
<1>a. /\ credit' \in Nat /\ unacked' \in Nat
      /\ credit' + unacked' = credit + unacked + reader.n
  BY <1>0, GivenBack DEF TypeOK, Discard
<1>1. /\ reader.pc = "discard" /\ credit' \in Nat /\ unacked' \in Nat
      /\ credit' + unacked' = credit + unacked + reader.n
      /\ \/ reader' = [pc |-> "finish", s |-> reader.s, n |-> 0, fin |-> TRUE,
                    who |-> {}]
         \/ reader' = [pc |-> "idle", s |-> 0, n |-> 0, fin |-> FALSE,
                    who |-> {}]
      /\ UNCHANGED <<st, streams, next, shutdown, closed, outLeft, settle, setting,
                    closer, gone>>
  BY <1>a DEF Discard, AfterData, Reads, Idle, inVars, settingVars
<1>2. TypeOK'
  BY <1>1 DEF TypeOK
<1>3. PartTypes'
  <2>1. reader.s \in 0..MaxStreams
    BY DEF PartTypes, Reader
  <2>2. reader' \in Reader
    BY ZenonT(60), <1>0, <1>1, <2>1, ReaderRecord
  <2>3. QED
    BY <1>1, <2>2 DEF PartTypes
<1>4. LocalInv'
  BY <1>1 DEF LocalInv, Local, IsOpen, SameEnds, SameIn, At
<1>5. OpenedInv'
  BY <1>1, <1>0 DEF OpenedInv
<1>6. CloserInv'
  BY <1>1 DEF CloserInv, SameEnds
<1>7. ReaderInv'
  BY <1>1 DEF ReaderInv, IsOpen, SameEnds, At
<1>8. MapInv'
  BY <1>1 DEF MapInv, Going, IsOpen, CloserInv, SameEnds, At
<1>9. WaitInv'
  BY <1>1 DEF WaitInv, Going, SameEnds, SameIn, SameOut, At
<1>10. WindowsAgree'
  BY <1>1 DEF WindowsAgree, SameOut, SameWork, At
<1>11. ConnCredit'
  <2>1. \A t \in Streams : st[t].buf \in Nat /\ st[t].hand \in Nat
    BY Fields DEF TypeOK
  <2>2. \A t \in Streams : Owed(t) \in Int /\ Owed(t)' = Owed(t)
    BY <1>1, <2>1 DEF Owed
  <2>3. OwedUpTo'[MaxStreams] = OwedUpTo[MaxStreams] /\ OwedUpTo[MaxStreams] \in Int
    BY <2>2, HeldSame
  <2>4. InReader = reader.n /\ InReader' = 0
    BY <1>1 DEF InReader
  <2>5. unacked \in Int /\ credit \in Int
    BY DEF TypeOK
  <2>6. QED
    BY <1>1, <1>0, <2>3, <2>4, <2>5 DEF ConnCredit
<1>12. StreamCredit'
  <2>1. InReader' = 0
    BY <1>1 DEF InReader
  <2>2. \A t \in streams : t = reader.s => st[t].inClosed
    BY <1>1 DEF ReaderInv
  <2>3. QED
    BY <1>1, <2>1, <2>2 DEF StreamCredit
<1>13. QED
  BY <1>2, <1>3, <1>4, <1>5, <1>6, <1>7, <1>8, <1>9, <1>10, <1>11, <1>12

\* receiveRstStream, for a stream that was reset.
LEMMA ResetKeeps ==
    ASSUME IInv, faults' \in Nat, Reset
    PROVE  IInv'
  BY ResetStream DEF IInv, PartTypes, Reset

\* With no stream left to refuse, none in the map is above the peer's last.
LEMMA RefuseEnds ==
    ASSUME IInv, faults' \in Nat, Refuse, reader.who = {}
    PROVE  IInv'
<1> USE DEF IInv
<1>0. 0 \in 0..MaxStreams /\ next \in Int /\ 0 < next
      /\ reader.n \in Nat /\ reader.fin \in BOOLEAN /\ reader.s < next /\ gone \in Int
  <2>1. MaxStreams \in Nat
    BY Http2Assumption
  <2>2. QED
    BY <2>1 DEF TypeOK, PartTypes, Reader, OpenedInv
<1>1. /\ reader.pc = "refuse" /\ reader.who = {}
      /\ reader' = [pc |-> "idle", s |-> 0, n |-> 0, fin |-> FALSE,
                    who |-> {}]
      /\ UNCHANGED <<st, streams, next, shutdown, closed, outLeft, unacked, credit,
                    settle, setting, closer, gone>>
  BY  DEF Refuse, Idle, inVars, settingVars
<1>2. TypeOK'
  BY <1>1 DEF TypeOK
<1>3. PartTypes'
  <2>1. reader' \in Reader
    BY <1>0, <1>1, ReaderRecord
  <2>2. QED
    BY <1>1, <2>1 DEF PartTypes
<1>4. LocalInv'
  BY <1>1 DEF LocalInv, Local, IsOpen, SameEnds, SameIn, At
<1>5. OpenedInv'
  BY <1>1, <1>0 DEF OpenedInv
<1>6. CloserInv'
  BY <1>1 DEF CloserInv, SameEnds
<1>7. ReaderInv'
  BY <1>1 DEF ReaderInv, IsOpen, SameEnds, At
<1>8. MapInv'
  BY <1>1 DEF MapInv, Going, IsOpen, CloserInv, SameEnds, At
<1>9. WaitInv'
  BY <1>1 DEF WaitInv, Going, SameEnds, SameIn, SameOut, At
<1>10. WindowsAgree'
  BY <1>1 DEF WindowsAgree, SameOut, SameWork, At
<1>11. ConnCredit'
  <2>1. \A t \in Streams : st[t].buf \in Nat /\ st[t].hand \in Nat
    BY Fields DEF TypeOK
  <2>2. \A t \in Streams : Owed(t) \in Int /\ Owed(t)' = Owed(t)
    BY <1>1, <2>1 DEF Owed
  <2>3. OwedUpTo'[MaxStreams] = OwedUpTo[MaxStreams]
    BY <2>2, HeldSame
  <2>4. QED
    BY <1>1, <2>3 DEF ConnCredit, InReader
<1>12. StreamCredit'
  BY <1>1 DEF StreamCredit, InReader, SameIn, SameEnds, At
<1>13. QED
  BY <1>2, <1>3, <1>4, <1>5, <1>6, <1>7, <1>8, <1>9, <1>10, <1>11, <1>12

\* goAway's loop, whichever way it goes.
LEMMA RefuseKeeps ==
    ASSUME IInv, faults' \in Nat, Refuse
    PROVE  IInv'
<1>1. reader.who \in SUBSET Streams
  BY DEF IInv, PartTypes, Reader
<1>2. CASE reader.who # {}
  BY <1>1, <1>2, MinIn, RefuseStream
<1>3. QED
  BY <1>2, RefuseEnds

\* GOAWAY copies the refused streams and shuts down in one section: none comes in after it.
LEMMA RecvGoAwayKeeps ==
    ASSUME IInv, faults' \in Nat, NEW last \in 0..MaxStreams, RecvGoAway(last)
    PROVE  IInv'
<1> USE DEF IInv
<1>0. 0 \in 0..MaxStreams /\ next \in Int /\ 0 < next
      /\ reader.n \in Nat /\ reader.fin \in BOOLEAN /\ reader.s < next /\ gone \in Int
  <2>1. MaxStreams \in Nat
    BY Http2Assumption
  <2>2. QED
    BY <2>1 DEF TypeOK, PartTypes, Reader, OpenedInv
<1>1. /\ reader.pc = "idle" /\ last <= gone /\ gone' = last /\ shutdown' = TRUE
      /\ reader' = [pc |-> "refuse", s |-> 0, n |-> 0, fin |-> FALSE,
                   who |-> {t \in streams : t > last}]
      /\ UNCHANGED <<st, streams, next, closed, outLeft, unacked, credit, settle, setting,
                    closer>>
  BY  DEF RecvGoAway, Receives, Idle, inVars, settingVars
<1>2. TypeOK'
  BY <1>1 DEF TypeOK
<1>3. PartTypes'
  <2>1. {t \in streams : t > last} \in SUBSET Streams
    BY DEF TypeOK
  <2>2. reader' \in Reader
    BY <1>0, <1>1, <2>1, ReaderRecord
  <2>3. QED
    BY <1>1, <2>2 DEF PartTypes
<1>4. LocalInv'
  BY <1>1 DEF LocalInv, Local, IsOpen, SameEnds, SameIn, At
<1>5. OpenedInv'
  BY <1>1, <1>0 DEF OpenedInv
<1>6. CloserInv'
  BY <1>1 DEF CloserInv, SameEnds
<1>7. ReaderInv'
  <2>1. \A t \in streams : t > last => t \in reader'.who
    BY <1>1
  <2>2. QED
    BY <1>1, <2>1 DEF ReaderInv, IsOpen
<1>8. MapInv'
  BY <1>1 DEF MapInv, Going, IsOpen, CloserInv, SameEnds, At
<1>9. WaitInv'
  BY <1>1 DEF WaitInv, Going, SameEnds, SameIn, SameOut, At
<1>10. WindowsAgree'
  BY <1>1 DEF WindowsAgree, SameOut, SameWork, At
<1>11. ConnCredit'
  <2>1. \A t \in Streams : st[t].buf \in Nat /\ st[t].hand \in Nat
    BY Fields DEF TypeOK
  <2>2. \A t \in Streams : Owed(t) \in Int /\ Owed(t)' = Owed(t)
    BY <1>1, <2>1 DEF Owed
  <2>3. OwedUpTo'[MaxStreams] = OwedUpTo[MaxStreams]
    BY <2>2, HeldSame
  <2>4. QED
    BY <1>1, <2>3 DEF ConnCredit, InReader
<1>12. StreamCredit'
  BY <1>1 DEF StreamCredit, InReader, SameIn, SameEnds, At
<1>13. QED
  BY <1>2, <1>3, <1>4, <1>5, <1>6, <1>7, <1>8, <1>9, <1>10, <1>11, <1>12

\* A SETTINGS frame only gives the executor a job.
LEMMA RecvSettingsKeeps ==
    ASSUME IInv, faults' \in Nat, NEW size \in Sizes, RecvSettings(size)
    PROVE  IInv'
<1> USE DEF IInv
<1>1. /\ settle.pc = "idle"
      /\ settle' = [pc |-> "queued", to |-> size, delta |-> 0, who |-> {}]
      /\ UNCHANGED <<st, streams, next, shutdown, closed, outLeft, unacked, credit,
                    reader, setting, closer, gone>>
  BY  DEF RecvSettings, Settled, inVars, settingVars
<1>2. TypeOK'
  BY <1>1 DEF TypeOK
<1>3. PartTypes'
  <2>1. size \in Nat
    BY Http2Assumption
  <2>2. QED
    BY <1>1, <2>1 DEF PartTypes
<1>4. LocalInv'
  BY <1>1 DEF LocalInv, Local, IsOpen, SameEnds, SameIn, At
<1>5. OpenedInv'
  BY <1>1 DEF OpenedInv, Fresh, SameIn, SameEnds, At
<1>6. CloserInv'
  BY <1>1 DEF CloserInv, SameEnds
<1>7. ReaderInv'
  BY <1>1 DEF ReaderInv, IsOpen, SameEnds, At
<1>8. MapInv'
  BY <1>1 DEF MapInv, Going, IsOpen, CloserInv, SameEnds, At
<1>9. WaitInv'
  BY <1>1 DEF WaitInv, Going, SameEnds, SameIn, SameOut, At
<1>10. WindowsAgree'
  BY <1>1 DEF WindowsAgree, SameOut, SameWork, At, CloserInv
<1>11. ConnCredit'
  <2>1. \A t \in Streams : st[t].buf \in Nat /\ st[t].hand \in Nat
    BY Fields DEF TypeOK
  <2>2. \A t \in Streams : Owed(t) \in Int /\ Owed(t)' = Owed(t)
    BY <1>1, <2>1 DEF Owed
  <2>3. OwedUpTo'[MaxStreams] = OwedUpTo[MaxStreams]
    BY <2>2, HeldSame
  <2>4. QED
    BY <1>1, <2>3 DEF ConnCredit, InReader
<1>12. StreamCredit'
  BY <1>1 DEF StreamCredit, InReader, SameIn, SameEnds, At
<1>13. QED
  BY <1>2, <1>3, <1>4, <1>5, <1>6, <1>7, <1>8, <1>9, <1>10, <1>11, <1>12

\* close() shuts down first.
LEMMA CloseBeginKeeps ==
    ASSUME IInv, faults' \in Nat, CloseBegin
    PROVE  IInv'
<1> USE DEF IInv
<1>1. /\ closer.pc = "no" /\ closer' = [closer EXCEPT !.pc = "snapshot"]
      /\ closer'.pc = "snapshot" /\ closer'.who = closer.who /\ shutdown' = TRUE
      /\ UNCHANGED <<st, streams, next, closed, outLeft, unacked, credit, reader, settle,
                    setting, gone>>
  BY  DEF CloseBegin, PartTypes, inVars, settingVars
<1>2. TypeOK'
  BY <1>1 DEF TypeOK
<1>3. PartTypes'
  BY <1>1 DEF PartTypes, Reader, SameWork, At
<1>4. LocalInv'
  BY <1>1 DEF LocalInv, Local, IsOpen, SameEnds, SameIn, At
<1>5. OpenedInv'
  BY <1>1 DEF OpenedInv, Fresh, SameIn, SameEnds, At
<1>6. CloserInv'
  BY <1>1 DEF CloserInv, SameEnds
<1>7. ReaderInv'
  BY <1>1 DEF ReaderInv, IsOpen, SameEnds, At
<1>8. MapInv'
  BY <1>1 DEF MapInv, Going, IsOpen, CloserInv, SameEnds, At
<1>9. WaitInv'
  BY <1>1 DEF WaitInv, Going, SameEnds, SameIn, SameOut, At
<1>10. WindowsAgree'
  BY <1>1 DEF WindowsAgree, SameOut, SameWork, At
<1>11. ConnCredit'
  <2>1. \A t \in Streams : st[t].buf \in Nat /\ st[t].hand \in Nat
    BY Fields DEF TypeOK
  <2>2. \A t \in Streams : Owed(t) \in Int /\ Owed(t)' = Owed(t)
    BY <1>1, <2>1 DEF Owed
  <2>3. OwedUpTo'[MaxStreams] = OwedUpTo[MaxStreams]
    BY <2>2, HeldSame
  <2>4. QED
    BY <1>1, <2>3 DEF ConnCredit, InReader
<1>12. StreamCredit'
  BY <1>1 DEF StreamCredit, InReader, SameIn, SameEnds, At
<1>13. QED
  BY <1>2, <1>3, <1>4, <1>5, <1>6, <1>7, <1>8, <1>9, <1>10, <1>11, <1>12

\* The connection is closed once no stream is left to close.
LEMMA CloseEndKeeps ==
    ASSUME IInv, faults' \in Nat, CloseEnd
    PROVE  IInv'
<1> USE DEF IInv
<1>1. /\ closer.pc = "streams" /\ closer.who = {} /\ closer' = [closer EXCEPT !.pc = "done"]
      /\ closer'.pc = "done" /\ closer'.who = {} /\ closed' = TRUE
      /\ UNCHANGED <<st, streams, next, shutdown, outLeft, unacked, credit, reader,
                    settle, setting, gone>>
  BY  DEF CloseEnd, PartTypes, inVars, settingVars
<1>2. TypeOK'
  BY <1>1 DEF TypeOK
<1>3. PartTypes'
  BY <1>1 DEF PartTypes, Reader, SameWork, At
<1>4. LocalInv'
  BY <1>1 DEF LocalInv, Local, IsOpen, SameEnds, SameIn, At
<1>5. OpenedInv'
  BY <1>1 DEF OpenedInv, Fresh, SameIn, SameEnds, At
<1>6. CloserInv'
  BY <1>1 DEF CloserInv, SameEnds
<1>7. ReaderInv'
  BY <1>1 DEF ReaderInv, IsOpen, SameEnds, At
<1>8. MapInv'
  BY <1>1 DEF MapInv, Going, IsOpen, CloserInv, SameEnds, At
<1>9. WaitInv'
  BY <1>1 DEF WaitInv, Going, SameEnds, SameIn, SameOut, At
<1>10. WindowsAgree'
  BY <1>1 DEF WindowsAgree, SameOut, SameWork, At
<1>11. ConnCredit'
  <2>1. \A t \in Streams : st[t].buf \in Nat /\ st[t].hand \in Nat
    BY Fields DEF TypeOK
  <2>2. \A t \in Streams : Owed(t) \in Int /\ Owed(t)' = Owed(t)
    BY <1>1, <2>1 DEF Owed
  <2>3. OwedUpTo'[MaxStreams] = OwedUpTo[MaxStreams]
    BY <2>2, HeldSame
  <2>4. QED
    BY <1>1, <2>3 DEF ConnCredit, InReader
<1>12. StreamCredit'
  BY <1>1 DEF StreamCredit, InReader, SameIn, SameEnds, At
<1>13. QED
  BY <1>2, <1>3, <1>4, <1>5, <1>6, <1>7, <1>8, <1>9, <1>10, <1>11, <1>12

\* close() empties the map; the streams that were in it are its own to fail.
LEMMA CloseSnapshotKeeps ==
    ASSUME IInv, faults' \in Nat, CloseSnapshot
    PROVE  IInv'
<1> USE DEF IInv
<1>1. /\ closer.pc = "snapshot" /\ closer' = [pc |-> "streams", who |-> streams]
      /\ streams' = {}
      /\ UNCHANGED <<st, next, shutdown, closed, outLeft, unacked, credit, reader, settle,
                    setting, gone>>
  BY  DEF CloseSnapshot, inVars, settingVars
<1>2. TypeOK'
  BY <1>1 DEF TypeOK
<1>3. PartTypes'
  BY <1>1 DEF PartTypes, Reader, SameWork, At, TypeOK
<1>4. LocalInv'
  BY <1>1 DEF LocalInv, Local, IsOpen, SameEnds, SameIn, At
<1>5. OpenedInv'
  BY <1>1 DEF OpenedInv, Fresh, SameIn, SameEnds, At
<1>6. CloserInv'
  BY <1>1 DEF CloserInv, SameEnds
<1>7. ReaderInv'
  BY <1>1 DEF ReaderInv, IsOpen, SameEnds, At
<1>8. MapInv'
  BY <1>1 DEF MapInv, Going, IsOpen, CloserInv, SameEnds, At
<1>9. WaitInv'
  BY <1>1 DEF WaitInv, Going, SameEnds, SameIn, SameOut, At, CloserInv, MapInv
<1>10. WindowsAgree'
  BY <1>1 DEF WindowsAgree, SameOut, SameWork, At
<1>11. ConnCredit'
  <2>1. \A t \in Streams : st[t].buf \in Nat /\ st[t].hand \in Nat
    BY Fields DEF TypeOK
  <2>2. \A t \in Streams : Owed(t) \in Int /\ Owed(t)' = Owed(t)
    BY <1>1, <2>1 DEF Owed
  <2>3. OwedUpTo'[MaxStreams] = OwedUpTo[MaxStreams]
    BY <2>2, HeldSame
  <2>4. QED
    BY <1>1, <2>3 DEF ConnCredit, InReader
<1>12. StreamCredit'
  BY <1>1 DEF StreamCredit, InReader, SameIn, SameEnds, At
<1>13. QED
  BY <1>2, <1>3, <1>4, <1>5, <1>6, <1>7, <1>8, <1>9, <1>10, <1>11, <1>12

-----------------------------------------------------------------------------
(* What wakes those who wait for the connection. *)

\* notifyAll() on the connection wakes those who wait on it and changes nothing else.
LEMMA AllWokenFields ==
    ASSUME NEW f \in [Streams -> Stream]
    PROVE  /\ AllWoken(f) \in [Streams -> Stream]
           /\ \A t \in Streams :
                /\ SameEnds(AllWoken(f)[t], f[t]) /\ SameIn(AllWoken(f)[t], f[t])
                /\ SameOut(AllWoken(f)[t], f[t]) /\ SameWork(AllWoken(f)[t], f[t])
                /\ AllWoken(f)[t].pc = f[t].pc /\ AllWoken(f)[t].peer = f[t].peer
                /\ AllWoken(f)[t].asleep = IF f[t].asleep = "connection" THEN "no" ELSE f[t].asleep
<1> DEFINE g == AllWoken(f)
<1>1. g = [t \in Streams |->
              [f[t] EXCEPT !.asleep = IF f[t].asleep = "connection" THEN "no" ELSE f[t].asleep]]
  BY DEF AllWoken
<1> HIDE DEF g
<1>2. ASSUME NEW t \in Streams
      PROVE  /\ g[t] \in Stream
             /\ SameEnds(g[t], f[t]) /\ SameIn(g[t], f[t]) /\ SameOut(g[t], f[t])
             /\ SameWork(g[t], f[t]) /\ g[t].pc = f[t].pc /\ g[t].peer = f[t].peer
             /\ g[t].asleep = IF f[t].asleep = "connection" THEN "no" ELSE f[t].asleep
  <2>1. f[t] \in Stream /\ f[t].asleep \in {"no", "stream", "connection"}
    BY Fields
  <2>2. g[t] = [f[t] EXCEPT !.asleep = IF f[t].asleep = "connection" THEN "no" ELSE f[t].asleep]
    BY <1>1
  <2>3. g[t] \in Stream
    BY ZenonT(60), <2>1, <2>2, FieldsSet DEF SetPoints
  <2>4. QED
    BY <2>1, <2>2, <2>3 DEF Stream, SameEnds, SameIn, SameOut, SameWork
<1>3. g \in [Streams -> Stream]
  BY <1>1, <1>2
<1>4. QED
  BY <1>2, <1>3 DEF g

\* A WINDOW_UPDATE for the connection wakes everybody who waits for it.
LEMMA RecvWindowUpdateKeeps ==
    ASSUME IInv, faults' \in Nat, RecvWindowUpdate
    PROVE  IInv'
<1> USE DEF IInv
<1>1. /\ st' \in [Streams -> Stream]
      /\ \A t \in Streams :
           /\ SameEnds(st'[t], st[t])
           /\ SameIn(st'[t], st[t]) /\ SameOut(st'[t], st[t]) /\ SameWork(st'[t], st[t])
           /\ st'[t].pc = st[t].pc /\ st'[t].peer = st[t].peer
           /\ st'[t].asleep = IF st[t].asleep = "connection" THEN "no" ELSE st[t].asleep
  <2>1. st \in [Streams -> Stream] /\ st' = AllWoken(st)
    BY DEF TypeOK, RecvWindowUpdate, RemoveStream
  <2>2. QED
    BY <2>1, AllWokenFields
<1>2. /\ outLeft < PeerWindow /\ outLeft' = outLeft + 1
      /\ UNCHANGED <<streams, next, shutdown, closed, unacked, credit, reader, settle,
                    setting, closer, gone>>
  BY  DEF RecvWindowUpdate, RemoveStream, inVars, settingVars
<1>3. /\ streams \subseteq Streams /\ streams' \subseteq Streams
      /\ reader.pc \notin {"idle", "refuse"} => reader.s \in Streams
      /\ closer.who # {} => Min(closer.who) \in Streams
  BY <1>2, MinIn DEF TypeOK, PartTypes
<1>4. TypeOK'
  BY <1>1, <1>2, <1>3, Http2Assumption DEF TypeOK
<1>5. PartTypes'
  BY <1>1, <1>2, <1>3 DEF PartTypes, Reader, SameWork, At
<1>6. LocalInv'
  BY <1>1, <1>2, <1>3 DEF LocalInv, Local, IsOpen, SameEnds, SameIn, At
<1>7. OpenedInv'
  BY <1>1, <1>2, <1>3 DEF OpenedInv, Fresh, SameIn, SameEnds, At
<1>8. CloserInv'
  BY <1>1, <1>2, <1>3 DEF CloserInv, SameEnds
<1>9. ReaderInv'
  BY <1>1, <1>2, <1>3 DEF ReaderInv, IsOpen, SameEnds, At
<1>10. MapInv'
  BY <1>1, <1>2, <1>3 DEF MapInv, Going, IsOpen, CloserInv, SameEnds, At
<1>11. WaitInv'
  BY <1>1, <1>2, <1>3 DEF WaitInv, Going, SameEnds, SameIn, SameOut, At
<1>12. WindowsAgree'
  BY <1>1, <1>2, <1>3 DEF WindowsAgree, SameOut, SameWork, At
<1>13. ConnCredit'
  <2>1. \A t \in Streams : st[t].buf \in Nat /\ st[t].hand \in Nat
    BY Fields DEF TypeOK
  <2>2. \A t \in Streams : Owed(t) \in Int /\ Owed(t)' = Owed(t)
    BY <1>1, <1>2, <1>3, <2>1 DEF Owed, SameIn, SameWork, At
  <2>3. OwedUpTo'[MaxStreams] = OwedUpTo[MaxStreams]
    BY <2>2, HeldSame
  <2>4. QED
    BY <1>1, <1>2, <1>3, <2>3 DEF ConnCredit, InReader
<1>14. StreamCredit'
  BY <1>1, <1>2, <1>3 DEF StreamCredit, InReader, SameIn, SameEnds, At
<1>15. QED
  BY <1>4, <1>5, <1>6, <1>7, <1>8, <1>9, <1>10, <1>11, <1>12, <1>13, <1>14

\* The call takes its stream, which is no longer open, out of the map.
LEMMA RemoveKeeps ==
    ASSUME IInv, faults' \in Nat, NEW s \in Streams, Remove(s)
    PROVE  IInv'
<1> USE DEF IInv
<1> DEFINE f == [st EXCEPT ![s].pc = Following(st[s])]
<1>1. /\ st' \in [Streams -> Stream]
      /\ st'[s].pc = Following(st[s])
      /\ st'[s].peer = st[s].peer /\ SameEnds(st'[s], st[s])
      /\ \A t \in Streams \ {s} :
           /\ SameEnds(st'[t], st[t])
           /\ st'[t].pc = st[t].pc /\ st'[t].peer = st[t].peer
      /\ \A t \in Streams :
           /\ SameIn(st'[t], st[t]) /\ SameOut(st'[t], st[t]) /\ SameWork(st'[t], st[t])
           /\ st'[t].asleep = IF st[t].asleep = "connection" THEN "no" ELSE st[t].asleep
  <2>1. st \in [Streams -> Stream] /\ st[s] \in Stream /\ s \in Streams
    BY DEF TypeOK
  <2>2. f = [st EXCEPT ![s] = [st[s] EXCEPT !.pc = Following(st[s])]]
    OBVIOUS
  <2>3. [st[s] EXCEPT !.pc = Following(st[s])] \in Stream
    BY <2>1, FieldsSet DEF SetPoints, Pcs, Following
  <2>4. /\ f \in [Streams -> Stream] /\ f[s] = [st[s] EXCEPT !.pc = Following(st[s])]
        /\ \A t \in Streams \ {s} : f[t] = st[t]
    BY <2>1, <2>2, <2>3
  <2>5. /\ f[s].pc = Following(st[s]) /\ f[s].asleep = st[s].asleep
        /\ SameIn(f[s], st[s]) /\ SameOut(f[s], st[s]) /\ SameWork(f[s], st[s])
        /\ f[s].peer = st[s].peer /\ SameEnds(f[s], st[s])
    BY <2>1, <2>4 DEF Stream, SameEnds, SameIn, SameOut, SameWork
  <2>6. st' = AllWoken(f)
    BY DEF Remove, RemoveStream
  <2> HIDE DEF f
  <2>7. /\ st' \in [Streams -> Stream]
        /\ \A t \in Streams :
             /\ SameEnds(st'[t], f[t]) /\ SameIn(st'[t], f[t])
             /\ SameOut(st'[t], f[t]) /\ SameWork(st'[t], f[t])
             /\ st'[t].pc = f[t].pc /\ st'[t].peer = f[t].peer
             /\ st'[t].asleep = IF f[t].asleep = "connection" THEN "no" ELSE f[t].asleep
    BY <2>4, <2>6, AllWokenFields
  <2>8. /\ st'[s].pc = Following(st[s])
        /\ st'[s].peer = st[s].peer /\ SameEnds(st'[s], st[s])
        /\ SameIn(st'[s], st[s]) /\ SameOut(st'[s], st[s]) /\ SameWork(st'[s], st[s])
        /\ st'[s].asleep = IF st[s].asleep = "connection" THEN "no" ELSE st[s].asleep
    BY <2>1, <2>5, <2>7 DEF SameEnds, SameIn, SameOut, SameWork
  <2>9. \A t \in Streams \ {s} :
             /\ SameEnds(st'[t], st[t]) /\ SameIn(st'[t], st[t])
             /\ SameOut(st'[t], st[t]) /\ SameWork(st'[t], st[t])
             /\ st'[t].pc = st[t].pc /\ st'[t].peer = st[t].peer
             /\ st'[t].asleep = IF st[t].asleep = "connection" THEN "no" ELSE st[t].asleep
    BY <2>4, <2>7
  <2>10. QED
    BY <2>7, <2>8, <2>9
<1>2. /\ At(s, "remove") /\ streams' = streams \ {s}
      /\ UNCHANGED <<next, shutdown, closed, outLeft, unacked, credit, reader, settle,
                    setting, closer, gone>>
  BY  DEF Remove, RemoveStream, inVars, settingVars
<1>3. /\ streams \subseteq Streams /\ streams' \subseteq Streams
      /\ reader.pc \notin {"idle", "refuse"} => reader.s \in Streams
      /\ closer.who # {} => Min(closer.who) \in Streams
  BY <1>2, MinIn DEF TypeOK, PartTypes
<1>4. TypeOK'
  BY <1>1, <1>2, <1>3 DEF TypeOK, Following
<1>5. PartTypes'
  BY <1>1, <1>2, <1>3 DEF PartTypes, Reader, SameWork, At, Following
<1>6. LocalInv'
  BY <1>1, <1>2, <1>3 DEF LocalInv, Local, IsOpen, SameEnds, SameIn, At, Following
<1>7. OpenedInv'
  BY <1>1, <1>2, <1>3 DEF OpenedInv, Fresh, SameIn, SameEnds, At, Following
<1>8. CloserInv'
  BY <1>1, <1>2, <1>3 DEF CloserInv, SameEnds, Following
<1>9. ReaderInv'
  BY <1>1, <1>2, <1>3 DEF ReaderInv, IsOpen, SameEnds, At, Following
<1>10. MapInv'
  BY <1>1, <1>2, <1>3 DEF MapInv, Going, IsOpen, CloserInv, SameEnds, At, Following,
     LocalInv, Local
<1>11. WaitInv'
  BY <1>1, <1>2, <1>3 DEF WaitInv, Going, SameEnds, SameIn, SameOut, At, Following
<1>12. WindowsAgree'
  BY <1>1, <1>2, <1>3 DEF WindowsAgree, SameOut, SameWork, At, Following
<1>13. ConnCredit'
  <2>1. \A t \in Streams : st[t].buf \in Nat /\ st[t].hand \in Nat
    BY Fields DEF TypeOK
  <2>2. \A t \in Streams : Owed(t) \in Int /\ Owed(t)' = Owed(t)
    BY <1>1, <1>2, <1>3, <2>1 DEF Owed, SameIn, SameWork, At, Following
  <2>3. OwedUpTo'[MaxStreams] = OwedUpTo[MaxStreams]
    BY <2>2, HeldSame
  <2>4. QED
    BY <1>1, <1>2, <1>3, <2>3 DEF ConnCredit, InReader
<1>14. StreamCredit'
  BY <1>1, <1>2, <1>3 DEF StreamCredit, InReader, SameIn, SameEnds, At, Following
<1>15. QED
  BY <1>4, <1>5, <1>6, <1>7, <1>8, <1>9, <1>10, <1>11, <1>12, <1>13, <1>14

\* The timeout or cancel() takes the stream, which it has failed, out of the map.
LEMMA KillRemoveKeeps ==
    ASSUME IInv, faults' \in Nat, NEW s \in Streams, KillRemove(s)
    PROVE  IInv'
<1> USE DEF IInv
<1> DEFINE f == [st EXCEPT ![s].killer = FALSE]
<1>1. /\ st' \in [Streams -> Stream]
      /\ st'[s].killer = FALSE
      /\ st'[s].pc = st[s].pc /\ st'[s].peer = st[s].peer /\ st'[s].err = st[s].err
      /\ st'[s].header = st[s].header /\ st'[s].responded = st[s].responded
      /\ st'[s].outFinished = st[s].outFinished /\ st'[s].outClosed = st[s].outClosed
      /\ st'[s].inFinished = st[s].inFinished /\ st'[s].inClosed = st[s].inClosed
      /\ \A t \in Streams \ {s} :
           /\ SameEnds(st'[t], st[t])
           /\ st'[t].pc = st[t].pc /\ st'[t].peer = st[t].peer
      /\ \A t \in Streams :
           /\ SameIn(st'[t], st[t]) /\ SameOut(st'[t], st[t]) /\ SameWork(st'[t], st[t])
           /\ st'[t].asleep = IF st[t].asleep = "connection" THEN "no" ELSE st[t].asleep
  <2>1. st \in [Streams -> Stream] /\ st[s] \in Stream /\ s \in Streams
    BY DEF TypeOK
  <2>2. f = [st EXCEPT ![s] = [st[s] EXCEPT !.killer = FALSE]]
    OBVIOUS
  <2>3. [st[s] EXCEPT !.killer = FALSE] \in Stream
    BY <2>1, FieldsSet DEF SetFlags
  <2>4. /\ f \in [Streams -> Stream] /\ f[s] = [st[s] EXCEPT !.killer = FALSE]
        /\ \A t \in Streams \ {s} : f[t] = st[t]
    BY <2>1, <2>2, <2>3
  <2>5. /\ f[s].killer = FALSE /\ f[s].asleep = st[s].asleep
        /\ SameIn(f[s], st[s]) /\ SameOut(f[s], st[s]) /\ SameWork(f[s], st[s])
        /\ f[s].pc = st[s].pc /\ f[s].peer = st[s].peer /\ f[s].err = st[s].err
        /\ f[s].header = st[s].header /\ f[s].responded = st[s].responded
        /\ f[s].outFinished = st[s].outFinished /\ f[s].outClosed = st[s].outClosed
        /\ f[s].inFinished = st[s].inFinished /\ f[s].inClosed = st[s].inClosed
    BY <2>1, <2>4 DEF Stream, SameEnds, SameIn, SameOut, SameWork
  <2>6. st' = AllWoken(f)
    BY DEF KillRemove, RemoveStream
  <2> HIDE DEF f
  <2>7. /\ st' \in [Streams -> Stream]
        /\ \A t \in Streams :
             /\ SameEnds(st'[t], f[t]) /\ SameIn(st'[t], f[t])
             /\ SameOut(st'[t], f[t]) /\ SameWork(st'[t], f[t])
             /\ st'[t].pc = f[t].pc /\ st'[t].peer = f[t].peer
             /\ st'[t].asleep = IF f[t].asleep = "connection" THEN "no" ELSE f[t].asleep
    BY <2>4, <2>6, AllWokenFields
  <2>8. /\ st'[s].killer = FALSE
        /\ st'[s].pc = st[s].pc /\ st'[s].peer = st[s].peer /\ st'[s].err = st[s].err
        /\ st'[s].header = st[s].header /\ st'[s].responded = st[s].responded
        /\ st'[s].outFinished = st[s].outFinished /\ st'[s].outClosed = st[s].outClosed
        /\ st'[s].inFinished = st[s].inFinished /\ st'[s].inClosed = st[s].inClosed
        /\ SameIn(st'[s], st[s]) /\ SameOut(st'[s], st[s]) /\ SameWork(st'[s], st[s])
        /\ st'[s].asleep = IF st[s].asleep = "connection" THEN "no" ELSE st[s].asleep
    BY <2>1, <2>5, <2>7 DEF SameEnds, SameIn, SameOut, SameWork
  <2>9. \A t \in Streams \ {s} :
             /\ SameEnds(st'[t], st[t]) /\ SameIn(st'[t], st[t])
             /\ SameOut(st'[t], st[t]) /\ SameWork(st'[t], st[t])
             /\ st'[t].pc = st[t].pc /\ st'[t].peer = st[t].peer
             /\ st'[t].asleep = IF st[t].asleep = "connection" THEN "no" ELSE st[t].asleep
    BY <2>4, <2>7
  <2>10. QED
    BY <2>7, <2>8, <2>9
<1>2. /\ st[s].killer = TRUE /\ st[s].err = TRUE /\ streams' = streams \ {s}
      /\ UNCHANGED <<next, shutdown, closed, outLeft, unacked, credit, reader, settle,
                    setting, closer, gone>>
  BY Fields DEF KillRemove, LocalInv, Local, TypeOK, RemoveStream, inVars, settingVars
<1>3. /\ streams \subseteq Streams /\ streams' \subseteq Streams
      /\ reader.pc \notin {"idle", "refuse"} => reader.s \in Streams
      /\ closer.who # {} => Min(closer.who) \in Streams
  BY <1>2, MinIn DEF TypeOK, PartTypes
<1>4. TypeOK'
  BY <1>1, <1>2, <1>3 DEF TypeOK
<1>5. PartTypes'
  BY <1>1, <1>2, <1>3 DEF PartTypes, Reader, SameWork, At
<1>6. LocalInv'
  BY <1>1, <1>2, <1>3 DEF LocalInv, Local, IsOpen, SameEnds, SameIn, At
<1>7. OpenedInv'
  BY <1>1, <1>2, <1>3 DEF OpenedInv, Fresh, SameIn, SameEnds, At
<1>8. CloserInv'
  BY <1>1, <1>2, <1>3 DEF CloserInv, SameEnds
<1>9. ReaderInv'
  BY <1>1, <1>2, <1>3 DEF ReaderInv, IsOpen, SameEnds, At
<1>10. MapInv'
  BY <1>1, <1>2, <1>3 DEF MapInv, Going, IsOpen, CloserInv, SameEnds, At
<1>11. WaitInv'
  BY <1>1, <1>2, <1>3 DEF WaitInv, Going, SameEnds, SameIn, SameOut, At
<1>12. WindowsAgree'
  BY <1>1, <1>2, <1>3 DEF WindowsAgree, SameOut, SameWork, At
<1>13. ConnCredit'
  <2>1. \A t \in Streams : st[t].buf \in Nat /\ st[t].hand \in Nat
    BY Fields DEF TypeOK
  <2>2. \A t \in Streams : Owed(t) \in Int /\ Owed(t)' = Owed(t)
    BY <1>1, <1>2, <1>3, <2>1 DEF Owed, SameIn, SameWork, At
  <2>3. OwedUpTo'[MaxStreams] = OwedUpTo[MaxStreams]
    BY <2>2, HeldSame
  <2>4. QED
    BY <1>1, <1>2, <1>3, <2>3 DEF ConnCredit, InReader
<1>14. StreamCredit'
  BY <1>1, <1>2, <1>3 DEF StreamCredit, InReader, SameIn, SameEnds, At
<1>15. QED
  BY <1>4, <1>5, <1>6, <1>7, <1>8, <1>9, <1>10, <1>11, <1>12, <1>13, <1>14

\* The reader takes a stream, which is no longer open, out of the map.
LEMMA ReaderRemoveKeeps ==
    ASSUME IInv, faults' \in Nat, ReaderRemove
    PROVE  IInv'
<1> USE DEF IInv
<1>0. 0 \in 0..MaxStreams /\ next \in Int /\ 0 < next
      /\ reader.n \in Nat /\ reader.fin \in BOOLEAN /\ reader.s < next /\ gone \in Int
  <2>1. MaxStreams \in Nat
    BY Http2Assumption
  <2>2. QED
    BY <2>1 DEF TypeOK, PartTypes, Reader, OpenedInv
<1>1. /\ st' \in [Streams -> Stream]
      /\ \A t \in Streams :
           /\ SameEnds(st'[t], st[t])
           /\ SameIn(st'[t], st[t]) /\ SameOut(st'[t], st[t]) /\ SameWork(st'[t], st[t])
           /\ st'[t].pc = st[t].pc /\ st'[t].peer = st[t].peer
           /\ st'[t].asleep = IF st[t].asleep = "connection" THEN "no" ELSE st[t].asleep
  <2>1. st \in [Streams -> Stream] /\ st' = AllWoken(st)
    BY DEF TypeOK, ReaderRemove, RemoveStream
  <2>2. QED
    BY <2>1, AllWokenFields
<1>2. /\ reader.pc = "remove" /\ streams' = streams \ {reader.s}
      /\ reader' = [pc |-> "idle", s |-> 0, n |-> 0, fin |-> FALSE, who |-> {}]
      /\ UNCHANGED <<next, shutdown, closed, outLeft, unacked, credit, settle, setting,
                    closer, gone>>
  BY  DEF ReaderRemove, Idle, RemoveStream, inVars, settingVars
<1>3. /\ streams \subseteq Streams /\ streams' \subseteq Streams
      /\ reader.pc \notin {"idle", "refuse"} => reader.s \in Streams
      /\ closer.who # {} => Min(closer.who) \in Streams
  BY <1>2, MinIn DEF TypeOK, PartTypes
<1>4. TypeOK'
  BY <1>1, <1>2, <1>3 DEF TypeOK
<1>5. PartTypes'
  <2>1. reader' \in Reader
    BY <1>0, <1>2, ReaderRecord
  <2>2. QED
    BY <1>1, <1>2, <1>3, <2>1 DEF PartTypes, SameWork
<1>6. LocalInv'
  BY <1>1, <1>2, <1>3 DEF LocalInv, Local, IsOpen, SameEnds, SameIn, At
<1>7. OpenedInv'
  BY <1>1, <1>2, <1>3, <1>0 DEF OpenedInv, Fresh, SameEnds, SameIn
<1>8. CloserInv'
  BY <1>1, <1>2, <1>3 DEF CloserInv, SameEnds
<1>9. ReaderInv'
  BY <1>1, <1>2, <1>3 DEF ReaderInv, IsOpen, SameEnds, At
<1>10. MapInv'
  BY <1>1, <1>2, <1>3 DEF MapInv, Going, IsOpen, CloserInv, SameEnds, At, ReaderInv
<1>11. WaitInv'
  BY <1>1, <1>2, <1>3 DEF WaitInv, Going, SameEnds, SameIn, SameOut, At
<1>12. WindowsAgree'
  BY <1>1, <1>2, <1>3 DEF WindowsAgree, SameOut, SameWork, At
<1>13. ConnCredit'
  <2>1. \A t \in Streams : st[t].buf \in Nat /\ st[t].hand \in Nat
    BY Fields DEF TypeOK
  <2>2. \A t \in Streams : Owed(t) \in Int /\ Owed(t)' = Owed(t)
    BY <1>1, <1>2, <1>3, <2>1 DEF Owed, SameIn, SameWork, At
  <2>3. OwedUpTo'[MaxStreams] = OwedUpTo[MaxStreams]
    BY <2>2, HeldSame
  <2>4. QED
    BY <1>1, <1>2, <1>3, <2>3 DEF ConnCredit, InReader
<1>14. StreamCredit'
  BY <1>1, <1>2, <1>3 DEF StreamCredit, InReader, SameIn, SameEnds, At
<1>15. QED
  BY <1>4, <1>5, <1>6, <1>7, <1>8, <1>9, <1>10, <1>11, <1>12, <1>13, <1>14

\* The reader takes a refused stream, which it has failed, out of the map.
LEMMA RefuseRemoveKeeps ==
    ASSUME IInv, faults' \in Nat, RefuseRemove
    PROVE  IInv'
<1> USE DEF IInv
<1>0. 0 \in 0..MaxStreams /\ next \in Int /\ 0 < next
      /\ reader.n \in Nat /\ reader.fin \in BOOLEAN /\ reader.s < next /\ gone \in Int
  <2>1. MaxStreams \in Nat
    BY Http2Assumption
  <2>2. QED
    BY <2>1 DEF TypeOK, PartTypes, Reader, OpenedInv
<1>1. /\ st' \in [Streams -> Stream]
      /\ \A t \in Streams :
           /\ SameEnds(st'[t], st[t])
           /\ SameIn(st'[t], st[t]) /\ SameOut(st'[t], st[t]) /\ SameWork(st'[t], st[t])
           /\ st'[t].pc = st[t].pc /\ st'[t].peer = st[t].peer
           /\ st'[t].asleep = IF st[t].asleep = "connection" THEN "no" ELSE st[t].asleep
  <2>1. st \in [Streams -> Stream] /\ st' = AllWoken(st)
    BY DEF TypeOK, RefuseRemove, RemoveStream
  <2>2. QED
    BY <2>1, AllWokenFields
<1>2. /\ reader.pc = "refused" /\ streams' = streams \ {reader.s}
      /\ reader' = [pc |-> "refuse", s |-> 0, n |-> reader.n, fin |-> reader.fin,
                   who |-> reader.who]
      /\ UNCHANGED <<next, shutdown, closed, outLeft, unacked, credit, settle, setting,
                    closer, gone>>
  BY  DEF RefuseRemove, PartTypes, Reader, RemoveStream, inVars, settingVars
<1>3. /\ streams \subseteq Streams /\ streams' \subseteq Streams
      /\ reader.pc \notin {"idle", "refuse"} => reader.s \in Streams
      /\ closer.who # {} => Min(closer.who) \in Streams
  BY <1>2, MinIn DEF TypeOK, PartTypes
<1>4. TypeOK'
  BY <1>1, <1>2, <1>3 DEF TypeOK
<1>5. PartTypes'
  <2>1. reader' \in Reader
    BY <1>0, <1>2, ReaderRecord DEF PartTypes, Reader
  <2>2. QED
    BY <1>1, <1>2, <1>3, <2>1 DEF PartTypes, SameWork
<1>6. LocalInv'
  BY <1>1, <1>2, <1>3 DEF LocalInv, Local, IsOpen, SameEnds, SameIn, At
<1>7. OpenedInv'
  BY <1>1, <1>2, <1>3, <1>0 DEF OpenedInv, Fresh, SameEnds, SameIn
<1>8. CloserInv'
  BY <1>1, <1>2, <1>3 DEF CloserInv, SameEnds
<1>9. ReaderInv'
  BY <1>1, <1>2, <1>3 DEF ReaderInv, IsOpen, SameEnds, At
<1>10. MapInv'
  BY <1>1, <1>2, <1>3 DEF MapInv, Going, IsOpen, CloserInv, SameEnds, At, ReaderInv
<1>11. WaitInv'
  BY <1>1, <1>2, <1>3 DEF WaitInv, Going, SameEnds, SameIn, SameOut, At
<1>12. WindowsAgree'
  BY <1>1, <1>2, <1>3 DEF WindowsAgree, SameOut, SameWork, At
<1>13. ConnCredit'
  <2>1. \A t \in Streams : st[t].buf \in Nat /\ st[t].hand \in Nat
    BY Fields DEF TypeOK
  <2>2. \A t \in Streams : Owed(t) \in Int /\ Owed(t)' = Owed(t)
    BY <1>1, <1>2, <1>3, <2>1 DEF Owed, SameIn, SameWork, At
  <2>3. OwedUpTo'[MaxStreams] = OwedUpTo[MaxStreams]
    BY <2>2, HeldSame
  <2>4. QED
    BY <1>1, <1>2, <1>3, <2>3 DEF ConnCredit, InReader
<1>14. StreamCredit'
  BY <1>1, <1>2, <1>3 DEF StreamCredit, InReader, SameIn, SameEnds, At
<1>15. QED
  BY <1>4, <1>5, <1>6, <1>7, <1>8, <1>9, <1>10, <1>11, <1>12, <1>13, <1>14

\* close() is done with a stream it has failed.
LEMMA CloseRemoveKeeps ==
    ASSUME IInv, faults' \in Nat, CloseRemove
    PROVE  IInv'
<1> USE DEF IInv
<1>1. /\ st' \in [Streams -> Stream]
      /\ \A t \in Streams :
           /\ SameEnds(st'[t], st[t])
           /\ SameIn(st'[t], st[t]) /\ SameOut(st'[t], st[t]) /\ SameWork(st'[t], st[t])
           /\ st'[t].pc = st[t].pc /\ st'[t].peer = st[t].peer
           /\ st'[t].asleep = IF st[t].asleep = "connection" THEN "no" ELSE st[t].asleep
  <2>1. st \in [Streams -> Stream] /\ st' = AllWoken(st)
    BY DEF TypeOK, CloseRemove, RemoveStream
  <2>2. QED
    BY <2>1, AllWokenFields
<1>2. /\ closer.pc = "remove" /\ streams' = streams \ {Min(closer.who)}
      /\ closer' = [pc |-> "streams", who |-> closer.who \ {Min(closer.who)}]
      /\ UNCHANGED <<next, shutdown, closed, outLeft, unacked, credit, reader, settle,
                    setting, gone>>
  BY  DEF CloseRemove, RemoveStream, inVars, settingVars
<1>3. /\ streams \subseteq Streams /\ streams' \subseteq Streams
      /\ reader.pc \notin {"idle", "refuse"} => reader.s \in Streams
      /\ closer.who # {} => Min(closer.who) \in Streams
  BY <1>2, MinIn DEF TypeOK, PartTypes
<1>4. TypeOK'
  BY <1>1, <1>2, <1>3 DEF TypeOK
<1>5. PartTypes'
  BY <1>1, <1>2, <1>3 DEF PartTypes, Reader, SameWork, At
<1>6. LocalInv'
  BY <1>1, <1>2, <1>3 DEF LocalInv, Local, IsOpen, SameEnds, SameIn, At
<1>7. OpenedInv'
  BY <1>1, <1>2, <1>3 DEF OpenedInv, Fresh, SameIn, SameEnds, At
<1>8. CloserInv'
  BY <1>1, <1>2, <1>3 DEF CloserInv, SameEnds
<1>9. ReaderInv'
  BY <1>1, <1>2, <1>3 DEF ReaderInv, IsOpen, SameEnds, At
<1>10. MapInv'
  BY <1>1, <1>2, <1>3 DEF MapInv, Going, IsOpen, CloserInv, SameEnds, At
<1>11. WaitInv'
  BY <1>1, <1>2, <1>3 DEF WaitInv, Going, SameEnds, SameIn, SameOut, At
<1>12. WindowsAgree'
  BY <1>1, <1>2, <1>3 DEF WindowsAgree, SameOut, SameWork, At
<1>13. ConnCredit'
  <2>1. \A t \in Streams : st[t].buf \in Nat /\ st[t].hand \in Nat
    BY Fields DEF TypeOK
  <2>2. \A t \in Streams : Owed(t) \in Int /\ Owed(t)' = Owed(t)
    BY <1>1, <1>2, <1>3, <2>1 DEF Owed, SameIn, SameWork, At
  <2>3. OwedUpTo'[MaxStreams] = OwedUpTo[MaxStreams]
    BY <2>2, HeldSame
  <2>4. QED
    BY <1>1, <1>2, <1>3, <2>3 DEF ConnCredit, InReader
<1>14. StreamCredit'
  BY <1>1, <1>2, <1>3 DEF StreamCredit, InReader, SameIn, SameEnds, At
<1>15. QED
  BY <1>4, <1>5, <1>6, <1>7, <1>8, <1>9, <1>10, <1>11, <1>12, <1>13, <1>14

\* RST_STREAM takes the stream out of the map, and the reader will fail it.
LEMMA RecvRstOpen ==
    ASSUME IInv, faults' \in Nat, NEW s \in Streams, RecvRst(s), s \in streams
    PROVE  IInv'
<1> USE DEF IInv
<1>0. 0 \in 0..MaxStreams /\ s \in 0..MaxStreams /\ next \in Int /\ 0 < next
      /\ reader.n \in Nat /\ reader.fin \in BOOLEAN /\ reader.s < next /\ gone \in Int
  <2>1. MaxStreams \in Nat /\ s \in 0..MaxStreams
    BY Http2Assumption DEF Streams
  <2>2. QED
    BY <2>1 DEF TypeOK, PartTypes, Reader, OpenedInv
<1> DEFINE f == [st EXCEPT ![s].peer = "done"]
<1>1. /\ st' \in [Streams -> Stream]
      /\ st'[s].peer = "done"
      /\ st'[s].pc = st[s].pc /\ SameEnds(st'[s], st[s])
      /\ \A t \in Streams \ {s} :
           /\ SameEnds(st'[t], st[t])
           /\ st'[t].pc = st[t].pc /\ st'[t].peer = st[t].peer
      /\ \A t \in Streams :
           /\ SameIn(st'[t], st[t]) /\ SameOut(st'[t], st[t]) /\ SameWork(st'[t], st[t])
           /\ st'[t].asleep = IF st[t].asleep = "connection" THEN "no" ELSE st[t].asleep
  <2>1. st \in [Streams -> Stream] /\ st[s] \in Stream /\ s \in Streams
    BY DEF TypeOK
  <2>2. f = [st EXCEPT ![s] = [st[s] EXCEPT !.peer = "done"]]
    OBVIOUS
  <2>3. [st[s] EXCEPT !.peer = "done"] \in Stream
    BY <2>1, FieldsSet DEF SetPoints, Pcs
  <2>4. /\ f \in [Streams -> Stream] /\ f[s] = [st[s] EXCEPT !.peer = "done"]
        /\ \A t \in Streams \ {s} : f[t] = st[t]
    BY <2>1, <2>2, <2>3
  <2>5. /\ f[s].peer = "done" /\ f[s].asleep = st[s].asleep
        /\ SameIn(f[s], st[s]) /\ SameOut(f[s], st[s]) /\ SameWork(f[s], st[s])
        /\ f[s].pc = st[s].pc /\ SameEnds(f[s], st[s])
    BY <2>1, <2>4 DEF Stream, SameEnds, SameIn, SameOut, SameWork
  <2>6. st' = AllWoken(f)
    BY DEF RecvRst, RemoveStream
  <2> HIDE DEF f
  <2>7. /\ st' \in [Streams -> Stream]
        /\ \A t \in Streams :
             /\ SameEnds(st'[t], f[t]) /\ SameIn(st'[t], f[t])
             /\ SameOut(st'[t], f[t]) /\ SameWork(st'[t], f[t])
             /\ st'[t].pc = f[t].pc /\ st'[t].peer = f[t].peer
             /\ st'[t].asleep = IF f[t].asleep = "connection" THEN "no" ELSE f[t].asleep
    BY <2>4, <2>6, AllWokenFields
  <2>8. /\ st'[s].peer = "done"
        /\ st'[s].pc = st[s].pc /\ SameEnds(st'[s], st[s])
        /\ SameIn(st'[s], st[s]) /\ SameOut(st'[s], st[s]) /\ SameWork(st'[s], st[s])
        /\ st'[s].asleep = IF st[s].asleep = "connection" THEN "no" ELSE st[s].asleep
    BY <2>1, <2>5, <2>7 DEF SameEnds, SameIn, SameOut, SameWork
  <2>9. \A t \in Streams \ {s} :
             /\ SameEnds(st'[t], st[t]) /\ SameIn(st'[t], st[t])
             /\ SameOut(st'[t], st[t]) /\ SameWork(st'[t], st[t])
             /\ st'[t].pc = st[t].pc /\ st'[t].peer = st[t].peer
             /\ st'[t].asleep = IF st[t].asleep = "connection" THEN "no" ELSE st[t].asleep
    BY <2>4, <2>7
  <2>10. QED
    BY <2>7, <2>8, <2>9
<1>2. /\ reader.pc = "idle" /\ s < next /\ s \in streams /\ streams' = streams \ {s}
      /\ reader' = [pc |-> "reset", s |-> s, n |-> 0, fin |-> FALSE, who |-> {}]
      /\ UNCHANGED <<next, shutdown, closed, outLeft, unacked, credit, settle, setting,
                    closer, gone>>
  BY  DEF RecvRst, Receives, Created, Reads, RemoveStream, inVars, settingVars
<1>3. /\ streams \subseteq Streams /\ streams' \subseteq Streams
      /\ reader.pc \notin {"idle", "refuse"} => reader.s \in Streams
      /\ closer.who # {} => Min(closer.who) \in Streams
  BY <1>2, MinIn DEF TypeOK, PartTypes
<1>4. TypeOK'
  BY <1>1, <1>2, <1>3 DEF TypeOK
<1>5. PartTypes'
  <2>1. reader' \in Reader
    BY <1>0, <1>2, ReaderRecord
  <2>2. QED
    BY <1>1, <1>2, <1>3, <2>1 DEF PartTypes, SameWork
<1>6. LocalInv'
  BY <1>1, <1>2, <1>3 DEF LocalInv, Local, IsOpen, SameEnds, SameIn, At
<1>7. OpenedInv'
  <2>1. st'[s].pc # "new" /\ s < next
    BY <1>1, <1>2 DEF OpenedInv
  <2>2. \A t \in Streams \ {s} : IF t < next THEN st'[t].pc # "new" ELSE Fresh(st'[t])
    BY <1>1 DEF OpenedInv, Fresh, SameEnds, SameIn
  <2>3. QED
    BY <1>1, <1>2, <1>3, <1>0, <2>1, <2>2 DEF OpenedInv
<1>8. CloserInv'
  BY <1>1, <1>2, <1>3 DEF CloserInv, SameEnds
<1>9. ReaderInv'
  BY <1>1, <1>2, <1>3 DEF ReaderInv, IsOpen, SameEnds, At
<1>10. MapInv'
  BY <1>1, <1>2, <1>3 DEF MapInv, Going, IsOpen, CloserInv, SameEnds, At
<1>11. WaitInv'
  BY <1>1, <1>2, <1>3 DEF WaitInv, Going, SameEnds, SameIn, SameOut, At
<1>12. WindowsAgree'
  BY <1>1, <1>2, <1>3 DEF WindowsAgree, SameOut, SameWork, At
<1>13. ConnCredit'
  <2>1. \A t \in Streams : st[t].buf \in Nat /\ st[t].hand \in Nat
    BY Fields DEF TypeOK
  <2>2. \A t \in Streams : Owed(t) \in Int /\ Owed(t)' = Owed(t)
    BY <1>1, <1>2, <1>3, <2>1 DEF Owed, SameIn, SameWork, At
  <2>3. OwedUpTo'[MaxStreams] = OwedUpTo[MaxStreams]
    BY <2>2, HeldSame
  <2>4. QED
    BY <1>1, <1>2, <1>3, <2>3 DEF ConnCredit, InReader
<1>14. StreamCredit'
  BY <1>1, <1>2, <1>3 DEF StreamCredit, InReader, SameIn, SameEnds, At
<1>15. QED
  BY <1>4, <1>5, <1>6, <1>7, <1>8, <1>9, <1>10, <1>11, <1>12, <1>13, <1>14

\* RST_STREAM for a stream that is no longer there changes nothing.
LEMMA RecvRstOver ==
    ASSUME IInv, faults' \in Nat, NEW s \in Streams, RecvRst(s), s \notin streams
    PROVE  IInv'
<1> USE DEF IInv
<1> DEFINE y == [st[s] EXCEPT !.peer = "done"]
<1>1. /\ y \in Stream /\ st' = [st EXCEPT ![s] = y]
      /\ y.peer = "done"
      /\ SameEnds(y, st[s]) /\ SameIn(y, st[s]) /\ SameOut(y, st[s]) /\ SameWork(y, st[s])
      /\ y.pc = st[s].pc /\ y.asleep = st[s].asleep
  <2>1. st[s] \in Stream
    BY DEF TypeOK
  <2>2. y \in Stream
    BY <2>1, FieldsSet, Fields DEF SetFlags, SetNumbers, SetPoints, Pcs
  <2>3. st' = [st EXCEPT ![s] = y]
    BY <2>1 DEF RecvRst, TypeOK, Stream
  <2>4. QED
    BY <2>1, <2>2, <2>3 DEF Stream, SameEnds, SameIn, SameOut, SameWork
<1> HIDE DEF y
<1>2. /\ s < next /\ s \notin streams
      /\ UNCHANGED <<streams, next, shutdown, closed, outLeft, unacked, credit, reader,
                    settle, setting, closer, gone>>
  BY DEF RecvRst, Created, inVars, settingVars
<1>3. /\ st' \in [Streams -> Stream] /\ st'[s] = y
      /\ \A t \in Streams \ {s} : st'[t] = st[t]
  BY <1>1 DEF TypeOK
<1>4. TypeOK'
  BY <1>1, <1>2, <1>3 DEF TypeOK
<1>5. PartTypes'
  BY <1>1, <1>2, <1>3 DEF PartTypes, Reader, SameWork, At
<1>6. LocalInv'
  BY <1>1, <1>2, <1>3 DEF LocalInv, Local, IsOpen, SameEnds, SameIn, At
<1>7. OpenedInv'
  BY <1>1, <1>2, <1>3 DEF OpenedInv
<1>8. CloserInv'
  BY <1>1, <1>2, <1>3 DEF CloserInv, SameEnds
<1>9. ReaderInv'
  BY <1>1, <1>2, <1>3 DEF ReaderInv, IsOpen, SameEnds, At
<1>10. MapInv'
  BY <1>1, <1>2, <1>3 DEF MapInv, Going, IsOpen, CloserInv, SameEnds, At
<1>11. WaitInv'
  BY <1>1, <1>2, <1>3 DEF WaitInv, Going, SameEnds, SameIn, SameOut, At
<1>12. WindowsAgree'
  BY <1>1, <1>2, <1>3 DEF WindowsAgree, SameOut, SameWork, At
<1>13. ConnCredit'
  <2>1. \A t \in Streams : st[t].buf \in Nat /\ st[t].hand \in Nat
    BY Fields DEF TypeOK
  <2>2. \A t \in Streams : Owed(t) \in Int
    BY <2>1 DEF Owed
  <2>3. Owed(s)' = Owed(s)
    BY <1>1, <1>2, <1>3 DEF Owed, SameIn, SameWork, At
  <2>4. \A t \in Streams \ {s} : Owed(t)' = Owed(t)
    BY <1>1, <1>2, <1>3 DEF Owed
  <2>5. OwedUpTo'[MaxStreams] = OwedUpTo[MaxStreams]
    BY <2>2, <2>3, <2>4, HeldSame
  <2>6. QED
    BY <1>1, <1>2, <1>3, <2>5 DEF ConnCredit, InReader
<1>14. StreamCredit'
  BY <1>1, <1>2, <1>3 DEF StreamCredit, InReader, SameIn, SameEnds, At
<1>15. QED
  BY <1>4, <1>5, <1>6, <1>7, <1>8, <1>9, <1>10, <1>11, <1>12, <1>13, <1>14

\* rstStream, whichever way it goes.
LEMMA RecvRstKeeps ==
    ASSUME IInv, faults' \in Nat, NEW s \in Streams, RecvRst(s)
    PROVE  IInv'
  BY RecvRstOpen, RecvRstOver

-----------------------------------------------------------------------------
(* Data, settings, and close(). *)

\* Data for a stream in the map is in the reader's hand.
LEMMA RecvDataOpen ==
    ASSUME IInv, faults' \in Nat, NEW s \in Streams, NEW fin \in BOOLEAN,
           NEW n \in 0..MaxReply[next][s], RecvData(s, n, fin), s \in streams
    PROVE  IInv'
<1> USE DEF IInv
<1>0. /\ 0 \in 0..MaxStreams /\ s \in 0..MaxStreams /\ n \in Nat /\ s < next /\ s \in Int
      /\ n <= credit /\ credit \in Nat /\ unacked \in Nat /\ st[s].sent \in Nat
      /\ st[s].credit \in Int /\ st[s].unacked \in Nat
  <2>1. MaxStreams \in Nat /\ s \in 0..MaxStreams /\ s \in Int /\ MaxReply[next][s] \in Nat
    <3>1. s \in 1..MaxStreams /\ next \in 1..(MaxStreams + 1) /\ MaxStreams \in Nat
      BY Http2Assumption DEF Streams, TypeOK
    <3>2. MaxReply[next] \in [1..MaxStreams -> Nat]
      BY <3>1, Http2Assumption
    <3>3. MaxReply[next][s] \in Nat
      BY <3>1, <3>2
    <3>4. QED
      BY <3>1, <3>3
  <2>2. n \in Nat
    BY <2>1
  <2>3. s < next
    BY DEF OpenedInv, Fresh, RecvData
  <2>4. st[s].sent \in Nat /\ st[s].credit \in Int /\ st[s].unacked \in Nat
    BY Fields DEF TypeOK
  <2>5. QED
    BY <2>1, <2>2, <2>3, <2>4 DEF TypeOK, RecvData
<1> DEFINE y == [st[s] EXCEPT !.credit = @ - n, !.sent = @ + n, !.peer = IF fin THEN "done" ELSE @]
<1>1. /\ y \in Stream /\ st' = [st EXCEPT ![s] = y]
      /\ y.credit = st[s].credit - n
      /\ SameEnds(y, st[s]) /\ y.buf = st[s].buf /\ y.unacked = st[s].unacked
      /\ SameOut(y, st[s]) /\ SameWork(y, st[s]) /\ y.pc = st[s].pc /\ y.asleep = st[s].asleep
  <2>1. st[s] \in Stream
    BY DEF TypeOK
  <2>2. y \in Stream
    <3>1. st[s].credit - n \in Int /\ st[s].sent + n \in Nat
      BY <1>0
    <3>2. QED
      BY <2>1, <3>1, FieldsSet, Fields DEF SetNumbers, SetPoints
  <2>3. st' = [st EXCEPT ![s] = y]
    BY <2>1 DEF RecvData, TypeOK, Stream
  <2>4. QED
    BY <2>1, <2>2, <2>3 DEF Stream, SameEnds, SameIn, SameOut, SameWork
<1> HIDE DEF y
<1>2. /\ reader.pc = "idle" /\ s \in streams /\ st[s].peer = "open" /\ credit' = credit - n
      /\ \/ n > 0 /\ reader' = [pc |-> "store", s |-> s, n |-> n, fin |-> fin, who |-> {}]
         \/ n = 0 /\ reader' = [pc |-> "finish", s |-> s, n |-> n, fin |-> fin, who |-> {}]
      /\ UNCHANGED <<streams, next, shutdown, closed, outLeft, unacked, settle, setting,
                    closer, gone>>
  BY <1>0 DEF RecvData, Receives, Reads, inVars, settingVars
<1>3. /\ st' \in [Streams -> Stream] /\ st'[s] = y
      /\ \A t \in Streams \ {s} : st'[t] = st[t]
  BY <1>1 DEF TypeOK
<1>4. TypeOK'
  BY <1>1, <1>2, <1>3, <1>0 DEF TypeOK
<1>5. PartTypes'
  <2>1. reader' \in Reader
    BY <1>0, <1>2, ReaderRecord
  <2>2. QED
    BY <1>1, <1>2, <1>3, <2>1 DEF PartTypes, SameWork
<1>6. LocalInv'
  BY <1>1, <1>2, <1>3 DEF LocalInv, Local, IsOpen, SameEnds, SameIn, At
<1>7. OpenedInv'
  <2>1. \A t \in Streams : IF t < next THEN st'[t].pc # "new" ELSE Fresh(st'[t])
    BY <1>0, <1>1, <1>3 DEF OpenedInv
  <2>2. reader'.s < next /\ reader'.who = {}
    BY <1>0, <1>2
  <2>3. QED
    BY <1>2, <2>1, <2>2 DEF OpenedInv
<1>8. CloserInv'
  BY <1>1, <1>2, <1>3 DEF CloserInv, SameEnds
<1>9. ReaderInv'
  BY <1>1, <1>2, <1>3 DEF ReaderInv, IsOpen, SameEnds, At
<1>10. MapInv'
  BY <1>1, <1>2, <1>3 DEF MapInv, Going, IsOpen, CloserInv, SameEnds, At
<1>11. WaitInv'
  BY <1>1, <1>2, <1>3 DEF WaitInv, Going, SameEnds, SameIn, SameOut, At
<1>12. WindowsAgree'
  BY <1>1, <1>2, <1>3 DEF WindowsAgree, SameOut, SameWork, At
<1>13. ConnCredit'
  <2>1. \A t \in Streams : st[t].buf \in Nat /\ st[t].hand \in Nat
    BY Fields DEF TypeOK
  <2>2. \A t \in Streams : Owed(t) \in Int
    BY <2>1 DEF Owed
  <2>3. Owed(s)' = Owed(s)
    BY <1>1, <1>2, <1>3 DEF Owed, SameWork
  <2>4. \A t \in Streams \ {s} : Owed(t)' = Owed(t)
    BY <1>1, <1>2, <1>3 DEF Owed
  <2>5. OwedUpTo'[MaxStreams] = OwedUpTo[MaxStreams] /\ OwedUpTo[MaxStreams] \in Int
    BY <2>2, <2>3, <2>4, HeldSame
  <2>6. InReader = 0 /\ InReader' = n
    BY <1>2 DEF InReader
  <2>7. QED
    BY <1>0, <1>2, <2>5, <2>6 DEF ConnCredit
<1>14. StreamCredit'
  <2>1. /\ st[s].buf \in Int /\ st[s].credit \in Int /\ st[s].unacked \in Int
        /\ Window \in Int
    BY Fields, Http2Assumption DEF TypeOK
  <2>2. \A t \in streams : ~st[t].err /\ ~st[t].inClosed =>
            st[t].credit + st[t].unacked + st[t].buf + 0 = Window
    BY <1>2 DEF StreamCredit, InReader
  <2>3. reader'.s = s /\ InReader' = n
    BY <1>2 DEF InReader
  <2>4. ASSUME NEW t \in streams', ~st'[t].err, ~st'[t].inClosed
        PROVE  st'[t].credit + st'[t].unacked + st'[t].buf + (IF t = s THEN n ELSE 0) = Window
    <3>1. CASE t = s
      <4>1. st[s].credit + st[s].unacked + st[s].buf + 0 = Window
        BY <1>1, <1>2, <1>3, <2>2, <2>4, <3>1 DEF SameEnds
      <4>2. QED
        BY <1>1, <1>2, <1>3, <1>0, <2>1, <3>1, <4>1
    <3>2. CASE t # s
      <4>1. st'[t] = st[t] /\ t \in streams
        BY <1>1, <1>2, <1>3, <3>2 DEF TypeOK
      <4>2. QED
        BY <2>2, <2>4, <3>2, <4>1
    <3>3. QED
      BY <3>1, <3>2
  <2>5. QED
    BY <2>3, <2>4 DEF StreamCredit
<1>15. QED
  BY <1>4, <1>5, <1>6, <1>7, <1>8, <1>9, <1>10, <1>11, <1>12, <1>13, <1>14

\* Data for a stream that is no longer there is given back at once.
LEMMA RecvDataLate ==
    ASSUME IInv, faults' \in Nat, NEW s \in Streams, NEW fin \in BOOLEAN,
           NEW n \in 0..MaxReply[next][s], RecvData(s, n, fin), s \notin streams
    PROVE  IInv'
<1> USE DEF IInv
<1>0. /\ 0 \in 0..MaxStreams /\ s \in 0..MaxStreams /\ n \in Nat /\ s < next /\ s \in Int
      /\ n <= credit /\ credit \in Nat /\ unacked \in Nat /\ st[s].sent \in Nat
      /\ st[s].credit \in Int /\ st[s].unacked \in Nat
  <2>1. MaxStreams \in Nat /\ s \in 0..MaxStreams /\ s \in Int /\ MaxReply[next][s] \in Nat
    <3>1. s \in 1..MaxStreams /\ next \in 1..(MaxStreams + 1) /\ MaxStreams \in Nat
      BY Http2Assumption DEF Streams, TypeOK
    <3>2. MaxReply[next] \in [1..MaxStreams -> Nat]
      BY <3>1, Http2Assumption
    <3>3. MaxReply[next][s] \in Nat
      BY <3>1, <3>2
    <3>4. QED
      BY <3>1, <3>3
  <2>2. n \in Nat
    BY <2>1
  <2>3. s < next
    BY DEF OpenedInv, Fresh, RecvData
  <2>4. st[s].sent \in Nat /\ st[s].credit \in Int /\ st[s].unacked \in Nat
    BY Fields DEF TypeOK
  <2>5. QED
    BY <2>1, <2>2, <2>3, <2>4 DEF TypeOK, RecvData
<1>a. credit' \in Nat /\ unacked' \in Nat /\ credit' + unacked' = credit + unacked
  <2>1. credit - n \in Nat /\ GiveBack(n, credit - n)
    BY <1>0 DEF RecvData
  <2>2. credit' \in Nat /\ unacked' \in Nat /\ credit' + unacked' = credit - n + unacked + n
    BY <1>0, <2>1, GivenBack
  <2>3. credit \in Int /\ unacked \in Int /\ n \in Int
    BY <1>0
  <2>4. \A a, b, c \in Int : a - b + c + b = a + c
    OBVIOUS
  <2>5. QED
    BY <2>2, <2>3, <2>4
<1> DEFINE y == [st[s] EXCEPT !.credit = @ - n, !.sent = @ + n, !.peer = IF fin THEN "done" ELSE @]
<1>1. /\ y \in Stream /\ st' = [st EXCEPT ![s] = y]
      /\ y.credit = st[s].credit - n
      /\ SameEnds(y, st[s]) /\ y.buf = st[s].buf /\ y.unacked = st[s].unacked
      /\ SameOut(y, st[s]) /\ SameWork(y, st[s]) /\ y.pc = st[s].pc /\ y.asleep = st[s].asleep
  <2>1. st[s] \in Stream
    BY DEF TypeOK
  <2>2. y \in Stream
    <3>1. st[s].credit - n \in Int /\ st[s].sent + n \in Nat
      BY <1>0
    <3>2. QED
      BY <2>1, <3>1, FieldsSet, Fields DEF SetNumbers, SetPoints
  <2>3. st' = [st EXCEPT ![s] = y]
    BY <2>1 DEF RecvData, TypeOK, Stream
  <2>4. QED
    BY <2>1, <2>2, <2>3 DEF Stream, SameEnds, SameIn, SameOut, SameWork
<1> HIDE DEF y
<1>2. /\ s \notin streams /\ st[s].peer = "open" /\ credit' \in Nat /\ unacked' \in Nat
      /\ credit' + unacked' = credit + unacked
      /\ UNCHANGED <<streams, next, shutdown, closed, outLeft, reader, settle, setting,
                    closer, gone>>
  BY <1>a DEF RecvData, Receives, Reads, inVars, settingVars
<1>3. /\ st' \in [Streams -> Stream] /\ st'[s] = y
      /\ \A t \in Streams \ {s} : st'[t] = st[t]
  BY <1>1 DEF TypeOK
<1>4. TypeOK'
  BY <1>1, <1>2, <1>3 DEF TypeOK
<1>5. PartTypes'
  BY <1>1, <1>2, <1>3 DEF PartTypes, Reader, SameWork, At
<1>6. LocalInv'
  BY <1>1, <1>2, <1>3 DEF LocalInv, Local, IsOpen, SameEnds, SameIn, At
<1>7. OpenedInv'
  BY <1>1, <1>2, <1>3, <1>0 DEF OpenedInv
<1>8. CloserInv'
  BY <1>1, <1>2, <1>3 DEF CloserInv, SameEnds
<1>9. ReaderInv'
  BY <1>1, <1>2, <1>3 DEF ReaderInv, IsOpen, SameEnds, At
<1>10. MapInv'
  BY <1>1, <1>2, <1>3 DEF MapInv, Going, IsOpen, CloserInv, SameEnds, At
<1>11. WaitInv'
  BY <1>1, <1>2, <1>3 DEF WaitInv, Going, SameEnds, SameIn, SameOut, At
<1>12. WindowsAgree'
  BY <1>1, <1>2, <1>3 DEF WindowsAgree, SameOut, SameWork, At
<1>13. ConnCredit'
  <2>1. \A t \in Streams : st[t].buf \in Nat /\ st[t].hand \in Nat
    BY Fields DEF TypeOK
  <2>2. \A t \in Streams : Owed(t) \in Int
    BY <2>1 DEF Owed
  <2>3. Owed(s)' = Owed(s)
    BY <1>1, <1>2, <1>3 DEF Owed, SameWork
  <2>4. \A t \in Streams \ {s} : Owed(t)' = Owed(t)
    BY <1>1, <1>2, <1>3 DEF Owed
  <2>5. OwedUpTo'[MaxStreams] = OwedUpTo[MaxStreams] /\ OwedUpTo[MaxStreams] \in Int
    BY <2>2, <2>3, <2>4, HeldSame
  <2>6. InReader' = InReader
    BY <1>2 DEF InReader
  <2>7. QED
    BY <1>0, <1>2, <2>5, <2>6 DEF ConnCredit
<1>14. StreamCredit'
  BY <1>1, <1>2, <1>3 DEF StreamCredit, InReader, SameIn, SameEnds, At
<1>15. QED
  BY <1>4, <1>5, <1>6, <1>7, <1>8, <1>9, <1>10, <1>11, <1>12, <1>13, <1>14

\* data, whichever way it goes.
LEMMA RecvDataKeeps ==
    ASSUME IInv, faults' \in Nat, NEW s \in Streams, NEW fin \in BOOLEAN,
           NEW n \in 0..MaxReply[next][s], RecvData(s, n, fin)
    PROVE  IInv'
  BY RecvDataOpen, RecvDataLate

\* The change of the window is due to exactly the streams in the map.
LEMMA ApplySettingsKeeps ==
    ASSUME IInv, faults' \in Nat, ApplySettings
    PROVE  IInv'
<1> USE DEF IInv
<1> DEFINE delta == settle.to - setting
<1>1. /\ st' \in [Streams -> Stream] /\ delta \in Int /\ settle.to \in Sizes
      /\ \A t \in Streams :
           /\ SameEnds(st'[t], st[t]) /\ SameIn(st'[t], st[t]) /\ SameWork(st'[t], st[t])
           /\ st'[t].pc = st[t].pc /\ st'[t].peer = st[t].peer /\ st'[t].asleep = st[t].asleep
           /\ st'[t].win = st[t].win
           /\ st'[t].peerWin = IF t \in streams THEN st[t].peerWin + delta ELSE st[t].peerWin
  <2>1. delta \in Int /\ settle.to \in Sizes
    BY Http2Assumption DEF TypeOK, CloserInv, ApplySettings
  <2>2. st' = [t \in Streams |->
                 IF t \in streams THEN [st[t] EXCEPT !.peerWin = st[t].peerWin + delta] ELSE st[t]]
    BY DEF ApplySettings
  <2> HIDE DEF delta
  <2>3. ASSUME NEW t \in Streams
        PROVE  /\ st'[t] \in Stream
               /\ SameEnds(st'[t], st[t]) /\ SameIn(st'[t], st[t]) /\ SameWork(st'[t], st[t])
               /\ st'[t].pc = st[t].pc /\ st'[t].peer = st[t].peer /\ st'[t].asleep = st[t].asleep
               /\ st'[t].win = st[t].win
               /\ st'[t].peerWin = IF t \in streams THEN st[t].peerWin + delta ELSE st[t].peerWin
    <3>1. st[t] \in Stream
      BY DEF TypeOK
    <3>2. CASE t \in streams
      <4>1. st[t].peerWin + delta \in Int
        BY <2>1, <3>1, Fields
      <4>2. st'[t] = [st[t] EXCEPT !.peerWin = st[t].peerWin + delta]
        BY <2>2, <3>2
      <4>3. st'[t] \in Stream
        BY <3>1, <4>1, <4>2, FieldsSet DEF SetNumbers
      <4>4. QED
        BY <3>1, <3>2, <4>2, <4>3 DEF Stream, SameEnds, SameIn, SameWork
    <3>3. CASE t \notin streams
      BY <2>2, <3>1, <3>3 DEF SameEnds, SameIn, SameWork
    <3>4. QED
      BY <3>2, <3>3
  <2>4. st' \in [Streams -> Stream]
    BY <2>2, <2>3
  <2>5. QED
    BY <2>1, <2>3, <2>4
<1>2. /\ settle.pc = "queued" /\ setting' = settle.to
      /\ settle' = [pc |-> "adding", to |-> settle.to, delta |-> delta, who |-> streams]
      /\ UNCHANGED <<streams, next, shutdown, closed, outLeft, unacked, credit, reader,
                    closer, gone>>
  BY DEF ApplySettings, PartTypes, inVars, settingVars
<1>3. /\ streams \subseteq Streams
      /\ reader.pc \notin {"idle", "refuse"} => reader.s \in Streams
      /\ closer.who # {} => Min(closer.who) \in Streams
  BY <1>2, MinIn DEF TypeOK, PartTypes
<1> HIDE DEF delta
<1>4. TypeOK'
  BY <1>1, <1>2, <1>3 DEF TypeOK
<1>5. PartTypes'
  <2>1. settle.to \in Nat /\ streams \in SUBSET Streams
    BY DEF PartTypes, TypeOK
  <2>2. QED
    BY <1>1, <1>2, <1>3, <2>1 DEF PartTypes, SameWork
<1>6. LocalInv'
  BY <1>1, <1>2, <1>3 DEF LocalInv, Local, IsOpen, SameEnds, SameIn, At
<1>7. OpenedInv'
  BY <1>1, <1>2, <1>3 DEF OpenedInv, Fresh, SameIn, SameEnds, At
<1>8. CloserInv'
  BY <1>1, <1>2, <1>3 DEF CloserInv, SameEnds
<1>9. ReaderInv'
  BY <1>1, <1>2, <1>3 DEF ReaderInv, IsOpen, SameEnds, At
<1>10. MapInv'
  BY <1>1, <1>2, <1>3 DEF MapInv, Going, IsOpen, CloserInv, SameEnds, At
<1>11. WaitInv'
  BY <1>1, <1>2, <1>3 DEF WaitInv, Going, SameEnds, SameIn, SameOut, At
<1>12. WindowsAgree'
  <2>1. settle.who = {}
    BY <1>2 DEF CloserInv
  <2>2. \A t \in streams :
            st[t].win + (IF st[t].pc \in {"send", "unsent"} THEN st[t].hand ELSE 0) + 0
              = st[t].peerWin
    BY <2>1 DEF WindowsAgree
  <2>3. ASSUME NEW t \in streams
        PROVE  st[t].win + (IF st[t].pc \in {"send", "unsent"} THEN st[t].hand ELSE 0) + delta
                 = st[t].peerWin + delta
    <3>1. st[t].win \in Int /\ st[t].hand \in Int /\ st[t].peerWin \in Int
      BY Fields DEF TypeOK
    <3>2. QED
      BY <1>1, <2>2, <3>1
  <2>4. QED
    BY <1>1, <1>2, <1>3, <2>3 DEF WindowsAgree, SameWork
<1>13. ConnCredit'
  <2>1. \A t \in Streams : st[t].buf \in Nat /\ st[t].hand \in Nat
    BY Fields DEF TypeOK
  <2>2. \A t \in Streams : Owed(t) \in Int /\ Owed(t)' = Owed(t)
    BY <1>1, <1>2, <1>3, <2>1 DEF Owed, SameIn, SameWork
  <2>3. OwedUpTo'[MaxStreams] = OwedUpTo[MaxStreams]
    BY <2>2, HeldSame
  <2>4. QED
    BY <1>1, <1>2, <1>3, <2>3 DEF ConnCredit, InReader
<1>14. StreamCredit'
  BY <1>1, <1>2, <1>3 DEF StreamCredit, InReader, SameIn, SameEnds, At
<1>15. QED
  BY <1>4, <1>5, <1>6, <1>7, <1>8, <1>9, <1>10, <1>11, <1>12, <1>13, <1>14

\* A stream's window changes; a window that has grown wakes its writer.
LEMMA NotifyOne ==
    ASSUME IInv, faults' \in Nat, NEW s \in Streams, NotifyStream, s = Min(settle.who),
           s \in settle.who
    PROVE  IInv'
<1> USE DEF IInv
<1>0. settle.delta \in Int /\ st[s].win \in Int /\ st[s].hand \in Nat /\ st[s].peerWin \in Int
  BY Fields DEF TypeOK, PartTypes
<1> DEFINE x == [st[s] EXCEPT !.win = @ + settle.delta]
<1> DEFINE y == AddBytes(st[s], settle.delta)
<1>1. /\ y \in Stream /\ st' = [st EXCEPT ![s] = y]
      /\ y.win = st[s].win + settle.delta
      /\ \/ settle.delta <= 0 /\ y.asleep = st[s].asleep
         \/ y.asleep = IF st[s].asleep = "stream" THEN "no" ELSE st[s].asleep
      /\ SameEnds(y, st[s]) /\ SameIn(y, st[s]) /\ y.peerWin = st[s].peerWin
      /\ SameWork(y, st[s]) /\ y.pc = st[s].pc /\ y.peer = st[s].peer
  <2>1. st[s] \in Stream
    BY DEF TypeOK
  <2>2. y \in Stream
    <3>1. x \in Stream
      <4>1. st[s].win + settle.delta \in Int
        BY <1>0
      <4>2. QED
        BY <2>1, <4>1, FieldsSet DEF SetNumbers
    <3>2. QED
      BY <3>1, Fields, FieldsSet DEF SetPoints, Woken, AddBytes
  <2>3. st' = [st EXCEPT ![s] = y]
    BY DEF NotifyStream
  <2>4. QED
    BY <1>0, <2>1, <2>2, <2>3 DEF Stream, SameEnds, SameIn, SameOut, SameWork, Woken, AddBytes
<1> HIDE DEF y, x
<1>2. /\ s \in settle.who
      /\ settle' = [pc |-> "adding", to |-> settle.to, delta |-> settle.delta, 
                  who |-> settle.who \ {s}]
      /\ UNCHANGED <<streams, next, shutdown, closed, outLeft, unacked, credit, reader,
                    setting, closer, gone>>
  BY DEF NotifyStream, PartTypes, inVars, settingVars
<1>3. /\ st' \in [Streams -> Stream] /\ st'[s] = y
      /\ \A t \in Streams \ {s} : st'[t] = st[t]
  BY <1>1 DEF TypeOK
<1>4. TypeOK'
  BY <1>1, <1>2, <1>3 DEF TypeOK
<1>5. PartTypes'
  BY <1>1, <1>2, <1>3 DEF PartTypes, Reader, SameWork, At
<1>6. LocalInv'
  BY <1>1, <1>2, <1>3 DEF LocalInv, Local, IsOpen, SameEnds, SameIn, At
<1>7. OpenedInv'
  BY <1>1, <1>2, <1>3 DEF OpenedInv, Fresh, SameIn, SameEnds, At
<1>8. CloserInv'
  BY <1>1, <1>2, <1>3 DEF CloserInv, SameEnds
<1>9. ReaderInv'
  BY <1>1, <1>2, <1>3 DEF ReaderInv, IsOpen, SameEnds, At
<1>10. MapInv'
  BY <1>1, <1>2, <1>3 DEF MapInv, Going, IsOpen, CloserInv, SameEnds, At
<1>11. WaitInv'
  BY <1>1, <1>2, <1>3, <1>0 DEF WaitInv, Going, SameEnds, SameIn, SameOut, At
<1>12. WindowsAgree'
  <2>1. \A t \in streams' \ {s} : t \in settle'.who <=> t \in settle.who
    BY <1>2
  <2>2. ASSUME s \in streams
        PROVE  y.win + (IF y.pc \in {"send", "unsent"} THEN y.hand ELSE 0) + 0 = y.peerWin
    <3>1. st[s].win + (IF st[s].pc \in {"send", "unsent"} THEN st[s].hand ELSE 0) + settle.delta
            = st[s].peerWin
      BY <1>2, <2>2 DEF WindowsAgree
    <3>2. QED
      BY <1>0, <1>1, <3>1 DEF SameWork
  <2>3. QED
    BY <1>1, <1>2, <1>3, <2>1, <2>2 DEF WindowsAgree, TypeOK
<1>13. ConnCredit'
  <2>1. \A t \in Streams : st[t].buf \in Nat /\ st[t].hand \in Nat
    BY Fields DEF TypeOK
  <2>2. \A t \in Streams : Owed(t) \in Int
    BY <2>1 DEF Owed
  <2>3. Owed(s)' = Owed(s)
    BY <1>1, <1>2, <1>3 DEF Owed, SameIn, SameWork, At
  <2>4. \A t \in Streams \ {s} : Owed(t)' = Owed(t)
    BY <1>1, <1>2, <1>3 DEF Owed
  <2>5. OwedUpTo'[MaxStreams] = OwedUpTo[MaxStreams]
    BY <2>2, <2>3, <2>4, HeldSame
  <2>6. QED
    BY <1>1, <1>2, <1>3, <2>5 DEF ConnCredit, InReader
<1>14. StreamCredit'
  BY <1>1, <1>2, <1>3 DEF StreamCredit, InReader, SameIn, SameEnds, At
<1>15. QED
  BY <1>4, <1>5, <1>6, <1>7, <1>8, <1>9, <1>10, <1>11, <1>12, <1>13, <1>14

\* No stream is left whose window has to change.
LEMMA NotifyEnds ==
    ASSUME IInv, faults' \in Nat, NotifyStream, settle.who = {}
    PROVE  IInv'
<1> USE DEF IInv
<1>1. /\ settle.who = {} /\ settle' = [pc |-> "idle", to |-> 0, delta |-> 0, who |-> {}]
      /\ UNCHANGED <<st, streams, next, shutdown, closed, outLeft, unacked, credit,
                    reader, setting, closer, gone>>
  BY  DEF NotifyStream, Settled, inVars, settingVars
<1>2. TypeOK'
  BY <1>1 DEF TypeOK
<1>3. PartTypes'
  BY <1>1 DEF PartTypes, Reader, SameWork, At
<1>4. LocalInv'
  BY <1>1 DEF LocalInv, Local, IsOpen, SameEnds, SameIn, At
<1>5. OpenedInv'
  BY <1>1 DEF OpenedInv, Fresh, SameIn, SameEnds, At
<1>6. CloserInv'
  BY <1>1 DEF CloserInv, SameEnds
<1>7. ReaderInv'
  BY <1>1 DEF ReaderInv, IsOpen, SameEnds, At
<1>8. MapInv'
  BY <1>1 DEF MapInv, Going, IsOpen, CloserInv, SameEnds, At
<1>9. WaitInv'
  BY <1>1 DEF WaitInv, Going, SameEnds, SameIn, SameOut, At
<1>10. WindowsAgree'
  BY <1>1 DEF WindowsAgree, SameOut, SameWork, At
<1>11. ConnCredit'
  <2>1. \A t \in Streams : st[t].buf \in Nat /\ st[t].hand \in Nat
    BY Fields DEF TypeOK
  <2>2. \A t \in Streams : Owed(t) \in Int /\ Owed(t)' = Owed(t)
    BY <1>1, <2>1 DEF Owed
  <2>3. OwedUpTo'[MaxStreams] = OwedUpTo[MaxStreams]
    BY <2>2, HeldSame
  <2>4. QED
    BY <1>1, <2>3 DEF ConnCredit, InReader
<1>12. StreamCredit'
  BY <1>1 DEF StreamCredit, InReader, SameIn, SameEnds, At
<1>13. QED
  BY <1>2, <1>3, <1>4, <1>5, <1>6, <1>7, <1>8, <1>9, <1>10, <1>11, <1>12

\* The executor's loop, whichever way it goes.
LEMMA NotifyStreamKeeps ==
    ASSUME IInv, faults' \in Nat, NotifyStream
    PROVE  IInv'
<1>1. settle.who \in SUBSET Streams
  BY DEF IInv, PartTypes
<1>2. CASE settle.who # {}
  BY <1>1, <1>2, MinIn, NotifyOne
<1>3. QED
  BY <1>2, NotifyEnds

\* close() fails a stream and wakes its call.
LEMMA CloseOne ==
    ASSUME IInv, faults' \in Nat, NEW s \in Streams, CloseStream, s = Min(closer.who),
           s \in closer.who, Closable(st[s])
    PROVE  IInv'
<1> USE DEF IInv
<1> DEFINE y == Failed(st[s])
<1>1. /\ y \in Stream /\ st' = [st EXCEPT ![s] = y]
      /\ y.err
      /\ y.asleep = IF st[s].asleep = "stream" THEN "no" ELSE st[s].asleep
      /\ y.killer = st[s].killer /\ y.header = st[s].header /\ y.responded = st[s].responded
      /\ y.outFinished = st[s].outFinished /\ y.outClosed = st[s].outClosed
      /\ y.inFinished = st[s].inFinished /\ y.inClosed = st[s].inClosed /\ SameIn(y, st[s])
      /\ SameOut(y, st[s]) /\ SameWork(y, st[s]) /\ y.pc = st[s].pc /\ y.peer = st[s].peer
  <2>1. st[s] \in Stream
    BY DEF TypeOK
  <2>2. y \in Stream
    BY ZenonT(60), <2>1 DEF Stream, Failed, Woken
  <2>3. st' = [st EXCEPT ![s] = y]
    BY DEF CloseStream
  <2>4. QED
    BY <2>1, <2>2, <2>3 DEF Stream, SameEnds, SameIn, SameOut, SameWork, Failed, Woken
<1> HIDE DEF y
<1>2. /\ closer.pc = "streams" /\ s = Min(closer.who) /\ s \in closer.who
      /\ closer' = [pc |-> "remove", who |-> closer.who]
      /\ UNCHANGED <<streams, next, shutdown, closed, outLeft, unacked, credit, reader,
                    settle, setting, gone>>
  BY DEF CloseStream, PartTypes, inVars, settingVars
<1>3. /\ st' \in [Streams -> Stream] /\ st'[s] = y
      /\ \A t \in Streams \ {s} : st'[t] = st[t]
  BY <1>1 DEF TypeOK
<1>4. TypeOK'
  BY <1>1, <1>2, <1>3 DEF TypeOK
<1>5. PartTypes'
  BY <1>1, <1>2, <1>3 DEF PartTypes, Reader, SameWork, At
<1>6. LocalInv'
  BY <1>1, <1>2, <1>3 DEF LocalInv, Local, IsOpen, SameEnds, SameIn, At
<1>7. OpenedInv'
  BY <1>1, <1>2, <1>3 DEF OpenedInv
<1>8. CloserInv'
  BY <1>1, <1>2, <1>3 DEF CloserInv, SameEnds
<1>9. ReaderInv'
  BY <1>1, <1>2, <1>3 DEF ReaderInv, IsOpen, SameEnds, At
<1>10. MapInv'
  BY <1>1, <1>2, <1>3 DEF MapInv, Going, IsOpen, CloserInv, SameEnds, At
<1>11. WaitInv'
  BY <1>1, <1>2, <1>3 DEF WaitInv, Going, SameEnds, SameIn, SameOut, At
<1>12. WindowsAgree'
  BY <1>1, <1>2, <1>3 DEF WindowsAgree, SameOut, SameWork, At
<1>13. ConnCredit'
  <2>1. \A t \in Streams : st[t].buf \in Nat /\ st[t].hand \in Nat
    BY Fields DEF TypeOK
  <2>2. \A t \in Streams : Owed(t) \in Int
    BY <2>1 DEF Owed
  <2>3. Owed(s)' = Owed(s)
    BY <1>1, <1>2, <1>3 DEF Owed, SameIn, SameWork, At
  <2>4. \A t \in Streams \ {s} : Owed(t)' = Owed(t)
    BY <1>1, <1>2, <1>3 DEF Owed
  <2>5. OwedUpTo'[MaxStreams] = OwedUpTo[MaxStreams]
    BY <2>2, <2>3, <2>4, HeldSame
  <2>6. QED
    BY <1>1, <1>2, <1>3, <2>5 DEF ConnCredit, InReader
<1>14. StreamCredit'
  BY <1>1, <1>2, <1>3 DEF StreamCredit, InReader, SameIn, SameEnds, At
<1>15. QED
  BY <1>4, <1>5, <1>6, <1>7, <1>8, <1>9, <1>10, <1>11, <1>12, <1>13, <1>14

\* A stream that had failed, or had finished on both sides, is left alone: nobody waits on it.
LEMMA CloseNone ==
    ASSUME IInv, faults' \in Nat, CloseStream, ~Closable(st[Min(closer.who)])
    PROVE  IInv'
<1> USE DEF IInv
<1>0. Min(closer.who) \in Streams
  BY MinIn DEF PartTypes, CloseStream
<1>1. /\ closer.pc = "streams" /\ ~Closable(st[Min(closer.who)])
      /\ closer' = [pc |-> "streams", who |-> closer.who \ {Min(closer.who)}]
      /\ UNCHANGED <<st, streams, next, shutdown, closed, outLeft, unacked, credit,
                    reader, settle, setting, gone>>
  BY  DEF CloseStream, PartTypes, inVars, settingVars
<1>2. TypeOK'
  BY <1>1 DEF TypeOK
<1>3. PartTypes'
  BY <1>1 DEF PartTypes, Reader, SameWork, At
<1>4. LocalInv'
  BY <1>1 DEF LocalInv, Local, IsOpen, SameEnds, SameIn, At
<1>5. OpenedInv'
  BY <1>1 DEF OpenedInv, Fresh, SameIn, SameEnds, At
<1>6. CloserInv'
  BY <1>1 DEF CloserInv, SameEnds
<1>7. ReaderInv'
  BY <1>1 DEF ReaderInv, IsOpen, SameEnds, At
<1>8. MapInv'
  BY <1>1, <1>0 DEF MapInv, Going, IsOpen, CloserInv, SameEnds, At, LocalInv, Local,
     Closable
<1>9. WaitInv'
  BY <1>1, <1>0 DEF WaitInv, Going, SameEnds, SameIn, SameOut, At, LocalInv, Local, Closable
<1>10. WindowsAgree'
  BY <1>1 DEF WindowsAgree, SameOut, SameWork, At
<1>11. ConnCredit'
  <2>1. \A t \in Streams : st[t].buf \in Nat /\ st[t].hand \in Nat
    BY Fields DEF TypeOK
  <2>2. \A t \in Streams : Owed(t) \in Int /\ Owed(t)' = Owed(t)
    BY <1>1, <2>1 DEF Owed
  <2>3. OwedUpTo'[MaxStreams] = OwedUpTo[MaxStreams]
    BY <2>2, HeldSame
  <2>4. QED
    BY <1>1, <2>3 DEF ConnCredit, InReader
<1>12. StreamCredit'
  BY <1>1 DEF StreamCredit, InReader, SameIn, SameEnds, At
<1>13. QED
  BY <1>2, <1>3, <1>4, <1>5, <1>6, <1>7, <1>8, <1>9, <1>10, <1>11, <1>12

\* The loop of close(), whichever way it goes.
LEMMA CloseStreamKeeps ==
    ASSUME IInv, faults' \in Nat, CloseStream
    PROVE  IInv'
<1>1. Min(closer.who) \in closer.who /\ Min(closer.who) \in Streams
  BY MinIn DEF IInv, PartTypes, CloseStream
<1>2. QED
  BY <1>1, CloseOne, CloseNone

-----------------------------------------------------------------------------
(* All the steps. *)

\* The inductive invariant holds initially: no byte is held.
LEMMA InitInv == Init => IInv
<1> SUFFICES ASSUME Init PROVE IInv
  OBVIOUS
<1>1. /\ MaxStreams \in Nat /\ Window \in Nat /\ PeerWindow \in Nat
      /\ FirstSize \in Sizes /\ Streams = 1..MaxStreams
  BY Http2Assumption DEF Streams
<1>2. st \in [Streams -> Stream] /\ \A s \in Streams : st[s] = NewStreamState
  <2>1. NewStreamState \in Stream
    BY <1>1 DEF NewStreamState, Stream
  <2>2. QED
    BY <2>1 DEF Init
<1>3. \A s \in Streams :
         /\ st[s].pc = "new" /\ st[s].asleep = "no" /\ st[s].peer = "silent"
         /\ ~st[s].err /\ ~st[s].killer /\ ~st[s].outFinished /\ ~st[s].outClosed
         /\ ~st[s].inFinished /\ ~st[s].inClosed /\ ~st[s].header /\ ~st[s].responded
         /\ st[s].buf = 0 /\ st[s].unacked = 0 /\ st[s].credit = Window /\ st[s].hand = 0
  BY <1>2 DEF NewStreamState
<1>4. /\ streams = {} /\ next = 1 /\ shutdown = FALSE /\ closed = FALSE
      /\ outLeft = PeerWindow /\ unacked = 0 /\ credit = Window
      /\ reader = [pc |-> "idle", s |-> 0, n |-> 0, fin |-> FALSE, who |-> {}]
      /\ settle = [pc |-> "idle", to |-> 0, delta |-> 0, who |-> {}]
      /\ setting = FirstSize /\ faults = 0
      /\ closer = [pc |-> "no", who |-> {}] /\ gone = MaxStreams
  BY DEF Init, Idle, Settled
<1>5. TypeOK
  <2>1. next \in 1..(MaxStreams + 1) /\ gone \in 0..MaxStreams /\ outLeft \in 0..PeerWindow
    BY <1>1, <1>4
  <2>2. shutdown \in BOOLEAN /\ closed \in BOOLEAN
    BY <1>4
  <2>3. unacked \in Nat /\ credit \in Nat /\ faults \in Nat /\ streams \subseteq Streams
    BY <1>1, <1>4
  <2>4. reader.pc = "idle" /\ settle.pc = "idle" /\ closer.pc = "no" /\ setting \in Sizes
    BY <1>1, <1>4
  <2>5. QED
    BY <1>2, <2>1, <2>2, <2>3, <2>4 DEF TypeOK
<1>6. PartTypes
  BY <1>1, <1>3, <1>4 DEF PartTypes, Reader
<1>7. LocalInv
  BY <1>3 DEF LocalInv, Local
<1>8. OpenedInv
  BY <1>1, <1>3, <1>4 DEF OpenedInv, Fresh
<1>9. CloserInv
  BY <1>1, <1>4 DEF CloserInv
<1>10. ReaderInv /\ WindowsAgree /\ StreamCredit
  BY <1>4 DEF ReaderInv, WindowsAgree, StreamCredit
<1>11. MapInv
  BY <1>1, <1>4 DEF MapInv
<1>12. WaitInv
  BY <1>3 DEF WaitInv
<1>13. ConnCredit
  <2>1. \A s \in Streams : Owed(s) = 0
    BY <1>3 DEF Owed
  <2>2. OwedUpTo = [n \in 0..MaxStreams |-> IF n = 0 THEN 0 ELSE Owed(n) + OwedUpTo[n - 1]]
    BY <2>1, HeldSum DEF HeldIsSum
  <2> DEFINE N == {n \in 0..MaxStreams : OwedUpTo[n] # 0}
  <2>3. N = {}
    <3> SUFFICES ASSUME N # {} PROVE FALSE
      OBVIOUS
    <3>1. PICK n \in N : \A k \in N : n <= k
      <4>1. N \in SUBSET Nat
        BY <1>1
      <4> HIDE DEF N
      <4>2. QED
        BY <4>1, LeastElement
    <3>2. n \in 0..MaxStreams /\ OwedUpTo[n] # 0 /\ n # 0
      BY <1>1, <2>2
    <3>3. n - 1 \in 0..MaxStreams /\ n \in Streams /\ ~(n <= n - 1)
      BY <1>1, <3>2
    <3>4. OwedUpTo[n - 1] = 0
      BY <3>1, <3>3
    <3>5. OwedUpTo[n] = Owed(n) + OwedUpTo[n - 1]
      BY <2>2, <3>2
    <3>6. QED
      BY <2>1, <3>2, <3>3, <3>4, <3>5
  <2>4. OwedUpTo[MaxStreams] = 0
    BY <1>1, <2>3
  <2>5. QED
    BY <1>1, <1>4, <2>4 DEF ConnCredit, InReader
<1>14. QED
  BY <1>5, <1>6, <1>7, <1>8, <1>9, <1>10, <1>11, <1>12, <1>13 DEF IInv

\* Every section of the thread of a call keeps it.
LEMMA CallKeeps ==
    ASSUME IInv, faults' \in Nat, NEW s \in Streams, CallStep(s)
    PROVE  IInv'
  BY EmitFrameKeeps, WriteDataKeeps, SinkCloseKeeps, CheckKeeps, CloseInternalKeeps, RemoveKeeps,
     TakeHeadersKeeps, ReadKeeps, ReadAckKeeps, ReadNothingKeeps, SourceCloseKeeps, CloseAckKeeps
  DEF CallStep

\* Every section of the reader keeps it.
LEMMA ReaderKeeps ==
    ASSUME IInv, faults' \in Nat, ReaderStep
    PROVE  IInv'
  BY ReceiveHeadersKeeps, ReaderRemoveKeeps, StoreKeeps, DiscardKeeps, ResetKeeps, RefuseKeeps,
     RefuseRemoveKeeps DEF ReaderStep

\* Whatever the peer sends, it is kept.
LEMMA PeerKeeps ==
    ASSUME IInv, faults' \in Nat, PeerStep
    PROVE  IInv'
  BY RecvHeadersKeeps, RecvDataKeeps, RecvStreamWindowUpdateKeeps, RecvWindowUpdateKeeps
  DEF PeerStep

\* Every fault keeps it.
LEMMA FaultKeeps ==
    ASSUME IInv, faults' \in Nat, Fault
    PROVE  IInv'
  BY AbandonKeeps, HeadersFailKeeps, DataFailsKeeps, FlushFailsKeeps, InterruptKeeps, KillKeeps,
     RecvRstKeeps, RecvGoAwayKeeps, RecvSettingsKeeps, CloseBeginKeeps
  DEF Fault

\* Every step keeps it.
LEMMA NextInv == IInv /\ [Next]_vars => IInv'
<1> SUFFICES ASSUME IInv, [Next]_vars PROVE IInv'
  OBVIOUS
<1>1. ASSUME UNCHANGED faults PROVE faults' \in Nat
  BY <1>1 DEF IInv, TypeOK
<1>2. ASSUME NEW s \in Streams, Orderly(NewStream(s)) PROVE IInv'
  BY <1>1, <1>2, NewStreamKeeps DEF Orderly
<1>3. ASSUME NEW s \in Streams, Orderly(CallStep(s)) PROVE IInv'
  BY <1>1, <1>3, CallKeeps DEF Orderly
<1>4. ASSUME NEW s \in Streams, Orderly(KillRemove(s)) PROVE IInv'
  BY <1>1, <1>4, KillRemoveKeeps DEF Orderly
<1>5. CASE Orderly(ReaderStep)
  BY <1>1, <1>5, ReaderKeeps DEF Orderly
<1>6. CASE Orderly(PeerStep)
  BY <1>1, <1>6, PeerKeeps DEF Orderly
<1>7. CASE Orderly(ExecutorStep)
  BY <1>1, <1>7, ApplySettingsKeeps, NotifyStreamKeeps DEF Orderly, ExecutorStep
<1>8. CASE Orderly(CloserStep)
  BY <1>1, <1>8, CloseSnapshotKeeps, CloseStreamKeeps, CloseRemoveKeeps, CloseEndKeeps
  DEF Orderly, CloserStep
<1>9. CASE Fault /\ faults' = faults + 1
  <2>1. faults' \in Nat
    BY <1>9 DEF IInv, TypeOK
  <2>2. QED
    BY <1>9, <2>1, FaultKeeps
<1>10. CASE UNCHANGED vars
  <2>1. /\ UNCHANGED <<streams, st, next, shutdown, closed, outLeft>>
        /\ UNCHANGED <<unacked, credit, reader, settle, setting, closer, gone, faults>>
    BY <1>10 DEF vars, inVars, settingVars
  <2>2. TypeOK' /\ PartTypes' /\ LocalInv' /\ OpenedInv' /\ CloserInv' /\ ReaderInv'
    BY <2>1 DEF IInv, TypeOK, PartTypes, LocalInv, OpenedInv, CloserInv, ReaderInv
  <2>3. MapInv' /\ WaitInv' /\ WindowsAgree' /\ StreamCredit'
    BY <2>1 DEF IInv, MapInv, WaitInv, WindowsAgree, StreamCredit, Going, InReader
  <2>4. ConnCredit'
    <3>1. \A t \in Streams : st[t].buf \in Nat /\ st[t].hand \in Nat
      BY Fields DEF IInv, TypeOK
    <3>2. \A t \in Streams : Owed(t) \in Int /\ Owed(t)' = Owed(t)
      BY <2>1, <3>1 DEF Owed
    <3>3. OwedUpTo'[MaxStreams] = OwedUpTo[MaxStreams]
      BY <3>2, HeldSame
    <3>4. QED
      BY <2>1, <3>3 DEF IInv, ConnCredit, InReader
  <2>5. QED
    BY <2>2, <2>3, <2>4 DEF IInv
<1>11. QED
  BY <1>2, <1>3, <1>4, <1>5, <1>6, <1>7, <1>8, <1>9, <1>10 DEF Next

-----------------------------------------------------------------------------
(* The theorems. *)

\* The inductive invariant holds in every state.
THEOREM AlwaysIInv == Spec => []IInv
  BY InitInv, NextInv, PTL DEF Spec

\* The types are kept, and however reading, closing, resetting and late data interleave, each
\* byte of the connection's window, and of the window of a stream that is still read, is with
\* the peer, unacknowledged, in a buffer, or in the hands of one thread; in the buffer of a
\* call that is over only if its response was never closed.
THEOREM WindowsAlwaysConserved == Spec => []Http2Inv
<1>1. IInv => Http2Inv
  <2> SUFFICES ASSUME IInv PROVE Http2Inv
    OBVIOUS
  <2>1. ASSUME NEW s \in Streams, Lost(s) > 0
        PROVE  ~st[s].inClosed /\ (st[s].pc # "done" \/ st[s].err \/ s \notin streams)
    <3>1. st[s].pc \in Over /\ st[s].buf > 0
      BY <2>1 DEF Lost
    <3>2. ~st[s].inClosed
      BY <3>1 DEF IInv, LocalInv, Local
    <3>3. QED
      BY <3>1, <3>2 DEF IInv, MapInv
  <2>2. QED
    BY <2>1 DEF IInv, Http2Inv, WindowConserved, ConnCredit, StreamCredit
<1>2. QED
  BY <1>1, AlwaysIInv, PTL

\* A stream in the map and the peer agree on what the stream may send, up to what is being
\* written and to a change of the settings that has not reached the stream.
THEOREM WindowsAlwaysAgree == Spec => []WindowsAgree
<1>1. IInv => WindowsAgree
  BY DEF IInv
<1>2. QED
  BY <1>1, AlwaysIInv, PTL

\* No thread sleeps, on a stream or on the connection, for what has happened already or can no
\* longer happen.
THEOREM WaitersAlwaysAttended == Spec => []WaitersAttended
<1>1. IInv => WaitersAttended
  <2> SUFFICES ASSUME IInv, NEW s \in Streams
               PROVE  /\ st[s].asleep = "stream" =>
                           /\ ~st[s].err
                           /\ s \in streams \/ Leaving(s)
                           /\ CASE st[s].pc = "write" -> st[s].win <= 0
                                [] st[s].pc = "headers" -> ~st[s].header
                                [] st[s].pc = "read" -> st[s].buf = 0 /\ ~st[s].inFinished
                      /\ st[s].asleep = "connection" =>
                           outLeft <= 0 /\ (s \in streams \/ Leaving(s))
    BY DEF WaitersAttended
  <2> USE DEF IInv
  <2>1. Local(st[s]) /\ (st[s].asleep # "no" => s < next)
    BY DEF LocalInv, OpenedInv, Fresh
  <2>2. ASSUME st[s].asleep = "stream"
        PROVE  /\ ~st[s].err
               /\ CASE st[s].pc = "write" -> st[s].win <= 0
                    [] st[s].pc = "headers" -> ~st[s].header
                    [] st[s].pc = "read" -> st[s].buf = 0 /\ ~st[s].inFinished
    BY <2>2 DEF WaitInv
  <2>3. ASSUME st[s].asleep = "stream"
        PROVE  IsOpen(st[s]) /\ Closable(st[s])
    BY <2>1, <2>3 DEF WaitInv, Local, IsOpen, Closable
  <2>4. ASSUME st[s].asleep = "stream", s \notin streams
        PROVE  Leaving(s)
    BY <2>1, <2>3, <2>4 DEF MapInv, Leaving
  <2>5. ASSUME st[s].asleep = "connection"
        PROVE  outLeft <= 0 /\ (s \in streams \/ Leaving(s))
    BY <2>1, <2>5 DEF WaitInv, Going, Leaving, Local, Closable
  <2>6. QED
    BY <2>2, <2>4, <2>5
<1>2. QED
  BY <1>1, AlwaysIInv, PTL

\* A stream that is no longer open is taken out of the map by somebody, unless the flush that
\* ended its request failed; a call that came to its end leaves no stream there, and neither
\* does a GOAWAY leave one that it refuses.
THEOREM OnlyLiveStreamsAlways == Spec => []OnlyLiveStreams
<1>1. IInv => OnlyLiveStreams
  BY DEF IInv, OnlyLiveStreams, MapInv, ReaderInv, Going, Leaving
<1>2. QED
  BY <1>1, AlwaysIInv, PTL
=============================================================================
