------------------------ MODULE ConnectionPoolProofs ------------------------
(***************************************************************************)
(* Proofs about ConnectionPool, for any calls and connections, any limit   *)
(* on the idle ones and any number of retries.                             *)
(***************************************************************************)
EXTENDS ConnectionPool, FiniteSetTheorems, FunctionTheorems, TLAPS

\* A queue that holds no connection twice.
Once(q) == \A i, j \in 1..Len(q) : q[i] = q[j] => i = j

\* A call has a connection, or is making one, where it says it does.
Placed(r) ==
    /\ r.mine \in Conns <=> r.pc \in {"connect", "put"}
    /\ r.pc \in {"check", "exchange", "io", "prepare", "body", "gone"} => r.conn # None
    /\ r.pc \in {"new", "route", "connect", "put", "done"} => r.conn = None

TypeInv ==
    /\ call \in [Calls -> Call] /\ conn \in [Conns -> Conn]
    /\ pool \subseteq Conns /\ evicted \subseteq Conns /\ victim \in Conns \cup {None}
    /\ cleaner \in {"off", "run", "close", "sleepy", "waiting"} /\ tries \in 0..MaxTries
    /\ \A c \in Calls : Placed(call[c])

\* The idle connections are those of the pool, of which there are finitely many,
\* that no call holds, each of them once.
IdleInv ==
    /\ IsFiniteSet(pool)
    /\ idle \in Seq(Conns) /\ due \in 0..Len(idle) /\ Once(idle)
    /\ ToSet(idle) = {n \in pool : Users(n) = {}}

\* What a call holds is in the pool; what is in the pool is open, and nobody is about
\* to close it or still making it.
HeldInv ==
    /\ \A c \in Calls : call[c].conn # None => call[c].conn \in pool
    /\ \A n \in pool :
         /\ conn[n].up = "open" /\ n # victim /\ n \notin evicted
         /\ \A c \in Calls : call[c].toClose # n /\ call[c].mine # n

\* The connection that a call is making is nobody else's, and nothing was sent on it.
MineInv ==
    \A c \in Calls : call[c].mine \in Conns =>
      LET n == call[c].mine
      IN  /\ n # victim /\ n \notin evicted /\ conn[n].wire = "clean"
          /\ call[c].pc = "put" => conn[n].up = "open"
          /\ \A d \in Calls : call[d].toClose # n /\ (d # c => call[d].mine # n)

\* An HTTP/1 connection has one user.  With an exchange under way it has no user that
\* has yet to begin, and is retired unless the exchange has an owner.  A connection
\* that is closed had none.
WireInv ==
    /\ \A n \in Conns : conn[n].up = "closed" => conn[n].wire = "clean"
    /\ \A n \in pool : ~conn[n].h2 =>
         /\ \A c, d \in Users(n) : c = d
         /\ \A c \in Users(n) : call[c].pc \in {"check", "exchange"} => conn[n].wire # "busy"
         /\ conn[n].wire = "busy" /\ ~conn[n].noNew
            => \E c \in Users(n) : call[c].pc \in {"io", "body", "gone"}

\* The inductive invariant.
IInv == TypeInv /\ IdleInv /\ HeldInv /\ MineInv /\ WireInv /\ CleanerWatches
-----------------------------------------------------------------------------
(* Queues. *)

\* ToSet and Without, in terms of the positions of a sequence.
LEMMA ToSetOf ==
    ASSUME NEW S, NEW q \in Seq(S)
    PROVE  ToSet(q) = {q[i] : i \in 1..Len(q)} /\ ToSet(q) \subseteq S
BY DEF ToSet

\* A connection that is not in a queue is added at its end.
LEMMA Appended ==
    ASSUME NEW S, NEW q \in Seq(S), NEW c \in S
    PROVE  /\ Append(q, c) \in Seq(S) /\ ToSet(Append(q, c)) = ToSet(q) \cup {c}
           /\ Len(Append(q, c)) = Len(q) + 1
           /\ Once(q) /\ c \notin ToSet(q) => Once(Append(q, c))
<1>1. /\ Append(q, c) \in Seq(S) /\ Len(Append(q, c)) = Len(q) + 1 /\ Len(q) \in Nat
      /\ \A i \in 1..Len(q) : Append(q, c)[i] = q[i]
      /\ Append(q, c)[Len(q) + 1] = c
  OBVIOUS
<1>2. ToSet(Append(q, c)) = ToSet(q) \cup {c}
  BY <1>1 DEF ToSet
<1>3. Once(q) /\ c \notin ToSet(q) => Once(Append(q, c))
  BY <1>1 DEF ToSet, Once
<1>4. QED
  BY <1>1, <1>2, <1>3

\* The first one is taken out.
LEMMA FirstTaken ==
    ASSUME NEW S, NEW q \in Seq(S), q # <<>>
    PROVE  /\ Tail(q) \in Seq(S) /\ Head(q) \in ToSet(q) /\ Len(Tail(q)) = Len(q) - 1
           /\ ToSet(q) = {Head(q)} \cup ToSet(Tail(q))
           /\ Once(q) => Once(Tail(q)) /\ Head(q) \notin ToSet(Tail(q))
<1>1. /\ Tail(q) \in Seq(S) /\ Len(Tail(q)) = Len(q) - 1 /\ Len(q) \in Nat \ {0}
      /\ \A i \in 1..Len(Tail(q)) : Tail(q)[i] = q[i + 1]
      /\ Head(q) = q[1]
  OBVIOUS
<1>2. Head(q) \in ToSet(q) /\ ToSet(Tail(q)) \subseteq ToSet(q)
  BY <1>1 DEF ToSet
<1>3. ASSUME NEW i \in 1..Len(q), q[i] # Head(q) PROVE q[i] \in ToSet(Tail(q))
  <2>1. i - 1 \in 1..Len(Tail(q)) /\ Tail(q)[i - 1] = q[i]
    BY <1>1, <1>3
  <2>2. QED
    <3>1. ToSet(Tail(q)) = {Tail(q)[k] : k \in 1..Len(Tail(q))}
      BY <1>1, ToSetOf
    <3>2. QED
      BY <3>1, <2>1
<1>4. ToSet(q) = {Head(q)} \cup ToSet(Tail(q))
  BY <1>2, <1>3 DEF ToSet
<1>5. Once(q) => Once(Tail(q)) /\ Head(q) \notin ToSet(Tail(q))
  BY <1>1 DEF ToSet, Once
<1>6. QED
  BY <1>1, <1>2, <1>4, <1>5

\* A connection is taken out of a queue that holds it once.
LEMMA TakenOut ==
    ASSUME NEW S, NEW q \in Seq(S), NEW c, Once(q)
    PROVE  /\ Without(q, c) \in Seq(S) /\ Once(Without(q, c))
           /\ ToSet(Without(q, c)) = ToSet(q) \ {c}
           /\ Len(Without(q, c)) = Len(q) - IF c \in ToSet(q) THEN 1 ELSE 0
<1>1. CASE c \notin ToSet(q)
  BY <1>1 DEF Without
<1>2. CASE c \in ToSet(q)
  <2> DEFINE i == CHOOSE i \in 1..Len(q) : q[i] = c
             u == SubSeq(q, 1, i - 1)
             v == SubSeq(q, i + 1, Len(q))
             w == u \o v
  <2>1. i \in 1..Len(q) /\ q[i] = c /\ Len(q) \in Nat
    BY <1>2 DEF ToSet
  <2> HIDE DEF i
  <2>2. /\ u \in Seq(S) /\ Len(u) = i - 1 /\ \A k \in 1..i - 1 : u[k] = q[k]
        /\ v \in Seq(S) /\ Len(v) = Len(q) - i /\ \A k \in 1..Len(q) - i : v[k] = q[i + k]
    BY <2>1
  <2> HIDE DEF u, v
  <2>3. /\ w \in Seq(S) /\ Len(w) = Len(q) - 1
        /\ \A k \in 1..i - 1 : w[k] = q[k]
        /\ \A k \in i..Len(q) - 1 : w[k] = q[k + 1]
    <3>1. /\ w \in Seq(S) /\ Len(w) = Len(u) + Len(v)
          /\ \A k \in 1..Len(u) : w[k] = u[k]
          /\ \A k \in Len(u) + 1..Len(u) + Len(v) : w[k] = v[k - Len(u)]
      BY SMTT(30), <2>2
    <3>2. ASSUME NEW k \in i..Len(q) - 1 PROVE w[k] = q[k + 1]
      <4> HIDE DEF w
      <4>1. /\ k \in Len(u) + 1..Len(u) + Len(v) /\ k - Len(u) = k - (i - 1)
            /\ k - (i - 1) \in 1..Len(q) - i
        BY <2>1, <2>2
      <4>2. i + (k - (i - 1)) = k + 1
        BY <2>1
      <4>3. QED
        BY <3>1, <4>1, <4>2, <2>2
    <3>3. QED
      BY <3>1, <3>2, <2>1, <2>2
  <2> HIDE DEF w
  <2>4. Once(w)
    BY <2>1, <2>3 DEF Once
  <2>5. ASSUME NEW k \in 1..Len(w) PROVE w[k] \in ToSet(q) \ {c}
    <3>1. CASE k < i
      BY SMTT(30), <3>1, <2>1, <2>3 DEF Once, ToSet
    <3>2. CASE k >= i
      <4>1. w[k] = q[k + 1] /\ k + 1 \in 1..Len(q) /\ k + 1 # i
        BY <3>2, <2>1, <2>3
      <4>2. QED
        BY <4>1, <2>1 DEF Once, ToSet
    <3>3. QED
      BY <3>1, <3>2, <2>1
  <2>6. ASSUME NEW k \in 1..Len(q), q[k] # c PROVE q[k] \in ToSet(w)
    <3>1. CASE k < i
      BY <3>1, <2>1, <2>3 DEF ToSet
    <3>2. CASE k > i
      <4>1. k - 1 \in 1..Len(w) /\ w[k - 1] = q[k]
        BY <3>2, <2>1, <2>3
      <4>2. QED
        BY <4>1 DEF ToSet
    <3>3. QED
      BY <3>1, <3>2, <2>1, <2>6
  <2>7. ToSet(w) = ToSet(q) \ {c}
    BY <2>5, <2>6 DEF ToSet
  <2>8. Without(q, c) = w
    BY <1>2 DEF Without, w, u, v, i
  <2>9. QED
    BY <1>2, <2>3, <2>4, <2>7, <2>8
<1>3. QED
  BY <1>1, <1>2


\* A queue that holds nothing twice is as long as its set is large.
LEMMA OnceCounts ==
    ASSUME NEW S, NEW q \in Seq(S), Once(q)
    PROVE  IsFiniteSet(ToSet(q)) /\ Cardinality(ToSet(q)) = Len(q)
<1>1. q \in [1..Len(q) -> ToSet(q)] /\ Len(q) \in Nat
  BY ToSetOf
<1>2. q \in Bijection(1..Len(q), ToSet(q))
  BY <1>1, ToSetOf DEF Once, Bijection, Injection, Surjection, IsInjective
<1>3. IsFiniteSet(1..Len(q)) /\ Cardinality(1..Len(q)) = Len(q)
  <2>1. 1 \in Int /\ Len(q) \in Int /\ Len(q) - 1 + 1 = Len(q) /\ (1 > Len(q) => Len(q) = 0)
    BY <1>1
  <2>2. /\ IsFiniteSet(1..Len(q))
        /\ Cardinality(1..Len(q)) = IF 1 > Len(q) THEN 0 ELSE Len(q) - 1 + 1
    BY <2>1, FS_Interval
  <2>3. QED
    BY <2>1, <2>2
<1>4. QED
  BY <1>2, <1>3, FS_Bijection, Fun_ExistsBij

\* SetToSeq lists a finite set, each element once.
LEMMA Listed ==
    ASSUME NEW S, NEW T \in SUBSET S, IsFiniteSet(T)
    PROVE  /\ SetToSeq(T) \in Seq(S) /\ Len(SetToSeq(T)) = Cardinality(T)
           /\ Once(SetToSeq(T)) /\ ToSet(SetToSeq(T)) = T
<1> DEFINE k == Cardinality(T)
           s == SetToSeq(T)
<1>1. k \in Nat /\ ExistsBijection(1..k, T)
  BY FS_CardinalityType
<1>2. PICK f \in [1..k -> T] : IsInjective(f)
  BY <1>1 DEF ExistsBijection, Bijection, Injection
<1>3. s \in [1..k -> T] /\ IsInjective(s)
  BY <1>2 DEF SetToSeq
<1> HIDE DEF s
<1>4. s \in Seq(T) /\ s \in Seq(S) /\ Len(s) = k /\ Once(s)
  BY <1>1, <1>3 DEF Once, IsInjective
<1>5. ToSet(s) \subseteq T /\ Cardinality(ToSet(s)) = Cardinality(T)
  BY <1>4, ToSetOf, OnceCounts
<1>6. ToSet(s) = T
  BY <1>5, FS_Subset
<1>7. QED
  BY <1>4, <1>6 DEF s

\* Two sequences that share nothing, one after the other.
LEMMA Joined ==
    ASSUME NEW S, NEW p \in Seq(S), NEW q \in Seq(S)
    PROVE  /\ p \o q \in Seq(S) /\ Len(p \o q) = Len(p) + Len(q)
           /\ ToSet(p \o q) = ToSet(p) \cup ToSet(q)
           /\ Once(p) /\ Once(q) /\ ToSet(p) \cap ToSet(q) = {} => Once(p \o q)
<1> DEFINE w == p \o q
           k == Len(p)
           m == Len(q)
<1>1. k \in Nat /\ m \in Nat
  OBVIOUS
<1>2. /\ w \in Seq(S) /\ Len(w) = k + m
      /\ \A i \in 1..k + m : w[i] = IF i <= k THEN p[i] ELSE q[i - k]
  OBVIOUS
<1>3. /\ ToSet(p) = {p[i] : i \in 1..k} /\ ToSet(q) = {q[i] : i \in 1..m}
  BY ToSetOf
<1>4. ToSet(w) = {w[i] : i \in 1..k + m}
  BY <1>2, ToSetOf
<1> HIDE DEF w, k, m
<1>5. ASSUME NEW i \in 1..k + m
      PROVE  \/ i <= k /\ i \in 1..k /\ w[i] = p[i]
             \/ k < i /\ i - k \in 1..m /\ w[i] = q[i - k]
  BY <1>1, <1>2
<1>6. ToSet(w) \subseteq ToSet(p) \cup ToSet(q)
  BY <1>3, <1>4, <1>5
<1>7. ASSUME NEW i \in 1..k PROVE p[i] \in ToSet(w)
  BY <1>1, <1>2, <1>4
<1>8. ASSUME NEW i \in 1..m PROVE q[i] \in ToSet(w)
  <2> DEFINE j == k + i
  <2>1. j \in 1..k + m /\ k < j /\ j - k = i
    BY <1>1
  <2> HIDE DEF j
  <2>2. w[j] = q[i]
    BY <2>1, <1>1, <1>2
  <2>3. QED
    BY <2>1, <2>2, <1>4
<1>9. ASSUME Once(p), Once(q), ToSet(p) \cap ToSet(q) = {},
             NEW i \in 1..k + m, NEW j \in 1..k + m, w[i] = w[j]
      PROVE  i = j
  <2>1. CASE i <= k /\ j <= k
    BY <2>1, <1>1, <1>2, <1>9 DEF Once, k
  <2>2. CASE k < i /\ k < j
    <3>1. i - k \in 1..m /\ j - k \in 1..m /\ q[i - k] = q[j - k]
      BY <2>2, <1>1, <1>2, <1>9
    <3>2. i - k = j - k
      BY <3>1, <1>9 DEF Once, m
    <3>3. QED
      BY <3>2, <1>1
  <2>3. CASE i <= k /\ k < j
    BY <2>3, <1>1, <1>3, <1>5, <1>9
  <2>4. CASE k < i /\ j <= k
    <3>1. w[i] = q[i - k] /\ i - k \in 1..m /\ w[j] = p[j] /\ j \in 1..k
      BY <2>4, <1>1, <1>2
    <3>2. QED
      BY <3>1, <1>3, <1>9
  <2>5. QED
    BY <2>1, <2>2, <2>3, <2>4, <1>1
<1>10. Once(p) /\ Once(q) /\ ToSet(p) \cap ToSet(q) = {} => Once(w)
  BY <1>2, <1>9 DEF Once
<1>11. ToSet(w) = ToSet(p) \cup ToSet(q)
  BY <1>3, <1>6, <1>7, <1>8
<1>12. QED
  BY <1>2, <1>10, <1>11 DEF w, k, m

\* A queue is cut in two.
LEMMA CutInTwo ==
    ASSUME NEW S, NEW q \in Seq(S), NEW k \in 0..Len(q), Once(q)
    PROVE  LET u == SubSeq(q, 1, k)
               v == SubSeq(q, k + 1, Len(q))
           IN  /\ u \in Seq(S) /\ Len(u) = k /\ Once(u)
               /\ v \in Seq(S) /\ Len(v) = Len(q) - k /\ Once(v)
               /\ ToSet(u) \cap ToSet(v) = {} /\ ToSet(q) = ToSet(u) \cup ToSet(v)
<1> DEFINE u == SubSeq(q, 1, k)
           v == SubSeq(q, k + 1, Len(q))
           l == Len(q)
<1>1. /\ u \in Seq(S) /\ Len(u) = k /\ \A i \in 1..k : u[i] = q[i]
      /\ v \in Seq(S) /\ Len(v) = l - k /\ \A i \in 1..l - k : v[i] = q[k + i]
      /\ l \in Nat /\ k \in Nat /\ k <= l
  OBVIOUS
<1>2. ToSet(q) = {q[i] : i \in 1..l}
  BY ToSetOf
<1> HIDE DEF u, v
<1>3. ToSet(u) = {u[i] : i \in 1..k} /\ ToSet(v) = {v[i] : i \in 1..l - k}
  <2>1. ToSet(u) = {u[i] : i \in 1..Len(u)} /\ ToSet(v) = {v[i] : i \in 1..Len(v)}
    BY <1>1, ToSetOf
  <2>2. QED
    BY <2>1, <1>1
<1>4. \A i, j \in 1..l : q[i] = q[j] => i = j
  BY DEF Once
<1> HIDE DEF l
<1>5. Once(u)
  BY SMTT(30), <1>1, <1>4 DEF Once
<1>6. Once(v)
  <2>1. ASSUME NEW i \in 1..l - k, NEW j \in 1..l - k, v[i] = v[j] PROVE i = j
    <3>1. k + i \in 1..l /\ k + j \in 1..l /\ q[k + i] = q[k + j]
      BY <1>1, <2>1
    <3>2. k + i = k + j
      BY <3>1, <1>4
    <3>3. QED
      BY <3>2, <1>1
  <2>2. QED
    BY <1>1, <2>1 DEF Once
<1>7. ASSUME NEW i \in 1..k, NEW j \in 1..l - k PROVE u[i] # v[j]
  <2>1. i \in 1..l /\ k + j \in 1..l /\ i # k + j
    BY <1>1
  <2>2. QED
    BY <2>1, <1>1, <1>4
<1>8. ASSUME NEW i \in 1..l PROVE q[i] \in ToSet(u) \cup ToSet(v)
  <2>1. CASE i <= k
    BY <2>1, <1>1, <1>3
  <2>2. CASE k < i
    <3>1. i - k \in 1..l - k /\ k + (i - k) = i
      BY <2>2, <1>1
    <3>2. v[i - k] = q[i]
      BY <3>1, <1>1
    <3>3. QED
      BY <3>1, <3>2, <1>3
  <2>3. QED
    BY <2>1, <2>2, <1>1
<1>9. ToSet(u) \cup ToSet(v) \subseteq ToSet(q)
  <2>1. ASSUME NEW i \in 1..k PROVE u[i] \in ToSet(q)
    BY <1>1, <1>2
  <2>2. ASSUME NEW i \in 1..l - k PROVE v[i] \in ToSet(q)
    <3>1. k + i \in 1..l
      BY <1>1
    <3>2. QED
      BY <3>1, <1>1, <1>2
  <2>3. QED
    BY <2>1, <2>2, <1>3
<1>10. ToSet(u) \cap ToSet(v) = {} /\ ToSet(q) = ToSet(u) \cup ToSet(v)
  <2>1. ToSet(u) \cap ToSet(v) = {}
    BY <1>3, <1>7
  <2>2. ToSet(q) \subseteq ToSet(u) \cup ToSet(v)
    BY <1>2, <1>8
  <2>3. QED
    BY <2>1, <2>2, <1>9
<1>11. QED
  BY <1>1, <1>5, <1>6, <1>10 DEF u, v, l

-----------------------------------------------------------------------------
(* Steps. *)

\* A connection is no longer idle.
LEMMA Unidled ==
    ASSUME IdleInv, NEW m
    PROVE  LET q == Without(idle, m)
               k == due - (IF \E i \in 1..due : idle[i] = m THEN 1 ELSE 0)
           IN  /\ q \in Seq(Conns) /\ Once(q) /\ k \in 0..Len(q)
               /\ ToSet(q) = ToSet(idle) \ {m}
<1> DEFINE q == Without(idle, m)
           k == due - (IF \E i \in 1..due : idle[i] = m THEN 1 ELSE 0)
<1>1. /\ idle \in Seq(Conns) /\ due \in 0..Len(idle) /\ Once(idle)
      /\ Len(idle) \in Nat /\ due \in Nat
  BY DEF IdleInv
<1>2. /\ q \in Seq(Conns) /\ Once(q) /\ ToSet(q) = ToSet(idle) \ {m}
      /\ Len(q) = Len(idle) - IF m \in ToSet(idle) THEN 1 ELSE 0
  BY <1>1, TakenOut
<1>3. ToSet(idle) = {idle[i] : i \in 1..Len(idle)}
  BY <1>1, ToSetOf
<1> HIDE DEF q
<1>4. CASE \E i \in 1..due : idle[i] = m
  <2>1. m \in ToSet(idle) /\ due >= 1
    BY <1>1, <1>3, <1>4
  <2>2. QED
    BY <1>1, <1>2, <1>4, <2>1 DEF q
<1>5. CASE ~(\E i \in 1..due : idle[i] = m)
  <2>1. m \in ToSet(idle) => due < Len(idle)
    <3>1. ASSUME NEW i \in 1..Len(idle), idle[i] = m PROVE due < Len(idle)
      BY <1>1, <1>5, <3>1
    <3>2. QED
      BY <1>3, <3>1
  <2>2. QED
    BY <1>1, <1>2, <1>5, <2>1 DEF q
<1>6. QED
  BY <1>4, <1>5

\* Connections that are due at once are put after those that were due already.
LEMMA PutBetween ==
    ASSUME IdleInv, NEW s \in Seq(Conns), Once(s), ToSet(idle) \cap ToSet(s) = {}
    PROVE  LET w == SubSeq(idle, 1, due) \o s \o SubSeq(idle, due + 1, Len(idle))
           IN  /\ w \in Seq(Conns) /\ Len(w) = Len(idle) + Len(s) /\ Once(w)
               /\ ToSet(w) = ToSet(idle) \cup ToSet(s)
<1> DEFINE u == SubSeq(idle, 1, due)
           v == SubSeq(idle, due + 1, Len(idle))
           x == u \o s
           w == x \o v
<1>1. idle \in Seq(Conns) /\ due \in 0..Len(idle) /\ Once(idle)
  BY DEF IdleInv
<1>2. /\ u \in Seq(Conns) /\ Len(u) = due /\ Once(u)
      /\ v \in Seq(Conns) /\ Len(v) = Len(idle) - due /\ Once(v)
      /\ ToSet(u) \cap ToSet(v) = {} /\ ToSet(idle) = ToSet(u) \cup ToSet(v)
  BY <1>1, CutInTwo
<1> HIDE DEF u, v
<1>3. /\ x \in Seq(Conns) /\ Len(x) = due + Len(s) /\ Once(x)
      /\ ToSet(x) = ToSet(u) \cup ToSet(s)
  <2>1. ToSet(u) \cap ToSet(s) = {}
    BY <1>2
  <2>2. /\ x \in Seq(Conns) /\ Len(x) = Len(u) + Len(s)
        /\ ToSet(x) = ToSet(u) \cup ToSet(s)
        /\ Once(u) /\ Once(s) /\ ToSet(u) \cap ToSet(s) = {} => Once(x)
    BY <1>2, Joined, Zenon
  <2>3. QED
    BY <1>2, <2>1, <2>2
<1> HIDE DEF x
<1>4. /\ w \in Seq(Conns) /\ Len(w) = Len(x) + Len(v) /\ Once(w)
      /\ ToSet(w) = ToSet(x) \cup ToSet(v)
  <2>1. ToSet(x) \cap ToSet(v) = {}
    BY <1>2, <1>3
  <2>2. /\ w \in Seq(Conns) /\ Len(w) = Len(x) + Len(v)
        /\ ToSet(w) = ToSet(x) \cup ToSet(v)
        /\ Once(x) /\ Once(v) /\ ToSet(x) \cap ToSet(v) = {} => Once(w)
    BY <1>2, <1>3, Joined, Zenon
  <2>3. QED
    BY <1>2, <1>3, <2>1, <2>2
<1> HIDE DEF w
<1>5. Len(w) = Len(idle) + Len(s)
  BY <1>1, <1>2, <1>3, <1>4
<1>6. ToSet(w) = ToSet(idle) \cup ToSet(s)
  BY <1>2, <1>3, <1>4
<1>7. QED
  BY <1>4, <1>5, <1>6 DEF w, x, u, v

\* A call goes on with the connection it has, if any: who has what stays, and what the
\* call is at agrees with what was sent on its connection.
LEMMA GoesOn ==
    ASSUME IInv, NEW c \in Calls, NEW r \in Call, call' = [call EXCEPT ![c] = r],
           r.conn = call[c].conn, r.mine = call[c].mine, r.toClose = call[c].toClose, Placed(r),
           r.pc = "put" => call[c].pc = "put",
           conn' \in [Conns -> Conn], tries' \in 0..MaxTries,
           \A n \in Conns :
               /\ conn'[n].up = conn[n].up /\ conn'[n].h2 = conn[n].h2
               /\ n # r.conn => conn'[n] = conn[n],
           r.conn # None /\ ~conn[r.conn].h2
           => /\ r.pc \in {"check", "exchange"} => conn'[r.conn].wire # "busy"
              /\ conn'[r.conn].wire = "busy" /\ ~conn'[r.conn].noNew
                 => r.pc \in {"io", "body", "gone"},
           UNCHANGED <<pool, idleVars, cleanVars, evicted>>
    PROVE  IInv'
<1>1. /\ \A d \in Calls : d # c => call'[d] = call[d]
      /\ call'[c] = r /\ call' \in [Calls -> Call]
  BY DEF IInv, TypeInv
<1>2. \A d \in Calls : /\ call'[d].conn = call[d].conn /\ call'[d].mine = call[d].mine
                       /\ call'[d].toClose = call[d].toClose
  BY <1>1
<1>3. \A n : Users(n)' = Users(n)
  BY <1>2 DEF Users
<1>4. TypeInv'
  BY <1>1 DEF IInv, TypeInv, Placed, cleanVars
<1>5. IdleInv'
  BY <1>3 DEF IInv, IdleInv, idleVars
<1>6. HeldInv'
  <2>1. \A n \in pool : n \in Conns /\ conn'[n].up = "open"
    BY DEF IInv, HeldInv, TypeInv
  <2>2. QED
    BY <1>2, <2>1 DEF IInv, HeldInv, cleanVars
<1>7. MineInv'
  <2>1. ASSUME NEW d \in Calls, call[d].mine \in Conns PROVE conn'[call[d].mine] = conn[call[d].mine]
    <3>1. call[d].mine # r.conn
      BY <2>1, PoolAssumption DEF IInv, HeldInv
    <3>2. QED
      BY <2>1, <3>1
  <2>2. \A d \in Calls : call'[d].pc = "put" => call[d].pc = "put"
    BY <1>1
  <2>3. QED
    BY <1>2, <2>1, <2>2 DEF IInv, MineInv, cleanVars
<1>8. WireInv'
  <2>1. r.conn # None => r.conn \in pool /\ conn[r.conn].up = "open" /\ c \in Users(r.conn)
    BY DEF IInv, HeldInv, Users
  <2>2. ASSUME NEW n \in Conns, conn'[n].up = "closed" PROVE conn'[n].wire = "clean"
    <3>1. n # r.conn /\ conn[n].up = "closed"
      BY <2>1, <2>2, PoolAssumption
    <3>2. QED
      BY <3>1 DEF IInv, WireInv
  <2>3. ASSUME NEW n \in pool, ~conn'[n].h2
        PROVE  /\ \A d, e \in Users(n)' : d = e
               /\ \A d \in Users(n)' : call'[d].pc \in {"check", "exchange"} => conn'[n].wire # "busy"
               /\ conn'[n].wire = "busy" /\ ~conn'[n].noNew
                  => \E d \in Users(n)' : call'[d].pc \in {"io", "body", "gone"}
    <3>1. n \in Conns /\ ~conn[n].h2
      BY <2>3 DEF IInv, TypeInv
    <3>2. \A d, e \in Users(n) : d = e
      BY <3>1 DEF IInv, WireInv
    <3>3. CASE n = r.conn
      <4>1. Users(n) = {c} /\ n # None
        BY <3>1, <3>2, <3>3, <2>1, PoolAssumption
      <4>2. QED
        BY <1>1, <1>3, <3>1, <3>3, <4>1 DEF Users
    <3>4. CASE n # r.conn
      <4>1. conn'[n] = conn[n] /\ c \notin Users(n)
        BY <3>1, <3>4 DEF Users
      <4>2. \A d \in Users(n) : call'[d] = call[d]
        BY <4>1, <1>1 DEF Users
      <4>3. QED
        BY <1>3, <3>1, <4>1, <4>2 DEF IInv, WireInv
    <3>5. QED
      BY <3>3, <3>4
  <2>4. QED
    BY <2>2, <2>3 DEF WireInv
<1>9. CleanerWatches'
  BY DEF IInv, CleanerWatches, cleanVars
<1>10. QED
  BY <1>4, <1>5, <1>6, <1>7, <1>8, <1>9 DEF IInv

\* What the invariant says of one call and its connection.
LEMMA OfCall ==
    ASSUME IInv, NEW c \in Calls
    PROVE  /\ call[c] \in Call /\ Placed(call[c]) /\ call[c].conn \in Conns \cup {None}
           /\ call[c].conn # None
              => LET n == call[c].conn
                 IN  /\ n \in pool /\ n \in Conns /\ conn[n] \in Conn /\ conn[n].up = "open"
                     /\ c \in Users(n)
                     /\ ~conn[n].h2
                        => /\ Users(n) = {c}
                           /\ call[c].pc \in {"check", "exchange"} => conn[n].wire # "busy"
                           /\ conn[n].wire = "busy" /\ ~conn[n].noNew
                              => call[c].pc \in {"io", "body", "gone"}
<1>1. call[c] \in Call /\ Placed(call[c]) /\ call[c].conn \in Conns \cup {None}
  BY DEF IInv, TypeInv, Call
<1>2. ASSUME call[c].conn # None
      PROVE  LET n == call[c].conn
             IN  /\ n \in pool /\ n \in Conns /\ conn[n] \in Conn /\ conn[n].up = "open"
                 /\ c \in Users(n)
  BY <1>1, <1>2 DEF IInv, TypeInv, HeldInv, Users
<1>3. ASSUME call[c].conn # None, ~conn[call[c].conn].h2
      PROVE  LET n == call[c].conn
             IN  /\ Users(n) = {c}
                 /\ call[c].pc \in {"check", "exchange"} => conn[n].wire # "busy"
                 /\ conn[n].wire = "busy" /\ ~conn[n].noNew
                    => call[c].pc \in {"io", "body", "gone"}
  <2> DEFINE n == call[c].conn
  <2>1. n \in pool /\ c \in Users(n)
    BY <1>2, <1>3
  <2>2. \A d, e \in Users(n) : d = e
    BY <1>3, <2>1 DEF IInv, WireInv
  <2>3. Users(n) = {c}
    BY <2>1, <2>2
  <2>4. QED
    BY <1>3, <2>1, <2>3 DEF IInv, WireInv
<1>4. QED
  BY <1>1, <1>2, <1>3

\* A call goes on, and nothing happens to its connection.
LEMMA MovesTo ==
    ASSUME IInv, NEW c \in Calls,
           NEW p \in {"find", "route", "check", "exchange", "io", "prepare", "body", "end", "done", "gone"},
           call' = [call EXCEPT ![c].pc = p], call[c].pc \notin {"connect", "put"},
           p \in {"check", "exchange", "io", "prepare", "body", "gone"} => call[c].conn # None,
           p \in {"route", "done"} => call[c].conn = None,
           p \in {"check", "exchange"}
           => call[c].pc \in {"check", "exchange"} \/ ~conn[call[c].conn].noNew,
           call[c].pc \in {"io", "body", "gone"} => p \in {"io", "body", "gone"},
           tries' \in 0..MaxTries, UNCHANGED <<conn, pool, idleVars, cleanVars, evicted>>
    PROVE  IInv'
<1> DEFINE r == [call[c] EXCEPT !.pc = p]
<1>1. call[c] \in Call /\ Placed(call[c])
  BY OfCall
<1>2. /\ r \in Call /\ r.conn = call[c].conn /\ r.mine = call[c].mine
      /\ r.toClose = call[c].toClose /\ r.pc = p
  BY <1>1 DEF Call
<1>3. Placed(r)
  BY <1>1, <1>2 DEF Placed
<1>4. call' = [call EXCEPT ![c] = r] /\ conn' \in [Conns -> Conn]
  BY DEF IInv, TypeInv
<1> HIDE DEF r
<1>5. r.conn # None /\ ~conn[r.conn].h2
      => /\ r.pc \in {"check", "exchange"} => conn'[r.conn].wire # "busy"
         /\ conn'[r.conn].wire = "busy" /\ ~conn'[r.conn].noNew
            => r.pc \in {"io", "body", "gone"}
  BY <1>2, OfCall
<1>6. QED
  BY <1>1, <1>2, <1>3, <1>4, <1>5, GoesOn

\* A call goes on, having done k to the connection it has.
LEMMA MovesWith ==
    ASSUME IInv, NEW c \in Calls, call[c].conn # None,
           NEW p \in {"find", "io", "prepare", "body", "end"}, NEW k \in Conn,
           call' = [call EXCEPT ![c].pc = p], call[c].pc \notin {"connect", "put"},
           conn' = [conn EXCEPT ![call[c].conn] = k],
           k.up = conn[call[c].conn].up, k.h2 = conn[call[c].conn].h2,
           ~k.h2 /\ k.wire = "busy" /\ ~k.noNew => p \in {"io", "body"},
           tries' \in 0..MaxTries, UNCHANGED <<pool, idleVars, cleanVars, evicted>>
    PROVE  IInv'
<1> DEFINE r == [call[c] EXCEPT !.pc = p]
<1>1. /\ call[c] \in Call /\ Placed(call[c]) /\ call[c].conn \in Conns
      /\ conn \in [Conns -> Conn]
  BY OfCall DEF IInv, TypeInv
<1>2. /\ r \in Call /\ r.conn = call[c].conn /\ r.mine = call[c].mine
      /\ r.toClose = call[c].toClose /\ r.pc = p
  BY <1>1 DEF Call
<1>3. Placed(r)
  BY <1>1, <1>2 DEF Placed
<1>4. /\ call' = [call EXCEPT ![c] = r] /\ conn' \in [Conns -> Conn]
      /\ conn'[call[c].conn] = k /\ \A n \in Conns : n # call[c].conn => conn'[n] = conn[n]
  BY <1>1
<1> HIDE DEF r
<1>5. \A n \in Conns : /\ conn'[n].up = conn[n].up /\ conn'[n].h2 = conn[n].h2
                       /\ n # r.conn => conn'[n] = conn[n]
  BY <1>2, <1>4
<1>6. /\ r.pc \notin {"check", "exchange", "put"}
      /\ ~conn[r.conn].h2 /\ conn'[r.conn].wire = "busy" /\ ~conn'[r.conn].noNew
         => r.pc \in {"io", "body", "gone"}
  BY <1>2, <1>4
<1>7. QED
  BY <1>2, <1>3, <1>4, <1>5, <1>6, GoesOn

\* RetryAndFollowUpInterceptor leaves the finder's connection as it is.
LEMMA AgainIs ==
    ASSUME IInv, NEW c \in Calls, Again(c, call[c].mine)
    PROVE  /\ \E p \in {"find", "end"} : call' = [call EXCEPT ![c].pc = p]
           /\ tries' \in 0..MaxTries
<1>1. call[c] \in Call /\ tries \in 0..MaxTries /\ MaxTries \in Nat
  BY OfCall, PoolAssumption DEF IInv, TypeInv
<1>2. \A p : [call EXCEPT ![c].pc = p, ![c].mine = call[c].mine] = [call EXCEPT ![c].pc = p]
  BY <1>1 DEF Call, IInv, TypeInv
<1>3. QED
  BY <1>1, <1>2 DEF Again

\* The steps of a call that change nothing of the pool.
LEMMA PlainKeeps ==
    ASSUME IInv, NEW c \in Calls,
           \/ Start(c) \/ FindNone(c) \/ Leak(c)
           \/ FindNew(c) /\ Again(c, call[c].mine) /\ UNCHANGED conn
    PROVE  IInv'
<1>1. call[c] \in Call /\ Placed(call[c]) /\ tries \in 0..MaxTries
  BY OfCall DEF IInv, TypeInv
<1>2. CASE Start(c)
  <2>1. /\ \E p \in {"end", "find"} : call' = [call EXCEPT ![c].pc = p]
        /\ call[c].pc = "new" /\ UNCHANGED <<conn, pool, idleVars, cleanVars, evicted, tries>>
    BY <1>2 DEF Start, At
  <2>2. QED
    BY <1>1, <2>1, MovesTo
<1>3. CASE FindNone(c)
  <2>1. /\ \E p \in {"end", "route"} : /\ call' = [call EXCEPT ![c].pc = p]
                                       /\ p = "route" => call[c].conn = None
        /\ call[c].pc = "find" /\ UNCHANGED <<conn, pool, idleVars, cleanVars, evicted, tries>>
    BY <1>3 DEF FindNone, At
  <2>2. QED
    BY <1>1, <2>1, MovesTo
<1>4. CASE Leak(c)
  <2>1. /\ call' = [call EXCEPT ![c].pc = "gone"] /\ call[c].pc \in {"io", "body"}
        /\ UNCHANGED <<conn, pool, idleVars, cleanVars, evicted, tries>>
    BY <1>4 DEF Leak, At
  <2>2. call[c].conn # None
    BY <1>1, <2>1 DEF Placed
  <2>3. QED
    BY <1>1, <2>1, <2>2, MovesTo
<1>5. CASE FindNew(c) /\ Again(c, call[c].mine) /\ UNCHANGED conn
  <2>1. call[c].pc = "route" /\ UNCHANGED <<conn, pool, idleVars, cleanVars, evicted>>
    BY <1>5 DEF FindNew, At
  <2>2. QED
    BY <1>1, <1>5, <2>1, AgainIs, MovesTo
<1>6. QED
  BY <1>2, <1>3, <1>4, <1>5

\* isHealthy: the connection is good, or retired.
LEMMA CheckKeeps ==
    ASSUME IInv, NEW c \in Calls, Check(c)
    PROVE  IInv'
<1> DEFINE n == call[c].conn
<1>1. call[c].pc = "check" /\ UNCHANGED <<pool, idleVars, cleanVars, evicted, tries>>
  BY DEF Check, At
<1>2. n # None /\ n \in Conns /\ conn[n] \in Conn /\ tries \in 0..MaxTries
  BY <1>1, OfCall, PoolAssumption DEF Placed, IInv, TypeInv
<1>3. CASE call' = [call EXCEPT ![c].pc = "exchange"] /\ UNCHANGED conn
  BY <1>1, <1>2, <1>3, MovesTo
<1>4. CASE conn' = [conn EXCEPT ![n].noNew = TRUE] /\ call' = [call EXCEPT ![c].pc = "find"]
  <2> DEFINE k == [conn[n] EXCEPT !.noNew = TRUE]
  <2>1. k \in Conn /\ k.up = conn[n].up /\ k.h2 = conn[n].h2 /\ k.noNew
    BY <1>2 DEF Conn
  <2>2. conn' = [conn EXCEPT ![n] = k]
    BY <1>4
  <2> HIDE DEF k
  <2>3. QED
    BY <1>1, <1>2, <1>4, <2>1, <2>2, MovesWith
<1>5. QED
  BY <1>3, <1>4 DEF Check

\* An exchange begins on the connection the call holds.
LEMMA NewExchangeKeeps ==
    ASSUME IInv, NEW c \in Calls, NewExchange(c)
    PROVE  IInv'
<1> DEFINE n == call[c].conn
           k == [conn[n] EXCEPT !.wire = IF conn[n].h2 THEN conn[n].wire ELSE "busy"]
<1>1. call[c].pc = "exchange" /\ UNCHANGED <<pool, idleVars, cleanVars, evicted, tries>>
  BY DEF NewExchange, At
<1>2. n # None /\ n \in Conns /\ conn[n] \in Conn /\ tries \in 0..MaxTries
  BY <1>1, OfCall, PoolAssumption DEF Placed, IInv, TypeInv
<1>3. k \in Conn /\ k.up = conn[n].up /\ k.h2 = conn[n].h2
  BY <1>2 DEF Conn
<1>4. conn' = [conn EXCEPT ![n] = k] /\ call' = [call EXCEPT ![c].pc = "io"]
  BY DEF NewExchange
<1> HIDE DEF k
<1>5. QED
  BY <1>1, <1>2, <1>3, <1>4, MovesWith

\* However an exchange ends on an HTTP/1 connection, that is retired or clean, or an
\* exception that is not the socket's has interrupted it.
EndedBy(n, k) ==
    /\ k \in Conn /\ conn' = [conn EXCEPT ![n] = k]
    /\ k.up = conn[n].up /\ k.h2 = conn[n].h2
    /\ ~k.h2 => k.noNew \/ k.wire # "busy"

\* trackFailure and a drained body end the exchange.
LEMMA Ended ==
    ASSUME NEW n \in Conns, conn[n] \in Conn,
           TrackFailure(n) \/ Drained(n)
    PROVE  \E k : EndedBy(n, k)
<1>1. CASE TrackFailure(n)
  <2>1. PICK retire \in BOOLEAN : /\ ~conn[n].h2 => retire
                                  /\ conn' = [conn EXCEPT ![n].noNew = conn[n].noNew \/ retire]
    BY <1>1 DEF TrackFailure
  <2> DEFINE k == [conn[n] EXCEPT !.noNew = conn[n].noNew \/ retire]
  <2>2. k \in Conn /\ k.up = conn[n].up /\ k.h2 = conn[n].h2 /\ (~k.h2 => k.noNew)
    BY <2>1 DEF Conn
  <2>3. conn' = [conn EXCEPT ![n] = k]
    BY <2>1
  <2>4. QED
    BY <2>2, <2>3 DEF EndedBy
<1>2. CASE Drained(n)
  <2>1. CASE conn' = [conn EXCEPT ![n].proven = ~conn[n].h2, ![n].wire = "clean"]
    <3> DEFINE k == [conn[n] EXCEPT !.proven = ~conn[n].h2, !.wire = "clean"]
    <3>1. k \in Conn /\ k.up = conn[n].up /\ k.h2 = conn[n].h2 /\ k.wire # "busy"
      BY DEF Conn
    <3>2. conn' = [conn EXCEPT ![n] = k]
      BY <2>1
    <3>3. QED
      BY <3>1, <3>2 DEF EndedBy
  <2>2. CASE conn' = [conn EXCEPT ![n].proven = ~conn[n].h2, ![n].noNew = TRUE]
    <3> DEFINE k == [conn[n] EXCEPT !.proven = ~conn[n].h2, !.noNew = TRUE]
    <3>1. k \in Conn /\ k.up = conn[n].up /\ k.h2 = conn[n].h2 /\ k.noNew
      BY DEF Conn
    <3>2. conn' = [conn EXCEPT ![n] = k]
      BY <2>2
    <3>3. QED
      BY <3>1, <3>2 DEF EndedBy
  <2>3. QED
    BY <1>2, <2>1, <2>2 DEF Drained
<1>3. QED
  BY <1>1, <1>2

\* An exchange that has ended leaves its call to go on elsewhere.
LEMMA EndedKeeps ==
    ASSUME IInv, NEW c \in Calls, call[c].pc \in {"io", "body"},
           NEW p \in {"find", "prepare", "end"}, call' = [call EXCEPT ![c].pc = p],
           \E k : EndedBy(call[c].conn, k),
           tries' \in 0..MaxTries, UNCHANGED <<pool, idleVars, cleanVars, evicted>>
    PROVE  IInv'
<1>1. PICK k : EndedBy(call[c].conn, k)
  OBVIOUS
<1>2. call[c].conn # None
  BY OfCall DEF Placed
<1>3. QED
  BY <1>1, <1>2, MovesWith DEF EndedBy

\* Reading or writing fails: a retry on the same connection or another.
LEMMA IoFailsKeeps ==
    ASSUME IInv, NEW c \in Calls, IoFails(c)
    PROVE  IInv'
<1> DEFINE n == call[c].conn
<1>1. /\ call[c].pc \in {"io", "exchange"} /\ Again(c, call[c].mine)
      /\ UNCHANGED <<pool, idleVars, cleanVars, evicted>>
  BY DEF IoFails, At
<1>2. n # None /\ n \in Conns /\ conn[n] \in Conn
  BY <1>1, OfCall, PoolAssumption DEF Placed
<1>3. PICK p \in {"find", "end"} : call' = [call EXCEPT ![c].pc = p]
  BY <1>1, AgainIs
<1>4. tries' \in 0..MaxTries
  BY <1>1, AgainIs
<1>5. CASE call[c].pc = "io" /\ TrackFailure(n)
  <2>1. \E k : EndedBy(n, k)
    BY <1>2, <1>5, Ended
  <2>2. QED
    BY <1>1, <1>3, <1>4, <1>5, <2>1, EndedKeeps
<1>6. CASE call[c].pc = "exchange" /\ UNCHANGED conn
  BY <1>1, <1>2, <1>3, <1>4, <1>6, MovesTo
<1>7. QED
  BY <1>5, <1>6 DEF IoFails, At

\* A response is followed up, its body read or given up, or the call throws.
LEMMA IoEndsKeeps ==
    ASSUME IInv, NEW c \in Calls, FollowUp(c) \/ BodyDone(c) \/ BodyFails(c) \/ IoThrows(c)
    PROVE  IInv'
<1> DEFINE n == call[c].conn
<1>1. call[c].pc \in {"io", "body"} /\ UNCHANGED <<pool, idleVars, cleanVars, evicted>>
  BY DEF FollowUp, BodyDone, BodyFails, IoThrows, At
<1>2. n # None /\ n \in Conns /\ conn[n] \in Conn
  BY <1>1, OfCall, PoolAssumption DEF Placed
<1>3. tries' \in 0..MaxTries
  BY PoolAssumption DEF IInv, TypeInv, FollowUp, BodyDone, BodyFails, IoThrows
<1>4. \E p \in {"prepare", "end"} : call' = [call EXCEPT ![c].pc = p]
  BY DEF FollowUp, BodyDone, BodyFails, IoThrows
<1>5. \E k : EndedBy(n, k)
  <2>1. CASE IoThrows(c)
    <3> DEFINE k == [conn[n] EXCEPT !.wire = IF conn[n].h2 THEN conn[n].wire ELSE "halfway"]
    <3>1. /\ k \in Conn /\ k.up = conn[n].up /\ k.h2 = conn[n].h2
          /\ ~k.h2 => k.wire # "busy"
      BY <1>2 DEF Conn
    <3>2. conn' = [conn EXCEPT ![n] = k]
      BY <2>1 DEF IoThrows
    <3>3. QED
      BY <3>1, <3>2 DEF EndedBy
  <2>2. CASE ~IoThrows(c)
    <3>1. TrackFailure(n) \/ Drained(n)
      BY <2>2 DEF FollowUp, BodyDone, BodyFails
    <3>2. QED
      BY <1>2, <3>1, Ended
  <2>3. QED
    BY <2>1, <2>2
<1>6. QED
  BY <1>1, <1>3, <1>4, <1>5, EndedKeeps

\* The response goes to the caller, its body still to be read.
LEMMA RespondKeeps ==
    ASSUME IInv, NEW c \in Calls, Respond(c)
    PROVE  IInv'
<1> DEFINE n == call[c].conn
<1>1. call[c].pc = "io" /\ UNCHANGED <<pool, idleVars, cleanVars, evicted, tries>>
  BY DEF Respond, At
<1>2. n # None /\ n \in Conns /\ conn[n] \in Conn /\ tries \in 0..MaxTries
  BY <1>1, OfCall, PoolAssumption DEF Placed, IInv, TypeInv
<1>3. PICK close \in BOOLEAN : conn' = [conn EXCEPT ![n].noNew = conn[n].noNew \/ close]
  BY DEF Respond
<1> DEFINE k == [conn[n] EXCEPT !.noNew = conn[n].noNew \/ close]
<1>4. k \in Conn /\ k.up = conn[n].up /\ k.h2 = conn[n].h2
  BY <1>2 DEF Conn
<1>5. conn' = [conn EXCEPT ![n] = k] /\ call' = [call EXCEPT ![c].pc = "body"]
  BY <1>3 DEF Respond
<1> HIDE DEF k
<1>6. QED
  BY <1>1, <1>2, <1>4, <1>5, MovesWith

\* cancel() changes nothing but what it is about to close.
LEMMA CancelKeeps ==
    ASSUME IInv, NEW c \in Calls, Cancel(c) \/ CancelClose(c)
    PROVE  IInv'
<1>1. /\ call[c] \in Call /\ Placed(call[c]) /\ conn \in [Conns -> Conn] /\ tries \in 0..MaxTries
      /\ UNCHANGED <<conn, pool, idleVars, cleanVars, evicted, tries>>
  BY OfCall DEF IInv, TypeInv, Cancel, CancelClose
<1>2. PICK b \in BOOLEAN, k \in Conns \cup {None} :
         call' = [call EXCEPT ![c] = [call[c] EXCEPT !.canceled = b, !.kill = k]]
  <2>1. CASE Cancel(c)
    <3>1. Target(c) \in Conns \cup {None}
      BY <1>1 DEF Target, Call
    <3>2. call' = [call EXCEPT ![c] = [call[c] EXCEPT !.canceled = TRUE, !.kill = Target(c)]]
      BY <2>1 DEF Cancel
    <3>3. QED
      BY <3>1, <3>2
  <2>2. CASE CancelClose(c)
    <3>1. call[c].canceled \in BOOLEAN
      BY <1>1 DEF Call
    <3>2. call' = [call EXCEPT ![c] = [call[c] EXCEPT !.canceled = call[c].canceled, !.kill = None]]
      BY <1>1, <2>2 DEF CancelClose, Call
    <3>3. QED
      BY <3>1, <3>2
  <2>3. QED
    BY <2>1, <2>2
<1> DEFINE r == [call[c] EXCEPT !.canceled = b, !.kill = k]
<1>3. /\ r \in Call /\ r.pc = call[c].pc /\ r.conn = call[c].conn /\ r.mine = call[c].mine
      /\ r.toClose = call[c].toClose
  BY <1>1 DEF Call
<1>4. Placed(r)
  BY <1>1, <1>3 DEF Placed
<1> HIDE DEF r
<1>5. call' = [call EXCEPT ![c] = r]
  BY <1>2 DEF r
<1>6. r.conn # None /\ ~conn[r.conn].h2
      => /\ r.pc \in {"check", "exchange"} => conn'[r.conn].wire # "busy"
         /\ conn'[r.conn].wire = "busy" /\ ~conn'[r.conn].noNew
            => r.pc \in {"io", "body", "gone"}
  BY <1>1, <1>3, OfCall
<1>7. QED
  BY <1>1, <1>3, <1>4, <1>5, <1>6, GoesOn

\* A call gives its connection back, for another one or for none.
LEMMA ReleaseKeeps ==
    ASSUME IInv, NEW c \in Calls, call[c].conn # None,
           call[c].pc \in {"find", "prepare", "end"}, call[c].toClose = None,
           NEW m \in pool \cup {None}, m # call[c].conn,
           m # None => Carries(m),
           NEW next \in {"find", "route", "check", "end", "done"},
           next = "check" <=> m # None,
           NEW mine \in {call[c].mine, None},
           Release(c, m, next, mine), UNCHANGED <<conn, victim, evicted, tries>>
    PROVE  IInv'
<1> DEFINE n == call[c].conn
           last == Users(n) = {c}
           leaves == last /\ LeavesPool(n)
           rests == last /\ ~LeavesPool(n)
           others == Without(idle, m)
           closing == IF leaves THEN n ELSE None
           r == [call[c] EXCEPT !.conn = m, !.pc = next, !.mine = mine, !.toClose = closing]
<1>1. /\ call[c] \in Call /\ Placed(call[c]) /\ n \in pool /\ n \in Conns /\ c \in Users(n)
      /\ conn \in [Conns -> Conn] /\ pool \subseteq Conns /\ call \in [Calls -> Call]
  BY OfCall DEF IInv, TypeInv
<1>2. mine \notin Conns /\ mine \in {None, Failed}
  BY <1>1, PoolAssumption DEF Placed, Call
<1>3. /\ call' = [call EXCEPT ![c] = r]
      /\ pool' = IF leaves THEN pool \ {n} ELSE pool
      /\ idle' = IF rests THEN Append(others, n) ELSE others
      /\ due' = due - (IF \E i \in 1..due : idle[i] = m THEN 1 ELSE 0)
      /\ cleaner' = IF rests /\ cleaner = "waiting" THEN "run" ELSE cleaner
      /\ UNCHANGED <<conn, victim, evicted, tries>>
  BY DEF Release
<1>4. /\ r \in Call /\ r.conn = m /\ r.pc = next /\ r.mine = mine
      /\ r.toClose = IF leaves THEN n ELSE None
  <2>1. m \in Conns \cup {None} /\ closing \in Conns \cup {None}
    BY <1>1
  <2> HIDE DEF closing
  <2>2. /\ r \in Call /\ r.conn = m /\ r.pc = next /\ r.mine = mine
        /\ r.toClose = closing
    BY <1>1, <1>2, <2>1 DEF Call
  <2>3. QED
    BY <2>2 DEF closing
<1> HIDE DEF r
<1>5. /\ call' \in [Calls -> Call] /\ call'[c] = r
      /\ \A d \in Calls : d # c => call'[d] = call[d]
  BY <1>1, <1>3, <1>4
<1>6. \A k : Users(k)' = IF k = m THEN Users(k) \cup {c} ELSE Users(k) \ {c}
  BY <1>4, <1>5 DEF Users
<1>7. /\ \A k : k # n => c \notin Users(k)
      /\ m # None => c \notin Users(m) /\ m \in Conns
  BY <1>1 DEF Users
<1>8. /\ None \notin pool /\ pool' \subseteq pool
      /\ \A k : leaves /\ k = n => Users(k)' = {}
  <2>1. None \notin pool /\ pool' \subseteq pool
    BY <1>1, <1>3, PoolAssumption
  <2>2. ASSUME leaves, NEW k, k = n PROVE Users(k)' = {}
    <3>1. Users(k)' = Users(k) \ {c} /\ Users(k) = {c}
      BY <1>6, <2>2
    <3>2. QED
      BY <3>1
  <2>3. QED
    BY <2>1, <2>2
<1>9. TypeInv'
  <2>1. Placed(r)
    BY <1>2, <1>4 DEF Placed
  <2>2. QED
    BY <1>1, <1>3, <1>5, <2>1 DEF IInv, TypeInv
<1>10. IdleInv'
  <2>1. /\ others \in Seq(Conns) /\ Once(others) /\ due' \in 0..Len(others)
        /\ ToSet(others) = ToSet(idle) \ {m}
    BY <1>3, Unidled DEF IInv
  <2> HIDE DEF others
  <2>2. IsFiniteSet(pool) /\ ToSet(idle) = {k \in pool : Users(k) = {}}
    BY DEF IInv, IdleInv
  <2>3. IsFiniteSet(pool')
    BY <1>8, <2>2, FS_Subset
  <2>4. ToSet(idle)' = {k \in pool' : Users(k)' = {}}
    <3>1. CASE rests
      <4>1. ToSet(idle') = ToSet(others) \cup {n}
        BY <1>1, <1>3, <2>1, <3>1, Appended
      <4>2. /\ \A k \in pool' : Users(k)' = {} <=> (k # m /\ Users(k) = {}) \/ k = n
            /\ pool' = pool
        BY <1>1, <1>3, <1>6, <1>7, <1>8, <3>1
      <4>3. QED
        BY <1>1, <2>1, <2>2, <4>1, <4>2
    <3>2. CASE ~rests
      <4>1. idle' = others
        BY <1>3, <3>2
      <4>2. \A k \in pool' : Users(k)' = {} <=> k # m /\ Users(k) = {}
        <5>1. ASSUME NEW k \in pool' PROVE Users(k)' = {} <=> k # m /\ Users(k) = {}
          <6>1. CASE k = n
            <7>1. ~last
              BY <1>3, <3>2, <5>1, <6>1
            <7>2. QED
              BY <1>1, <1>6, <6>1, <7>1
          <6>2. CASE k # n
            BY <1>6, <1>7, <6>2
          <6>3. QED
            BY <6>1, <6>2
        <5>2. QED
          BY <5>1
      <4>3. n \notin {k \in pool : Users(k) = {}}
        BY <1>1
      <4>4. QED
        BY <1>3, <2>1, <2>2, <4>1, <4>2, <4>3
    <3>3. QED
      BY <3>1, <3>2
  <2>5. idle' \in Seq(Conns) /\ Once(idle') /\ due' \in 0..Len(idle')
    <3>1. n \notin ToSet(others)
      BY <1>1, <2>1, <2>2
    <3>2. CASE rests
      <4>1. /\ Append(others, n) \in Seq(Conns) /\ Len(Append(others, n)) = Len(others) + 1
            /\ Once(Append(others, n)) /\ Len(others) \in Nat
        BY <1>1, <2>1, <3>1, Appended
      <4>2. QED
        BY <1>3, <2>1, <3>2, <4>1
    <3>3. QED
      BY <1>3, <2>1, <3>2
  <2>6. QED
    BY <2>3, <2>4, <2>5 DEF IdleInv
<1>11. HeldInv'
  <2>1. ASSUME NEW d \in Calls, call'[d].conn # None PROVE call'[d].conn \in pool'
    <3>1. CASE d = c
      BY <1>3, <1>4, <1>5, <2>1, <3>1
    <3>2. CASE d # c
      <4>1. call'[d].conn = call[d].conn /\ call[d].conn \in pool
        BY <1>5, <2>1, <3>2 DEF IInv, HeldInv
      <4>2. leaves => call[d].conn # n
        BY <3>2 DEF Users
      <4>3. QED
        BY <1>3, <4>1, <4>2
    <3>3. QED
      BY <3>1, <3>2
  <2>2. ASSUME NEW k \in pool'
        PROVE  /\ conn'[k].up = "open" /\ k # victim' /\ k \notin evicted'
               /\ \A d \in Calls : call'[d].toClose # k /\ call'[d].mine # k
    <3>1. k \in pool /\ k # None /\ k # Failed
      BY <1>1, <1>8, PoolAssumption
    <3>2. r.toClose # k /\ r.mine # k
      BY <1>2, <1>3, <1>4, <2>2, <3>1
    <3>3. QED
      BY <1>3, <1>5, <3>1, <3>2 DEF IInv, HeldInv
  <2>3. QED
    BY <2>1, <2>2 DEF HeldInv
<1>12. MineInv'
  <2>1. ASSUME NEW d \in Calls, call'[d].mine \in Conns
        PROVE  /\ d # c /\ call'[d] = call[d]
               /\ \A e \in Calls : /\ call'[e].toClose # call[d].mine
                                   /\ e # d => call'[e].mine # call[d].mine
    <3>1. d # c /\ call'[d] = call[d]
      BY <1>2, <1>4, <1>5, <2>1
    <3>2. call[d].mine # n /\ call[d].mine # None
      BY <1>1, <2>1, <3>1, PoolAssumption DEF IInv, HeldInv
    <3>3. r.toClose # call[d].mine /\ r.mine # call[d].mine
      BY <1>2, <1>4, <2>1, <3>1, <3>2
    <3>4. QED
      BY <1>5, <2>1, <3>1, <3>3 DEF IInv, MineInv
  <2>2. QED
    BY <1>3, <2>1 DEF IInv, MineInv
<1>13. WireInv'
  <2>1. ASSUME NEW k \in pool', ~conn[k].h2
        PROVE  /\ \A d, e \in Users(k)' : d = e
               /\ \A d \in Users(k)' : call'[d].pc \in {"check", "exchange"} => conn[k].wire # "busy"
               /\ conn[k].wire = "busy" /\ ~conn[k].noNew
                  => \E d \in Users(k)' : call'[d].pc \in {"io", "body", "gone"}
    <3>1. /\ k \in pool /\ \A d, e \in Users(k) : d = e
          /\ \A d \in Users(k) : call[d].pc \in {"check", "exchange"} => conn[k].wire # "busy"
          /\ conn[k].wire = "busy" /\ ~conn[k].noNew
             => \E d \in Users(k) : call[d].pc \in {"io", "body", "gone"}
      BY <1>8, <2>1 DEF IInv, WireInv
    <3>2. CASE k = m
      <4>1. Users(k) = {} /\ ~conn[k].noNew
        BY <1>8, <2>1, <3>1, <3>2 DEF Carries
      <4>2. Users(k)' = {c} /\ conn[k].wire # "busy"
        BY <1>6, <3>1, <3>2, <4>1
      <4>3. QED
        BY <4>2
    <3>3. CASE k # m
      <4>1. Users(k)' = Users(k) \ {c} /\ \A d \in Users(k)' : call'[d] = call[d]
        BY <1>5, <1>6, <3>3 DEF Users
      <4>2. c \in Users(k) => call[c].pc \notin {"io", "body", "gone"}
        OBVIOUS
      <4>3. QED
        BY <3>1, <4>1, <4>2
    <3>4. QED
      BY <3>2, <3>3
  <2>2. QED
    BY <1>3, <2>1 DEF IInv, WireInv
<1>14. CleanerWatches'
  BY <1>3, <1>8 DEF IInv, CleanerWatches
<1>15. QED
  BY <1>9, <1>10, <1>11, <1>12, <1>13, <1>14 DEF IInv

\* findConnection with a connection in hand: kept, or released.
LEMMA FindHeldKeeps ==
    ASSUME IInv, NEW c \in Calls, FindHeld(c)
    PROVE  IInv'
<1> DEFINE n == call[c].conn
<1>1. /\ call[c].pc = "find" /\ call[c].toClose = None /\ n # None
      /\ UNCHANGED <<conn, victim, evicted, tries>>
  BY DEF FindHeld, At
<1>2. /\ conn' \in [Conns -> Conn] /\ tries' \in 0..MaxTries
  BY <1>1 DEF IInv, TypeInv
<1>3. CASE /\ ~conn[n].noNew /\ call' = [call EXCEPT ![c].pc = "check"]
           /\ UNCHANGED <<pool, idleVars, cleaner>>
  BY <1>1, <1>2, <1>3, MovesTo DEF cleanVars
<1>4. CASE Release(c, None, "route", call[c].mine)
  <2>1. None \in pool \cup {None} /\ call[c].mine \in {call[c].mine, None}
    OBVIOUS
  <2>2. QED
    BY <1>1, <1>4, <2>1, ReleaseKeeps
<1>5. ASSUME NEW m \in pool, conn[n].noNew, Carries(m), Release(c, m, "check", call[c].mine)
      PROVE  IInv'
  <2>1. m # n /\ m # None
    BY <1>5, PoolAssumption DEF Carries, IInv, TypeInv
  <2>2. m \in pool \cup {None} /\ call[c].mine \in {call[c].mine, None}
    OBVIOUS
  <2>3. QED
    BY <1>1, <1>5, <2>1, <2>2, ReleaseKeeps
<1>6. QED
  BY <1>3, <1>4, <1>5 DEF FindHeld

\* A call that is over, or prepares for the next exchange.
LEMMA OverKeeps ==
    ASSUME IInv, NEW c \in Calls, Prepare(c) \/ End(c)
    PROVE  IInv'
<1>1. /\ call[c].pc \in {"prepare", "end"} /\ call[c].toClose = None
      /\ UNCHANGED <<conn, victim, evicted, tries>>
  BY DEF Prepare, End, At
<1>2. conn' \in [Conns -> Conn] /\ tries' \in 0..MaxTries
  BY <1>1 DEF IInv, TypeInv
<1>3. PICK next \in {"find", "end", "done"} :
         \/ call[c].conn # None /\ Release(c, None, next, None)
         \/ /\ call' = [call EXCEPT ![c].pc = next] /\ UNCHANGED <<pool, idleVars, cleaner>>
            /\ next = "done" => call[c].conn = None
  <2>1. CASE Prepare(c)
    <3>1. call[c].conn # None
      BY <2>1, OfCall DEF Prepare, At, Placed
    <3>2. CASE call[c].canceled
      BY <2>1, <3>1, <3>2 DEF Prepare
    <3>3. CASE ~call[c].canceled
      BY <2>1, <3>1, <3>3 DEF Prepare
    <3>4. QED
      BY <3>2, <3>3
  <2>2. CASE End(c)
    BY <2>2 DEF End
  <2>3. QED
    BY <2>1, <2>2
<1>4. CASE call[c].conn # None /\ Release(c, None, next, None)
  <2>1. None \in pool \cup {None} /\ None \in {call[c].mine, None} /\ next # "check"
    OBVIOUS
  <2>2. QED
    BY <1>1, <1>4, <2>1, ReleaseKeeps
<1>5. CASE /\ call' = [call EXCEPT ![c].pc = next] /\ UNCHANGED <<pool, idleVars, cleaner>>
           /\ next = "done" => call[c].conn = None
  BY <1>1, <1>2, <1>5, MovesTo DEF cleanVars
<1>6. QED
  BY <1>3, <1>4, <1>5

\* A call that has no connection takes one of the pool, and leaves the one it has made,
\* if any, to be closed.
LEMMA TakesKeeps ==
    ASSUME IInv, NEW c \in Calls, call[c].conn = None, call[c].toClose = None,
           NEW n \in pool, Carries(n), Unidle(n),
           NEW r \in Call, call' = [call EXCEPT ![c] = r], r.conn = n, r.pc = "check",
           \/ r.mine = call[c].mine /\ call[c].mine \notin Conns /\ r.toClose = None
           \/ r.mine = None /\ call[c].mine \in Conns /\ r.toClose = call[c].mine,
           conn' \in [Conns -> Conn],
           \A k \in Conns : /\ conn'[k].up = conn[k].up /\ conn'[k].h2 = conn[k].h2
                            /\ conn'[k].wire = conn[k].wire
                            /\ k # call[c].mine => conn'[k] = conn[k],
           UNCHANGED <<pool, cleanVars, evicted, tries>>
    PROVE  IInv'
<1>1. /\ call \in [Calls -> Call] /\ pool \subseteq Conns /\ n \in Conns
      /\ None \notin Conns
  BY PoolAssumption DEF IInv, TypeInv
<1>2. /\ call' \in [Calls -> Call] /\ call'[c] = r
      /\ \A d \in Calls : d # c => call'[d] = call[d]
  BY <1>1
<1>3. \A k : Users(k)' = IF k = n THEN Users(k) \cup {c} ELSE IF k = None THEN Users(k) \ {c} ELSE Users(k)
  BY <1>1, <1>2 DEF Users
<1>4. r.mine \notin Conns
  BY <1>1
<1>5. call[c].mine \notin pool /\ \A k \in pool : conn'[k] = conn[k]
  BY <1>1 DEF IInv, HeldInv
<1>6. TypeInv'
  <2>1. Placed(r)
    BY <1>1, <1>4 DEF Placed
  <2>2. QED
    BY <1>1, <1>2, <2>1 DEF IInv, TypeInv, cleanVars
<1>7. IdleInv'
  <2>1. /\ idle' \in Seq(Conns) /\ Once(idle') /\ due' \in 0..Len(idle')
        /\ ToSet(idle') = ToSet(idle) \ {n}
    BY Unidled DEF IInv, Unidle
  <2>2. IsFiniteSet(pool) /\ ToSet(idle) = {k \in pool : Users(k) = {}}
    BY DEF IInv, IdleInv
  <2>3. \A k \in pool : Users(k)' = {} <=> k # n /\ Users(k) = {}
    BY <1>1, <1>3
  <2>4. ToSet(idle)' = {k \in pool' : Users(k)' = {}}
    BY <2>1, <2>2, <2>3
  <2>5. QED
    BY <2>1, <2>2, <2>4 DEF IdleInv
<1>8. HeldInv'
  <2>1. ASSUME NEW k \in pool PROVE r.toClose # k /\ r.mine # k
    BY <1>1, <1>4, <1>5
  <2>2. QED
    BY <1>1, <1>2, <1>5, <2>1 DEF IInv, HeldInv, cleanVars
<1>9. MineInv'
  <2>1. ASSUME NEW d \in Calls, call'[d].mine \in Conns
        PROVE  /\ d # c /\ call'[d] = call[d] /\ conn'[call[d].mine] = conn[call[d].mine]
               /\ \A e \in Calls : /\ call'[e].toClose # call[d].mine
                                   /\ e # d => call'[e].mine # call[d].mine
    <3>1. d # c /\ call'[d] = call[d]
      BY <1>2, <1>4, <2>1
    <3>2. call[c].mine # call[d].mine
      BY <2>1, <3>1 DEF IInv, MineInv
    <3>3. r.toClose # call[d].mine /\ r.mine # call[d].mine
      BY <1>1, <1>4, <2>1, <3>1, <3>2
    <3>4. QED
      BY <1>2, <2>1, <3>1, <3>2, <3>3 DEF IInv, MineInv
  <2>2. QED
    BY <2>1 DEF IInv, MineInv, cleanVars
<1>10. WireInv'
  <2>1. ASSUME NEW k \in pool, ~conn[k].h2
        PROVE  /\ \A d, e \in Users(k)' : d = e
               /\ \A d \in Users(k)' : call'[d].pc \in {"check", "exchange"} => conn[k].wire # "busy"
               /\ conn[k].wire = "busy" /\ ~conn[k].noNew
                  => \E d \in Users(k)' : call'[d].pc \in {"io", "body", "gone"}
    <3>1. /\ \A d, e \in Users(k) : d = e
          /\ \A d \in Users(k) : call[d].pc \in {"check", "exchange"} => conn[k].wire # "busy"
          /\ conn[k].wire = "busy" /\ ~conn[k].noNew
             => \E d \in Users(k) : call[d].pc \in {"io", "body", "gone"}
      BY <2>1 DEF IInv, WireInv
    <3>2. CASE k = n
      <4>1. Users(k) = {} /\ ~conn[k].noNew
        BY <2>1, <3>2 DEF Carries
      <4>2. Users(k)' = {c} /\ conn[k].wire # "busy"
        BY <1>3, <3>1, <3>2, <4>1
      <4>3. QED
        BY <4>2
    <3>3. CASE k # n
      <4>1. Users(k)' = Users(k) /\ \A d \in Users(k)' : call'[d] = call[d]
        BY <1>1, <1>2, <1>3, <3>3 DEF Users
      <4>2. QED
        BY <3>1, <4>1
    <3>4. QED
      BY <3>2, <3>3
  <2>2. QED
    BY <1>5, <2>1 DEF IInv, WireInv
<1>11. CleanerWatches'
  BY DEF IInv, CleanerWatches, cleanVars
<1>12. QED
  BY <1>6, <1>7, <1>8, <1>9, <1>10, <1>11 DEF IInv

\* findConnection with one from the pool.
LEMMA FindPooledKeeps ==
    ASSUME IInv, NEW c \in Calls, FindPooled(c)
    PROVE  IInv'
<1>1. /\ call[c].pc \in {"find", "route"} /\ call[c].toClose = None /\ call[c].conn = None
      /\ UNCHANGED <<conn, pool, cleanVars, evicted, tries>>
  BY DEF FindPooled, At
<1>2. PICK n \in pool : /\ Carries(n) /\ Unidle(n)
                        /\ call' = [call EXCEPT ![c].conn = n, ![c].pc = "check"]
  BY DEF FindPooled
<1> DEFINE r == [call[c] EXCEPT !.conn = n, !.pc = "check"]
<1>3. /\ call[c] \in Call /\ call[c].mine \notin Conns /\ n \in Conns
      /\ conn \in [Conns -> Conn]
  BY <1>1, OfCall DEF Placed, IInv, TypeInv
<1>4. /\ r \in Call /\ r.conn = n /\ r.pc = "check" /\ r.mine = call[c].mine
      /\ r.toClose = call[c].toClose
  BY <1>3 DEF Call
<1>5. call' = [call EXCEPT ![c] = r]
  BY <1>2
<1> HIDE DEF r
<1>6. QED
  BY ZenonT(60), <1>1, <1>2, <1>3, <1>4, <1>5, TakesKeeps

\* findConnection makes one.
LEMMA FindNewKeeps ==
    ASSUME IInv, NEW c \in Calls, FindNew(c)
    PROVE  IInv'
<1>1. /\ call[c].pc = "route" /\ call[c].toClose = None
      /\ UNCHANGED <<pool, idleVars, cleanVars, evicted>>
  BY DEF FindNew, At
<1>2. CASE Again(c, call[c].mine) /\ UNCHANGED conn
  BY <1>2, PlainKeeps
<1>3. ASSUME NEW n \in Conns, Unreferenced(n), UNCHANGED tries,
             conn' = [conn EXCEPT ![n].up = "connecting"],
             call' = [call EXCEPT ![c].mine = n, ![c].pc = "connect"]
      PROVE  IInv'
  <2> DEFINE r == [call[c] EXCEPT !.mine = n, !.pc = "connect"]
             k == [conn[n] EXCEPT !.up = "connecting"]
  <2>1. /\ call[c] \in Call /\ call[c].conn = None /\ call \in [Calls -> Call]
        /\ conn \in [Conns -> Conn] /\ conn[n] \in Conn /\ pool \subseteq Conns /\ n # None
    BY <1>1, OfCall, PoolAssumption DEF Placed, IInv, TypeInv
  <2>2. /\ r \in Call /\ r.conn = None /\ r.pc = "connect" /\ r.mine = n /\ r.toClose = None
    BY <1>1, <2>1 DEF Call
  <2>3. k \in Conn /\ k.up = "connecting" /\ k.wire = "clean"
    BY <1>3, <2>1 DEF Conn, Unreferenced, IInv, WireInv
  <2>4. call' = [call EXCEPT ![c] = r] /\ conn' = [conn EXCEPT ![n] = k]
    BY <1>3
  <2> HIDE DEF r, k
  <2>5. /\ call' \in [Calls -> Call] /\ call'[c] = r
        /\ \A d \in Calls : d # c => call'[d] = call[d]
        /\ conn' \in [Conns -> Conn] /\ conn'[n] = k
        /\ \A m \in Conns : m # n => conn'[m] = conn[m]
    BY <2>1, <2>2, <2>3, <2>4
  <2>6. /\ n \notin pool /\ n # victim /\ n \notin evicted
        /\ \A d \in Calls : call[d].mine # n /\ call[d].toClose # n
    BY <1>3 DEF Unreferenced
  <2>7. \A m : Users(m)' = Users(m)
    BY <2>1, <2>2, <2>5 DEF Users
  <2>8. TypeInv'
    <3>1. Placed(r)
      BY <2>1, <2>2 DEF Placed
    <3>2. QED
      BY <1>1, <1>3, <2>5, <3>1 DEF IInv, TypeInv, cleanVars
  <2>9. IdleInv'
    BY <1>1, <2>7 DEF IInv, IdleInv, idleVars
  <2>10. HeldInv'
    <3>1. \A m \in pool : conn'[m] = conn[m] /\ r.mine # m /\ r.toClose # m
      BY <2>1, <2>2, <2>5, <2>6, PoolAssumption
    <3>2. QED
      BY <1>1, <2>1, <2>2, <2>5, <3>1 DEF IInv, HeldInv, cleanVars
  <2>11. MineInv'
    <3>1. ASSUME NEW d \in Calls, d # c, call[d].mine \in Conns
          PROVE  /\ conn'[call[d].mine] = conn[call[d].mine] /\ call'[d] = call[d]
                 /\ \A e \in Calls : /\ call'[e].toClose # call[d].mine
                                     /\ e # d => call'[e].mine # call[d].mine
      <4>1. call[d].mine # n /\ call[d].mine # None
        BY <2>6, <3>1, PoolAssumption
      <4>2. QED
        BY <2>2, <2>5, <3>1, <4>1 DEF IInv, MineInv
    <3>2. \A e \in Calls : call'[e].toClose # n /\ (e # c => call'[e].mine # n)
      BY <2>1, <2>2, <2>5, <2>6
    <3>3. QED
      BY <1>1, <2>2, <2>3, <2>5, <2>6, <3>1, <3>2 DEF IInv, MineInv, cleanVars
  <2>12. WireInv'
    <3>1. \A m \in pool : conn'[m] = conn[m] /\ \A d \in Users(m) : call'[d].pc = call[d].pc
      BY <2>1, <2>5, <2>6, PoolAssumption DEF Users
    <3>2. QED
      BY <1>1, <2>3, <2>5, <2>7, <3>1 DEF IInv, WireInv
  <2>13. CleanerWatches'
    BY <1>1 DEF IInv, CleanerWatches, cleanVars
  <2>14. QED
    BY <2>8, <2>9, <2>10, <2>11, <2>12, <2>13 DEF IInv
<1>4. QED
  BY <1>2, <1>3 DEF FindNew

\* The connection that a call is making is made, or has failed.
LEMMA MakingKeeps ==
    ASSUME IInv, NEW c \in Calls, call[c].pc = "connect", call[c].toClose = None,
           NEW n, n = call[c].mine, NEW k \in Conn, k.wire = "clean",
           NEW r \in Call, r.conn = None, r.toClose = None,
           \/ r.mine = n /\ r.pc = "put" /\ k.up = "open"
           \/ r.mine = Failed /\ r.pc \in {"find", "end"},
           call' = [call EXCEPT ![c] = r], conn' = [conn EXCEPT ![n] = k],
           tries' \in 0..MaxTries, UNCHANGED <<pool, idleVars, cleanVars, evicted>>
    PROVE  IInv'
<1>1. /\ call[c].conn = None /\ n \in Conns /\ n \notin pool /\ n # None /\ n # Failed
      /\ call \in [Calls -> Call] /\ conn \in [Conns -> Conn] /\ pool \subseteq Conns
      /\ None \notin Conns /\ Failed \notin Conns
  BY OfCall, PoolAssumption DEF Placed, IInv, TypeInv, HeldInv
<1>2. /\ call' \in [Calls -> Call] /\ call'[c] = r
      /\ \A d \in Calls : d # c => call'[d] = call[d]
      /\ conn' \in [Conns -> Conn] /\ conn'[n] = k
      /\ \A m \in Conns : m # n => conn'[m] = conn[m]
  BY <1>1
<1>3. \A m : Users(m)' = Users(m)
  BY <1>1, <1>2 DEF Users
<1>4. TypeInv'
  <2>1. Placed(r)
    BY <1>1 DEF Placed
  <2>2. QED
    BY <1>2, <2>1 DEF IInv, TypeInv, cleanVars
<1>5. IdleInv'
  BY <1>3 DEF IInv, IdleInv, idleVars
<1>6. HeldInv'
  <2>1. \A m \in pool : conn'[m] = conn[m] /\ r.mine # m /\ r.toClose # m
    BY <1>1, <1>2
  <2>2. QED
    BY <1>1, <1>2, <2>1 DEF IInv, HeldInv, cleanVars
<1>7. MineInv'
  <2>1. ASSUME NEW d \in Calls, d # c, call[d].mine \in Conns
        PROVE  /\ conn'[call[d].mine] = conn[call[d].mine] /\ call'[d] = call[d]
               /\ \A e \in Calls : /\ call'[e].toClose # call[d].mine
                                   /\ e # d => call'[e].mine # call[d].mine
    <3>1. call[d].mine # n /\ call[d].mine # None /\ call[d].mine # Failed
      BY <1>1, <2>1 DEF IInv, MineInv
    <3>2. QED
      BY <1>2, <2>1, <3>1 DEF IInv, MineInv
  <2>2. ASSUME r.mine \in Conns
        PROVE  /\ r.mine = n /\ k.up = "open" /\ n # victim /\ n \notin evicted
               /\ \A e \in Calls : call'[e].toClose # n /\ (e # c => call'[e].mine # n)
    <3>1. r.mine = n /\ k.up = "open"
      BY <1>1, <2>2
    <3>2. /\ n # victim /\ n \notin evicted
          /\ \A e \in Calls : call[e].toClose # n /\ (e # c => call[e].mine # n)
      BY <1>1 DEF IInv, MineInv
    <3>3. QED
      BY <1>1, <1>2, <3>1, <3>2
  <2>3. ASSUME NEW d \in Calls, d # c, call'[d].mine \in Conns
        PROVE  LET m == call'[d].mine
               IN  /\ m # victim' /\ m \notin evicted' /\ conn'[m].wire = "clean"
                   /\ call'[d].pc = "put" => conn'[m].up = "open"
                   /\ \A e \in Calls : call'[e].toClose # m /\ (e # d => call'[e].mine # m)
    <3>1. call[d].mine \in Conns /\ call'[d] = call[d]
      BY <1>2, <2>3
    <3>2. QED
      BY <2>1, <2>3, <3>1 DEF IInv, MineInv, cleanVars
  <2>4. ASSUME call'[c].mine \in Conns
        PROVE  LET m == call'[c].mine
               IN  /\ m # victim' /\ m \notin evicted' /\ conn'[m].wire = "clean"
                   /\ call'[c].pc = "put" => conn'[m].up = "open"
                   /\ \A e \in Calls : call'[e].toClose # m /\ (e # c => call'[e].mine # m)
    BY <1>2, <2>2, <2>4 DEF cleanVars
  <2>5. QED
    BY <2>3, <2>4 DEF MineInv
<1>8. WireInv'
  <2>1. \A m \in pool : conn'[m] = conn[m] /\ \A d \in Users(m) : call'[d].pc = call[d].pc
    BY <1>1, <1>2 DEF Users
  <2>2. QED
    BY <1>2, <1>3, <2>1 DEF IInv, WireInv
<1>9. CleanerWatches'
  BY DEF IInv, CleanerWatches, cleanVars
<1>10. QED
  BY <1>4, <1>5, <1>6, <1>7, <1>8, <1>9 DEF IInv

\* A connect succeeds.
LEMMA ConnectKeeps ==
    ASSUME IInv, NEW c \in Calls, Connect(c)
    PROVE  IInv'
<1> DEFINE n == call[c].mine
           r == [call[c] EXCEPT !.pc = "put"]
<1>1. /\ call[c].pc = "connect" /\ call[c].toClose = None
      /\ UNCHANGED <<pool, idleVars, cleanVars, evicted, tries>>
  BY DEF Connect, At
<1>2. PICK h2 \in BOOLEAN : conn' = [conn EXCEPT ![n].up = "open", ![n].h2 = h2]
  BY DEF Connect
<1> DEFINE k == [conn[n] EXCEPT !.up = "open", !.h2 = h2]
<1>3. /\ call[c] \in Call /\ call[c].conn = None /\ n \in Conns /\ conn[n] \in Conn
      /\ conn[n].wire = "clean" /\ tries \in 0..MaxTries
  BY <1>1, OfCall DEF Placed, IInv, TypeInv, MineInv
<1>4. r \in Call /\ r.conn = None /\ r.toClose = None /\ r.mine = n /\ r.pc = "put"
  BY <1>1, <1>3 DEF Call
<1>5. k \in Conn /\ k.wire = "clean" /\ k.up = "open"
  BY <1>3 DEF Conn
<1>6. call' = [call EXCEPT ![c] = r] /\ conn' = [conn EXCEPT ![n] = k]
  BY <1>2 DEF Connect
<1> HIDE DEF r, k
<1>7. QED
  BY <1>1, <1>3, <1>4, <1>5, <1>6, MakingKeeps

\* A connect fails, and may be tried again.
LEMMA ConnectFailsKeeps ==
    ASSUME IInv, NEW c \in Calls, ConnectFails(c)
    PROVE  IInv'
<1> DEFINE n == call[c].mine
           r(p) == [call[c] EXCEPT !.pc = p, !.mine = Failed]
<1>1. /\ call[c].pc = "connect" /\ call[c].toClose = None
      /\ Again(c, Failed) /\ conn' = [conn EXCEPT ![n] = NewConn]
      /\ UNCHANGED <<pool, idleVars, cleanVars, evicted>>
  BY DEF ConnectFails, At
<1>2. /\ call[c] \in Call /\ call[c].conn = None /\ n \in Conns /\ tries \in 0..MaxTries
  BY <1>1, OfCall DEF Placed, IInv, TypeInv
<1>3. PICK p \in {"find", "end"} : call' = [call EXCEPT ![c].pc = p, ![c].mine = Failed]
  BY <1>1 DEF Again
<1>4. tries' \in 0..MaxTries
  BY <1>1, <1>2, PoolAssumption DEF Again
<1>5. /\ r(p) \in Call /\ r(p).conn = None /\ r(p).toClose = None /\ r(p).mine = Failed
      /\ r(p).pc = p
  BY <1>1, <1>2 DEF Call
<1>6. NewConn \in Conn /\ NewConn.wire = "clean"
  BY DEF NewConn, Conn
<1>7. call' = [call EXCEPT ![c] = r(p)]
  BY <1>3
<1> HIDE DEF r
<1>8. QED
  BY <1>1, <1>2, <1>4, <1>5, <1>6, <1>7, MakingKeeps

\* The connection is pooled, or closed in favour of another.
LEMMA PutKeeps ==
    ASSUME IInv, NEW c \in Calls, Put(c)
    PROVE  IInv'
<1>1. PICK n : n = call[c].mine
  OBVIOUS
<1>2. call[c].pc = "put" /\ call[c].toClose = None /\ UNCHANGED <<victim, evicted, tries>>
  BY DEF Put, At
<1>3. /\ call[c] \in Call /\ call[c].conn = None /\ n \in Conns /\ n \notin pool
      /\ n # None /\ n # victim /\ n \notin evicted
      /\ conn[n].up = "open" /\ conn[n].wire = "clean"
      /\ \A d \in Calls : call[d].toClose # n /\ (d # c => call[d].mine # n)
      /\ call \in [Calls -> Call] /\ conn \in [Conns -> Conn] /\ pool \subseteq Conns
      /\ None \notin Conns
  BY <1>1, <1>2, OfCall, PoolAssumption DEF Placed, IInv, TypeInv, HeldInv, MineInv
<1>4. ASSUME NEW m \in pool, Carries(m), Unidle(m),
             call' = [call EXCEPT ![c].conn = m, ![c].mine = None, ![c].toClose = n,
                                  ![c].pc = "check"],
             conn' = [conn EXCEPT ![n].noNew = TRUE], UNCHANGED <<pool, cleaner>>
      PROVE  IInv'
  <2> DEFINE r == [call[c] EXCEPT !.conn = m, !.mine = None, !.toClose = n, !.pc = "check"]
             k == [conn[n] EXCEPT !.noNew = TRUE]
  <2>1. /\ r \in Call /\ r.conn = m /\ r.pc = "check" /\ r.mine = None /\ r.toClose = n
    BY <1>3 DEF Call
  <2>2. k \in Conn /\ k.up = conn[n].up /\ k.h2 = conn[n].h2 /\ k.wire = conn[n].wire
    BY <1>3 DEF Conn
  <2>3. call' = [call EXCEPT ![c] = r] /\ conn' = [conn EXCEPT ![n] = k]
    BY <1>4
  <2> HIDE DEF r, k
  <2>4. /\ conn' \in [Conns -> Conn]
        /\ \A j \in Conns : /\ conn'[j].up = conn[j].up /\ conn'[j].h2 = conn[j].h2
                            /\ conn'[j].wire = conn[j].wire
                            /\ j # call[c].mine => conn'[j] = conn[j]
    BY <1>1, <1>3, <2>2, <2>3
  <2>5. /\ r.mine = None /\ call[c].mine \in Conns /\ r.toClose = call[c].mine
        /\ UNCHANGED <<pool, cleanVars, evicted, tries>>
    BY <1>1, <1>2, <1>3, <1>4, <2>1 DEF cleanVars
  <2>6. call[c].conn = None /\ call[c].toClose = None /\ Carries(m) /\ Unidle(m)
    BY <1>2, <1>3, <1>4
  <2>7. QED
    BY <2>1, <2>3, <2>4, <2>5, <2>6, TakesKeeps
<1>5. ASSUME pool' = pool \cup {n},
             call' = [call EXCEPT ![c].conn = n, ![c].mine = None, ![c].pc = "check"],
             cleaner' = IF cleaner = "off" THEN "run" ELSE cleaner,
             UNCHANGED <<conn, idleVars>>
      PROVE  IInv'
  <2> DEFINE r == [call[c] EXCEPT !.conn = n, !.mine = None, !.pc = "check"]
  <2>1. r \in Call /\ r.conn = n /\ r.pc = "check" /\ r.mine = None /\ r.toClose = None
    BY <1>2, <1>3 DEF Call
  <2>2. call' = [call EXCEPT ![c] = r]
    BY <1>5
  <2> HIDE DEF r
  <2>3. /\ call' \in [Calls -> Call] /\ call'[c] = r
        /\ \A d \in Calls : d # c => call'[d] = call[d]
    BY <1>3, <2>1, <2>2
  <2>4. Users(n)' = {c} /\ Users(n) = {} /\ \A k \in pool : Users(k)' = Users(k) /\ c \notin Users(k)
    <3>1. ASSUME NEW d \in Calls PROVE call[d].conn # n
      BY <1>3 DEF IInv, HeldInv
    <3>2. QED
      BY <1>3, <2>1, <2>3, <3>1 DEF Users
  <2>5. TypeInv'
    <3>1. Placed(r)
      BY <1>3, <2>1 DEF Placed
    <3>2. QED
      BY <1>2, <1>3, <1>5, <2>3, <3>1 DEF IInv, TypeInv
  <2>6. IdleInv'
    <3>1. IsFiniteSet(pool')
      BY <1>5, FS_AddElement DEF IInv, IdleInv
    <3>2. {k \in pool' : Users(k)' = {}} = {k \in pool : Users(k) = {}}
      BY <1>5, <2>4
    <3>3. QED
      BY <1>5, <3>1, <3>2 DEF IInv, IdleInv, idleVars
  <2>7. HeldInv'
    <3>1. \A k \in pool' : r.mine # k /\ r.toClose # k
      BY <1>3, <1>5, <2>1
    <3>2. \A k \in pool' : \A d \in Calls : call'[d].toClose # k /\ call'[d].mine # k
      BY <1>3, <1>5, <2>3, <3>1 DEF IInv, HeldInv
    <3>3. QED
      BY <1>2, <1>3, <1>5, <2>1, <2>3, <3>2 DEF IInv, HeldInv
  <2>8. MineInv'
    <3>1. ASSUME NEW d \in Calls, call'[d].mine \in Conns PROVE d # c /\ call'[d] = call[d]
      BY <1>3, <2>1, <2>3, <3>1
    <3>2. QED
      BY <1>2, <1>3, <1>5, <2>1, <2>3, <3>1 DEF IInv, MineInv
  <2>9. WireInv'
    <3>1. \A k \in pool : \A d \in Users(k) : call'[d] = call[d]
      BY <2>3, <2>4 DEF Users
    <3>2. ASSUME NEW k \in pool, ~conn[k].h2
          PROVE  /\ \A d, e \in Users(k)' : d = e
                 /\ \A d \in Users(k)' : call'[d].pc \in {"check", "exchange"} => conn[k].wire # "busy"
                 /\ conn[k].wire = "busy" /\ ~conn[k].noNew
                    => \E d \in Users(k)' : call'[d].pc \in {"io", "body", "gone"}
      <4>1. Users(k)' = Users(k)
        BY <2>4
      <4>2. QED
        BY <3>1, <3>2, <4>1 DEF IInv, WireInv
    <3>3. /\ \A d, e \in Users(n)' : d = e
          /\ conn[n].wire # "busy"
      BY <1>3, <2>4
    <3>4. /\ \A k \in Conns : conn'[k].up = "closed" => conn'[k].wire = "clean"
          /\ pool' = pool \cup {n} /\ conn' = conn
      BY <1>5 DEF IInv, WireInv
    <3>5. QED
      BY <3>2, <3>3, <3>4 DEF WireInv
  <2>10. CleanerWatches'
    BY <1>5 DEF CleanerWatches
  <2>11. QED
    BY <2>5, <2>6, <2>7, <2>8, <2>9, <2>10 DEF IInv
<1>6. QED
  BY <1>1, <1>4, <1>5 DEF Put

\* The connections D, which are out of the pool, are closed outside the monitor.
LEMMA ClosingKeeps ==
    ASSUME IInv, NEW D \in SUBSET Conns, D \cap pool = {}, \A c \in Calls : call[c].mine \notin D,
           conn' = [n \in Conns |-> IF n \in D THEN NewConn ELSE conn[n]],
           call' \in [Calls -> Call],
           \A c \in Calls : /\ call'[c].pc = call[c].pc /\ call'[c].conn = call[c].conn
                            /\ call'[c].mine = call[c].mine
                            /\ call'[c].toClose \in {call[c].toClose, None},
           victim' \in {victim, None}, evicted' \in {evicted, {}},
           cleaner' = cleaner \/ cleaner' \in {"run", "waiting"},
           UNCHANGED <<pool, idleVars, tries>>
    PROVE  IInv'
<1>1. /\ conn \in [Conns -> Conn] /\ pool \subseteq Conns /\ None \notin Conns
      /\ NewConn \in Conn /\ NewConn.wire = "clean"
  BY PoolAssumption DEF IInv, TypeInv, NewConn, Conn
<1>2. /\ conn' \in [Conns -> Conn] /\ \A n \in pool : conn'[n] = conn[n]
      /\ \A n \in Conns : conn'[n] = conn[n] \/ conn'[n].wire = "clean"
      /\ \A c \in Calls : call[c].mine \in Conns => conn'[call[c].mine] = conn[call[c].mine]
  BY <1>1
<1>3. \A n : Users(n)' = Users(n)
  BY DEF Users
<1>4. TypeInv'
  BY <1>2 DEF IInv, TypeInv, Placed
<1>5. IdleInv'
  BY <1>3 DEF IInv, IdleInv, idleVars
<1>6. HeldInv'
  BY <1>1, <1>2 DEF IInv, HeldInv
<1>7. MineInv'
  <2>1. ASSUME NEW c \in Calls, call'[c].mine \in Conns
        PROVE  LET m == call'[c].mine
               IN  /\ m # victim' /\ m \notin evicted' /\ conn'[m].wire = "clean"
                   /\ call'[c].pc = "put" => conn'[m].up = "open"
                   /\ \A d \in Calls : call'[d].toClose # m /\ (d # c => call'[d].mine # m)
    <3>1. call[c].mine \in Conns /\ call'[c].mine = call[c].mine
      BY <2>1
    <3>2. QED
      BY <1>1, <1>2, <3>1 DEF IInv, MineInv
  <2>2. QED
    BY <2>1 DEF MineInv
<1>8. WireInv'
  <2>1. ASSUME NEW n \in pool, ~conn'[n].h2
        PROVE  /\ \A c, d \in Users(n)' : c = d
               /\ \A c \in Users(n)' : call'[c].pc \in {"check", "exchange"} => conn'[n].wire # "busy"
               /\ conn'[n].wire = "busy" /\ ~conn'[n].noNew
                  => \E c \in Users(n)' : call'[c].pc \in {"io", "body", "gone"}
    <3>1. conn'[n] = conn[n] /\ Users(n)' = Users(n) /\ \A c \in Users(n) : call'[c].pc = call[c].pc
      BY <1>2, <1>3 DEF Users
    <3>2. QED
      BY <2>1, <3>1 DEF IInv, WireInv
  <2>2. \A n \in Conns : conn'[n].up = "closed" => conn'[n].wire = "clean"
    BY <1>2 DEF IInv, WireInv
  <2>3. QED
    BY <2>1, <2>2 DEF WireInv
<1>9. CleanerWatches'
  BY DEF IInv, CleanerWatches
<1>10. QED
  BY <1>4, <1>5, <1>6, <1>7, <1>8, <1>9 DEF IInv

\* A call closes the socket its section has left it.
LEMMA CloseKeeps ==
    ASSUME IInv, NEW c \in Calls, Close(c)
    PROVE  IInv'
<1>1. PICK n : n = call[c].toClose
  OBVIOUS
<1> DEFINE r == [call[c] EXCEPT !.toClose = None]
<1>2. /\ call[c] \in Call /\ n \in Conns /\ call \in [Calls -> Call] /\ conn \in [Conns -> Conn]
      /\ n \notin pool /\ \A d \in Calls : call[d].mine # n
  <2>1. call[c] \in Call /\ n \in Conns /\ call \in [Calls -> Call] /\ conn \in [Conns -> Conn]
    BY <1>1, OfCall DEF Close, Call, IInv, TypeInv
  <2>2. n \notin pool
    BY <1>1 DEF IInv, HeldInv
  <2>3. \A d \in Calls : call[d].mine # n
    BY <1>1, <2>1 DEF IInv, MineInv
  <2>4. QED
    BY <2>1, <2>2, <2>3
<1>3. /\ r \in Call /\ r.pc = call[c].pc /\ r.conn = call[c].conn /\ r.mine = call[c].mine
      /\ r.toClose = None
  BY <1>2 DEF Call
<1>4. call' = [call EXCEPT ![c] = r] /\ UNCHANGED <<pool, idleVars, cleanVars, evicted, tries>>
  BY DEF Close
<1>5. conn' = [m \in Conns |-> IF m \in {n} THEN NewConn ELSE conn[m]]
  BY <1>1, <1>2 DEF Close
<1> HIDE DEF r
<1>6. /\ call' \in [Calls -> Call]
      /\ \A d \in Calls : /\ call'[d].pc = call[d].pc /\ call'[d].conn = call[d].conn
                          /\ call'[d].mine = call[d].mine
                          /\ call'[d].toClose \in {call[d].toClose, None}
  BY <1>2, <1>3, <1>4
<1>7. {n} \in SUBSET Conns /\ {n} \cap pool = {} /\ \A d \in Calls : call[d].mine \notin {n}
  BY <1>2
<1>8. victim' = victim /\ cleaner' = cleaner /\ evicted' = evicted
  BY <1>4 DEF cleanVars
<1>9. QED
  BY <1>4, <1>5, <1>6, <1>7, <1>8, ClosingKeeps

\* evictAll closes a connection it has taken out.
LEMMA EvictCloseKeeps ==
    ASSUME IInv, EvictClose
    PROVE  IInv'
<1>1. /\ evicted \in SUBSET Conns /\ evicted \cap pool = {}
      /\ \A c \in Calls : call[c].mine \notin evicted
  BY DEF IInv, TypeInv, HeldInv, MineInv
<1>2. /\ conn' = [n \in Conns |-> IF n \in evicted THEN NewConn ELSE conn[n]]
      /\ call' = call /\ victim' = victim /\ cleaner' = cleaner /\ evicted' = {}
      /\ UNCHANGED <<pool, idleVars, tries>>
  BY DEF EvictClose, cleanVars
<1>3. call' \in [Calls -> Call]
  BY <1>2 DEF IInv, TypeInv
<1>4. QED
  BY <1>1, <1>2, <1>3, ClosingKeeps

\* The cleanup thread outside its section.
LEMMA CleanerKeeps ==
    ASSUME IInv, CleanerCloses \/ CleanerWaits \/ CleanerWakes
    PROVE  IInv'
<1> DEFINE D == IF CleanerCloses THEN Conns \cap {victim} ELSE {}
<1>1. D \in SUBSET Conns /\ D \cap pool = {} /\ \A c \in Calls : call[c].mine \notin D
  BY DEF IInv, HeldInv, MineInv
<1>2. /\ call' = call /\ victim' \in {victim, None} /\ evicted' = evicted
      /\ cleaner' \in {"run", "waiting"} /\ UNCHANGED <<pool, idleVars, tries>>
  BY DEF CleanerCloses, CleanerWaits, CleanerWakes
<1>3. call' \in [Calls -> Call] /\ conn \in [Conns -> Conn]
  BY <1>2 DEF IInv, TypeInv
<1>4. conn' = [n \in Conns |-> IF n \in D THEN NewConn ELSE conn[n]]
  <2>1. CASE CleanerCloses
    <3>1. conn' = [conn EXCEPT ![victim] = NewConn] /\ D = Conns \cap {victim}
      BY <2>1 DEF CleanerCloses
    <3>2. QED
      BY <1>3, <3>1
  <2>2. CASE ~CleanerCloses
    BY <1>3, <2>2 DEF CleanerWaits, CleanerWakes
  <2>3. QED
    BY <2>1, <2>2
<1> HIDE DEF D
<1>5. QED
  BY <1>1, <1>2, <1>3, <1>4, ClosingKeeps

\* The keep-alive of the next idle connection is over.
LEMMA ExpireKeeps ==
    ASSUME IInv, Expire
    PROVE  IInv'
<1>1. /\ due' \in 0..Len(idle)
      /\ UNCHANGED <<call, conn, pool, idle, cleaner, victim, evicted, tries>>
  <2>1. due \in 0..Len(idle) /\ Len(idle) \in Nat /\ due < Len(idle) /\ due' = due + 1
    BY DEF IInv, IdleInv, Expire
  <2>2. QED
    BY <2>1 DEF Expire, cleanVars
<1>2. \A n : Users(n)' = Users(n)
  BY <1>1 DEF Users
<1>3. IdleInv'
  BY <1>1, <1>2 DEF IInv, IdleInv
<1>4. TypeInv' /\ HeldInv' /\ MineInv' /\ CleanerWatches'
  BY <1>1 DEF IInv, TypeInv, HeldInv, MineInv, CleanerWatches
<1>5. WireInv'
  BY <1>1, <1>2 DEF IInv, WireInv
<1>6. QED
  BY <1>3, <1>4, <1>5 DEF IInv

\* evictAll takes the idle connections out.
LEMMA EvictAllKeeps ==
    ASSUME IInv, EvictAll
    PROVE  IInv'
<1>1. /\ IsFiniteSet(pool) /\ ToSet(idle) = {n \in pool : Users(n) = {}}
      /\ conn \in [Conns -> Conn] /\ pool \subseteq Conns /\ call \in [Calls -> Call]
  BY DEF IInv, IdleInv, TypeInv
<1>2. /\ evicted' = ToSet(idle) /\ pool' = pool \ ToSet(idle) /\ idle' = <<>> /\ due' = 0
      /\ conn' = [n \in Conns |-> IF n \in ToSet(idle) THEN [conn[n] EXCEPT !.noNew = TRUE]
                                  ELSE conn[n]]
      /\ UNCHANGED <<call, cleaner, victim, tries>>
  BY DEF EvictAll, cleanVars
<1>3. /\ conn' \in [Conns -> Conn]
      /\ \A n \in Conns : /\ conn'[n].up = conn[n].up /\ conn'[n].wire = conn[n].wire
                          /\ n \notin ToSet(idle) => conn'[n] = conn[n]
  <2>1. \A n \in Conns : /\ [conn[n] EXCEPT !.noNew = TRUE] \in Conn
                         /\ [conn[n] EXCEPT !.noNew = TRUE].up = conn[n].up
                         /\ [conn[n] EXCEPT !.noNew = TRUE].wire = conn[n].wire
    BY <1>1 DEF Conn
  <2>2. QED
    BY <1>1, <1>2, <2>1
<1>4. \A n : Users(n)' = Users(n)
  BY <1>2 DEF Users
<1>5. TypeInv'
  BY <1>1, <1>2, <1>3 DEF IInv, TypeInv
<1>6. IdleInv'
  <2>1. IsFiniteSet(pool')
    BY <1>1, <1>2, FS_Subset
  <2>2. idle' \in Seq(Conns) /\ Len(idle') = 0 /\ Once(idle') /\ ToSet(idle') = {}
    BY <1>2 DEF Once, ToSet
  <2>3. {n \in pool' : Users(n)' = {}} = {}
    BY <1>1, <1>2, <1>4
  <2>4. QED
    BY <1>2, <2>1, <2>2, <2>3 DEF IdleInv
<1>7. HeldInv'
  <2>1. ASSUME NEW c \in Calls, call[c].conn # None PROVE call[c].conn \in pool'
    <3>1. call[c].conn \in pool /\ c \in Users(call[c].conn)
      BY <2>1 DEF IInv, HeldInv, Users
    <3>2. QED
      BY <1>1, <1>2, <3>1
  <2>2. \A n \in pool' : n \in pool /\ n \in Conns /\ conn'[n] = conn[n] /\ n \notin evicted'
    BY <1>1, <1>2, <1>3
  <2>3. QED
    BY <1>2, <2>1, <2>2 DEF IInv, HeldInv
<1>8. MineInv'
  <2>1. \A c \in Calls : call[c].mine \in Conns => call[c].mine \notin ToSet(idle)
    BY <1>1 DEF IInv, HeldInv
  <2>2. QED
    BY <1>2, <1>3, <2>1 DEF IInv, MineInv
<1>9. WireInv'
  <2>1. \A n \in pool' : n \in pool /\ conn'[n] = conn[n]
    BY <1>1, <1>2, <1>3
  <2>2. QED
    BY <1>2, <1>3, <1>4, <2>1 DEF IInv, WireInv
<1>10. CleanerWatches'
  BY <1>2 DEF IInv, CleanerWatches
<1>11. QED
  BY <1>5, <1>6, <1>7, <1>8, <1>9, <1>10 DEF IInv

\* Pruning: the transmitters L that were leaked give their connections M back, which
\* take no more exchanges.
Pruned(L, M) ==
    /\ conn' \in [Conns -> Conn] /\ call' \in [Calls -> Call]
    /\ \A n \in Conns : /\ conn'[n].up = conn[n].up /\ conn'[n].wire = conn[n].wire
                        /\ conn'[n].h2 = conn[n].h2
                        /\ IF n \in M THEN conn'[n].noNew ELSE conn'[n] = conn[n]
    /\ \A c \in Calls : c \notin L => call'[c] = call[c]
    /\ \A c \in L : /\ call'[c].conn = None /\ call'[c].pc = "done"
                    /\ call'[c].mine = call[c].mine /\ call'[c].toClose = call[c].toClose

\* What pruneAndGetAllocationCount does to the calls and connections it finds leaked.
LEMMA PruneIs ==
    ASSUME IInv, NEW L \in SUBSET Calls, NEW M,
           call' = [c \in Calls |-> IF c \in L THEN [call[c] EXCEPT !.conn = None, !.pc = "done"]
                                    ELSE call[c]],
           conn' = [n \in Conns |-> IF n \in M THEN [conn[n] EXCEPT !.noNew = TRUE] ELSE conn[n]]
    PROVE  Pruned(L, M)
<1>1. /\ conn \in [Conns -> Conn] /\ pool \subseteq Conns /\ call \in [Calls -> Call]
      /\ None \notin Conns
  BY PoolAssumption DEF IInv, TypeInv
<1>2. /\ conn' \in [Conns -> Conn]
      /\ \A n \in Conns : /\ conn'[n].up = conn[n].up /\ conn'[n].wire = conn[n].wire
                          /\ conn'[n].h2 = conn[n].h2
                          /\ IF n \in M THEN conn'[n].noNew ELSE conn'[n] = conn[n]
  <2>1. \A n \in Conns : /\ [conn[n] EXCEPT !.noNew = TRUE] \in Conn
                         /\ [conn[n] EXCEPT !.noNew = TRUE].up = conn[n].up
                         /\ [conn[n] EXCEPT !.noNew = TRUE].h2 = conn[n].h2
                         /\ [conn[n] EXCEPT !.noNew = TRUE].noNew
                         /\ [conn[n] EXCEPT !.noNew = TRUE].wire = conn[n].wire
    BY <1>1 DEF Conn
  <2>2. QED
    BY <1>1, <2>1
<1>3. /\ call' \in [Calls -> Call]
      /\ \A c \in Calls : c \notin L => call'[c] = call[c]
      /\ \A c \in L : /\ call'[c].conn = None /\ call'[c].pc = "done"
                      /\ call'[c].mine = call[c].mine /\ call'[c].toClose = call[c].toClose
  <2> DEFINE r(c) == [call[c] EXCEPT !.conn = None, !.pc = "done"]
  <2>1. ASSUME NEW c \in Calls
        PROVE  /\ r(c) \in Call /\ r(c).conn = None /\ r(c).pc = "done"
               /\ r(c).mine = call[c].mine /\ r(c).toClose = call[c].toClose
    <3>1. call[c] \in Call
      BY <1>1
    <3>2. QED
      BY <3>1 DEF Call
  <2>2. /\ L \subseteq Calls /\ \A c \in L : call'[c] = r(c)
        /\ \A c \in Calls : call'[c] = IF c \in L THEN r(c) ELSE call[c]
    OBVIOUS
  <2>3. call' = [c \in Calls |-> IF c \in L THEN r(c) ELSE call[c]]
    OBVIOUS
  <2> HIDE DEF r
  <2>4. \A c \in Calls : (IF c \in L THEN r(c) ELSE call[c]) \in Call
    BY <1>1, <2>1
  <2>5. call' \in [Calls -> Call]
    BY <2>3, <2>4, Zenon
  <2>6. \A c \in Calls : c \notin L => call'[c] = call[c]
    BY <2>2
  <2>7. ASSUME NEW c \in L
        PROVE  /\ call'[c].conn = None /\ call'[c].pc = "done"
               /\ call'[c].mine = call[c].mine /\ call'[c].toClose = call[c].toClose
    <3>1. c \in Calls /\ call'[c] = r(c)
      BY <2>2
    <3>2. QED
      BY <2>1, <3>1
  <2>8. QED
    BY <2>5, <2>6, <2>7
<1>4. QED
  BY <1>2, <1>3, Zenon DEF Pruned

\* The pool may lose a connection that has no other user.
LEMMA PruningKeeps ==
    ASSUME IInv, NEW L \in SUBSET Calls, NEW M, Pruned(L, M),
           \A c \in L : call[c].pc = "gone" /\ call[c].conn \in M,
           \/ victim' = victim /\ pool' = pool
           \/ /\ victim' \in pool /\ pool' = pool \ {victim'}
              /\ \A c \in Calls : call[c].conn = victim' => c \in L,
           cleaner' \in {"off", "close", "sleepy"}, cleaner' = "off" => pool' = {},
           IdleInv', UNCHANGED <<evicted, tries>>
    PROVE  IInv'
<1>1. /\ conn \in [Conns -> Conn] /\ pool \subseteq Conns /\ call \in [Calls -> Call]
      /\ None \notin Conns
  BY PoolAssumption DEF IInv, TypeInv
<1>2. /\ conn' \in [Conns -> Conn]
      /\ \A n \in Conns : /\ conn'[n].up = conn[n].up /\ conn'[n].wire = conn[n].wire
                          /\ conn'[n].h2 = conn[n].h2
                          /\ IF n \in M THEN conn'[n].noNew ELSE conn'[n] = conn[n]
  BY DEF Pruned
<1>3. /\ call' \in [Calls -> Call]
      /\ \A c \in Calls : c \notin L => call'[c] = call[c]
      /\ \A c \in L : /\ call'[c].conn = None /\ call'[c].pc = "done"
                      /\ call'[c].mine = call[c].mine /\ call'[c].toClose = call[c].toClose
  BY DEF Pruned
<1>4. L \subseteq Calls /\ \A c \in Calls : /\ call'[c].mine = call[c].mine
                                          /\ call'[c].toClose = call[c].toClose
  BY <1>3
<1>5. TypeInv'
  <2>1. ASSUME NEW c \in Calls PROVE Placed(call'[c])
    <3>1. Placed(call[c])
      BY DEF IInv, TypeInv
    <3>2. CASE c \in L
      <4>1. call[c].pc = "gone"
        BY <3>2
      <4>2. QED
        BY <1>3, <3>1, <3>2, <4>1 DEF Placed
    <3>3. QED
      BY <1>3, <3>1, <3>2
  <2>2. QED
    BY <1>1, <1>2, <1>3, <2>1 DEF IInv, TypeInv
<1>6. HeldInv'
  <2>1. ASSUME NEW c \in Calls, call'[c].conn # None PROVE call'[c].conn \in pool'
    <3>1. c \notin L /\ call'[c] = call[c] /\ call[c].conn \in pool
      BY <1>3, <2>1 DEF IInv, HeldInv
    <3>2. QED
      BY <3>1
  <2>2. \A n \in pool' : n \in pool /\ n \in Conns /\ n # victim'
    BY <1>1 DEF IInv, HeldInv
  <2>3. ASSUME NEW n \in pool'
        PROVE  /\ conn'[n].up = "open" /\ n # victim' /\ n \notin evicted'
               /\ \A c \in Calls : call'[c].toClose # n /\ call'[c].mine # n
    <3>1. /\ conn[n].up = "open" /\ n \notin evicted
          /\ \A c \in Calls : call[c].toClose # n /\ call[c].mine # n
      BY <2>2 DEF IInv, HeldInv
    <3>2. QED
      BY <1>2, <1>4, <2>2, <3>1
  <2>4. QED
    BY <2>1, <2>3 DEF HeldInv
<1>7. MineInv'
  <2>1. ASSUME NEW c \in Calls, call[c].mine \in Conns
        PROVE  call[c].mine # victim' /\ call'[c].pc = call[c].pc
    <3>1. call[c].mine # victim'
      BY <2>1 DEF IInv, HeldInv, MineInv
    <3>2. c \notin L
      BY <2>1 DEF IInv, TypeInv, Placed
    <3>3. QED
      BY <1>3, <3>1, <3>2
  <2>2. ASSUME NEW c \in Calls, call'[c].mine \in Conns
        PROVE  LET m == call'[c].mine
               IN  /\ m # victim' /\ m \notin evicted' /\ conn'[m].wire = "clean"
                   /\ call'[c].pc = "put" => conn'[m].up = "open"
                   /\ \A d \in Calls : call'[d].toClose # m /\ (d # c => call'[d].mine # m)
    <3>1. PICK m : m = call[c].mine /\ m = call'[c].mine /\ m \in Conns
      BY <1>4, <2>2
    <3>2. /\ m # victim /\ m \notin evicted /\ conn[m].wire = "clean"
          /\ call[c].pc = "put" => conn[m].up = "open"
          /\ \A d \in Calls : call[d].toClose # m /\ (d # c => call[d].mine # m)
      BY <3>1 DEF IInv, MineInv
    <3>3. m # victim' /\ call'[c].pc = call[c].pc
      BY <2>1, <3>1
    <3>4. conn'[m].wire = conn[m].wire /\ conn'[m].up = conn[m].up
      BY <1>2, <3>1
    <3>5. \A d \in Calls : call'[d].toClose # m /\ (d # c => call'[d].mine # m)
      BY <1>4, <3>2
    <3>6. /\ m # victim' /\ m \notin evicted' /\ conn'[m].wire = "clean"
          /\ call'[c].pc = "put" => conn'[m].up = "open"
      BY <3>2, <3>3, <3>4
    <3>7. call'[c].mine = m
      BY <3>1
    <3>8. QED
      BY <3>5, <3>6, <3>7, Zenon
  <2>3. QED
    BY <2>2 DEF MineInv
<1>8. WireInv'
  <2>1. ASSUME NEW n \in pool', ~conn'[n].h2
        PROVE  /\ \A c, d \in Users(n)' : c = d
               /\ \A c \in Users(n)' : call'[c].pc \in {"check", "exchange"} => conn'[n].wire # "busy"
               /\ conn'[n].wire = "busy" /\ ~conn'[n].noNew
                  => \E c \in Users(n)' : call'[c].pc \in {"io", "body", "gone"}
    <3>1. n \in pool /\ n \in Conns /\ ~conn[n].h2 /\ conn'[n].wire = conn[n].wire
      BY <1>1, <1>2, <2>1
    <3>2. Users(n)' = Users(n) \ L /\ \A c \in Users(n)' : call'[c] = call[c]
      <4>1. \A c \in Calls : call'[c].conn = n <=> c \notin L /\ call[c].conn = n
        <5>1. ASSUME NEW c \in Calls PROVE call'[c].conn = n <=> c \notin L /\ call[c].conn = n
          <6>1. CASE c \in L
            <7>1. call'[c].conn = None /\ n # None
              BY <1>1, <1>3, <3>1, <6>1
            <7>2. QED
              BY <6>1, <7>1
          <6>2. CASE c \notin L
            <7>1. call'[c] = call[c]
              BY <1>3, <6>2
            <7>2. QED
              BY <6>2, <7>1
          <6>3. QED
            BY <6>1, <6>2
        <5>2. QED
          BY <5>1
      <4>2. Users(n)' = Users(n) \ L
        BY <4>1 DEF Users
      <4>3. QED
        BY <1>3, <4>2 DEF Users
    <3>3. n \notin M => Users(n)' = Users(n)
      BY <3>2 DEF Users
    <3>4. ~conn'[n].noNew => n \notin M /\ ~conn[n].noNew
      BY <1>2, <3>1
    <3>5. /\ \A c, d \in Users(n) : c = d
          /\ \A c \in Users(n) : call[c].pc \in {"check", "exchange"} => conn[n].wire # "busy"
          /\ conn[n].wire = "busy" /\ ~conn[n].noNew
             => \E c \in Users(n) : call[c].pc \in {"io", "body", "gone"}
      BY <3>1 DEF IInv, WireInv
    <3>6. QED
      BY <3>1, <3>2, <3>3, <3>4, <3>5
  <2>2. \A n \in Conns : conn'[n].up = "closed" => conn'[n].wire = "clean"
    BY <1>2 DEF IInv, WireInv
  <2>3. QED
    BY <2>1, <2>2 DEF WireInv
<1>9. CleanerWatches'
  BY DEF CleanerWatches
<1>10. QED
  BY <1>5, <1>6, <1>7, <1>8, <1>9 DEF IInv

\* cleanup: what rests after the pruning is what was idle and what has lost its last
\* user; the longest idle of it may be evicted.
LEMMA CleanupKeeps ==
    ASSUME IInv, Cleanup
    PROVE  IInv'
<1>1. PICK L, M, F, q, k :
         /\ L = {c \in Calls : call[c].pc = "gone" /\ call[c].conn \in pool}
         /\ M = {call[c].conn : c \in L}
         /\ F = {n \in M : Users(n) \subseteq L}
         /\ q = SubSeq(idle, 1, due) \o SetToSeq(F) \o SubSeq(idle, due + 1, Len(idle))
         /\ k = due + Cardinality(F)
         /\ call' = [c \in Calls |-> IF c \in L THEN [call[c] EXCEPT !.conn = None, !.pc = "done"]
                                     ELSE call[c]]
         /\ conn' = [n \in Conns |-> IF n \in M THEN [conn[n] EXCEPT !.noNew = TRUE] ELSE conn[n]]
         /\ \/ /\ k > 0 \/ Len(q) > MaxIdle
               /\ victim' = Head(q) /\ pool' = pool \ {victim'}
               /\ idle' = Tail(q) /\ due' = IF k > 0 THEN k - 1 ELSE 0
               /\ cleaner' = "close"
            \/ /\ ~(k > 0 \/ Len(q) > MaxIdle)
               /\ idle' = q /\ due' = k
               /\ cleaner' = IF Ends(q, pool) THEN "off" ELSE "sleepy"
               /\ UNCHANGED <<victim, pool>>
  BY Zenon DEF Cleanup
<1>2. /\ pool \subseteq Conns /\ call \in [Calls -> Call] /\ None \notin Conns
      /\ IsFiniteSet(pool) /\ idle \in Seq(Conns) /\ due \in 0..Len(idle) /\ Once(idle)
      /\ ToSet(idle) = {n \in pool : Users(n) = {}}
      /\ Len(idle) \in Nat /\ due \in Nat /\ UNCHANGED <<evicted, tries>>
  <2>1. UNCHANGED <<evicted, tries>>
    BY Zenon DEF Cleanup
  <2>2. QED
    BY <2>1, PoolAssumption DEF IInv, TypeInv, IdleInv
<1>3. ASSUME NEW n \in M PROVE n \in pool /\ \E c \in L : c \in Users(n)
  BY Zenon, <1>1 DEF Users
<1>4. /\ F \in SUBSET pool /\ F \in SUBSET Conns /\ ToSet(idle) \cap F = {}
  <2>1. F \subseteq M
    BY Zenon, <1>1
  <2>2. QED
    BY <1>2, <1>3, <2>1
<1>5. IsFiniteSet(F) /\ Cardinality(F) \in Nat
  BY <1>2, <1>4, FS_Subset, FS_CardinalityType
<1>6. /\ SetToSeq(F) \in Seq(Conns) /\ Len(SetToSeq(F)) = Cardinality(F)
      /\ Once(SetToSeq(F)) /\ ToSet(SetToSeq(F)) = F
  BY <1>4, <1>5, Listed
<1>7. /\ q \in Seq(Conns) /\ Len(q) = Len(idle) + Cardinality(F) /\ Once(q)
      /\ ToSet(q) = ToSet(idle) \cup F
  <2>1. PICK s \in Seq(Conns) : /\ s = SetToSeq(F) /\ Len(s) = Cardinality(F) /\ Once(s)
                               /\ ToSet(s) = F
    BY <1>6
  <2>2. ToSet(idle) \cap ToSet(s) = {}
    BY <1>4, <2>1
  <2>3. IdleInv /\ Once(s)
    BY <2>1 DEF IInv
  <2>4. q = SubSeq(idle, 1, due) \o s \o SubSeq(idle, due + 1, Len(idle))
    BY Zenon, <1>1, <2>1
  <2>5. /\ q \in Seq(Conns) /\ Len(q) = Len(idle) + Len(s) /\ Once(q)
        /\ ToSet(q) = ToSet(idle) \cup ToSet(s)
    <3>1. LET w == SubSeq(idle, 1, due) \o s \o SubSeq(idle, due + 1, Len(idle))
          IN  /\ w \in Seq(Conns) /\ Len(w) = Len(idle) + Len(s) /\ Once(w)
              /\ ToSet(w) = ToSet(idle) \cup ToSet(s)
      BY <2>2, <2>3, PutBetween
    <3>2. QED
      BY <2>4, <3>1, Zenon
  <2>6. QED
    BY <2>1, <2>5
<1>8. k \in 0..Len(q) /\ Len(q) \in Nat
  <2>1. k = due + Cardinality(F)
    BY Zenon, <1>1
  <2>2. QED
    BY <1>2, <1>5, <1>7, <2>1
<1>9. ASSUME NEW n \in pool PROVE Users(n)' = Users(n) \ L
  <2>1. n # None
    BY <1>2
  <2>2. ASSUME NEW c \in Calls PROVE call'[c].conn = n <=> c \notin L /\ call[c].conn = n
    <3>1. call[c] \in Call /\ call'[c] = IF c \in L THEN [call[c] EXCEPT !.conn = None, !.pc = "done"]
                                         ELSE call[c]
      BY Zenon, <1>1, <1>2
    <3>2. [call[c] EXCEPT !.conn = None, !.pc = "done"].conn = None
      BY <3>1 DEF Call
    <3>3. QED
      BY <2>1, <3>1, <3>2
  <2>3. QED
    BY <2>2 DEF Users
<1>10. ToSet(q) = {n \in pool : Users(n)' = {}}
  <2>1. ASSUME NEW n \in pool PROVE Users(n)' = {} <=> Users(n) = {} \/ n \in F
    <3>1. Users(n)' = {} <=> Users(n) \subseteq L
      BY <1>9
    <3>2. ASSUME NEW c \in Users(n), Users(n) \subseteq L PROVE n \in M
      BY Zenon, <1>1, <3>2 DEF Users
    <3>3. n \in F <=> n \in M /\ Users(n) \subseteq L
      BY Zenon, <1>1
    <3>4. QED
      BY <3>1, <3>2, <3>3
  <2>2. QED
    BY <1>2, <1>4, <1>7, <2>1
<1>11. /\ L \in SUBSET Calls /\ \A c \in L : call[c].pc = "gone" /\ call[c].conn \in M
       /\ UNCHANGED <<evicted, tries>> /\ Pruned(L, M)
  <2>1. L \in SUBSET Calls /\ \A c \in L : call[c].pc = "gone" /\ call[c].conn \in M
    BY <1>1, Zenon
  <2>2. Pruned(L, M)
    BY <1>1, <2>1, PruneIs, Zenon
  <2>3. QED
    BY <1>2, <2>1, <2>2
<1>12. CASE /\ k > 0 \/ Len(q) > MaxIdle
            /\ victim' = Head(q) /\ pool' = pool \ {victim'}
            /\ idle' = Tail(q) /\ due' = IF k > 0 THEN k - 1 ELSE 0
            /\ cleaner' = "close"
  <2>1. Len(q) > 0 /\ q # <<>>
    BY <1>7, <1>8, <1>12, PoolAssumption
  <2>2. /\ Tail(q) \in Seq(Conns) /\ Head(q) \in ToSet(q) /\ Len(Tail(q)) = Len(q) - 1
        /\ ToSet(q) = {Head(q)} \cup ToSet(Tail(q))
        /\ Once(Tail(q)) /\ Head(q) \notin ToSet(Tail(q))
    BY <1>7, <2>1, FirstTaken
  <2>3. victim' \in pool /\ Users(victim)' = {}
    BY <1>10, <1>12, <2>2
  <2>4. \A c \in Calls : call[c].conn = victim' => c \in L
    <3>1. ASSUME NEW c \in Calls, NEW n, n = victim', call[c].conn = n PROVE c \in L
      <4>1. n \in pool /\ Users(n)' = {}
        BY <2>3, <3>1 DEF Users
      <4>2. Users(n) \subseteq L
        BY <1>9, <4>1
      <4>3. QED
        BY <3>1, <4>2 DEF Users
    <3>2. QED
      BY <3>1
  <2>5. IdleInv'
    <3>1. IsFiniteSet(pool')
      BY <1>2, <1>12, FS_Subset
    <3>2. due' \in 0..Len(idle')
      BY <1>8, <1>12, <2>1, <2>2
    <3>3. ToSet(idle') = {n \in pool' : Users(n)' = {}}
      BY <1>10, <1>12, <2>2
    <3>4. QED
      BY <1>12, <2>2, <3>1, <3>2, <3>3 DEF IdleInv
  <2>6. QED
    BY <1>11, <1>12, <2>3, <2>4, <2>5, PruningKeeps
<1>13. CASE /\ idle' = q /\ due' = k
            /\ cleaner' = IF Ends(q, pool) THEN "off" ELSE "sleepy"
            /\ UNCHANGED <<victim, pool>>
  <2>1. IdleInv'
    <3>1. ToSet(idle') = {n \in pool' : Users(n)' = {}}
      BY <1>10, <1>13
    <3>2. QED
      BY <1>2, <1>7, <1>8, <1>13, <3>1 DEF IdleInv
  <2>2. /\ cleaner' \in {"off", "close", "sleepy"} /\ (cleaner' = "off" => pool' = {})
        /\ victim' = victim /\ pool' = pool
    BY <1>13 DEF Ends
  <2>3. QED
    BY <1>11, <2>1, <2>2, PruningKeeps
<1>14. QED
  BY <1>1, <1>12, <1>13, Zenon

-----------------------------------------------------------------------------
(* Theorems. *)

\* No call has begun and the pool is empty.
LEMMA InitIInv == Init => IInv
<1> SUFFICES ASSUME Init PROVE IInv
  OBVIOUS
<1> DEFINE r == [pc |-> "new", conn |-> None, mine |-> None, toClose |-> None,
                 kill |-> None, canceled |-> FALSE]
<1>1. /\ r \in Call /\ Placed(r) /\ NewConn \in Conn /\ NewConn.wire = "clean"
      /\ r.conn = None /\ r.mine = None
  BY PoolAssumption DEF Call, Placed, Conn, NewConn
<1>2. /\ call \in [Calls -> Call] /\ conn \in [Conns -> Conn]
      /\ \A c \in Calls : call[c] = r
      /\ \A n \in Conns : conn[n] = NewConn
      /\ pool = {} /\ idle = <<>> /\ due = 0
      /\ cleaner = "off" /\ victim = None /\ evicted = {} /\ tries = 0
  BY <1>1 DEF Init
<1> HIDE DEF r
<1>3. TypeInv
  BY <1>1, <1>2, PoolAssumption DEF TypeInv
<1>4. IdleInv
  <2>1. ToSet(<<>>) = {} /\ Once(<<>>) /\ <<>> \in Seq(Conns) /\ Len(<<>>) = 0
    BY DEF ToSet, Once
  <2>2. QED
    BY <1>2, <2>1, FS_EmptySet DEF IdleInv
<1>5. HeldInv /\ MineInv /\ WireInv /\ CleanerWatches
  BY <1>1, <1>2, PoolAssumption DEF HeldInv, MineInv, WireInv, CleanerWatches
<1>6. QED
  BY <1>3, <1>4, <1>5 DEF IInv

\* Every step keeps the invariant.
LEMMA NextIInv == IInv /\ [Next]_vars => IInv'
<1> SUFFICES ASSUME IInv, [Next]_vars PROVE IInv'
  OBVIOUS
<1>1. ASSUME NEW c \in Calls, CallStep(c) \/ Cancel(c) \/ CancelClose(c) PROVE IInv'
  <2>1. CASE Start(c) \/ FindNone(c) \/ Leak(c)
    BY <2>1, PlainKeeps
  <2>2. CASE FindHeld(c)
    BY <2>2, FindHeldKeeps
  <2>3. CASE FindPooled(c)
    BY <2>3, FindPooledKeeps
  <2>4. CASE FindNew(c)
    BY <2>4, FindNewKeeps
  <2>5. CASE Connect(c)
    BY <2>5, ConnectKeeps
  <2>6. CASE ConnectFails(c)
    BY <2>6, ConnectFailsKeeps
  <2>7. CASE Put(c)
    BY <2>7, PutKeeps
  <2>8. CASE Check(c)
    BY <2>8, CheckKeeps
  <2>9. CASE NewExchange(c)
    BY <2>9, NewExchangeKeeps
  <2>10. CASE IoFails(c)
    BY <2>10, IoFailsKeeps
  <2>11. CASE IoThrows(c) \/ FollowUp(c) \/ BodyDone(c) \/ BodyFails(c)
    BY <2>11, IoEndsKeeps
  <2>12. CASE Respond(c)
    BY <2>12, RespondKeeps
  <2>13. CASE Prepare(c) \/ End(c)
    BY <2>13, OverKeeps
  <2>14. CASE Close(c)
    BY <2>14, CloseKeeps
  <2>15. CASE Cancel(c) \/ CancelClose(c)
    BY <2>15, CancelKeeps
  <2>16. QED
    BY <1>1, <2>1, <2>2, <2>3, <2>4, <2>5, <2>6, <2>7, <2>8, <2>9, <2>10, <2>11, <2>12,
       <2>13, <2>14, <2>15 DEF CallStep
<1>2. CASE EvictAll
  BY <1>2, EvictAllKeeps
<1>3. CASE EvictClose
  BY <1>3, EvictCloseKeeps
<1>4. CASE Expire
  BY <1>4, ExpireKeeps
<1>5. CASE CleanerStep
  BY <1>5, CleanupKeeps, CleanerKeeps DEF CleanerStep
<1>6. CASE UNCHANGED vars
  <2>1. UNCHANGED <<call, conn, pool, idle, due, cleaner, victim, evicted, tries>>
    BY <1>6 DEF vars
  <2>2. \A n : Users(n)' = Users(n)
    BY <2>1 DEF Users
  <2>3. TypeInv' /\ HeldInv' /\ MineInv' /\ CleanerWatches'
    BY <2>1 DEF IInv, TypeInv, HeldInv, MineInv, CleanerWatches
  <2>4. IdleInv' /\ WireInv'
    BY <2>1, <2>2 DEF IInv, IdleInv, WireInv
  <2>5. QED
    BY <2>3, <2>4 DEF IInv
<1>7. QED
  BY <1>1, <1>2, <1>3, <1>4, <1>5, <1>6 DEF Next

\* The invariant implies what the run checks of the pool.
LEMMA IInvPoolInv == IInv => PoolInv
<1> SUFFICES ASSUME IInv PROVE PoolInv
  OBVIOUS
<1>1. TypeOK
  <2>1. Cardinality(ToSet(idle)) = Len(idle)
    BY OnceCounts DEF IInv, IdleInv
  <2>2. QED
    BY <2>1 DEF IInv, TypeInv, IdleInv, TypeOK
<1>2. NoneClosedInUse
  <2>1. ASSUME NEW n \in Conns,
               \/ conn[n].up = "closed" \/ n = victim \/ n \in evicted
               \/ \E c \in Calls : call[c].toClose = n
        PROVE  n \notin pool /\ Users(n) = {}
    <3>1. n \notin pool
      BY <2>1 DEF IInv, HeldInv
    <3>2. QED
      BY <3>1, PoolAssumption DEF IInv, HeldInv, Users
  <2>2. QED
    BY <2>1 DEF NoneClosedInUse
<1>3. QED
  BY <1>1, <1>2 DEF IInv, PoolInv

\* The invariant implies what the run checks of HTTP/1 connections.
LEMMA IInvCleanReuse == IInv => CleanReuse
<1> SUFFICES ASSUME IInv, NEW n \in Conns, ~conn[n].h2
             PROVE  /\ Cardinality(Users(n)) <= 1
                    /\ \A c \in Users(n) : call[c].pc = "exchange" => conn[n].wire # "busy"
  BY DEF CleanReuse
<1>1. CASE Users(n) = {}
  BY <1>1, FS_EmptySet
<1>2. ASSUME NEW c \in Users(n)
      PROVE  /\ Cardinality(Users(n)) <= 1
             /\ \A d \in Users(n) : call[d].pc = "exchange" => conn[n].wire # "busy"
  <2>1. n \in pool
    BY PoolAssumption DEF Users, IInv, HeldInv
  <2>2. /\ \A d, e \in Users(n) : d = e
        /\ \A d \in Users(n) : call[d].pc = "exchange" => conn[n].wire # "busy"
    BY <2>1 DEF IInv, WireInv
  <2>3. Users(n) = {c}
    BY <2>2
  <2>4. Cardinality(Users(n)) = 1
    BY <2>3, FS_Singleton
  <2>5. QED
    BY <2>2, <2>4
<1>3. QED
  BY <1>1, <1>2

\* The inductive invariant holds throughout, for any number of calls and connections,
\* any maxIdleConnections and any number of retries.
THEOREM AlwaysIInv == Spec => []IInv
BY InitIInv, NextIInv, PTL DEF Spec

\* A connection that is closed, or that some thread has taken out and is about to close
\* outside the monitor, is neither in the pool nor a call's; the idle connections are
\* those of the pool without a transmitter; the cleanup thread runs while there is one.
THEOREM PoolAlwaysSafe == Spec => []PoolInv
BY AlwaysIInv, IInvPoolInv, PTL

\* An HTTP/1 connection serves one call at a time, and no call begins an exchange on it
\* while an earlier one is unfinished: whatever way that ended, the connection was
\* drained or retired.
THEOREM AlwaysCleanReuse == Spec => []CleanReuse
BY AlwaysIInv, IInvCleanReuse, PTL

=============================================================================
