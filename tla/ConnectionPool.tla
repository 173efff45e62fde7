--------------------------- MODULE ConnectionPool ---------------------------
(***************************************************************************)
(* okhttp3/internal/connection: RealConnectionPool, and the calls          *)
(* (Transmitter, ExchangeFinder, RetryAndFollowUpInterceptor) that find,   *)
(* carry and release its connections.                                      *)
(*                                                                         *)
(* Everything below is guarded by the pool's monitor, and an action is one *)
(* section under it.  Sockets are closed outside: a section leaves what it *)
(* has to close in the thread's hands (toClose, kill, victim, evicted) and *)
(* a later action closes it.  All calls go to one address; a call makes    *)
(* one exchange, repeated after a failure or for a follow-up request.      *)
(***************************************************************************)
EXTENDS Naturals, Sequences, FiniteSets, SequencesExt

CONSTANTS Calls,    \* the calls made in a behaviour
          Conns,    \* bound: the RealConnections that exist at a time
          None,     \* no connection
          Failed,   \* a connection that failed to connect, and has no socket
          MaxIdle,  \* maxIdleConnections
          Canceled, \* the calls that cancel() may be called for
          MaxTries  \* bound: retries and follow-ups

ASSUME PoolAssumption ==
    /\ None \notin Conns /\ Failed \notin Conns \cup {None} /\ MaxIdle \in Nat /\ MaxTries \in Nat
    /\ Canceled \subseteq Calls

VARIABLES call,    \* call[c]: the thread of call c and its Transmitter
          conn,    \* conn[n]: a RealConnection
          pool,    \* connections
          idle,    \* its connections without a transmitter, longest idle first
          due,     \* how many of these have reached the keep-alive duration
          cleaner, \* where cleanupRunnable is; "off": cleanupRunning is false
          victim,  \* the connection it has taken out and has to close
          evicted, \* those evictAll() has taken out and has to close
          tries    \* retries and follow-ups so far

vars == <<call, conn, pool, idle, due, cleaner, victim, evicted, tries>>
idleVars == <<idle, due>>
cleanVars == <<cleaner, victim>>

Call == [pc : {"new", "find", "route", "connect", "put", "check", "exchange", "io",
               "prepare", "body", "end", "done", "gone"},
         conn : Conns \cup {None},     \* transmitter.connection
         mine : Conns \cup {None, Failed},  \* connectingConnection
         toClose : Conns \cup {None},
         kill : Conns \cup {None},     \* what cancel() is about to close
         canceled : BOOLEAN]

\* up: the socket, "closed" before there is one, too.  An open one may fail at any
\* time: so may a check of its health, or an exchange.
\* wire: an HTTP/1 exchange is under way ("busy"), or was given up by an exception
\* that did not come from the socket ("halfway").
Conn == [up : {"closed", "connecting", "open"},
         h2 : BOOLEAN,                 \* isMultiplexed()
         noNew : BOOLEAN,              \* noNewExchanges
         proven : BOOLEAN,             \* successCount > 0, for an HTTP/1 connection
         wire : {"clean", "busy", "halfway"}]

NewConn == [up |-> "closed", h2 |-> FALSE, noNew |-> FALSE,
            proven |-> FALSE, wire |-> "clean"]

Init ==
    /\ call = [c \in Calls |-> [pc |-> "new", conn |-> None, mine |-> None, toClose |-> None,
                                kill |-> None, canceled |-> FALSE]]
    /\ conn = [n \in Conns |-> NewConn]
    /\ pool = {} /\ idle = <<>> /\ due = 0
    /\ cleaner = "off" /\ victim = None /\ evicted = {} /\ tries = 0

-----------------------------------------------------------------------------
(* The pool's operations, as seen by the sections that call them. *)

\* connection.transmitters
Users(n) == {c \in Calls : call[c].conn = n}

\* The thread of c is outside the monitor and owes no close.
At(c, pc) == call[c].pc = pc /\ call[c].toClose = None

\* An object nothing refers to any more: the model uses its identity again.
Unreferenced(n) ==
    /\ conn[n].up = "closed" /\ n \notin pool /\ n # victim /\ n \notin evicted
    /\ \A c \in Calls : n \notin {call[c].conn, call[c].mine, call[c].toClose, call[c].kill}

\* RealConnection.isEligible, for the one address.  An HTTP/1 connection carries one
\* call; how many an HTTP/2 one carries (allocationLimit) is set by the server at any
\* time, so it may carry one more, or may not.
Carries(n) == ~conn[n].noNew /\ (conn[n].h2 \/ Users(n) = {})
Refuses(n) == conn[n].h2 \/ ~Carries(n)

\* The idle connections but n.
Without(q, n) ==
    IF n \notin ToSet(q) THEN q
    ELSE LET i == CHOOSE i \in 1..Len(q) : q[i] = n
         IN  SubSeq(q, 1, i - 1) \o SubSeq(q, i + 1, Len(q))

\* acquireConnectionNoEvents of a pooled connection: it is idle no more.
Unidle(n) ==
    /\ idle' = Without(idle, n)
    /\ due' = due - (IF \E i \in 1..due : idle[i] = n THEN 1 ELSE 0)

\* connectionBecameIdle's answer.
LeavesPool(n) == conn[n].noNew \/ MaxIdle = 0

\* Mutant of Release: the connection is closed even if another call is using it.
ReleaseShared(c, m, next, mine) ==
    LET n == call[c].conn
    IN  /\ call' = [call EXCEPT ![c].conn = m, ![c].pc = next, ![c].mine = mine,
                                ![c].toClose = n]
        /\ pool' = pool \ {n}
        /\ idle' = Without(idle, m)
        /\ due' = 0
        /\ UNCHANGED cleaner

\* releaseConnectionNoEvents with connectionBecameIdle, for another connection m or
\* for none: the last user puts the connection to rest and wakes the cleanup thread if
\* that is waiting, or takes it out of the pool and has to close it.
Release(c, m, next, mine) ==
    LET n == call[c].conn
        last == Users(n) = {c}
        leaves == last /\ LeavesPool(n)
        rests == last /\ ~LeavesPool(n)
        others == Without(idle, m)
    IN  /\ call' = [call EXCEPT ![c].conn = m, ![c].pc = next, ![c].mine = mine,
                                ![c].toClose = IF leaves THEN n ELSE None]
        /\ pool' = IF leaves THEN pool \ {n} ELSE pool
        /\ idle' = IF rests THEN Append(others, n) ELSE others
        /\ due' = due - (IF \E i \in 1..due : idle[i] = m THEN 1 ELSE 0)
        /\ cleaner' = IF rests /\ cleaner = "waiting" THEN "run" ELSE cleaner

-----------------------------------------------------------------------------
(* A call finds a connection. *)

Start(c) ==
    /\ At(c, "new")
    /\ call' = [call EXCEPT ![c].pc = IF call[c].canceled THEN "end" ELSE "find"]
    /\ UNCHANGED <<conn, pool, idleVars, cleanVars, evicted, tries>>

\* findConnection, first section, for a call that has a connection: if that takes no
\* more exchanges it is given back, and the pool searched; otherwise it is used again.
FindHeld(c) ==
    /\ At(c, "find") /\ ~call[c].canceled /\ call[c].conn # None
    /\ LET n == call[c].conn
       IN  \/ /\ ~conn[n].noNew
              /\ call' = [call EXCEPT ![c].pc = "check"]
              /\ UNCHANGED <<pool, idleVars, cleaner>>
           \/ /\ conn[n].noNew
              /\ \/ (\A m \in pool : Refuses(m)) /\ Release(c, None, "route", call[c].mine)
                 \/ \E m \in pool : Carries(m) /\ Release(c, m, "check", call[c].mine)
    /\ UNCHANGED <<conn, victim, evicted, tries>>

\* ... for one that has none: an eligible pooled connection is taken.  So does the
\* second section, after fresh routes were resolved.
FindPooled(c) ==
    /\ At(c, "find") \/ At(c, "route")
    /\ ~call[c].canceled /\ call[c].conn = None
    /\ \E n \in pool :
         /\ Carries(n)
         /\ call' = [call EXCEPT ![c].conn = n, ![c].pc = "check"]
         /\ Unidle(n)
    /\ UNCHANGED <<conn, pool, cleanVars, evicted, tries>>

\* ... or it was canceled, or nothing is eligible and a route is needed.
FindNone(c) ==
    /\ At(c, "find")
    /\ \/ /\ call[c].canceled
          /\ call' = [call EXCEPT ![c].pc = "end"]
       \/ /\ ~call[c].canceled /\ call[c].conn = None
          /\ \A n \in pool : Refuses(n)
          /\ call' = [call EXCEPT ![c].pc = "route"]
    /\ UNCHANGED <<conn, pool, idleVars, cleanVars, evicted, tries>>

\* RetryAndFollowUpInterceptor and recover: the call goes on with another route, or is
\* given up.  The finder keeps `mine`, its connectingConnection.
Again(c, mine) ==
    \/ /\ tries < MaxTries /\ tries' = tries + 1
       /\ call' = [call EXCEPT ![c].pc = IF call[c].canceled THEN "end" ELSE "find",
                               ![c].mine = mine]
    \/ /\ call' = [call EXCEPT ![c].pc = "end", ![c].mine = mine]
       /\ UNCHANGED tries

\* findConnection, second section: canceled, or no route is found; or a new connection.
FindNew(c) ==
    /\ At(c, "route")
    /\ \/ /\ Again(c, call[c].mine)
          /\ UNCHANGED conn
       \/ /\ ~call[c].canceled
          /\ UNCHANGED tries
          /\ \E n \in Conns :
               /\ Unreferenced(n)
               /\ conn' = [conn EXCEPT ![n].up = "connecting"]
               /\ call' = [call EXCEPT ![c].mine = n, ![c].pc = "connect"]
    /\ UNCHANGED <<pool, idleVars, cleanVars, evicted>>

\* connect: TCP and TLS, and what the server speaks.
Connect(c) ==
    /\ At(c, "connect")
    /\ \E h2 \in BOOLEAN :
         conn' = [conn EXCEPT ![call[c].mine].up = "open", ![call[c].mine].h2 = h2]
    /\ call' = [call EXCEPT ![c].pc = "put"]
    /\ UNCHANGED <<pool, idleVars, cleanVars, evicted, tries>>

\* connect fails and closes its sockets; the exchange finder is tried again or given up.
ConnectFails(c) ==
    /\ At(c, "connect")
    /\ conn' = [conn EXCEPT ![call[c].mine] = NewConn]
    /\ Again(c, Failed)
    /\ UNCHANGED <<pool, idleVars, cleanVars, evicted>>

\* Mutant of Put: the connection that lost is forgotten instead of closed.
PutForgets(c) ==
    /\ At(c, "put")
    /\ LET own == call[c].mine
       IN  \/ /\ \E n \in pool :
                   /\ conn[n].h2 /\ Carries(n)
                   /\ call' = [call EXCEPT ![c].conn = n, ![c].mine = None, ![c].pc = "check"]
                   /\ Unidle(n)
              /\ UNCHANGED <<conn, pool, cleaner>>
           \/ /\ pool' = pool \cup {own}
              /\ call' = [call EXCEPT ![c].conn = own, ![c].mine = None, ![c].pc = "check"]
              /\ cleaner' = IF cleaner = "off" THEN "run" ELSE cleaner
              /\ UNCHANGED <<conn, idleVars>>
    /\ UNCHANGED <<victim, evicted, tries>>

\* findConnection, last section: an HTTP/2 connection made meanwhile wins over the
\* call's own; otherwise that is pooled, and the cleanup thread started if need be.
Put(c) ==
    /\ At(c, "put")
    /\ LET own == call[c].mine
       IN  \/ /\ \E n \in pool :
                   /\ conn[n].h2 /\ Carries(n)
                   /\ call' = [call EXCEPT ![c].conn = n, ![c].mine = None,
                                           ![c].toClose = own, ![c].pc = "check"]
                   /\ Unidle(n)
              /\ conn' = [conn EXCEPT ![own].noNew = TRUE]
              /\ UNCHANGED <<pool, cleaner>>
           \/ /\ pool' = pool \cup {own}
              /\ call' = [call EXCEPT ![c].conn = own, ![c].mine = None, ![c].pc = "check"]
              /\ cleaner' = IF cleaner = "off" THEN "run" ELSE cleaner
              /\ UNCHANGED <<conn, idleVars>>
    /\ UNCHANGED <<victim, evicted, tries>>

\* findHealthyConnection: a new HTTP/1 connection is not looked at; one that is found
\* unhealthy takes no more exchanges, and the search begins again.
Check(c) ==
    /\ At(c, "check")
    /\ LET n == call[c].conn
       IN  \/ /\ call' = [call EXCEPT ![c].pc = "exchange"]
              /\ UNCHANGED conn
           \/ /\ conn[n].proven \/ conn[n].h2
              /\ conn' = [conn EXCEPT ![n].noNew = TRUE]
              /\ call' = [call EXCEPT ![c].pc = "find"]
    /\ UNCHANGED <<pool, idleVars, cleanVars, evicted, tries>>

-----------------------------------------------------------------------------
(* The exchange. *)

\* newExchange, last section; the request goes out on the wire.
NewExchange(c) ==
    /\ At(c, "exchange")
    /\ call' = [call EXCEPT ![c].pc = "io"]
    /\ conn' = [conn EXCEPT ![call[c].conn].wire = IF conn[call[c].conn].h2 THEN @ ELSE "busy"]
    /\ UNCHANGED <<pool, idleVars, cleanVars, evicted, tries>>

\* RealConnection.trackFailure retires an HTTP/1 connection, and an HTTP/2 one
\* depending on the error.
TrackFailure(n) ==
    \E retire \in BOOLEAN :
      /\ ~conn[n].h2 => retire
      /\ conn' = [conn EXCEPT ![n].noNew = @ \/ retire]

\* Mutant of IoFails: the connection is not marked.
IoFailsUnmarked(c) ==
    /\ At(c, "io") \/ At(c, "exchange")
    /\ Again(c, call[c].mine)
    /\ UNCHANGED <<conn, pool, idleVars, cleanVars, evicted>>

\* The exchange fails on the socket: exchangeDoneDueToException; retried or given up.
\* (What fails in "exchange" is newCodec, on a socket that was closed: nothing is marked.)
IoFails(c) ==
    LET n == call[c].conn
    IN  /\ \/ At(c, "io") /\ TrackFailure(n)
           \/ At(c, "exchange") /\ ~conn[n].h2 /\ UNCHANGED conn
        /\ Again(c, call[c].mine)
        /\ UNCHANGED <<pool, idleVars, cleanVars, evicted>>

\* An exception that is not the socket's: the application's request body throws, or a
\* 204 has a body.  exchangeDoneDueToException; no failure is tracked, hence no retry.
IoThrows(c) ==
    /\ At(c, "io")
    /\ call' = [call EXCEPT ![c].pc = "end"]
    /\ conn' = [conn EXCEPT ![call[c].conn].wire = IF conn[call[c].conn].h2 THEN @ ELSE "halfway"]
    /\ UNCHANGED <<pool, idleVars, cleanVars, evicted, tries>>

\* The body was read to its end, or close() discarded the rest in time, or could not
\* and retires the connection; exchangeMessageDone counts a success.
Drained(n) ==
    \/ conn' = [conn EXCEPT ![n].proven = ~conn[n].h2, ![n].wire = "clean"]
    \/ /\ ~conn[n].h2
       /\ conn' = [conn EXCEPT ![n].proven = ~conn[n].h2, ![n].noNew = TRUE]

\* The response needs a follow-up: its body is closed and the exchange is done.
FollowUp(c) ==
    /\ At(c, "io") /\ tries < MaxTries /\ tries' = tries + 1
    /\ Drained(call[c].conn)
    /\ call' = [call EXCEPT ![c].pc = "prepare"]
    /\ UNCHANGED <<pool, idleVars, cleanVars, evicted>>

\* prepareToConnect keeps the connection, or gives it back when the follow-up goes
\* elsewhere or no route is left.
Prepare(c) ==
    /\ At(c, "prepare")
    /\ LET next == IF call[c].canceled THEN "end" ELSE "find"
       IN  \/ Release(c, None, next, None)
           \/ /\ call' = [call EXCEPT ![c].pc = next]
              /\ UNCHANGED <<pool, idleVars, cleaner>>
    /\ UNCHANGED <<conn, victim, evicted, tries>>

\* The response is the caller's (noMoreExchanges(null)); "Connection: close" retires.
Respond(c) ==
    /\ At(c, "io")
    /\ \E close \in BOOLEAN : conn' = [conn EXCEPT ![call[c].conn].noNew = @ \/ close]
    /\ call' = [call EXCEPT ![c].pc = "body"]
    /\ UNCHANGED <<pool, idleVars, cleanVars, evicted, tries>>

\* The application finishes with the body: exchangeMessageDone, first section.
BodyDone(c) ==
    /\ At(c, "body")
    /\ Drained(call[c].conn)
    /\ call' = [call EXCEPT ![c].pc = "end"]
    /\ UNCHANGED <<pool, idleVars, cleanVars, evicted, tries>>

\* Reading it fails: trackFailure first.
BodyFails(c) ==
    /\ At(c, "body")
    /\ TrackFailure(call[c].conn)
    /\ call' = [call EXCEPT ![c].pc = "end"]
    /\ UNCHANGED <<pool, idleVars, cleanVars, evicted, tries>>

\* The application drops the response without closing it, or followUpRequest throws
\* with the exchange open: the transmitter is garbage and its reference cleared.
Leak(c) ==
    /\ At(c, "io") \/ At(c, "body")
    /\ call[c].kill = None
    /\ call' = [call EXCEPT ![c].pc = "gone"]
    /\ UNCHANGED <<conn, pool, idleVars, cleanVars, evicted, tries>>

\* maybeReleaseConnection, after the last exchange or after noMoreExchanges(e).
End(c) ==
    /\ At(c, "end")
    /\ \/ /\ call[c].conn # None
          /\ Release(c, None, "done", None)
       \/ /\ call[c].conn = None
          /\ call' = [call EXCEPT ![c].pc = "done"]
          /\ UNCHANGED <<pool, idleVars, cleaner>>
    /\ UNCHANGED <<conn, victim, evicted, tries>>

\* closeQuietly of what a section left to close.  A closed connection is as good as new
\* to the model: it is out of the pool and has no users (NoneClosedInUse).
Close(c) ==
    /\ call[c].toClose # None
    /\ conn' = [conn EXCEPT ![call[c].toClose] = NewConn]
    /\ call' = [call EXCEPT ![c].toClose = None]
    /\ UNCHANGED <<pool, idleVars, cleanVars, evicted, tries>>

-----------------------------------------------------------------------------
(* cancel(), from any thread. *)

\* What cancel() closes: the connection of an HTTP/1 exchange, but of an HTTP/2 one
\* only the stream; without an exchange the connection being made (or that failed to
\* be made, which closes nothing), and without that the one held.
Target(c) ==
    IF call[c].pc \in {"io", "body"}
    THEN IF conn[call[c].conn].h2 THEN None ELSE call[c].conn
    ELSE IF call[c].mine = None THEN call[c].conn
    ELSE IF call[c].mine = Failed THEN None ELSE call[c].mine

\* The section.
Cancel(c) ==
    /\ c \in Canceled /\ ~call[c].canceled /\ call[c].pc \notin {"done", "gone"}
    /\ call' = [call EXCEPT ![c].canceled = TRUE, ![c].kill = Target(c)]
    /\ UNCHANGED <<conn, pool, idleVars, cleanVars, evicted, tries>>

\* RealConnection.cancel: the raw socket is closed, if there is one already; what the
\* connection carries then fails.
CancelClose(c) ==
    /\ call[c].kill # None
    /\ call' = [call EXCEPT ![c].kill = None]
    /\ UNCHANGED <<conn, pool, idleVars, cleanVars, evicted, tries>>

-----------------------------------------------------------------------------
(* Eviction. *)

\* evictAll
EvictAll ==
    /\ evicted = {} /\ idle # <<>>
    /\ evicted' = ToSet(idle)
    /\ conn' = [n \in Conns |-> IF n \in evicted' THEN [conn[n] EXCEPT !.noNew = TRUE]
                                ELSE conn[n]]
    /\ pool' = pool \ evicted'
    /\ idle' = <<>> /\ due' = 0
    /\ UNCHANGED <<call, cleanVars, tries>>

EvictClose ==
    /\ evicted # {}
    /\ conn' = [n \in Conns |-> IF n \in evicted THEN NewConn ELSE conn[n]]
    /\ evicted' = {}
    /\ UNCHANGED <<call, pool, idleVars, cleanVars, tries>>

\* Time passes: the next idle connection reaches the keep-alive duration.
Expire ==
    /\ due < Len(idle)
    /\ due' = due + 1
    /\ UNCHANGED <<call, conn, pool, idle, cleanVars, evicted, tries>>

\* Mutant of Ends: the thread also ends when every connection is in use.
EndsWhenBusy(resting, connections) == resting = <<>>

\* cleanup answers -1: no connections, idle or in use.
Ends(resting, connections) == connections = {}

\* cleanup's section.  Leaked transmitters are pruned: their connections are retired
\* and, once without users, due at once.  Then the longest idle connection is evicted
\* if it is due or there are too many; or the thread waits, or ends.
Cleanup ==
    /\ cleaner = "run"
    /\ LET leaked == {c \in Calls : call[c].pc = "gone" /\ call[c].conn \in pool}
           marked == {call[c].conn : c \in leaked}
           fresh == {n \in marked : Users(n) \subseteq leaked}
           resting == SubSeq(idle, 1, due) \o SetToSeq(fresh) \o SubSeq(idle, due + 1, Len(idle))
           expired == due + Cardinality(fresh)
           evict == expired > 0 \/ Len(resting) > MaxIdle
       IN  /\ call' = [c \in Calls |-> IF c \in leaked THEN [call[c] EXCEPT !.conn = None, !.pc = "done"]
                                       ELSE call[c]]
           /\ conn' = [n \in Conns |-> IF n \in marked THEN [conn[n] EXCEPT !.noNew = TRUE]
                                       ELSE conn[n]]
           /\ \/ /\ evict
                 /\ victim' = Head(resting) /\ pool' = pool \ {victim'}
                 /\ idle' = Tail(resting) /\ due' = IF expired > 0 THEN expired - 1 ELSE 0
                 /\ cleaner' = "close"
              \/ /\ ~evict
                 /\ idle' = resting /\ due' = expired
                 /\ cleaner' = IF Ends(resting, pool) THEN "off" ELSE "sleepy"
                 /\ UNCHANGED <<victim, pool>>
    /\ UNCHANGED <<evicted, tries>>

CleanerCloses ==
    /\ cleaner = "close"
    /\ conn' = [conn EXCEPT ![victim] = NewConn]
    /\ victim' = None /\ cleaner' = "run"
    /\ UNCHANGED <<call, pool, idleVars, evicted, tries>>

\* The monitor is taken again to wait; a notifyAll() in between wakes nobody.
CleanerWaits ==
    /\ cleaner = "sleepy"
    /\ cleaner' = "waiting"
    /\ UNCHANGED <<call, conn, pool, idleVars, victim, evicted, tries>>

\* The wait is over: its time is up.
CleanerWakes ==
    /\ cleaner = "waiting"
    /\ cleaner' = "run"
    /\ UNCHANGED <<call, conn, pool, idleVars, victim, evicted, tries>>

-----------------------------------------------------------------------------
\* What a call does next, by where it is.
CallStep(c) ==
    \/ call[c].pc \in {"new", "find", "route", "connect", "put", "check"}
       /\ (\/ Start(c) \/ FindHeld(c) \/ FindPooled(c) \/ FindNone(c) \/ FindNew(c)
           \/ Connect(c) \/ ConnectFails(c) \/ Put(c) \/ Check(c))
    \/ call[c].pc \in {"exchange", "io", "prepare", "body", "gone", "end"}
       /\ (\/ NewExchange(c) \/ IoFails(c) \/ IoThrows(c) \/ FollowUp(c) \/ Prepare(c) \/ Respond(c)
           \/ BodyDone(c) \/ BodyFails(c) \/ Leak(c) \/ End(c))
    \/ Close(c)

CleanerStep == Cleanup \/ CleanerCloses \/ CleanerWaits \/ CleanerWakes

Next ==
    \/ \E c \in Calls : CallStep(c) \/ Cancel(c) \/ CancelClose(c)
    \/ EvictAll \/ EvictClose \/ Expire \/ CleanerStep

Spec == Init /\ [][Next]_vars

\* Calls go on and their responses are closed or dropped in the end; time passes and
\* waits end; the threads that have something to close run on.
FairSpec ==
    /\ Spec
    /\ \A c \in Calls : WF_vars(CallStep(c))
    /\ WF_vars(EvictClose) /\ WF_vars(Expire) /\ WF_vars(CleanerStep)

-----------------------------------------------------------------------------
(* Properties. *)

\* Types; the idle connections are exactly those of the pool that no call holds.
TypeOK ==
    /\ call \in [Calls -> Call] /\ conn \in [Conns -> Conn]
    /\ pool \subseteq Conns /\ evicted \subseteq Conns /\ victim \in Conns \cup {None}
    /\ due \in 0..Len(idle) /\ Cardinality(ToSet(idle)) = Len(idle)
    /\ ToSet(idle) = {n \in pool : Users(n) = {}}
    /\ cleaner \in {"off", "run", "close", "sleepy", "waiting"} /\ tries \in 0..MaxTries

\* Whoever closes a socket - the last user, a call that lost the race to connect,
\* evictAll, the cleanup thread - does it outside the monitor, and still neither a
\* call nor the pool has a connection that was closed or is about to be.
NoneClosedInUse ==
    \A n \in Conns :
      (\/ conn[n].up = "closed" \/ n = victim \/ n \in evicted
       \/ \E c \in Calls : call[c].toClose = n) => n \notin pool /\ Users(n) = {}

\* As long as there is a connection in the pool, in use or idle, the cleanup thread
\* is there for it: put() and the thread's end agree on who starts the next one.
CleanerWatches == pool # {} => cleaner # "off"

\* Who has a connection, that it is not closed under them, and that someone watches it.
PoolInv == TypeOK /\ NoneClosedInUse /\ CleanerWatches

\* An HTTP/1 connection carries one call at a time, and a call that is given one finds
\* nothing of an earlier exchange on it - unless that was given up halfway for a
\* reason other than the socket, which the code does not track.
CleanReuse ==
    \A n \in Conns : conn[n].up = "open" /\ ~conn[n].h2 =>
      /\ Cardinality(Users(n)) <= 1
      /\ \A c \in Users(n) : call[c].pc = "exchange" => conn[n].wire # "busy"

\* Every connection that was made is closed in the end: evicted when idle for too
\* long, closed by its last user, pruned when its user was leaked, closed by the call
\* that made it in vain.
EveryConnectionClosed ==
    \A n \in Conns : conn[n].up = "open" ~> conn[n].up = "closed"

\* More idle connections than maxIdleConnections do not last, even if the cleanup
\* thread misses the notification.
IdleLimitRestored == Len(idle) > MaxIdle ~> Len(idle) <= MaxIdle
=============================================================================
