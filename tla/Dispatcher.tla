----------------------------- MODULE Dispatcher -----------------------------
(***************************************************************************)
(* okhttp3/Dispatcher.java with the calls of RealCall.java: when calls are *)
(* executed.  The methods synchronize on the dispatcher, except that a     *)
(* finished call's per-host counter is decremented before, and that calls  *)
(* are handed to the executor, and the idle callback run, after.           *)
(* The counter is shared by reference: a call that is enqueued takes over  *)
(* the counter of a call to the same host.  Cancelling reaches the network *)
(* only; a cancelled call passes through the dispatcher like any other.    *)
(***************************************************************************)
EXTENDS Naturals, Sequences, FiniteSets

CONSTANTS Calls,       \* the calls made in a behaviour
          Sync,        \* those made with execute() instead of enqueue()
          WebSockets,  \* those made for a web socket
          Hosts,
          Host,        \* Host[c]: the host of a call's URL
          Limits,      \* values for maxRequests and maxRequestsPerHost
          InitialRequests, InitialPerHost,  \* the values they start with (64 and 5)
          MaxChanges,  \* bound: calls of setMaxRequests and setMaxRequestsPerHost
          None         \* no thread owns the monitor

\* The threads that promote: one that enqueues, one that finishes, one that sets a limit.
Promoters == ({"enqueue", "finish"} \X Calls) \cup {<<"limit">>}

ASSUME DispatcherAssumption ==
    /\ Sync \subseteq Calls /\ WebSockets \subseteq Calls \ Sync
    /\ Host \in [Calls -> Hosts]
    /\ Limits \subseteq Nat \ {0} /\ {InitialRequests, InitialPerHost} \subseteq Limits
    /\ MaxChanges \in Nat
    /\ None \notin Promoters

Async == Calls \ Sync

VARIABLES ready,         \* readyAsyncCalls
          runningAsync,  \* runningAsyncCalls
          runningSync,   \* runningSyncCalls
          counter,       \* counter[c]: whose AtomicInteger c.callsPerHost refers to
          count,         \* count[c]: the value of the AtomicInteger c was made with
          maxRequests, maxRequestsPerHost,
          changes,       \* number of calls that changed a limit
          st,            \* st[c]: where call c is
          owed,          \* the threads that still have to run promoteAndExecute()
          lock,          \* who is inside promoteAndExecute's monitor
          scan,          \* the ready calls it has not looked at yet
          idleDue        \* running calls went down to zero; idleCallback not run since

queues == <<ready, runningAsync, runningSync>>
counters == <<counter, count>>
limits == <<maxRequests, maxRequestsPerHost, changes>>
vars == <<queues, counters, limits, st, owed, lock, scan, idleDue>>

Init ==
    /\ ready = <<>> /\ runningAsync = <<>> /\ runningSync = {}
    /\ counter = [c \in Calls |-> c] /\ count = [c \in Calls |-> 0]
    /\ maxRequests = InitialRequests /\ maxRequestsPerHost = InitialPerHost /\ changes = 0
    /\ st = [c \in Calls |-> "new"]
    /\ owed = {} /\ lock = None /\ scan = <<>> /\ idleDue = FALSE

Members(q) == {q[i] : i \in 1..Len(q)}

\* A call is in a queue at most once: q with the place of c taken out.
Without(q, c) ==
    IF c \notin Members(q) THEN q
    ELSE LET i == CHOOSE i \in 1..Len(q) : q[i] = c
         IN  SubSeq(q, 1, i - 1) \o SubSeq(q, i + 1, Len(q))

\* findExistingCallWithHost: the first running call to the host, else the first
\* ready one; enqueue has put c at the end of the ready ones.
Existing(c) ==
    LET all == runningAsync \o Append(ready, c)
    IN  all[CHOOSE i \in 1..Len(all) :
              Host[all[i]] = Host[c] /\ \A j \in 1..i - 1 : Host[all[j]] # Host[c]]

-----------------------------------------------------------------------------
(* enqueue, execute, and the limits. *)

\* Mutant of Enqueue: the new call keeps the counter it was made with.
EnqueueOwnCounter(c) ==
    /\ st[c] = "new" /\ c \in Async /\ lock = None
    /\ ready' = Append(ready, c)
    /\ st' = [st EXCEPT ![c] = "ready"]
    /\ owed' = owed \cup {<<"enqueue", c>>}
    /\ UNCHANGED <<runningAsync, runningSync, counters, limits, lock, scan, idleDue>>

\* enqueue: last in readyAsyncCalls, with the counter of an existing call to the
\* host unless it is for a web socket; promoteAndExecute follows.
Enqueue(c) ==
    /\ st[c] = "new" /\ c \in Async /\ lock = None
    /\ ready' = Append(ready, c)
    /\ counter' = IF c \in WebSockets THEN counter
                  ELSE [counter EXCEPT ![c] = counter[Existing(c)]]
    /\ st' = [st EXCEPT ![c] = "ready"]
    /\ owed' = owed \cup {<<"enqueue", c>>}
    /\ UNCHANGED <<runningAsync, runningSync, count, limits, lock, scan, idleDue>>

\* RealCall.execute: executed() and then the interceptors, on the caller's thread.
Execute(c) ==
    /\ st[c] = "new" /\ c \in Sync /\ lock = None
    /\ runningSync' = runningSync \cup {c}
    /\ st' = [st EXCEPT ![c] = "running"]
    /\ UNCHANGED <<ready, runningAsync, counters, limits, owed, lock, scan, idleDue>>

\* Mutant of SetLimit: nothing is promoted afterwards.
SetLimitOnly(total, perHost) ==
    /\ changes < MaxChanges /\ lock = None
    /\ changes' = changes + 1
    /\ maxRequests' = total /\ maxRequestsPerHost' = perHost
    /\ UNCHANGED <<queues, counters, st, owed, lock, scan, idleDue>>

\* setMaxRequests or setMaxRequestsPerHost, then promoteAndExecute.
SetLimit(total, perHost) ==
    /\ changes < MaxChanges /\ lock = None
    /\ \/ total # maxRequests /\ perHost = maxRequestsPerHost
       \/ total = maxRequests /\ perHost # maxRequestsPerHost
    /\ changes' = changes + 1
    /\ maxRequests' = total /\ maxRequestsPerHost' = perHost
    /\ owed' = owed \cup {<<"limit">>}
    /\ UNCHANGED <<queues, counters, st, lock, scan, idleDue>>

-----------------------------------------------------------------------------
(* promoteAndExecute. *)

PromoteEnter(t) ==
    /\ t \in owed /\ lock = None
    /\ lock' = t
    /\ scan' = ready
    /\ UNCHANGED <<queues, counters, limits, st, owed, idleDue>>

\* Too many running calls: the loop is left.
PromoteFull ==
    /\ scan # <<>>
    /\ Len(runningAsync) >= maxRequests
    /\ scan' = <<>>
    /\ UNCHANGED <<queues, counters, limits, st, owed, lock, idleDue>>

HostFull(c) == count[counter[c]] >= maxRequestsPerHost

\* Too many running calls to this host: the next ready call.
PromoteSkip ==
    /\ scan # <<>>
    /\ Len(runningAsync) < maxRequests /\ HostFull(Head(scan))
    /\ scan' = Tail(scan)
    /\ UNCHANGED <<queues, counters, limits, st, owed, lock, idleDue>>

\* A call is moved from readyAsyncCalls to runningAsyncCalls and counted.
PromoteCall ==
    /\ scan # <<>>
    /\ Len(runningAsync) < maxRequests /\ ~HostFull(Head(scan))
    /\ LET c == Head(scan) IN
          /\ ready' = Without(ready, c)
          /\ runningAsync' = Append(runningAsync, c)
          /\ count' = [count EXCEPT ![counter[c]] = @ + 1]
          /\ st' = [st EXCEPT ![c] = "running"]
    /\ scan' = Tail(scan)
    /\ UNCHANGED <<runningSync, counter, limits, owed, lock, idleDue>>

\* The monitor is left.  A thread that finishes a call remembers whether any
\* call is running.
PromoteLeave ==
    /\ lock # None /\ scan = <<>>
    /\ lock' = None
    /\ owed' = owed \ {lock}
    /\ st' = IF lock[1] = "finish"
             THEN [st EXCEPT ![lock[2]] = IF runningAsync = <<>> /\ runningSync = {}
                                          THEN "idle" ELSE "done"]
             ELSE st
    /\ UNCHANGED <<queues, counters, limits, scan, idleDue>>

-----------------------------------------------------------------------------
(* finished. *)

\* Mutant of Finish: the counter the call was made with is decremented.
FinishOwnCounter(c) ==
    /\ st[c] = "running" /\ c \in Async
    /\ count' = [count EXCEPT ![c] = @ - 1]
    /\ st' = [st EXCEPT ![c] = "removing"]
    /\ UNCHANGED <<queues, counter, limits, owed, lock, scan, idleDue>>

\* A promoted call has been handed to the executor and its callback has returned,
\* or the executor has rejected it: callsPerHost is decremented, outside the monitor.
Finish(c) ==
    /\ st[c] = "running" /\ c \in Async
    /\ count' = [count EXCEPT ![counter[c]] = @ - 1]
    /\ st' = [st EXCEPT ![c] = "removing"]
    /\ UNCHANGED <<queues, counter, limits, owed, lock, scan, idleDue>>

\* Ready to leave its queue: a call that execute() made needs no counting.
Returned(c) == st[c] = "removing" \/ (st[c] = "running" /\ c \in Sync)

\* Mutant of Remove: a finished call promotes only when it leaves calls behind.
RemovePromotesIfRunning(c) ==
    /\ Returned(c) /\ lock = None
    /\ runningAsync' = Without(runningAsync, c)
    /\ runningSync' = runningSync \ {c}
    /\ IF runningAsync' = <<>> /\ runningSync' = {}
       THEN owed' = owed /\ st' = [st EXCEPT ![c] = "done"]
       ELSE owed' = owed \cup {<<"finish", c>>} /\ st' = [st EXCEPT ![c] = "promoting"]
    /\ idleDue' = (idleDue \/ (runningAsync' = <<>> /\ runningSync' = {}))
    /\ UNCHANGED <<ready, counters, limits, lock, scan>>

\* The call leaves its queue; promoteAndExecute follows.
Remove(c) ==
    /\ Returned(c) /\ lock = None
    /\ runningAsync' = Without(runningAsync, c)
    /\ runningSync' = runningSync \ {c}
    /\ st' = [st EXCEPT ![c] = "promoting"]
    /\ owed' = owed \cup {<<"finish", c>>}
    /\ idleDue' = (idleDue \/ (runningAsync' = <<>> /\ runningSync' = {}))
    /\ UNCHANGED <<ready, counters, limits, lock, scan>>

\* No call was running: the idle callback.
Idle(c) ==
    /\ st[c] = "idle"
    /\ st' = [st EXCEPT ![c] = "done"]
    /\ idleDue' = FALSE
    /\ UNCHANGED <<queues, counters, limits, owed, lock, scan>>

-----------------------------------------------------------------------------
Promote ==
    \/ \E t \in Promoters : PromoteEnter(t)
    \/ PromoteFull \/ PromoteSkip \/ PromoteCall \/ PromoteLeave

Work(c) == Finish(c) \/ Remove(c) \/ Idle(c)

\* Every call has been made and is through.
Through == (\A c \in Calls : st[c] = "done") /\ owed = {} /\ UNCHANGED vars

Next ==
    \/ Promote
    \/ \E c \in Calls : Enqueue(c) \/ Execute(c) \/ Work(c)
    \/ \E total, perHost \in Limits : SetLimit(total, perHost)
    \/ Through

Spec == Init /\ [][Next]_vars

\* Threads run and calls end (they have timeouts); nobody has to make a call.
Fairness == WF_vars(Promote) /\ \A c \in Calls : WF_vars(Work(c))

FairSpec == Spec /\ Fairness

-----------------------------------------------------------------------------
(* Properties. *)

Points == {"new", "ready", "running", "removing", "promoting", "idle", "done"}

\* The type invariant.
TypeOK ==
    /\ ready \in Seq(Async) /\ runningAsync \in Seq(Async) /\ runningSync \subseteq Sync
    /\ counter \in [Calls -> Calls] /\ count \in [Calls -> Nat]
    /\ maxRequests \in Limits /\ maxRequestsPerHost \in Limits /\ changes \in 0..MaxChanges
    /\ st \in [Calls -> Points] /\ owed \subseteq Promoters
    /\ lock \in Promoters \cup {None} /\ scan \in Seq(Async) /\ idleDue \in BOOLEAN

\* The calls a counter has to count: promoted and not yet decremented.
Counted == {c \in Async : st[c] = "running"}

\* A counter that calls share by reference, incremented in the monitor and
\* decremented outside it, tells how many of the calls sharing it are in flight.
CountersExact ==
    \A x \in Calls : count[x] = Cardinality({c \in Counted : counter[c] = x})

\* The dispatcher's fields and counters agree with the calls there are.
DispatcherInv == TypeOK /\ CountersExact

\* The doc of setMaxRequestsPerHost: the limit is for requests to a host.  A call
\* is promoted only while fewer than maxRequestsPerHost calls to its host run,
\* although what is compared is the counter of whichever call was found first.
\* Web sockets are exempt, each with a counter of its own, and a call enqueued
\* while one of them runs takes over its counter: hosts they go to are left out.
HostLimitKept ==
    [][\A c \in Async :
          /\ st[c] = "ready" /\ st'[c] = "running"
          /\ \A w \in WebSockets : Host[w] # Host[c]
          => Cardinality({d \in Counted : Host[d] = Host[c]}) < maxRequestsPerHost]_vars

\* No thread is between the end of a call and the promotion or callback due then.
Quiet == owed = {} /\ \A c \in Calls : st[c] \notin {"removing", "idle"}

\* A call waits for a reason.  When no thread is about to promote, every ready
\* call is held up by the limits.  The calls to its host include a web socket's:
\* a call that has taken over the web socket's counter does wait for it, although
\* web sockets "do not count against this limit" (Dispatcher.java:115).
WaitsOnlyForLimits ==
    Quiet => \A c \in Members(ready) :
        \/ Len(runningAsync) >= maxRequests
        \/ Cardinality({d \in Counted : Host[d] = Host[c]}) >= maxRequestsPerHost

\* The idle callback runs after the number of running calls has gone down to
\* zero, whichever of the threads that finish, promote and enqueue comes last.
IdleReported == Quiet /\ runningAsync = <<>> /\ runningSync = {} => ~idleDue

\* When no thread has anything left to do for the dispatcher, nothing has been
\* forgotten: neither a call that could run nor the idle callback.
NothingForgotten == WaitsOnlyForLimits /\ IdleReported

\* Every call that is made gets through: with finitely many calls, there is a time
\* from which none is ready, running or in the hands of a thread that finishes it.
CallsGetThrough == <>[](\A c \in Calls : st[c] \in {"new", "done"})
=============================================================================
