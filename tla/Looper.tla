------------------------------- MODULE Looper -------------------------------
(***************************************************************************)
(* looper/Looper.cpp at the granularity of its semaphore calls: a linked   *)
(* list of messages behind the semaphore headWriteProtect, the semaphore   *)
(* headDataAvailable that counts posted messages, a worker thread in       *)
(* loop(), threads that call postMessage, and the owner that calls quit()  *)
(* (directly, or through the destructor when the looper is running).       *)
(***************************************************************************)
EXTENDS Naturals, Sequences, FiniteSets

CONSTANTS Posters,      \* threads that call postMessage
          Owner,        \* the thread that calls quit
          Messages,     \* addresses of LooperMessage objects
          Quit,         \* the address of the message with quit = true
          NoMessage,    \* a null pointer
          MaxPosts      \* bound: calls of postMessage in a behaviour

Callers == Posters \cup {Owner}

ASSUME CallerAssumption == IsFiniteSet(Posters) /\ Owner \notin Posters
ASSUME MessageAssumption ==
    Quit \notin Messages /\ NoMessage \notin Messages /\ Quit # NoMessage
ASSUME PostsAssumption == MaxPosts \in Nat

VARIABLES list,     \* the messages reachable from head, in order
          data,     \* sem_t headDataAvailable
          protect,  \* sem_t headWriteProtect
          wpc,      \* where the worker is in loop()
          cur,      \* loop()'s local msg
          pc,       \* where each caller is in postMessage or quit
          msg,      \* addMessage's argument msg
          flush,    \* addMessage's argument flush
          live,     \* messages that are allocated and not deleted
          posts,    \* calls of postMessage so far
          running   \* bool running

vars == <<list, data, protect, wpc, cur, pc, msg, flush, live, posts, running>>

\* The state the constructor leaves.
Init ==
    /\ list = <<>>
    /\ data = 0
    /\ protect = 1
    /\ wpc = "wait"
    /\ cur = NoMessage
    /\ pc = [t \in Callers |-> "idle"]
    /\ msg = [t \in Callers |-> NoMessage]
    /\ flush = [t \in Callers |-> FALSE]
    /\ live = {}
    /\ posts = 0
    /\ running = TRUE

-----------------------------------------------------------------------------
(* postMessage and quit up to addMessage. *)

\* postMessage allocates and fills a message.
PostMessage(t) ==
    /\ pc[t] = "idle"
    /\ posts < MaxPosts
    /\ \E m \in Messages \ live : /\ msg' = [msg EXCEPT ![t] = m]
                                  /\ live' = live \cup {m}
    /\ \E f \in BOOLEAN : flush' = [flush EXCEPT ![t] = f]
    /\ posts' = posts + 1
    /\ pc' = [pc EXCEPT ![t] = "add"]
    /\ UNCHANGED <<list, data, protect, wpc, cur, running>>

\* quit() calls addMessage(msg, false).
QuitFlushes == FALSE

\* quit() allocates the quit message; the destructor calls it if running.
QuitBegin ==
    /\ pc[Owner] = "idle"
    /\ running
    /\ msg' = [msg EXCEPT ![Owner] = Quit]
    /\ live' = live \cup {Quit}
    /\ flush' = [flush EXCEPT ![Owner] = QuitFlushes]
    /\ pc' = [pc EXCEPT ![Owner] = "add"]
    /\ UNCHANGED <<list, data, protect, wpc, cur, posts, running>>

-----------------------------------------------------------------------------
(* addMessage. *)

\* sem_wait(&headWriteProtect) returns only while the count is positive.
WriteProtected == protect > 0

AddLock(t) ==
    /\ pc[t] = "add"
    /\ WriteProtected
    /\ protect' = protect - 1
    /\ pc' = [pc EXCEPT ![t] = IF flush[t] THEN "flush" ELSE "link"]
    /\ UNCHANGED <<list, data, wpc, cur, msg, flush, live, posts, running>>

\* The flush loop deletes every queued message; head still points at them.
AddFlush(t) ==
    /\ pc[t] = "flush"
    /\ live' = live \ {list[i] : i \in 1..Len(list)}
    /\ pc' = [pc EXCEPT ![t] = "link"]
    /\ UNCHANGED <<list, data, protect, wpc, cur, msg, flush, posts, running>>

\* Mutant of AddLink: after a flush the old nodes stay linked.
AddLinkBehind(t) ==
    /\ pc[t] = "link"
    /\ list' = Append(list, msg[t])
    /\ pc' = [pc EXCEPT ![t] = "unlock"]
    /\ UNCHANGED <<data, protect, wpc, cur, msg, flush, live, posts, running>>

\* Mutant of AddLink: the message is put in front of the list.
AddLinkFront(t) ==
    /\ pc[t] = "link"
    /\ list' = IF flush[t] THEN <<msg[t]>> ELSE <<msg[t]>> \o list
    /\ pc' = [pc EXCEPT ![t] = "unlock"]
    /\ UNCHANGED <<data, protect, wpc, cur, msg, flush, live, posts, running>>

\* The message becomes the head, or the last node's successor.
AddLink(t) ==
    /\ pc[t] = "link"
    /\ list' = IF flush[t] THEN <<msg[t]>> ELSE Append(list, msg[t])
    /\ pc' = [pc EXCEPT ![t] = "unlock"]
    /\ UNCHANGED <<data, protect, wpc, cur, msg, flush, live, posts, running>>

\* The message is read once more for the log, then headWriteProtect is posted.
AddUnlock(t) ==
    /\ pc[t] = "unlock"
    /\ protect' = protect + 1
    /\ pc' = [pc EXCEPT ![t] = "notify"]
    /\ UNCHANGED <<list, data, wpc, cur, msg, flush, live, posts, running>>

\* Mutant of AddNotify: headDataAvailable used as a flag, not as a count.
AddNotifyOnce(t) ==
    /\ pc[t] = "notify"
    /\ data' = 1
    /\ pc' = [pc EXCEPT ![t] = IF t = Owner THEN "join" ELSE "idle"]
    /\ UNCHANGED <<list, protect, wpc, cur, msg, flush, live, posts, running>>

\* sem_post(&headDataAvailable), the last thing addMessage does.
AddNotify(t) ==
    /\ pc[t] = "notify"
    /\ data' = data + 1
    /\ pc' = [pc EXCEPT ![t] = IF t = Owner THEN "join" ELSE "idle"]
    /\ UNCHANGED <<list, protect, wpc, cur, msg, flush, live, posts, running>>

\* quit(): the worker is joined, the semaphores destroyed, running cleared.
QuitJoin ==
    /\ pc[Owner] = "join"
    /\ wpc = "exited"
    /\ running' = FALSE
    /\ pc' = [pc EXCEPT ![Owner] = "destroyed"]
    /\ UNCHANGED <<list, data, protect, wpc, cur, msg, flush, live, posts>>

-----------------------------------------------------------------------------
(* loop. *)

LoopWait ==
    /\ wpc = "wait"
    /\ data > 0
    /\ data' = data - 1
    /\ wpc' = "lock"
    /\ UNCHANGED <<list, protect, cur, pc, msg, flush, live, posts, running>>

LoopLock ==
    /\ wpc = "lock"
    /\ protect > 0
    /\ protect' = protect - 1
    /\ wpc' = "take"
    /\ UNCHANGED <<list, data, cur, pc, msg, flush, live, posts, running>>

\* head is taken off the list, or is null because a flush removed more
\* messages than it left; either way headWriteProtect is posted.
LoopTake ==
    /\ wpc = "take"
    /\ protect' = protect + 1
    /\ \/ /\ list = <<>>
          /\ wpc' = "wait"
          /\ UNCHANGED <<list, cur>>
       \/ /\ list # <<>>
          /\ cur' = Head(list)
          /\ list' = Tail(list)
          /\ wpc' = "dispatch"
    /\ UNCHANGED <<data, pc, msg, flush, live, posts, running>>

\* Mutant of LoopDispatch: the message is not deleted after it is handled.
LoopDispatchKeep ==
    /\ wpc = "dispatch"
    /\ live' = live \ ({cur} \cap {Quit})
    /\ cur' = NoMessage
    /\ wpc' = IF cur = Quit THEN "exited" ELSE "wait"
    /\ UNCHANGED <<list, data, protect, pc, msg, flush, posts, running>>

\* The quit message ends loop(); any other is handled; both are deleted.
LoopDispatch ==
    /\ wpc = "dispatch"
    /\ live' = live \ {cur}
    /\ cur' = NoMessage
    /\ wpc' = IF cur = Quit THEN "exited" ELSE "wait"
    /\ UNCHANGED <<list, data, protect, pc, msg, flush, posts, running>>

-----------------------------------------------------------------------------
AddStep(t) == AddLock(t) \/ AddFlush(t) \/ AddLink(t) \/ AddUnlock(t) \/ AddNotify(t)

LoopStep == LoopWait \/ LoopLock \/ LoopTake \/ LoopDispatch

\* The program may stop: the worker has exited and nobody is inside a call.
Terminated ==
    /\ wpc = "exited"
    /\ \A t \in Posters : pc[t] = "idle"
    /\ pc[Owner] = "destroyed"
    /\ UNCHANGED vars

Next ==
    \/ \E t \in Posters : PostMessage(t)
    \/ QuitBegin
    \/ \E t \in Callers : AddStep(t)
    \/ QuitJoin
    \/ LoopStep
    \/ Terminated

Spec == Init /\ [][Next]_vars

\* The worker and a caller inside a method keep running; a thread blocked in
\* sem_wait gets the semaphore if it is posted again and again.  Nobody is
\* obliged to post or to quit.
Fairness ==
    /\ WF_vars(LoopWait \/ LoopTake \/ LoopDispatch) /\ SF_vars(LoopLock)
    /\ \A t \in Callers :
          /\ WF_vars(AddFlush(t) \/ AddLink(t) \/ AddUnlock(t) \/ AddNotify(t))
          /\ SF_vars(AddLock(t))
    /\ WF_vars(QuitJoin)

FairSpec == Spec /\ Fairness

-----------------------------------------------------------------------------
(* Properties. *)

Queued == {list[i] : i \in 1..Len(list)}

CallerPoints == {"idle", "add", "flush", "link", "unlock", "notify", "join", "destroyed"}
WorkerPoints == {"wait", "lock", "take", "dispatch", "exited"}

\* Callers between sem_wait and sem_post of headWriteProtect.
Owning == {t \in Callers : pc[t] \in {"flush", "link", "unlock"}}

\* Callers whose message is linked and not yet counted by headDataAvailable.
Unannounced == {t \in Callers : pc[t] \in {"unlock", "notify"}}

\* The type invariant.
TypeOK ==
    /\ list \in Seq(Messages \cup {Quit})
    /\ data \in Nat
    /\ protect \in {0, 1}
    /\ wpc \in WorkerPoints
    /\ cur \in Messages \cup {Quit, NoMessage}
    /\ pc \in [Callers -> CallerPoints]
    /\ msg \in [Callers -> Messages \cup {Quit, NoMessage}]
    /\ flush \in [Callers -> BOOLEAN]
    /\ live \subseteq Messages \cup {Quit}
    /\ posts \in 0..MaxPosts
    /\ running \in BOOLEAN

\* Nobody reads a deleted message: not the worker that takes the head off or
\* handles what it took, not a caller that walks the list to its end, links
\* its message and logs it.  A flush deletes nodes that head still points to,
\* so this rests on headWriteProtect and on the order of addMessage's steps.
NoDeletedRead ==
    /\ wpc = "take" => Queued \subseteq live
    /\ wpc = "dispatch" => cur \in live
    /\ \A t \in Callers : /\ pc[t] \in {"link", "unlock"} => msg[t] \in live
                          /\ pc[t] = "link" /\ ~flush[t] => Queued \subseteq live

\* Every queued message is paid for: by a unit of headDataAvailable, by the
\* unit the worker has taken and not used, or by a caller about to post it.
\* A flush leaves too many units (the worker then finds no message), never
\* too few, so no message is stranded in the list.
EveryMessageCounted ==
    Len(list) <= data + Cardinality(Unannounced)
                      + (IF wpc \in {"lock", "take"} THEN 1 ELSE 0)

\* quit() is called when no postMessage is in progress, and none is called after
\* it: what the code expects of its callers, without checking or documenting it.
Disciplined == [](pc[Owner] # "idle" => \A t \in Posters : pc[t] = "idle")

\* The looper implements the mailbox of LooperSpec: order of posting, one
\* message at a time, and the worker exits on the quit message only.
Mailbox == INSTANCE LooperSpec
    WITH worker <- IF wpc = "exited" THEN "exited" ELSE "running"
ImplementsMailbox == Mailbox!Spec

\* A step of the looper takes messages off the list from the front only, unless
\* a caller that asked for a flush links its message: quit() discards nothing.
OnlyFlushDiscards ==
    [][ \/ list' = list
        \/ list # <<>> /\ list' = Tail(list)
        \/ Len(list') = Len(list) + 1
        \/ \E t \in Posters : pc[t] = "link" /\ flush[t] ]_vars

\* quit() returns, and leaves nothing: the worker handles and deletes what was
\* queued before the quit message, takes that, and the join succeeds.  It needs the
\* discipline, as a flush posted after quit() deletes the quit message and leaves
\* the owner in pthread_join for ever.
QuitReturns ==
    Disciplined =>
        ((pc[Owner] = "add")
            ~> (pc[Owner] = "destroyed" /\ live = {} /\ list = <<>> /\ cur = NoMessage))

-----------------------------------------------------------------------------
(* The inductive strengthening used by LooperProofs. *)

\* Callers that have a message and have not linked it.
Pending == {t \in Callers : pc[t] \in {"add", "flush", "link"}}

\* Between the flush loop and the assignment of head, head points to deleted nodes.
Stale == \E t \in Callers : pc[t] = "link" /\ flush[t]

\* headWriteProtect lets one thread at a time at the list.
HeadExclusive ==
    /\ protect = 1 => Owning = {} /\ wpc # "take"
    /\ wpc = "take" => Owning = {}
    /\ \A t, u \in Owning : t = u

\* The owner posts the quit message once, the posters never do.
QuitOnce ==
    /\ \A t \in Posters : t \in Pending => msg[t] \in Messages
    /\ Owner \in Pending => msg[Owner] = Quit /\ ~flush[Owner]
    /\ pc[Owner] = "idle" => Quit \notin live

\* Only a caller that asked for it runs the flush loop.
FlushAsked == \A t \in Callers : pc[t] = "flush" => flush[t]

\* A pending message is its caller's alone.
PendingOwned ==
    /\ \A t \in Pending : msg[t] \in live /\ msg[t] # cur /\ (~Stale => msg[t] \notin Queued)
    /\ \A t, u \in Pending : msg[t] = msg[u] => t = u
    /\ \A t \in Callers : pc[t] = "unlock" => msg[t] \in Queued

\* What is queued is alive, except behind a stale head, and queued once.
QueuedOwned ==
    /\ \A i, j \in 1..Len(list) : list[i] = list[j] => i = j
    /\ ~Stale => Queued \subseteq live

\* What the worker has taken is its own.
TakenOwned ==
    /\ wpc = "dispatch" => cur \in live /\ cur \notin Queued
    /\ wpc # "dispatch" => cur = NoMessage

LooperInv ==
    /\ TypeOK
    /\ HeadExclusive
    /\ QuitOnce
    /\ FlushAsked
    /\ PendingOwned
    /\ QueuedOwned
    /\ TakenOwned
=============================================================================
