-------------------------- MODULE Http2Connection --------------------------
(***************************************************************************)
(* okhttp3/internal/http2: a client's Http2Connection with its             *)
(* Http2Streams, each driven by the thread of a call the way               *)
(* Http2ExchangeCodec and CallServerInterceptor do it (request, body,      *)
(* response headers, response body, close).                                *)
(*                                                                         *)
(* An action is one section under a monitor, a stream's or the             *)
(* connection's.  Other threads are the reader, the writer executor, the   *)
(* timeout or cancel() of a stream, and whoever closes the connection.  A  *)
(* call may be interrupted where it waits, and each of its writes may fail *)
(* before the connection is closed: it then gives up, and leaves its       *)
(* stream where it is.                                                     *)
(* The peer keeps to the protocol but may not have noticed a reset yet;    *)
(* what it sends is chosen when it is received.  Frames that change        *)
(* nothing here (RST_STREAM, pings, priorities) and pushed streams are     *)
(* left out.                                                               *)
(***************************************************************************)
EXTENDS Integers, FiniteSets, FiniteSetsExt

CONSTANTS MaxStreams,  \* bound: streams that are opened
          Window,      \* okHttpSettings.getInitialWindowSize()
          PeerWindow,  \* the peer's window for the connection
          Sizes,       \* the peer's window for a stream: what its settings may say
          FirstSize,   \* ... and what they say at first
          Body,        \* Body[s]: what the request of stream s sends, 0 if it has no body
          MaxReply,    \* MaxReply[n + 1][s]: bound for what the peer sends on stream s when n
                       \* streams were opened
          MaxFaults    \* MaxFaults[n + 1]: bound for timeouts, cancels, interrupts, resets,
                       \* GOAWAYs, SETTINGS and failures when n streams were opened

ASSUME Http2Assumption ==
    /\ {MaxStreams, Window, PeerWindow} \subseteq Nat
    /\ Window > 1 /\ PeerWindow > 0
    /\ Body \in [1..MaxStreams -> Nat]
    /\ MaxReply \in [1..(MaxStreams + 1) -> [1..MaxStreams -> Nat]]
    /\ MaxFaults \in [1..(MaxStreams + 1) -> Nat]
    /\ FirstSize \in Sizes /\ Sizes \subseteq Nat \ {0}

Streams == 1..MaxStreams  \* id 2s + 1

VARIABLES streams,   \* keys of the map
          st,        \* st[s]: an Http2Stream and the thread of its call
          next,      \* nextStreamId
          shutdown,
          closed,    \* writer and socket are closed
          outLeft,   \* bytesLeftInWriteWindow of the connection
          unacked,   \* unacknowledgedBytesRead of the connection
          credit,    \* what the peer may send on the connection
          reader,    \* what the reader thread is doing
          settle,    \* the executor's job for a SETTINGS frame
          setting,   \* peerSettings.getInitialWindowSize()
          closer,    \* where close() is, and the streams it has to close
          gone,      \* lastGoodStreamId of the peer's GOAWAY
          faults     \* how many of them there were

inVars == <<unacked, credit>>
settingVars == <<settle, setting>>
vars == <<streams, st, next, shutdown, closed, outLeft, inVars, reader, settingVars, closer, gone, faults>>

\* pc: how a call that gave up was "left"; "unsent", with bytes taken from its windows;
\* "unflushed", its sink closed and cancelStreamIfNecessary not called.
\* asleep: the monitor the thread waits on.  body: bytes still to be sent.  hand: bytes taken
\* from the stream's window, or read and not yet reported to the connection.
\* peer: what the peer has sent.  peerWin, credit: the windows as the peer knows them.
Stream == [pc : {"new", "write", "send", "shut", "check", "cancel", "remove", "headers", "read",
                 "ack", "close", "discard", "done", "left", "unsent", "unflushed"},
           asleep : {"no", "stream", "connection"},
           err : BOOLEAN,                             \* errorCode != null
           killer : BOOLEAN,                          \* a closeLater has to remove it
           outFinished : BOOLEAN, outClosed : BOOLEAN,  \* of the sink
           inFinished : BOOLEAN, inClosed : BOOLEAN,    \* of the source
           header : BOOLEAN, responded : BOOLEAN,     \* headersQueue, hasResponseHeaders
           buf : Nat, unacked : Nat, credit : Int, sent : Nat,
           win : Int, peerWin : Int, body : Nat, hand : Nat,
           peer : {"silent", "open", "done"}]

NewStreamState ==
    [pc |-> "new", asleep |-> "no", err |-> FALSE, killer |-> FALSE, outFinished |-> FALSE,
     outClosed |-> FALSE, inFinished |-> FALSE, inClosed |-> FALSE, header |-> FALSE,
     responded |-> FALSE, buf |-> 0, unacked |-> 0, credit |-> Window, sent |-> 0,
     win |-> 0, peerWin |-> 0, body |-> 0, hand |-> 0, peer |-> "silent"]

Idle == [pc |-> "idle", s |-> 0, n |-> 0, fin |-> FALSE, who |-> {}]
Settled == [pc |-> "idle", to |-> 0, delta |-> 0, who |-> {}]

Init ==
    /\ streams = {} /\ st = [s \in Streams |-> NewStreamState] /\ next = 1
    /\ shutdown = FALSE /\ closed = FALSE
    /\ outLeft = PeerWindow /\ unacked = 0 /\ credit = Window
    /\ reader = Idle /\ settle = Settled /\ setting = FirstSize /\ faults = 0
    /\ closer = [pc |-> "no", who |-> {}] /\ gone = MaxStreams

-----------------------------------------------------------------------------
(* What several sections do. *)

\* notifyAll() on a stream, and on the connection
Woken(x) == [x EXCEPT !.asleep = IF @ = "stream" THEN "no" ELSE @]
AllWoken(f) ==
    [s \in Streams |-> [f[s] EXCEPT !.asleep = IF @ = "connection" THEN "no" ELSE @]]

Failed(x) == Woken([x EXCEPT !.err = TRUE])

\* Mutant of RemoveStream: writers blocked on the connection are not told.
RemoveStreamSilently(f, s) == streams' = streams \ {s} /\ st' = f

\* removeStream, in the state f of the streams
RemoveStream(f, s) == streams' = streams \ {s} /\ st' = AllWoken(f)

\* updateConnectionFlowControl, n more bytes, when the peer may send c: the executor writes the
\* WINDOW_UPDATE later, but what the peer sends is chosen when it is received.
GiveBack(n, c) ==
    IF unacked + n >= Window \div 2 THEN credit' = c + unacked + n /\ unacked' = 0
    ELSE credit' = c /\ unacked' = unacked + n

IsOpen(x) ==
    /\ ~x.err
    /\ ~(/\ x.inFinished \/ x.inClosed
         /\ x.outFinished \/ x.outClosed
         /\ x.responded)

\* closeInternal does something
Closable(x) == ~x.err /\ ~(x.inFinished /\ x.outFinished)

Created(s) == st[s].pc # "new" /\ s < next
At(s, pc) == st[s].pc = pc /\ st[s].asleep = "no"

\* A section of the thread of s that changes nothing but its stream.
Becomes(s, x) ==
    /\ st' = [st EXCEPT ![s] = x]
    /\ UNCHANGED <<streams, next, shutdown, closed, outLeft, inVars, reader, settingVars, closer, gone>>

-----------------------------------------------------------------------------
(* The thread of a call: the request. *)

\* newStream, under the writer's and the connection's monitor; the thread goes on at pc.
OpenStream(s, pc) ==
    /\ ~shutdown /\ s = next
    /\ next' = next + 1
    /\ streams' = streams \cup {s}
    /\ st' = [st EXCEPT ![s].pc = pc, ![s].body = Body[s], ![s].outFinished = (Body[s] = 0),
                       ![s].win = setting, ![s].peerWin = setting]

\* The bounds for one stream more are kept.
RoomForStream ==
    /\ faults <= MaxFaults[next + 1]
    /\ \A t \in Streams : st[t].sent <= MaxReply[next + 1][t]

NewStream(s) ==
    /\ At(s, "new")
    /\ \/ /\ shutdown /\ s >= next
          /\ st' = [st EXCEPT ![s].pc = "done"]
          /\ UNCHANGED <<streams, next>>
       \/ OpenStream(s, IF Body[s] = 0 THEN "shut" ELSE "write") /\ RoomForStream
    /\ UNCHANGED <<shutdown, closed, outLeft, inVars, reader, settingVars, closer, gone>>

\* emitFrame: wait for the stream's window, take from it.
EmitFrame(s) ==
    /\ At(s, "write")
    /\ Becomes(s, IF st[s].err THEN [st[s] EXCEPT !.pc = "done"]
                  ELSE IF st[s].win <= 0 THEN [st[s] EXCEPT !.asleep = "stream"]
                  ELSE LET n == Min({st[s].win, st[s].body})
                       IN [st[s] EXCEPT !.hand = n, !.win = @ - n, !.pc = "send"])

\* writeData: wait for the connection's window, take from it and write a frame.
WriteData(s) ==
    /\ At(s, "send")
    /\ IF outLeft <= 0
       THEN /\ st' = IF s \in streams THEN [st EXCEPT ![s].asleep = "connection"]
                     ELSE [st EXCEPT ![s].pc = "done"]
            /\ UNCHANGED outLeft
       ELSE LET n == Min({outLeft, st[s].hand}) IN
            /\ outLeft' = outLeft - n
            /\ st' = IF closed THEN [st EXCEPT ![s].pc = "done"]
                     ELSE [st EXCEPT ![s].hand = @ - n, ![s].body = @ - n, ![s].peerWin = @ - n,
                                     ![s].pc = IF n < st[s].hand THEN "send"
                                               ELSE IF n < st[s].body THEN "write" ELSE "shut"]
    /\ UNCHANGED <<streams, next, shutdown, closed, inVars, reader, settingVars, closer, gone>>

\* FramingSink.close, its last section, and flush
SinkClose(s) ==
    /\ At(s, "shut")
    /\ Becomes(s, [st[s] EXCEPT !.outClosed = TRUE, !.pc = IF closed THEN "done" ELSE "check"])

-----------------------------------------------------------------------------
(* A call gives up: nobody closes its stream. *)

\* The request body, the frame that ends it, or what is between the response's headers and
\* its body, throws.
Abandon(s) ==
    /\ At(s, "write") \/ At(s, "read") \/ (At(s, "shut") /\ ~st[s].outFinished)
    /\ Becomes(s, [st[s] EXCEPT !.pc = "left"])

\* writer.headers or flush() in newStream throws: the stream is in the map.
HeadersFail(s) ==
    /\ At(s, "new")
    /\ OpenStream(s, "left")
    /\ UNCHANGED <<shutdown, closed, outLeft, inVars, reader, settingVars, closer, gone>>

\* writer.data throws: the bytes were taken from both windows.
DataFails(s) ==
    /\ At(s, "send") /\ outLeft > 0 /\ ~closed
    /\ outLeft' = outLeft - Min({outLeft, st[s].hand})
    /\ st' = [st EXCEPT ![s].pc = "unsent"]
    /\ UNCHANGED <<streams, next, shutdown, closed, inVars, reader, settingVars, closer, gone>>

\* flush() at the end of FramingSink.close throws.
FlushFails(s) ==
    /\ At(s, "shut") /\ ~closed
    /\ Becomes(s, [st[s] EXCEPT !.outClosed = TRUE, !.pc = "unflushed"])

\* A thread is interrupted in any of its waits (waitForIo, writeData); the application
\* decides what becomes of a response it was reading.
Interrupt(s) ==
    /\ st[s].asleep # "no"
    /\ Becomes(s, [st[s] EXCEPT !.asleep = "no", !.pc = IF @ = "read" THEN @
                                                     ELSE IF @ = "send" THEN "unsent" ELSE "left"])

-----------------------------------------------------------------------------
(* cancelStreamIfNecessary, after either end was closed. *)

Following(x) == IF x.inClosed THEN "done" ELSE "headers"

\* Mutant of Check: a stream that both sides have finished stays in the map.
CheckCancelsOnly(s) ==
    /\ At(s, "check")
    /\ LET x == st[s] IN
       Becomes(s, [x EXCEPT !.pc = IF ~x.inFinished /\ x.inClosed /\ (x.outFinished \/ x.outClosed)
                                   THEN "cancel" ELSE Following(x)])

Check(s) ==
    /\ At(s, "check")
    /\ LET x == st[s] IN
       Becomes(s, [x EXCEPT !.pc = IF ~x.inFinished /\ x.inClosed /\ (x.outFinished \/ x.outClosed)
                                   THEN "cancel"
                                   ELSE IF ~IsOpen(x) THEN "remove" ELSE Following(x)])

\* close(CANCEL): closeInternal
CloseInternal(s) ==
    /\ At(s, "cancel")
    /\ Becomes(s, IF Closable(st[s]) THEN Failed([st[s] EXCEPT !.pc = "remove"])
                  ELSE [st[s] EXCEPT !.pc = "done"])

Remove(s) ==
    /\ At(s, "remove")
    /\ RemoveStream([st EXCEPT ![s].pc = Following(st[s])], s)
    /\ UNCHANGED <<next, shutdown, closed, outLeft, inVars, reader, settingVars, closer, gone>>

-----------------------------------------------------------------------------
(* The thread of a call: the response. *)

TakeHeaders(s) ==
    /\ At(s, "headers")
    /\ Becomes(s, IF st[s].header THEN [st[s] EXCEPT !.header = FALSE, !.pc = "read"]
                  ELSE IF st[s].err THEN [st[s] EXCEPT !.pc = "done"]
                  ELSE [st[s] EXCEPT !.asleep = "stream"])

\* FramingSource.read with something to read; a WINDOW_UPDATE only if the stream is not in error.
Read(s) ==
    /\ At(s, "read")
    /\ \E n \in 1..st[s].buf :
         LET total == st[s].unacked + n
             tell == ~st[s].err /\ total >= Window \div 2
         IN Becomes(s, [st[s] EXCEPT !.buf = @ - n, !.hand = n, !.pc = "ack",
                                     !.credit = IF tell THEN @ + total ELSE @,
                                     !.unacked = IF tell THEN 0 ELSE total])

ReadAck(s) ==
    /\ At(s, "ack")
    /\ GiveBack(st[s].hand, credit)
    /\ st' = [st EXCEPT ![s].hand = 0, ![s].pc = "read"]
    /\ UNCHANGED <<streams, next, shutdown, closed, outLeft, reader, settingVars, closer, gone>>

\* Nothing to read: the end, the error, or a wait.
ReadNothing(s) ==
    /\ At(s, "read") /\ st[s].buf = 0
    /\ Becomes(s, IF st[s].err \/ st[s].inFinished THEN [st[s] EXCEPT !.pc = "close"]
                  ELSE [st[s] EXCEPT !.asleep = "stream"])

\* Mutant of SourceClose: what was not read is not given back.
SourceCloseForgets(s) ==
    /\ At(s, "close") \/ At(s, "read")
    /\ Becomes(s, [st[s] EXCEPT !.inClosed = TRUE, !.buf = 0, !.pc = "check"])

\* FramingSource.close, after the last byte or before it
SourceClose(s) ==
    /\ At(s, "close") \/ At(s, "read")
    /\ Becomes(s, [st[s] EXCEPT !.inClosed = TRUE, !.hand = st[s].buf, !.buf = 0,
                                !.pc = IF st[s].buf > 0 THEN "discard" ELSE "check"])

CloseAck(s) ==
    /\ At(s, "discard")
    /\ GiveBack(st[s].hand, credit)
    /\ st' = [st EXCEPT ![s].hand = 0, ![s].pc = "check"]
    /\ UNCHANGED <<streams, next, shutdown, closed, outLeft, reader, settingVars, closer, gone>>

\* What the thread of a call does of itself.
CallStep(s) ==
    \/ EmitFrame(s) \/ WriteData(s) \/ SinkClose(s) \/ Check(s) \/ CloseInternal(s) \/ Remove(s)
    \/ TakeHeaders(s) \/ Read(s) \/ ReadAck(s) \/ ReadNothing(s) \/ SourceClose(s) \/ CloseAck(s)

-----------------------------------------------------------------------------
(* closeLater of a stream: a timeout, or cancel(), on a thread of its own. *)

Kill(s) ==
    /\ Created(s) /\ st[s].pc # "done" /\ Closable(st[s])
    /\ Becomes(s, Failed([st[s] EXCEPT !.killer = TRUE]))

KillRemove(s) ==
    /\ st[s].killer
    /\ RemoveStream([st EXCEPT ![s].killer = FALSE], s)
    /\ UNCHANGED <<next, shutdown, closed, outLeft, inVars, reader, settingVars, closer, gone>>

-----------------------------------------------------------------------------
(* The reader thread, and what it is sent. *)

Receives == reader.pc = "idle" /\ ~closed
Reads(pc, s, n, fin) == reader' = [pc |-> pc, s |-> s, n |-> n, fin |-> fin, who |-> {}]

\* headers: getStream
RecvHeaders(s, fin) ==
    /\ Receives /\ Created(s) /\ st[s].peer = "silent"
    /\ st' = [st EXCEPT ![s].peer = IF fin THEN "done" ELSE "open"]
    /\ IF s \in streams THEN Reads("headers", s, 0, fin) ELSE UNCHANGED reader
    /\ UNCHANGED <<streams, next, shutdown, closed, outLeft, inVars, settingVars, closer, gone>>

\* receiveHeaders, for the headers and for the end of the data
ReceiveHeaders ==
    /\ reader.pc \in {"headers", "finish"}
    /\ LET s == reader.s
           first == [st[s] EXCEPT !.header = TRUE, !.responded = TRUE]
           x == [(IF reader.pc = "headers" THEN first ELSE st[s])
                   EXCEPT !.inFinished = @ \/ reader.fin]
       IN /\ st' = [st EXCEPT ![s] = Woken(x)]
          /\ IF IsOpen(x) THEN reader' = Idle ELSE Reads("remove", s, 0, FALSE)
    /\ UNCHANGED <<streams, next, shutdown, closed, outLeft, inVars, settingVars, closer, gone>>

ReaderRemove ==
    /\ reader.pc = "remove"
    /\ RemoveStream(st, reader.s)
    /\ reader' = Idle
    /\ UNCHANGED <<next, shutdown, closed, outLeft, inVars, settingVars, closer, gone>>

\* data: getStream; data for a stream that is no longer there is given back at once.
RecvData(s, n, fin) ==
    /\ Receives /\ st[s].peer = "open" /\ (n > 0 \/ fin)
    /\ n <= credit /\ n <= st[s].credit /\ st[s].sent + n <= MaxReply[next][s]
    /\ st' = [st EXCEPT ![s].credit = @ - n, ![s].sent = @ + n, ![s].peer = IF fin THEN "done" ELSE @]
    /\ IF s \in streams
       THEN /\ Reads(IF n > 0 THEN "store" ELSE "finish", s, n, fin)
            /\ credit' = credit - n /\ UNCHANGED unacked
       ELSE GiveBack(n, credit - n) /\ UNCHANGED reader
    /\ UNCHANGED <<streams, next, shutdown, closed, outLeft, settingVars, closer, gone>>

\* FramingSource.receive, the section that hands the bytes over
AfterData == IF reader.fin THEN Reads("finish", reader.s, 0, TRUE) ELSE reader' = Idle

Store ==
    /\ reader.pc = "store"
    /\ LET s == reader.s IN
       IF st[s].inClosed
       THEN Reads("discard", s, reader.n, reader.fin) /\ UNCHANGED st
       ELSE /\ AfterData
            /\ st' = [st EXCEPT ![s] =
                        LET x == [st[s] EXCEPT !.buf = @ + reader.n]
                        IN IF st[s].buf = 0 THEN Woken(x) ELSE x]
    /\ UNCHANGED <<streams, next, shutdown, closed, outLeft, inVars, settingVars, closer, gone>>

Discard ==
    /\ reader.pc = "discard"
    /\ GiveBack(reader.n, credit)
    /\ AfterData
    /\ UNCHANGED <<streams, st, next, shutdown, closed, outLeft, settingVars, closer, gone>>

\* rstStream: out of the map first, then receiveRstStream.
RecvRst(s) ==
    /\ Receives /\ Created(s)
    /\ LET f == [st EXCEPT ![s].peer = "done"] IN
       IF s \in streams THEN RemoveStream(f, s) /\ Reads("reset", s, 0, FALSE)
       ELSE st' = f /\ UNCHANGED <<streams, reader>>
    /\ UNCHANGED <<next, shutdown, closed, outLeft, inVars, settingVars, closer, gone>>

Reset ==
    /\ reader.pc = "reset"
    /\ st' = [st EXCEPT ![reader.s] = IF @.err THEN @ ELSE Failed(@)]
    /\ reader' = Idle
    /\ UNCHANGED <<streams, next, shutdown, closed, outLeft, inVars, settingVars, closer, gone>>

\* goAway: copies the streams and shuts down in one section.
RecvGoAway(last) ==
    /\ Receives /\ last <= gone
    /\ gone' = last
    /\ shutdown' = TRUE
    /\ reader' = [Idle EXCEPT !.pc = "refuse", !.who = {s \in streams : s > last}]
    /\ UNCHANGED <<streams, st, next, closed, outLeft, inVars, settingVars, closer>>

\* goAway's loop: receiveRstStream and removeStream, for one stream after the other.
Refuse ==
    /\ reader.pc = "refuse"
    /\ IF reader.who = {} THEN reader' = Idle /\ UNCHANGED st
       ELSE LET s == Min(reader.who) IN
            /\ st' = [st EXCEPT ![s] = IF @.err THEN @ ELSE Failed(@)]
            /\ reader' = [reader EXCEPT !.pc = "refused", !.s = s, !.who = @ \ {s}]
    /\ UNCHANGED <<streams, next, shutdown, closed, outLeft, inVars, settingVars, closer, gone>>

RefuseRemove ==
    /\ reader.pc = "refused"
    /\ RemoveStream(st, reader.s)
    /\ reader' = [reader EXCEPT !.pc = "refuse", !.s = 0]
    /\ UNCHANGED <<next, shutdown, closed, outLeft, inVars, settingVars, closer, gone>>

\* windowUpdate, for the connection and for a stream: the peer gives back what it has used up.
RecvWindowUpdate ==
    /\ Receives /\ outLeft < PeerWindow
    /\ outLeft' = outLeft + 1
    /\ st' = AllWoken(st)
    /\ UNCHANGED <<streams, next, shutdown, closed, inVars, reader, settingVars, closer, gone>>

RecvStreamWindowUpdate(s) ==
    /\ Receives /\ s \in streams /\ st[s].peerWin < setting
    /\ st' = [st EXCEPT ![s] = Woken([st[s] EXCEPT !.peerWin = @ + 1, !.win = @ + 1])]
    /\ UNCHANGED <<streams, next, shutdown, closed, outLeft, inVars, reader, settingVars, closer, gone>>

\* settings: the executor is given a job.
RecvSettings(size) ==
    /\ Receives /\ settle.pc = "idle" /\ size # setting
    /\ settle' = [Settled EXCEPT !.pc = "queued", !.to = size]
    /\ UNCHANGED <<streams, st, next, shutdown, closed, outLeft, inVars, reader, setting, closer, gone>>

-----------------------------------------------------------------------------
(* The writer executor. *)

\* applyAndAckSettings under both monitors: from its ACK on, the peer counts with the new size.
ApplySettings ==
    /\ settle.pc = "queued"
    /\ LET delta == settle.to - setting IN
       /\ settle' = [settle EXCEPT !.pc = "adding", !.delta = delta, !.who = streams]
       /\ setting' = settle.to
       /\ st' = [s \in Streams |-> IF s \in streams THEN [st[s] EXCEPT !.peerWin = @ + delta] ELSE st[s]]
    /\ UNCHANGED <<streams, next, shutdown, closed, outLeft, inVars, reader, closer, gone>>

\* Mutant of AddBytes: a window that has become smaller is left alone.
AddBytesIfMore(x, delta) == IF delta > 0 THEN Woken([x EXCEPT !.win = @ + delta]) ELSE x

\* addBytesToWriteWindow
AddBytes(x, delta) ==
    LET y == [x EXCEPT !.win = @ + delta] IN IF delta > 0 THEN Woken(y) ELSE y

NotifyStream ==
    /\ settle.pc = "adding"
    /\ IF settle.who = {} THEN settle' = Settled /\ UNCHANGED st
       ELSE LET s == Min(settle.who) IN
            /\ st' = [st EXCEPT ![s] = AddBytes(@, settle.delta)]
            /\ settle' = [settle EXCEPT !.who = @ \ {s}]
    /\ UNCHANGED <<streams, next, shutdown, closed, outLeft, inVars, reader, setting, closer, gone>>

-----------------------------------------------------------------------------
(* close() of the connection: the reader has failed, a write has, or a ping was not answered. *)

CloseBegin ==
    /\ closer.pc = "no"
    /\ closer' = [closer EXCEPT !.pc = "snapshot"]
    /\ shutdown' = TRUE
    /\ UNCHANGED <<streams, st, next, closed, outLeft, inVars, reader, settingVars, gone>>

CloseSnapshot ==
    /\ closer.pc = "snapshot"
    /\ closer' = [pc |-> "streams", who |-> streams]
    /\ streams' = {}
    /\ UNCHANGED <<st, next, shutdown, closed, outLeft, inVars, reader, settingVars, gone>>

\* stream.close(streamCode, cause): closeInternal
CloseStream ==
    /\ closer.pc = "streams" /\ closer.who # {}
    /\ LET s == Min(closer.who) IN
       IF Closable(st[s])
       THEN st' = [st EXCEPT ![s] = Failed(@)] /\ closer' = [closer EXCEPT !.pc = "remove"]
       ELSE closer' = [closer EXCEPT !.who = @ \ {s}] /\ UNCHANGED st
    /\ UNCHANGED <<streams, next, shutdown, closed, outLeft, inVars, reader, settingVars, gone>>

CloseRemove ==
    /\ closer.pc = "remove"
    /\ RemoveStream(st, Min(closer.who))
    /\ closer' = [pc |-> "streams", who |-> closer.who \ {Min(closer.who)}]
    /\ UNCHANGED <<next, shutdown, closed, outLeft, inVars, reader, settingVars, gone>>

CloseEnd ==
    /\ closer.pc = "streams" /\ closer.who = {}
    /\ closer' = [closer EXCEPT !.pc = "done"]
    /\ closed' = TRUE
    /\ UNCHANGED <<streams, st, next, shutdown, outLeft, inVars, reader, settingVars, gone>>

ReaderStep ==
    ReceiveHeaders \/ ReaderRemove \/ Store \/ Discard \/ Reset \/ Refuse \/ RefuseRemove

PeerStep ==
    \/ \E s \in Streams :
         \/ \E fin \in BOOLEAN :
              RecvHeaders(s, fin) \/ \E n \in 0..MaxReply[next][s] : RecvData(s, n, fin)
         \/ RecvStreamWindowUpdate(s)
    \/ RecvWindowUpdate

ExecutorStep == ApplySettings \/ NotifyStream

CloserStep == CloseSnapshot \/ CloseStream \/ CloseRemove \/ CloseEnd

Fault ==
    \/ \E s \in Streams :
         \/ Abandon(s) \/ HeadersFail(s) \/ DataFails(s) \/ FlushFails(s) \/ Interrupt(s)
         \/ Kill(s) \/ RecvRst(s)
    \/ \E last \in 0..MaxStreams : RecvGoAway(last)
    \/ \E size \in Sizes : RecvSettings(size)
    \/ CloseBegin

Orderly(A) == A /\ UNCHANGED faults

Next ==
    \/ \E s \in Streams : Orderly(NewStream(s)) \/ Orderly(CallStep(s)) \/ Orderly(KillRemove(s))
    \/ Orderly(ReaderStep) \/ Orderly(PeerStep) \/ Orderly(ExecutorStep) \/ Orderly(CloserStep)
    \/ faults < MaxFaults[next] /\ Fault /\ faults' = faults + 1

Spec == Init /\ [][Next]_vars

-----------------------------------------------------------------------------
(* Properties. *)

\* The type invariant.
TypeOK ==
    /\ streams \subseteq Streams /\ st \in [Streams -> Stream]
    /\ next \in 1..(MaxStreams + 1) /\ shutdown \in BOOLEAN /\ closed \in BOOLEAN
    /\ outLeft \in 0..PeerWindow /\ unacked \in Nat /\ credit \in Nat
    /\ reader.pc \in {"idle", "headers", "finish", "remove", "store", "discard", "reset",
                      "refuse", "refused"}
    /\ settle.pc \in {"idle", "queued", "adding"} /\ setting \in Sizes /\ faults \in Nat
    /\ closer.pc \in {"no", "snapshot", "streams", "remove", "done"} /\ gone \in 0..MaxStreams

\* What the peer has sent and the connection has not given back yet: bytes in a buffer or in
\* the hand of a thread between two sections, and what the reader has in its hand.
Owed(s) == st[s].buf + (IF st[s].pc \in {"ack", "discard"} THEN st[s].hand ELSE 0)
OwedUpTo[n \in 0..MaxStreams] == IF n = 0 THEN 0 ELSE Owed(n) + OwedUpTo[n - 1]
InReader == IF reader.pc \in {"store", "discard"} THEN reader.n ELSE 0

\* Bytes in the buffer of a stream whose call is over: nobody will ever report them.
Over == {"done", "left", "unsent", "unflushed"}
Lost(s) == IF st[s].pc \in Over THEN st[s].buf ELSE 0

\* Every byte of the window is accounted for, once, however reading, closing, resetting and
\* late data interleave, for the connection and for a stream that is still read.  The bytes
\* nobody will report are those of calls that ended before they could close their response:
\* closing it gives back what was not read, and what comes later (FramingSource.receive).
WindowConserved ==
    ~closed =>
      /\ credit + unacked + InReader + OwedUpTo[MaxStreams] = Window
      /\ \A s \in Streams : Lost(s) > 0 =>
           ~st[s].inClosed /\ (st[s].pc # "done" \/ st[s].err \/ s \notin streams)
      /\ \A s \in streams : ~st[s].err /\ ~st[s].inClosed =>
           st[s].credit + st[s].unacked + st[s].buf
             + (IF reader.s = s THEN InReader ELSE 0) = Window

Http2Inv == TypeOK /\ WindowConserved

\* What a stream believes it may send is what the peer believes, apart from what is being
\* written, or never was, and from a change of the settings that has not reached the stream:
\* a stream opened or closed while settings change is neither passed over nor counted twice.
WindowsAgree ==
    \A s \in streams :
      st[s].win + (IF st[s].pc \in {"send", "unsent"} THEN st[s].hand ELSE 0)
        + (IF s \in settle.who THEN settle.delta ELSE 0) = st[s].peerWin

\* Somebody will take s out of the map, or has done so and will fail it.
Leaving(s) ==
    \/ st[s].killer \/ st[s].pc \in {"cancel", "remove"}
    \/ reader.s = s /\ reader.pc \in {"remove", "refused", "reset"}
    \/ s \in closer.who /\ (closer.pc = "remove" \/ Closable(st[s]))

\* Nobody waits for what has happened already or can no longer happen, in any of the four
\* waits: every change notifies the monitor it has to, also if the connection is closed, the
\* settings change or the stream is reset between a thread's test and its wait.
WaitersAttended ==
    \A s \in Streams :
      /\ st[s].asleep = "stream" =>
           /\ ~st[s].err
           /\ s \in streams \/ Leaving(s)
           /\ CASE st[s].pc = "write" -> st[s].win <= 0
                [] st[s].pc = "headers" -> ~st[s].header
                [] st[s].pc = "read" -> st[s].buf = 0 /\ ~st[s].inFinished
      /\ st[s].asleep = "connection" => outLeft <= 0 /\ (s \in streams \/ Leaving(s))

\* A stream that is no longer open (isOpen) is taken out of the map by somebody, whichever of
\* reader and call was the last to finish its side, and however it failed; but for one whose
\* sink was closed by a flush that failed, which waits for the connection to be closed.  A
\* call that came to its end, or found its stream closed, leaves nothing in the map; one that
\* gave up may leave an open stream there.  After a GOAWAY there is no stream that the peer
\* will not answer, and none comes in any more.
OnlyLiveStreams ==
    \A s \in streams :
      /\ ~IsOpen(st[s]) => Leaving(s) \/ st[s].pc \in {"check", "discard", "unflushed"}
      /\ st[s].pc = "done" => Leaving(s)
      /\ s > gone => reader.pc \in {"refuse", "refused"}
=============================================================================
