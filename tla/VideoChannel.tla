---------------------------- MODULE VideoChannel ----------------------------
(***************************************************************************)
(* player/VideoChannel.cpp: the decode thread, the render thread and the   *)
(* thread that starts the channel, feeds it packets (the demuxer loop of   *)
(* NiubiPlayer::init_start), stops it and deletes it.  Packets and frames  *)
(* are numbered in demuxing and decoding order; a number stands for the    *)
(* address, so what is released stays released.  Decoder, filter graph and *)
(* audio clock are outside src/ or outside this channel: their results are *)
(* nondeterministic.                                                       *)
(***************************************************************************)
EXTENDS BaseChannel, FiniteSets

CONSTANTS MaxPackets,   \* bound: packets demuxed in a behaviour
          PacketLimit,  \* the demuxer waits while packets.size() > PacketLimit (100)
          FrameLimit    \* decode waits while frames.size() > FrameLimit (100)

ASSUME BoundAssumption ==
    MaxPackets \in Nat /\ PacketLimit \in Nat /\ FrameLimit \in Nat

VARIABLES isPlaying,    \* BaseChannel::isPlaying
          packets,      \* BaseChannel::packets
          frames,       \* BaseChannel::frames
          cpc,          \* where the controlling thread is
          fed,          \* number of packets demuxed; the last one's address
          dpc,          \* where decode() is
          packet,       \* decode()'s local packet
          backlog,      \* packets inside the decoder without a frame yet
          rpc,          \* where render() is
          frame,        \* render()'s local frame
          got,          \* render()'s local ret: pop returned a frame
          made,         \* number of frames allocated; the last one's address
          livePackets,  \* packets allocated and not released
          liveFrames,   \* frames allocated and not released
          late          \* frames render() has judged behind the audio clock

controlVars == <<cpc, fed>>
decodeVars == <<dpc, packet, backlog, made>>
renderVars == <<rpc, frame, got, late>>
vars == <<isPlaying, packets, frames, controlVars, decodeVars, renderVars,
          livePackets, liveFrames>>

\* The state the constructor leaves.
Init ==
    /\ isPlaying = FALSE
    /\ packets = NewQueue /\ frames = NewQueue
    /\ cpc = "new" /\ fed = 0
    /\ dpc = "none" /\ packet = Null /\ backlog = 0 /\ made = 0
    /\ rpc = "none" /\ frame = Null /\ got = FALSE /\ late = {}
    /\ livePackets = {} /\ liveFrames = {}

-----------------------------------------------------------------------------
(* start, the demuxer's loop, stop, the destructor: one thread after another. *)

\* start(): isPlaying, frames.gotoWork, packets.gotoWork.
Start ==
    /\ cpc = "new"
    /\ isPlaying' = TRUE
    /\ frames' = Working(frames)
    /\ packets' = Working(packets)
    /\ cpc' = "spawn"
    /\ UNCHANGED <<fed, decodeVars, renderVars, livePackets, liveFrames>>

\* start() creates the decode thread, then the render thread.
SpawnDecode ==
    /\ cpc = "spawn"
    /\ dpc' = "loop"
    /\ cpc' = "spawn2"
    /\ UNCHANGED <<isPlaying, packets, frames, fed, packet, backlog, made, renderVars,
                   livePackets, liveFrames>>

SpawnRender ==
    /\ cpc = "spawn2"
    /\ rpc' = "loop"
    /\ cpc' = "running"
    /\ UNCHANGED <<isPlaying, packets, frames, fed, decodeVars, frame, got, late,
                   livePackets, liveFrames>>

\* The demuxer reads a packet of this stream and pushes it.
Feed ==
    /\ cpc = "running"
    /\ fed < MaxPackets
    /\ Len(packets.items) <= PacketLimit
    /\ fed' = fed + 1
    /\ packets' = Pushed(packets, fed + 1)
    /\ livePackets' = livePackets \cup {fed + 1}
    /\ cpc' = "log"
    /\ UNCHANGED <<isPlaying, frames, decodeVars, renderVars, liveFrames>>

\* After the push the demuxer reads packet->flags for the log.
FeedLog ==
    /\ cpc = "log"
    /\ cpc' = "running"
    /\ UNCHANGED <<isPlaying, packets, frames, fed, decodeVars, renderVars,
                   livePackets, liveFrames>>

\* stop() begins: isPlaying is cleared before any queue is halted.
Stop ==
    /\ cpc = "running"
    /\ isPlaying' = FALSE
    /\ cpc' = "halt"
    /\ UNCHANGED <<packets, frames, fed, decodeVars, renderVars, livePackets, liveFrames>>

\* stop(): frames.backWork.
HaltFrames ==
    /\ cpc = "halt"
    /\ frames' = Halted(frames)
    /\ cpc' = "halt2"
    /\ UNCHANGED <<isPlaying, packets, fed, decodeVars, renderVars, livePackets, liveFrames>>

\* Mutant of HaltPackets: packets.backWork is forgotten.
HaltPacketsForgotten ==
    /\ cpc = "halt2"
    /\ cpc' = "join"
    /\ UNCHANGED <<isPlaying, packets, frames, fed, decodeVars, renderVars, livePackets, liveFrames>>

\* stop(): packets.backWork.
HaltPackets ==
    /\ cpc = "halt2"
    /\ packets' = Halted(packets)
    /\ cpc' = "join"
    /\ UNCHANGED <<isPlaying, frames, fed, decodeVars, renderVars, livePackets, liveFrames>>

\* stop() joins decode and render.
Join ==
    /\ cpc = "join"
    /\ dpc = "done" /\ rpc = "done"
    /\ cpc' = "stopped"
    /\ UNCHANGED <<isPlaying, packets, frames, fed, decodeVars, renderVars,
                   livePackets, liveFrames>>

\* ~VideoChannel and ~BaseChannel: frames.clear, packets.clear.
Destroy ==
    /\ cpc = "stopped"
    /\ livePackets' = livePackets \ Contents(packets)
    /\ liveFrames' = liveFrames \ Contents(frames)
    /\ packets' = [packets EXCEPT !.items = <<>>]
    /\ frames' = [frames EXCEPT !.items = <<>>]
    /\ cpc' = "deleted"
    /\ UNCHANGED <<isPlaying, fed, decodeVars, renderVars>>

-----------------------------------------------------------------------------
(* decode. *)

\* decode() sleeps while frames.size() > FrameLimit.
DecodeHasRoom == Len(frames.items) <= FrameLimit

DecodeLoop ==
    /\ dpc = "loop"
    /\ \/ ~isPlaying /\ dpc' = "exit"
       \/ isPlaying /\ DecodeHasRoom /\ dpc' = "pop"
    /\ UNCHANGED <<isPlaying, packets, frames, controlVars, packet, backlog, made,
                   renderVars, livePackets, liveFrames>>

DecodePop ==
    /\ dpc = "pop"
    /\ PopReturns(packets)
    /\ packet' = Front(packets, packet)
    /\ packets' = Dropped(packets)
    /\ dpc' = "check"
    /\ UNCHANGED <<isPlaying, frames, controlVars, backlog, made, renderVars,
                   livePackets, liveFrames>>

\* After pop: stopped, nothing popped, or a packet to send.
DecodeCheck ==
    /\ dpc = "check"
    /\ \/ ~isPlaying /\ dpc' = "exit"
       \/ isPlaying /\ packet = Null /\ dpc' = "loop"
       \/ isPlaying /\ packet # Null /\ dpc' = "send"
    /\ UNCHANGED <<isPlaying, packets, frames, controlVars, packet, backlog, made,
                   renderVars, livePackets, liveFrames>>

\* avcodec_send_packet takes the packet, which is then released.
DecodeSend ==
    /\ dpc = "send"
    /\ livePackets' = livePackets \ {packet}
    /\ packet' = Null
    /\ backlog' = backlog + 1
    /\ dpc' = "receive"
    /\ UNCHANGED <<isPlaying, packets, frames, controlVars, made, renderVars, liveFrames>>

\* avcodec_send_packet fails: decode() leaves its loop.
DecodeSendFails ==
    /\ dpc = "send"
    /\ dpc' = "exit"
    /\ UNCHANGED <<isPlaying, packets, frames, controlVars, packet, backlog, made,
                   renderVars, livePackets, liveFrames>>

\* avcodec_receive_frame yields a frame; doFilter allocates its output and
\* pushes it, whatever the filter graph answered.
DecodeFrame ==
    /\ dpc = "receive"
    /\ backlog > 0
    /\ backlog' = backlog - 1
    /\ made' = made + 1
    /\ frames' = Pushed(frames, made + 1)
    /\ liveFrames' = IF frames.state THEN liveFrames \cup {made + 1} ELSE liveFrames
    /\ dpc' = "loop"
    /\ UNCHANGED <<isPlaying, packets, controlVars, packet, renderVars, livePackets>>

\* avcodec_receive_frame wants more input.
DecodeAgain ==
    /\ dpc = "receive"
    /\ dpc' = "loop"
    /\ UNCHANGED <<isPlaying, packets, frames, controlVars, packet, backlog, made,
                   renderVars, livePackets, liveFrames>>

\* avcodec_receive_frame fails: decode() leaves its loop.
DecodeError ==
    /\ dpc = "receive"
    /\ dpc' = "exit"
    /\ UNCHANGED <<isPlaying, packets, frames, controlVars, packet, backlog, made,
                   renderVars, livePackets, liveFrames>>

\* Mutant of DecodeExit: what pop left in packet is not released.
DecodeExitKeep ==
    /\ dpc = "exit"
    /\ packet' = Null
    /\ dpc' = "done"
    /\ UNCHANGED <<isPlaying, packets, frames, controlVars, backlog, made, renderVars,
                   livePackets, liveFrames>>

\* Out of the loop, packet is released if there is one.
DecodeExit ==
    /\ dpc = "exit"
    /\ livePackets' = livePackets \ {packet}
    /\ packet' = Null
    /\ dpc' = "done"
    /\ UNCHANGED <<isPlaying, packets, frames, controlVars, backlog, made, renderVars, liveFrames>>

-----------------------------------------------------------------------------
(* render. *)

RenderLoop ==
    /\ rpc = "loop"
    /\ rpc' = IF isPlaying THEN "pop" ELSE "exit"
    /\ UNCHANGED <<isPlaying, packets, frames, controlVars, decodeVars, frame, got, late,
                   livePackets, liveFrames>>

\* Mutant of RenderPop: the frame stays in the queue.
RenderPeek ==
    /\ rpc = "pop"
    /\ PopReturns(frames)
    /\ got' = (frames.items # <<>>)
    /\ frame' = Front(frames, frame)
    /\ rpc' = "check"
    /\ UNCHANGED <<isPlaying, packets, frames, controlVars, decodeVars, late,
                   livePackets, liveFrames>>

\* frames.pop(frame) overwrites the local, also when the last frame is in it.
RenderPop ==
    /\ rpc = "pop"
    /\ PopReturns(frames)
    /\ got' = (frames.items # <<>>)
    /\ frame' = Front(frames, frame)
    /\ frames' = Dropped(frames)
    /\ rpc' = "check"
    /\ UNCHANGED <<isPlaying, packets, controlVars, decodeVars, late, livePackets, liveFrames>>

RenderCheck ==
    /\ rpc = "check"
    /\ \/ ~isPlaying /\ rpc' = "exit"
       \/ isPlaying /\ ~got /\ rpc' = "loop"
       \/ isPlaying /\ got /\ rpc' = "scale"
    /\ UNCHANGED <<isPlaying, packets, frames, controlVars, decodeVars, frame, got, late,
                   livePackets, liveFrames>>

\* Scaled; in step with or ahead of the audio clock: shown, after a sleep if ahead.
RenderShow ==
    /\ rpc = "scale"
    /\ rpc' = "release"
    /\ UNCHANGED <<isPlaying, packets, frames, controlVars, decodeVars, frame, got, late,
                   livePackets, liveFrames>>

\* Scaled, but behind the audio clock: frames.sync() and back to the loop.
RenderLate ==
    /\ rpc = "scale"
    /\ late' = late \cup {frame}
    /\ rpc' = "sync"
    /\ UNCHANGED <<isPlaying, packets, frames, controlVars, decodeVars, frame, got,
                   livePackets, liveFrames>>

\* dropAvFrame releases the frame at the front of the queue and removes it.
RenderSync ==
    /\ rpc = "sync"
    /\ liveFrames' = liveFrames \ {Front(frames, Null)}
    /\ frames' = Dropped(frames)
    /\ rpc' = "loop"
    /\ UNCHANGED <<isPlaying, packets, controlVars, decodeVars, frame, got, late, livePackets>>

\* The shown frame is released and the local cleared.
RenderRelease ==
    /\ rpc = "release"
    /\ liveFrames' = liveFrames \ {frame}
    /\ frame' = Null
    /\ rpc' = "loop"
    /\ UNCHANGED <<isPlaying, packets, frames, controlVars, decodeVars, got, late, livePackets>>

\* Out of the loop, frame is released if there is one; isPlaying is cleared.
RenderExit ==
    /\ rpc = "exit"
    /\ liveFrames' = liveFrames \ {frame}
    /\ frame' = Null
    /\ isPlaying' = FALSE
    /\ rpc' = "done"
    /\ UNCHANGED <<packets, frames, controlVars, decodeVars, got, late, livePackets>>

-----------------------------------------------------------------------------
StopStep == HaltFrames \/ HaltPackets \/ Join

ControlStep ==
    \/ Start \/ SpawnDecode \/ SpawnRender
    \/ Feed \/ FeedLog
    \/ Stop \/ StopStep \/ Destroy

DecodeStep ==
    \/ DecodeLoop \/ DecodePop \/ DecodeCheck \/ DecodeSend \/ DecodeSendFails
    \/ DecodeFrame \/ DecodeAgain \/ DecodeError \/ DecodeExit

RenderStep ==
    \/ RenderLoop \/ RenderPop \/ RenderCheck \/ RenderShow \/ RenderLate
    \/ RenderSync \/ RenderRelease \/ RenderExit

\* The channel has been deleted.
Gone == cpc = "deleted" /\ UNCHANGED vars

Next == ControlStep \/ DecodeStep \/ RenderStep \/ Gone

Spec == Init /\ [][Next]_vars

\* The threads run; whether and when the player stops is open.
Fairness == WF_vars(FeedLog \/ StopStep) /\ WF_vars(DecodeStep) /\ WF_vars(RenderStep)

FairSpec == Spec /\ Fairness

-----------------------------------------------------------------------------
(* Properties. *)

ControlPoints == {"new", "spawn", "spawn2", "running", "log", "halt", "halt2", "join",
                  "stopped", "deleted"}
DecodePoints == {"none", "loop", "pop", "check", "send", "receive", "exit", "done"}
RenderPoints == {"none", "loop", "pop", "check", "scale", "sync", "release", "exit", "done"}

\* The type invariant.
TypeOK ==
    /\ isPlaying \in BOOLEAN
    /\ packets \in Queues(Nat \ {Null}) /\ frames \in Queues(Nat \ {Null})
    /\ cpc \in ControlPoints /\ dpc \in DecodePoints /\ rpc \in RenderPoints
    /\ fed \in 0..MaxPackets /\ made \in Nat /\ backlog \in Nat
    /\ packet \in Nat /\ frame \in Nat /\ got \in BOOLEAN
    /\ livePackets \subseteq 1..fed /\ liveFrames \subseteq 1..made /\ late \subseteq 1..made

\* Every packet that has been demuxed and not released is in the queue or in
\* decode()'s hand, and what is there has not been released: no packet is lost
\* on any way out of decode(), and none is released twice.
PacketsOwned ==
    /\ livePackets = Contents(packets) \cup ({packet} \ {Null})
    /\ packet \notin Contents(packets)

\* The frames in the queue and the frame in render()'s hand are allocated, and
\* render()'s is not also in the queue: nothing is used or released twice, on
\* the path that keeps a late frame in hand too.  A frame that nobody can reach
\* any more is one that render() found late: no other path loses a frame.
FramesOwned ==
    /\ Contents(frames) \subseteq liveFrames
    /\ frame # Null => frame \in liveFrames
    /\ frame \notin Contents(frames)
    /\ liveFrames \ (Contents(frames) \cup {frame}) \subseteq late

\* decode() looks at frames.size(), then blocks in packets.pop, then pushes: the
\* frame queue still exceeds its limit by one at most.
FramesBounded == Len(frames.items) <= FrameLimit + 1

\* What decode() and render() rely on of each other: packets and frames have one
\* owner, on every way out of either loop, and the frame queue is bounded.
ChannelInv == TypeOK /\ PacketsOwned /\ FramesOwned /\ FramesBounded

\* Frames reach the screen in decoding order: the queue is increasing and
\* render() holds something older than all of it, in spite of dropped frames.
DecodingOrder ==
    /\ \A i, j \in 1..Len(frames.items) : i < j => frames.items[i] < frames.items[j]
    /\ \A i \in 1..Len(frames.items) : frame < frames.items[i]

\* stop() returns: both threads get out of their pops, sleeps and loops and are
\* joined, whatever they were doing when isPlaying was cleared.
StopReturns == (cpc = "halt") ~> (cpc \in {"stopped", "deleted"})
=============================================================================
