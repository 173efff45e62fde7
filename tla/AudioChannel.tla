---------------------------- MODULE AudioChannel ----------------------------
(***************************************************************************)
(* player/AudioChannel.cpp: the decode thread, the play thread that sets   *)
(* OpenSL ES up and runs the buffer callback once by hand, the OpenSL      *)
(* thread that runs it each time a buffer has been played, and the thread  *)
(* that starts, feeds, stops and deletes the channel.  Packets and frames  *)
(* are numbered in order; a number stands for the address.                 *)
(***************************************************************************)
EXTENDS BaseChannel, FiniteSets

CONSTANTS MaxPackets,   \* bound: packets demuxed in a behaviour
          PacketLimit,  \* the demuxer waits while packets.size() > PacketLimit (100)
          FrameLimit    \* decode waits while frames.size() > FrameLimit (100)

ASSUME BoundAssumption ==
    MaxPackets \in Nat /\ PacketLimit \in Nat /\ FrameLimit \in Nat

\* The threads that run bqPlayerCallback: audio_play's and OpenSL's own.
Callbacks == {"play", "opensl"}

VARIABLES isPlaying,    \* BaseChannel::isPlaying
          packets,      \* BaseChannel::packets
          frames,       \* BaseChannel::frames
          cpc,          \* where the controlling thread is
          fed,          \* number of packets demuxed
          dpc,          \* where decode() is
          packet,       \* decode()'s local packet
          made,         \* number of frames allocated
          ppc,          \* where init_start() is; "crashed": it has used a null player
          cb,           \* cb[x]: where thread x is in bqPlayerCallback; "freed": it has
                        \* used the freed swrContext
          frame,        \* frame[x]: getPcm()'s local frame
          player,       \* bqPlayerObject: "none", "playing" or "destroyed"
          queued,       \* buffers enqueued in the OpenSL buffer queue
          swr,          \* swrContext is allocated
          silent,       \* a conversion has yielded no samples
          livePackets,  \* packets allocated and not released
          liveFrames    \* frames allocated and not released

controlVars == <<cpc, fed>>
decodeVars == <<dpc, packet, made>>
playVars == <<ppc, cb, frame, player, queued, silent>>
heap == <<livePackets, liveFrames>>
vars == <<isPlaying, packets, frames, controlVars, decodeVars, playVars, swr, heap>>

\* The process has ended: a null or freed pointer has been used.
Crashed == ppc = "crashed" \/ \E x \in Callbacks : cb[x] = "freed"

\* The state the constructor leaves.
Init ==
    /\ isPlaying = FALSE
    /\ packets = NewQueue /\ frames = NewQueue
    /\ cpc = "new" /\ fed = 0
    /\ dpc = "none" /\ packet = Null /\ made = 0
    /\ ppc = "none" /\ player = "none" /\ queued = 0 /\ silent = FALSE
    /\ cb = [x \in Callbacks |-> "idle"]
    /\ frame = [x \in Callbacks |-> Null]
    /\ swr = TRUE
    /\ livePackets = {} /\ liveFrames = {}

-----------------------------------------------------------------------------
(* start, the demuxer's loop, stop, the destructor. *)

Start ==
    /\ cpc = "new"
    /\ isPlaying' = TRUE
    /\ packets' = Working(packets)
    /\ frames' = Working(frames)
    /\ cpc' = "spawn"
    /\ UNCHANGED <<fed, decodeVars, playVars, swr, heap>>

SpawnDecode ==
    /\ cpc = "spawn"
    /\ dpc' = "loop"
    /\ cpc' = "spawn2"
    /\ UNCHANGED <<isPlaying, packets, frames, fed, packet, made, playVars, swr, heap>>

SpawnPlay ==
    /\ cpc = "spawn2"
    /\ ppc' = "setup"
    /\ cpc' = "running"
    /\ UNCHANGED <<isPlaying, packets, frames, fed, decodeVars, cb, frame, player, queued,
                   silent, swr, heap>>

\* The demuxer reads a packet of this stream and pushes it.
Feed ==
    /\ cpc = "running"
    /\ fed < MaxPackets
    /\ Len(packets.items) <= PacketLimit
    /\ fed' = fed + 1
    /\ packets' = Pushed(packets, fed + 1)
    /\ livePackets' = livePackets \cup {fed + 1}
    /\ UNCHANGED <<isPlaying, frames, cpc, decodeVars, playVars, swr, liveFrames>>

\* Mutant of Stop: a queue is halted before isPlaying is cleared.
StopHaltsFirst ==
    /\ cpc = "running"
    /\ frames' = Halted(frames)
    /\ cpc' = "halt"
    /\ UNCHANGED <<isPlaying, packets, fed, decodeVars, playVars, swr, heap>>

\* stop() clears isPlaying before it halts a queue.
Stop ==
    /\ cpc = "running"
    /\ isPlaying' = FALSE
    /\ cpc' = "halt"
    /\ UNCHANGED <<packets, frames, fed, decodeVars, playVars, swr, heap>>

HaltPackets ==
    /\ cpc = "halt"
    /\ packets' = Halted(packets)
    /\ cpc' = "halt2"
    /\ UNCHANGED <<isPlaying, frames, fed, decodeVars, playVars, swr, heap>>

\* Mutant of HaltFrames: frames.backWork is forgotten.
HaltFramesForgotten ==
    /\ cpc = "halt2"
    /\ cpc' = "join"
    /\ UNCHANGED <<isPlaying, packets, frames, fed, decodeVars, playVars, swr, heap>>

HaltFrames ==
    /\ cpc = "halt2"
    /\ frames' = Halted(frames)
    /\ cpc' = "join"
    /\ UNCHANGED <<isPlaying, packets, fed, decodeVars, playVars, swr, heap>>

\* Mutant of Join: pid_audio_play is forgotten.
JoinDecodeOnly ==
    /\ cpc = "join"
    /\ dpc = "done"
    /\ cpc' = "swr"
    /\ UNCHANGED <<isPlaying, packets, frames, fed, decodeVars, playVars, swr, heap>>

\* stop() joins decode() and init_start(); it does not wait for OpenSL.
Join ==
    /\ cpc = "join"
    /\ dpc = "done" /\ ppc = "done"
    /\ cpc' = "swr"
    /\ UNCHANGED <<isPlaying, packets, frames, fed, decodeVars, playVars, swr, heap>>

\* swr_free.
FreeSwr ==
    /\ cpc = "swr"
    /\ swr' = FALSE
    /\ cpc' = "destroy"
    /\ UNCHANGED <<isPlaying, packets, frames, fed, decodeVars, playVars, heap>>

\* Destroy of the player object, if there is one, returns when no callback is
\* running and lets no other start; then output mix and engine are destroyed.
DestroyPlayer ==
    /\ cpc = "destroy"
    /\ player = "playing" => cb["opensl"] = "idle"
    /\ player' = IF player = "playing" THEN "destroyed" ELSE player
    /\ cpc' = "stopped"
    /\ UNCHANGED <<isPlaying, packets, frames, fed, decodeVars, ppc, cb, frame, queued,
                   silent, swr, heap>>

\* ~AudioChannel and ~BaseChannel: the queues are cleared.
Destroy ==
    /\ cpc = "stopped"
    /\ livePackets' = livePackets \ Contents(packets)
    /\ liveFrames' = liveFrames \ Contents(frames)
    /\ packets' = [packets EXCEPT !.items = <<>>]
    /\ frames' = [frames EXCEPT !.items = <<>>]
    /\ cpc' = "deleted"
    /\ UNCHANGED <<isPlaying, fed, decodeVars, playVars, swr>>

-----------------------------------------------------------------------------
(* decode. *)

\* decode() sleeps while frames.size() > FrameLimit.
DecodeHasRoom == Len(frames.items) <= FrameLimit

DecodeLoop ==
    /\ dpc = "loop"
    /\ \/ ~isPlaying /\ dpc' = "exit"
       \/ isPlaying /\ DecodeHasRoom /\ dpc' = "pop"
    /\ UNCHANGED <<isPlaying, packets, frames, controlVars, packet, made, playVars, swr, heap>>

DecodePop ==
    /\ dpc = "pop"
    /\ PopReturns(packets)
    /\ packet' = Front(packets, packet)
    /\ packets' = Dropped(packets)
    /\ dpc' = "check"
    /\ UNCHANGED <<isPlaying, frames, controlVars, made, playVars, swr, heap>>

DecodeCheck ==
    /\ dpc = "check"
    /\ \/ ~isPlaying /\ dpc' = "exit"
       \/ isPlaying /\ packet = Null /\ dpc' = "loop"
       \/ isPlaying /\ packet # Null /\ dpc' = "send"
    /\ UNCHANGED <<isPlaying, packets, frames, controlVars, packet, made, playVars, swr, heap>>

\* The packet is released whether the decoder took it or not; a refusal ends decode().
DecodeSend ==
    /\ dpc = "send"
    /\ livePackets' = livePackets \ {packet}
    /\ packet' = Null
    /\ dpc' \in {"receive", "exit"}
    /\ UNCHANGED <<isPlaying, packets, frames, controlVars, made, playVars, swr, liveFrames>>

\* A frame is decoded and pushed.
DecodeFrame ==
    /\ dpc = "receive"
    /\ made' = made + 1
    /\ frames' = Pushed(frames, made + 1)
    /\ liveFrames' = IF frames.state THEN liveFrames \cup {made + 1} ELSE liveFrames
    /\ dpc' = "loop"
    /\ UNCHANGED <<isPlaying, packets, controlVars, packet, playVars, swr, livePackets>>

\* No frame: the four answers that let decode() go on, and any other error.
DecodeNoFrame ==
    /\ dpc = "receive"
    /\ dpc' \in {"loop", "exit"}
    /\ UNCHANGED <<isPlaying, packets, frames, controlVars, packet, made, playVars, swr, heap>>

DecodeExit ==
    /\ dpc = "exit"
    /\ livePackets' = livePackets \ {packet}
    /\ packet' = Null
    /\ dpc' = "done"
    /\ UNCHANGED <<isPlaying, packets, frames, controlVars, made, playVars, swr, liveFrames>>

-----------------------------------------------------------------------------
(* init_start and the OpenSL callback. *)

\* A failure to create engine or output mix makes init_start() return.
SetupFails ==
    /\ ppc = "setup"
    /\ ppc' = "done"
    /\ UNCHANGED <<isPlaying, packets, frames, controlVars, decodeVars, cb, frame, player,
                   queued, silent, swr, heap>>

\* CreateAudioPlayer, Realize and GetInterface are not asked whether they have
\* succeeded: if not, what they should have set is used all the same.
SetupCrashes ==
    /\ ppc = "setup"
    /\ ppc' = "crashed"
    /\ UNCHANGED <<isPlaying, packets, frames, controlVars, decodeVars, cb, frame, player,
                   queued, silent, swr, heap>>

\* The player is created, the callback registered, the state set to PLAYING and
\* the callback run by hand.
SetupDone ==
    /\ ppc = "setup"
    /\ player' = "playing"
    /\ cb' = [cb EXCEPT !["play"] = "pop"]
    /\ ppc' = "callback"
    /\ UNCHANGED <<isPlaying, packets, frames, controlVars, decodeVars, frame, queued,
                   silent, swr, heap>>

PlayReturns ==
    /\ ppc = "callback"
    /\ cb["play"] = "idle"
    /\ ppc' = "done"
    /\ UNCHANGED <<isPlaying, packets, frames, controlVars, decodeVars, cb, frame, player,
                   queued, silent, swr, heap>>

\* A buffer has been played: OpenSL calls back on its own thread.
BufferPlayed ==
    /\ player = "playing"
    /\ queued > 0
    /\ cb["opensl"] = "idle"
    /\ queued' = queued - 1
    /\ cb' = [cb EXCEPT !["opensl"] = "pop"]
    /\ UNCHANGED <<isPlaying, packets, frames, controlVars, decodeVars, ppc, frame, player,
                   silent, swr, heap>>

\* getPcm(): frames.pop into a local that starts as null.
GetPcmPop(x) ==
    /\ cb[x] = "pop"
    /\ PopReturns(frames)
    /\ frame' = [frame EXCEPT ![x] = Front(frames, Null)]
    /\ frames' = Dropped(frames)
    /\ cb' = [cb EXCEPT ![x] = "check"]
    /\ UNCHANGED <<isPlaying, packets, controlVars, decodeVars, ppc, player, queued,
                   silent, swr, heap>>

\* Stopped: the frame, if any, is released and nothing is enqueued.
GetPcmStopped(x) ==
    /\ cb[x] = "check"
    /\ ~isPlaying
    /\ liveFrames' = liveFrames \ {frame[x]}
    /\ frame' = [frame EXCEPT ![x] = Null]
    /\ cb' = [cb EXCEPT ![x] = "idle"]
    /\ UNCHANGED <<isPlaying, packets, frames, controlVars, decodeVars, ppc, player, queued,
                   silent, swr, livePackets>>

\* Still playing: what pop returned is not looked at again, nor is isPlaying from
\* here to the end of the conversion.
GetPcmPlaying(x) ==
    /\ cb[x] = "check"
    /\ isPlaying
    /\ cb' = [cb EXCEPT ![x] = "convert"]
    /\ UNCHANGED <<isPlaying, packets, frames, controlVars, decodeVars, ppc, frame, player,
                   queued, silent, swr, heap>>

\* Mutant of GetPcmConvert: the size is computed before the conversion, and
\* nothing is enqueued.
GetPcmEmpty(x) ==
    /\ cb[x] = "convert"
    /\ liveFrames' = liveFrames \ {frame[x]}
    /\ frame' = [frame EXCEPT ![x] = Null]
    /\ cb' = [cb EXCEPT ![x] = "idle"]
    /\ UNCHANGED <<isPlaying, packets, frames, controlVars, decodeVars, ppc, player, queued,
                   silent, swr, livePackets>>

\* swr_get_delay, swr_convert into out_buffers, audioTime, release of the frame; a
\* conversion may yield no samples.  Begun before swr_free it may also end after it
\* in memory that nobody has reused.
GetPcmConvert(x) ==
    /\ cb[x] = "convert"
    /\ liveFrames' = liveFrames \ {frame[x]}
    /\ frame' = [frame EXCEPT ![x] = Null]
    /\ \/ cb' = [cb EXCEPT ![x] = "enqueue"] /\ UNCHANGED silent
       \/ cb' = [cb EXCEPT ![x] = "idle"] /\ silent' = TRUE
    /\ UNCHANGED <<isPlaying, packets, frames, controlVars, decodeVars, ppc, player, queued,
                   swr, livePackets>>

\* stop() has freed swrContext since getPcm() saw isPlaying: swr_get_delay or
\* swr_convert is called with null or freed memory, or was under way.
ConvertFreed(x) ==
    /\ cb[x] = "convert"
    /\ ~swr
    /\ cb' = [cb EXCEPT ![x] = "freed"]
    /\ UNCHANGED <<isPlaying, packets, frames, controlVars, decodeVars, ppc, frame, player,
                   queued, silent, swr, heap>>

\* bqPlayerCallback enqueues out_buffers if there is something in it.
Enqueue(x) ==
    /\ cb[x] = "enqueue"
    /\ queued' = queued + 1
    /\ cb' = [cb EXCEPT ![x] = "idle"]
    /\ UNCHANGED <<isPlaying, packets, frames, controlVars, decodeVars, ppc, frame, player,
                   silent, swr, heap>>

-----------------------------------------------------------------------------
StopStep == HaltPackets \/ HaltFrames \/ Join \/ FreeSwr \/ DestroyPlayer

ControlStep ==
    \/ Start \/ SpawnDecode \/ SpawnPlay \/ Feed \/ Stop \/ StopStep \/ Destroy

DecodeStep ==
    \/ DecodeLoop \/ DecodePop \/ DecodeCheck \/ DecodeSend
    \/ DecodeFrame \/ DecodeNoFrame \/ DecodeExit

CallbackStep(x) ==
    \/ GetPcmPop(x) \/ GetPcmStopped(x) \/ GetPcmPlaying(x)
    \/ GetPcmConvert(x) \/ ConvertFreed(x) \/ Enqueue(x)

PlayStep == SetupFails \/ SetupCrashes \/ SetupDone \/ PlayReturns

\* The channel has been deleted, or the process has ended.
Gone == (cpc = "deleted" \/ Crashed) /\ UNCHANGED vars

Step ==
    \/ ControlStep \/ DecodeStep \/ PlayStep \/ BufferPlayed
    \/ \E x \in Callbacks : CallbackStep(x)

Next == (~Crashed /\ Step) \/ Gone

Spec == Init /\ [][Next]_vars

\* The threads run and OpenSL plays what it is given; stopping is open.
Fairness ==
    /\ WF_vars(~Crashed /\ StopStep) /\ WF_vars(~Crashed /\ DecodeStep)
    /\ WF_vars(~Crashed /\ PlayStep) /\ WF_vars(~Crashed /\ BufferPlayed)
    /\ \A x \in Callbacks : WF_vars(~Crashed /\ CallbackStep(x))

FairSpec == Spec /\ Fairness

-----------------------------------------------------------------------------
(* Properties. *)

ControlPoints == {"new", "spawn", "spawn2", "running", "halt", "halt2", "join", "swr",
                  "destroy", "stopped", "deleted"}
DecodePoints == {"none", "loop", "pop", "check", "send", "receive", "exit", "done"}
CallbackPoints == {"idle", "pop", "check", "convert", "enqueue", "freed"}

\* The type invariant.
TypeOK ==
    /\ isPlaying \in BOOLEAN /\ swr \in BOOLEAN /\ silent \in BOOLEAN
    /\ packets \in Queues(Nat \ {Null}) /\ frames \in Queues(Nat \ {Null})
    /\ cpc \in ControlPoints /\ dpc \in DecodePoints
    /\ ppc \in {"none", "setup", "callback", "done", "crashed"}
    /\ cb \in [Callbacks -> CallbackPoints] /\ frame \in [Callbacks -> Nat]
    /\ player \in {"none", "playing", "destroyed"} /\ queued \in Nat
    /\ fed \in 0..MaxPackets /\ made \in Nat /\ packet \in Nat
    /\ livePackets \subseteq 1..fed /\ liveFrames \subseteq 1..made

\* getPcm() uses the frame without asking whether pop returned one.  It is there
\* all the same: pop comes back empty-handed from a halted queue only, and
\* stop() clears isPlaying, which getPcm() tests after pop, before it halts one.
FrameWhenConverting == \A x \in Callbacks : cb[x] = "convert" => frame[x] \in liveFrames

\* There is one out_buffers.  It is not overwritten while OpenSL has it, and the
\* two threads that run the callback are never in it together.
BufferUndisturbed ==
    \A x \in Callbacks : cb[x] \in {"convert", "enqueue"} =>
        queued = 0 /\ \A y \in Callbacks \ {x} : cb[y] = "idle"

\* While it plays, the callback keeps itself going: once the player exists and
\* as long as every conversion yields samples, there is exactly one buffer with
\* OpenSL or one callback under way.
CallbackChainAlive ==
    (isPlaying /\ player = "playing" /\ ~silent) =>
        queued + Cardinality({x \in Callbacks : cb[x] # "idle"}) = 1

\* Every packet and frame is released exactly once: what is allocated is in a
\* queue or in one thread's hand.
AudioOwned ==
    /\ livePackets = Contents(packets) \cup ({packet} \ {Null})
    /\ packet \notin Contents(packets)
    /\ liveFrames = Contents(frames) \cup ({frame[x] : x \in Callbacks} \ {Null})
    /\ \A x \in Callbacks : frame[x] \notin Contents(frames)
    /\ frame["play"] = frame["opensl"] => frame["play"] = Null

\* As for the video channel, the unlocked size() test bounds the queue plus one.
FramesBounded == Len(frames.items) <= FrameLimit + 1

\* What decode() and the two callback threads rely on of each other: everything
\* has one owner, a conversion has its frame, the buffer one user, and the frame
\* queue is bounded.
ChannelInv ==
    TypeOK /\ AudioOwned /\ FrameWhenConverting /\ BufferUndisturbed /\ FramesBounded

\* stop() returns, if the process lives: decode(), init_start() and, at Destroy, the
\* OpenSL callback get out of their pops, also when a callback is blocked on an
\* empty queue.
StopReturns == (cpc = "halt") ~> (cpc \in {"stopped", "deleted"} \/ Crashed)

\* Who can meet the freed swrContext: never the thread of init_start(), which runs the
\* callback by hand but is joined first; OpenSL's thread, but only before Destroy has
\* waited for it.
FreedWhileDestroying == \A x \in Callbacks : cb[x] = "freed" => x = "opensl" /\ cpc = "destroy"

\* What the deletion after stop() relies on: when stop() is through no thread is in the
\* channel or can come back to it, init_start() creates no player after the last
\* look at it, nobody has a packet or a frame in hand, and the destructor's two clears
\* leave nothing allocated.  Until then only OpenSL's thread meets what stop() has freed.
QuietWhenStopped ==
    /\ FreedWhileDestroying
    /\ cpc \in {"stopped", "deleted"} =>
         /\ dpc = "done" /\ ppc = "done" /\ player # "playing"
         /\ packet = Null /\ \A x \in Callbacks : cb[x] = "idle" /\ frame[x] = Null
         /\ cpc = "deleted" => livePackets = {} /\ liveFrames = {}
=============================================================================
