------------------------------ MODULE Pipeline ------------------------------
(***************************************************************************)
(* Playback as a whole: the demuxer loop (NiubiPlayer::init_start) feeding *)
(* both channels, whose queues are counted and whose threads can die.      *)
(* VideoChannel.tla and AudioChannel.tla have the inside of a channel; here *)
(* the question is what one channel, or the end of the media, does to the  *)
(* rest.  Media with both streams; NiubiPlayer.tla has the other cases.    *)
(***************************************************************************)
EXTENDS Integers, Player

CONSTANTS MaxPackets,   \* bound: packets in the media
          PacketLimit,  \* the demuxer waits while packets.size() > PacketLimit (100)
          FrameLimit    \* decode waits while frames.size() > FrameLimit (100)

ASSUME PipelineAssumption ==
    MaxPackets \in Nat /\ PacketLimit \in Nat /\ FrameLimit \in Nat

VARIABLES dmx,        \* where init_start is
          left,       \* packets of the media not read yet
          cause,      \* why the demuxer left its loop
          playing,    \* playing[k]: BaseChannel::isPlaying
          packets,    \* packets[k]: length of the packet queue
          dec,        \* dec[k]: where decode() is; "send": it holds a packet
          frames,     \* frames[k]: length of the frame queue
          out         \* out[k]: where render() or the OpenSL callbacks are

demuxVars == <<isPlaying, dmx, left, cause>>
channelVars == <<playing, packets, dec, frames, out>>
playbackVars == <<demuxVars, channelVars>>

\* start() has opened the queues and created the threads.
PlaybackInit ==
    /\ isPlaying = TRUE
    /\ dmx = "loop" /\ left \in 0..MaxPackets /\ cause = "none"
    /\ playing = [k \in Kinds |-> TRUE]
    /\ packets = [k \in Kinds |-> 0] /\ frames = [k \in Kinds |-> 0]
    /\ dec = [k \in Kinds |-> "loop"]
    /\ out = [k \in Kinds |-> IF k = "audio" THEN "setup" ELSE "pop"]

-----------------------------------------------------------------------------
(* The demuxer, and the user's stop(). *)

\* stop() clears isPlaying; the demuxer is told by nothing else.
UserStop ==
    /\ isPlaying
    /\ isPlaying' = FALSE
    /\ UNCHANGED <<dmx, left, cause, channelVars>>

\* Mutant of Room: the wait for the audio queue is forgotten.
RoomVideoOnly == packets["video"] <= PacketLimit

\* Neither packet queue is over its limit: one wait for both.
Room == \A k \in Kinds : packets[k] <= PacketLimit

\* The head of the loop: leave, or sleep until there is room, then read.
DemuxTest ==
    /\ dmx = "loop"
    /\ \/ ~isPlaying /\ dmx' = "end" /\ cause' = "stop"
       \/ isPlaying /\ Room /\ dmx' = "read" /\ UNCHANGED cause
    /\ UNCHANGED <<isPlaying, left, channelVars>>

\* av_read_frame: a packet for one of the channels ...
DemuxPush(k) ==
    /\ dmx = "read" /\ left > 0
    /\ left' = left - 1
    /\ packets' = [packets EXCEPT ![k] = @ + 1]
    /\ dmx' = "loop"
    /\ UNCHANGED <<isPlaying, cause, playing, dec, frames, out>>

\* ... a packet of a stream without a channel, which nobody releases ...
DemuxOther ==
    /\ dmx = "read" /\ left > 0
    /\ left' = left - 1
    /\ dmx' = "loop"
    /\ UNCHANGED <<isPlaying, cause, channelVars>>

\* ... an error, which ends the loop ...
DemuxFails ==
    /\ dmx = "read"
    /\ dmx' = "end" /\ cause' = "error"
    /\ UNCHANGED <<isPlaying, left, channelVars>>

\* ... or the end of the media: are the queues empty yet?
DemuxEof ==
    /\ dmx = "read" /\ left = 0
    /\ dmx' = "audioPackets"
    /\ UNCHANGED <<isPlaying, left, cause, channelVars>>

\* The four tests, in the order in which && evaluates them.
Polled ==
    [audioPackets |-> packets["audio"], audioFrames |-> frames["audio"],
     videoPackets |-> packets["video"], videoFrames |-> frames["video"]]
Following ==
    [audioPackets |-> "audioFrames", audioFrames |-> "videoPackets",
     videoPackets |-> "videoFrames", videoFrames |-> "end"]

\* Mutant of DemuxPoll: the frame queues are not looked at.
DemuxPollPackets ==
    /\ dmx \in DOMAIN Polled
    /\ dmx' = IF Polled[dmx] > 0 /\ dmx \in {"audioPackets", "videoPackets"}
              THEN "loop" ELSE Following[dmx]
    /\ cause' = IF dmx' = "end" THEN "eof" ELSE cause
    /\ UNCHANGED <<isPlaying, left, channelVars>>

\* Mutant of DemuxPoll: the loop is never left.
DemuxPollAgain ==
    /\ dmx \in DOMAIN Polled
    /\ dmx' = "loop"
    /\ UNCHANGED <<isPlaying, left, cause, channelVars>>

\* One test: go round again, take the next test, or leave the loop.
DemuxPoll ==
    /\ dmx \in DOMAIN Polled
    /\ dmx' = IF Polled[dmx] > 0 THEN "loop" ELSE Following[dmx]
    /\ cause' = IF dmx' = "end" THEN "eof" ELSE cause
    /\ UNCHANGED <<isPlaying, left, channelVars>>

\* Mutant of DemuxEnd: the threads are joined without being told to end.
DemuxEndSilent ==
    /\ dmx = "end"
    /\ isPlaying' = FALSE
    /\ dmx' = "joinVideo"
    /\ UNCHANGED <<left, cause, channelVars>>

\* Behind the loop: isPlaying = 0, videoChannel->stop() begins.
DemuxEnd ==
    /\ dmx = "end"
    /\ isPlaying' = FALSE
    /\ playing' = [playing EXCEPT !["video"] = FALSE]
    /\ dmx' = "joinVideo"
    /\ UNCHANGED <<left, cause, packets, dec, frames, out>>

\* stop() has joined the threads of a channel; audioChannel->stop() follows video's.
DemuxJoinVideo ==
    /\ dmx = "joinVideo" /\ dec["video"] = "dead" /\ out["video"] = "dead"
    /\ playing' = [playing EXCEPT !["audio"] = FALSE]
    /\ dmx' = "joinAudio"
    /\ UNCHANGED <<isPlaying, left, cause, packets, dec, frames, out>>

\* decode and the set-up thread are joined, and destroying the OpenSL player ends
\* the callbacks.
DemuxJoinAudio ==
    /\ dmx = "joinAudio" /\ dec["audio"] = "dead" /\ out["audio"] = "dead"
    /\ dmx' = "done"
    /\ UNCHANGED <<isPlaying, left, cause, channelVars>>

-----------------------------------------------------------------------------
(* A channel. *)

\* The head of decode's loop: leave, or sleep until the frame queue has room.
DecodeLoop(k) ==
    /\ dec[k] = "loop"
    /\ \/ ~playing[k] /\ dec' = [dec EXCEPT ![k] = "dead"]
       \/ playing[k] /\ frames[k] <= FrameLimit /\ dec' = [dec EXCEPT ![k] = "pop"]
    /\ UNCHANGED <<demuxVars, playing, packets, frames, out>>

\* packets.pop takes a packet, or returns from a closed queue.
DecodePop(k) ==
    /\ dec[k] = "pop"
    /\ \/ /\ packets[k] > 0
          /\ packets' = [packets EXCEPT ![k] = @ - 1]
          /\ dec' = [dec EXCEPT ![k] = IF playing[k] THEN "send" ELSE "dead"]
       \/ packets[k] = 0 /\ ~playing[k] /\ dec' = [dec EXCEPT ![k] = "dead"] /\ UNCHANGED packets
    /\ UNCHANGED <<demuxVars, playing, frames, out>>

\* avcodec_send_packet and avcodec_receive_frame: a frame, or none yet.  What the
\* decoder keeps is never drained, not at the end of the media either.
DecodeSend(k) ==
    /\ dec[k] = "send"
    /\ dec' = [dec EXCEPT ![k] = "loop"]
    /\ \/ frames' = [frames EXCEPT ![k] = @ + 1]
       \/ UNCHANGED frames
    /\ UNCHANGED <<demuxVars, playing, packets, out>>

\* The decoder refuses the packet or fails on it: decode() ends, alone.
DecodeDies(k) ==
    /\ dec[k] = "send"
    /\ dec' = [dec EXCEPT ![k] = "dead"]
    /\ UNCHANGED <<demuxVars, playing, packets, frames, out>>

\* OpenSL is set up and the first callback made, or init_start() just returns.
AudioSetup ==
    /\ out["audio"] = "setup"
    /\ out' = [out EXCEPT !["audio"] = "pop"]
    /\ UNCHANGED <<demuxVars, playing, packets, dec, frames>>

AudioSetupFails ==
    /\ out["audio"] = "setup"
    /\ out' = [out EXCEPT !["audio"] = "dead"]
    /\ UNCHANGED <<demuxVars, playing, packets, dec, frames>>

\* frames.pop by render() or by getPcm(): a frame to show, or the way out.
OutPop(k) ==
    /\ out[k] = "pop"
    /\ \/ /\ frames[k] > 0
          /\ frames' = [frames EXCEPT ![k] = @ - 1]
          /\ out' = [out EXCEPT ![k] = IF playing[k] THEN "show" ELSE "dead"]
       \/ frames[k] = 0 /\ ~playing[k] /\ out' = [out EXCEPT ![k] = "dead"] /\ UNCHANGED frames
    /\ UNCHANGED <<demuxVars, playing, packets, dec>>

\* The frame is shown or played; both loops test isPlaying again before they pop.
OutShow(k) ==
    /\ out[k] = "show"
    /\ out' = [out EXCEPT ![k] = IF playing[k] THEN "pop" ELSE "dead"]
    /\ UNCHANGED <<demuxVars, playing, packets, dec, frames>>

\* A video frame behind the audio clock: frames.sync() drops the next one too.
OutLate ==
    /\ out["video"] = "show"
    /\ frames' = [frames EXCEPT !["video"] = IF @ > 0 THEN @ - 1 ELSE 0]
    /\ out' = [out EXCEPT !["video"] = IF playing["video"] THEN "pop" ELSE "dead"]
    /\ UNCHANGED <<demuxVars, playing, packets, dec>>

\* A conversion that yields no sample enqueues nothing: no callback follows.
AudioChainBreaks ==
    /\ out["audio"] = "show"
    /\ out' = [out EXCEPT !["audio"] = "dead"]
    /\ UNCHANGED <<demuxVars, playing, packets, dec, frames>>

-----------------------------------------------------------------------------
DemuxStep ==
    \/ DemuxTest \/ (\E k \in Kinds : DemuxPush(k)) \/ DemuxOther \/ DemuxFails
    \/ DemuxEof \/ DemuxPoll \/ DemuxEnd \/ DemuxJoinVideo \/ DemuxJoinAudio

DecodeStep(k) == DecodeLoop(k) \/ DecodePop(k) \/ DecodeSend(k) \/ DecodeDies(k)

OutStep(k) ==
    \/ OutPop(k) \/ OutShow(k)
    \/ k = "video" /\ OutLate
    \/ k = "audio" /\ (AudioSetup \/ AudioSetupFails \/ AudioChainBreaks)

PlaybackNext ==
    \/ UserStop \/ DemuxStep
    \/ \E k \in Kinds : DecodeStep(k) \/ OutStep(k)

PlaybackSpec == PlaybackInit /\ [][PlaybackNext]_playbackVars

\* Every thread runs; nobody has to stop the player.
PlaybackFairness ==
    /\ WF_playbackVars(DemuxStep)
    /\ \A k \in Kinds : WF_playbackVars(DecodeStep(k)) /\ WF_playbackVars(OutStep(k))

FairPlaybackSpec == PlaybackSpec /\ PlaybackFairness

-----------------------------------------------------------------------------
(* Properties. *)

DemuxPoints == {"loop", "read", "end", "joinVideo", "joinAudio", "done"} \cup DOMAIN Polled

\* The type invariant.
PlaybackTypeOK ==
    /\ isPlaying \in BOOLEAN /\ dmx \in DemuxPoints
    /\ left \in 0..MaxPackets
    /\ cause \in {"none", "stop", "error", "eof"}
    /\ playing \in [Kinds -> BOOLEAN]
    /\ packets \in [Kinds -> Nat] /\ frames \in [Kinds -> Nat]
    /\ dec \in [Kinds -> {"loop", "pop", "send", "dead"}]
    /\ out \in [Kinds -> {"setup", "pop", "show", "dead"}]

\* A channel whose decoder and whose output still work.
Works(k) == playing[k] => dec[k] # "dead" /\ out[k] # "dead"

\* Whatever thread of whatever channel has died, the queues stay within one of
\* their limits: nothing piles up behind a stage that no longer takes anything.
QueuesBounded ==
    \A k \in Kinds : packets[k] <= PacketLimit + 1 /\ frames[k] <= FrameLimit + 1

\* The shared back-pressure of the demuxer keeps all four queues in their bounds.
PipelineInv == PlaybackTypeOK /\ QueuesBounded

\* What of a stream has left the packet queue and not reached the output.
InFlight(k) ==
    (IF dec[k] = "send" THEN 1 ELSE 0) + frames[k] + (IF out[k] = "show" THEN 1 ELSE 0)

\* At the end of the media the demuxer polls the four queues, one after the
\* other and without regard to what is in a thread's hand (NiubiPlayer.cpp:217).
\* What it cuts off is at most one packet in decode()'s hand and one frame
\* behind it per stream, and never a packet that is still queued.
EofCutsOffLittle ==
    cause = "eof" => \A k \in Kinds : packets[k] = 0 /\ InFlight(k) <= 2

\* One channel that stops consuming holds up the demuxer and with it the other
\* channel (NiubiPlayer.cpp:184).  The demuxer gets on as long as both work:
\* media that nobody stops is read and played to its end, or a stage has died.
PlaysToTheEnd == <>(dmx = "done" \/ \E k \in Kinds : ~Works(k))

\* stop() ends playback although the demuxer sleeps for room that never comes or
\* polls queues that never empty, whichever threads have died before.
StopEndsPlayback == ~isPlaying ~> dmx = "done"
=============================================================================
