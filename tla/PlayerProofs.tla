---------------------------- MODULE PlayerProofs ----------------------------
(***************************************************************************)
(* Proofs about the player: NiubiPlayer and LivePlayer, which is shown to  *)
(* be the player of NiubiPlayer with a window (what holds of the one holds *)
(* of the other), and Pipeline, its playback.  Any set of media, with one  *)
(* stream, with both or with none; media of any length; any limits of the  *)
(* queues.                                                                 *)
(***************************************************************************)
EXTENDS LivePlayer, Pipeline, TLAPS

\* How far the threads of the player can be apart: none before prepare(), the
\* demuxer only behind init_prepare, init_stop only after stop(), and past its
\* joins only when both others have ended.
ThreadOrder ==
    /\ ui = "new" => pre = "none"
    /\ ui \in {"new", "preparing", "prepared", "stopping"} => stp = "none"
    /\ play # "none" => pre = "done"
    /\ stp \in {"play", "channels", "format", "done"} => pre = "done"
    /\ stp \in {"channels", "format", "done"} => play \in {"none", "done"}

\* What init_stop has freed at which point, and that nobody else frees.
FreedInOrder ==
    /\ \A k \in Kinds : channel[k] = "deleted" => stp \in {"format", "done"}
    /\ format = "closed" => stp = "done"
    /\ stp \in {"format", "done"} => \A k \in Kinds : channel[k] \in {"none", "deleted"}
    /\ stp = "done" => format # "open"

\* Who has the codec contexts: each channel its own, as long as it is there.  One of
\* an audio or video stream that no channel has is of the stream init_prepare has
\* given up at, so that there is only one and start() is not reached.
CodecOwned ==
    \A k \in Kinds :
        /\ channel[k] \in {"ready", "started", "stopped"} => codec[k] = "open"
        /\ channel[k] = "deleted" <=> codec[k] = "freed"
        /\ channel[k] = "none" /\ codec[k] = "open" =>
              /\ pre \in {"error", "done"} /\ play = "none"
              /\ \A j \in Kinds \ {k} : channel[j] = "none" => codec[j] = "none"

\* A started channel: start() is under way, or the demuxer has still to stop it.
StartedWatched ==
    \A k \in Kinds : channel[k] = "started" =>
        \/ play = "none" /\ pre \in {"startAudio", "spawn"}
        \/ play \in {"loop", "read", "eof", "finished", "stopVideo"}
        \/ play = "stopAudio" /\ k = "audio"

\* The inductive invariant of the player.
PlayerInv == TypeOK /\ ThreadOrder /\ FreedInOrder /\ CodecOwned /\ StartedWatched

\* The mutex is held while the render thread draws, on a window; there is at most
\* the one reference, and none any more once native_release has been there.
MutexGuards ==
    /\ mutex <=> draw # "idle"
    /\ draw # "idle" => window
    /\ refs = Held
    /\ gone => ~window /\ ui \in {"releasing", "released"}
    /\ ui = "released" => gone

\* The inductive invariant of the window.
DrawInv == LiveTypeOK /\ MutexGuards

-----------------------------------------------------------------------------
(* The player. *)

\* What the constructor leaves satisfies the player's invariant.
LEMMA PlayerInit == Init => PlayerInv
  BY MediaAssumption DEF Init, PlayerInv, TypeOK, ThreadOrder, FreedInOrder, CodecOwned,
     StartedWatched, Kinds, Streams

\* Every step of the four threads, and every fault, preserves it.
LEMMA PlayerStepInv == PlayerInv /\ [Next]_vars => PlayerInv'
<1> SUFFICES ASSUME PlayerInv, [Next]_vars PROVE PlayerInv'
  OBVIOUS
<1> USE MediaAssumption
    DEF PlayerInv, TypeOK, ThreadOrder, FreedInOrder, CodecOwned, StartedWatched, Kinds,
        Streams, uiVars, fields
<1>1. ASSUME Prepare PROVE PlayerInv'
  BY <1>1 DEF Prepare
<1>2. ASSUME PrepareReturns PROVE PlayerInv'
  BY <1>2 DEF PrepareReturns
<1>3. ASSUME Stop PROVE PlayerInv'
  <2>1. isPlaying' \in BOOLEAN
    BY <1>3, Zenon DEF Stop
  <2>2. QED
    BY <1>3, <2>1 DEF Stop
<1>4. ASSUME StopSpawn PROVE PlayerInv'
  BY <1>4 DEF StopSpawn
<1>5. ASSUME Release PROVE PlayerInv'
  BY <1>5 DEF Release, HelperDeleted
<1>6. ASSUME ReleaseReturns PROVE PlayerInv'
  <2>1. handle' \in BOOLEAN
    BY <1>6, Zenon DEF ReleaseReturns
  <2>2. QED
    BY <1>6, <2>1 DEF ReleaseReturns
<1>7. ASSUME PreOpen PROVE PlayerInv'
  BY <1>7 DEF PreOpen
<1>8. ASSUME PreInfo PROVE PlayerInv'
  BY <1>8 DEF PreInfo
<1>9. ASSUME PreError PROVE PlayerInv'
  BY <1>9 DEF PreError
<1>10. ASSUME NEW k \in Streams, PreStream(k) PROVE PlayerInv'
  BY <1>10 DEF PreStream
<1>11. ASSUME PreCheck PROVE PlayerInv'
  BY <1>11 DEF PreCheck
<1>12. ASSUME PreOnPrepare PROVE PlayerInv'
  BY <1>12 DEF PreOnPrepare
<1>13. ASSUME PreStart PROVE PlayerInv'
  BY <1>13 DEF PreStart
<1>14. ASSUME StartVideo PROVE PlayerInv'
  BY <1>14 DEF StartVideo, StartChannel
<1>15. ASSUME StartAudio PROVE PlayerInv'
  BY <1>15 DEF StartAudio, StartChannel
<1>16. ASSUME SpawnPlay PROVE PlayerInv'
  BY <1>16 DEF SpawnPlay
<1>17. ASSUME PlayLoop PROVE PlayerInv'
  BY <1>17 DEF PlayLoop
<1>18. ASSUME PlayRead PROVE PlayerInv'
  BY <1>18 DEF PlayRead
<1>19. ASSUME PlayEof PROVE PlayerInv'
  BY <1>19 DEF PlayEof
<1>20. ASSUME PlayFinished PROVE PlayerInv'
  <2>1. isPlaying' \in BOOLEAN
    BY <1>20, Zenon DEF PlayFinished
  <2>2. QED
    BY <1>20, <2>1 DEF PlayFinished
<1>21. ASSUME StopVideo PROVE PlayerInv'
  BY <1>21 DEF StopVideo, StopChannel
<1>22. ASSUME StopAudio PROVE PlayerInv'
  BY <1>22 DEF StopAudio, StopChannel
<1>23. ASSUME RenderAudioClock PROVE PlayerInv'
  BY <1>23 DEF RenderAudioClock
<1>24. ASSUME JoinPre PROVE PlayerInv'
  BY <1>24 DEF JoinPre
<1>25. ASSUME JoinPlay PROVE PlayerInv'
  BY <1>25 DEF JoinPlay
<1>26. ASSUME DeleteChannels PROVE PlayerInv'
  BY <1>26 DEF DeleteChannels, HelperDeleted
<1>27. ASSUME ReleaseFormatContext PROVE PlayerInv'
  BY <1>27 DEF ReleaseFormatContext
<1>28. ASSUME UseDeleted PROVE PlayerInv'
  BY <1>28 DEF UseDeleted
<1>29. ASSUME Over PROVE PlayerInv'
  BY <1>29 DEF Over, vars
<1>30. CASE UNCHANGED vars
  BY <1>30 DEF vars
<1>31. QED
  BY <1>1, <1>2, <1>3, <1>4, <1>5, <1>6, <1>7, <1>8, <1>9, <1>10, <1>11, <1>12,
     <1>13, <1>14, <1>15, <1>16, <1>17, <1>18, <1>19, <1>20, <1>21, <1>22,
     <1>23, <1>24, <1>25, <1>26, <1>27, <1>28, <1>29, <1>30
  DEF Next, UiStep, PreStep, PlayStep, StopStep

\* The player keeps its invariant for ever.
LEMMA PlayerAlways == Spec => []PlayerInv
  BY PlayerInit, PlayerStepInv, PTL DEF Spec

\* LivePlayer is NiubiPlayer with a window: each of its steps is a step of the
\* player, or one of the window alone.
THEOREM LiveImplementsPlayer == LiveSpec => Spec
<1>1. LiveInit => Init
  BY DEF LiveInit
<1>2. [LiveNext]_liveVars => [Next]_vars
  BY DEF LiveNext, liveVars, PlayerStep, SetSurface, ReleaseWindow, DrawBegin, DrawStep,
     DrawLock, DrawLockFails, DrawPost
<1>3. QED
  BY <1>1, <1>2, PTL DEF LiveSpec, Spec

\* What init_stop frees, neither the preparing nor the demuxing thread can still
\* use, although stop() waits for neither of them.
THEOREM NothingEverFreedInUse == LiveSpec => []NothingFreedInUse
<1>1. PlayerInv => NothingFreedInUse
  BY DEF PlayerInv, FreedInOrder, ThreadOrder, NothingFreedInUse
<1>2. QED
  BY <1>1, PlayerAlways, LiveImplementsPlayer, PTL

\* When init_stop is through, the format context is closed and the channels are deleted
\* with their codec contexts, wherever init_prepare was when stop() came; of the audio
\* and the video stream one context at most is left, and then nothing was played.
THEOREM StopAlwaysReleasesMedia == LiveSpec => []StopReleasesMedia
<1>1. PlayerInv => StopReleasesMedia
  BY DEF PlayerInv, TypeOK, FreedInOrder, CodecOwned, StopReleasesMedia, Kinds, Streams
<1>2. QED
  BY <1>1, PlayerAlways, LiveImplementsPlayer, PTL

\* The only step that deletes channels finds none that is started.
LEMMA DeletesStopped ==
  PlayerInv /\ [Next]_vars => \A k \in Kinds : channel[k] = "started" => channel'[k] # "deleted"
<1> SUFFICES ASSUME PlayerInv, [Next]_vars, NEW k \in Kinds, channel[k] = "started",
                    channel'[k] = "deleted"
             PROVE  FALSE
  OBVIOUS
<1>1. channel[k] # "deleted" /\ PlayerInv'
  BY PlayerStepInv
<1>2. stp' \in {"format", "done"}
  BY <1>1 DEF PlayerInv, FreedInOrder
<1>3. CASE stp \in {"format", "done"}
  BY <1>3 DEF PlayerInv, FreedInOrder
<1>4. CASE stp \notin {"format", "done"}
  <2>1. stp = "channels"
    BY <1>2, <1>4 DEF Next, UiStep, Prepare, PrepareReturns, Stop, StopSpawn, Release,
       ReleaseReturns, PreStep, PreOpen, PreInfo, PreError, PreStream, PreCheck, PreOnPrepare,
       PreStart, StartVideo, StartAudio, StartChannel, SpawnPlay, PlayStep, PlayLoop, PlayRead,
       PlayEof, PlayFinished, StopVideo, StopAudio, StopChannel, RenderAudioClock, StopStep,
       JoinPre, JoinPlay, DeleteChannels, ReleaseFormatContext, UseDeleted, Over, vars
  <2>2. QED
    BY <2>1 DEF PlayerInv, ThreadOrder, StartedWatched
<1>5. QED
  BY <1>3, <1>4

\* Between start() and the deletion of a channel there is always its stop().
THEOREM AlwaysStoppedBeforeDeleted == LiveSpec => StoppedBeforeDeleted
  BY PlayerAlways, LiveImplementsPlayer, DeletesStopped, PTL DEF Spec, StoppedBeforeDeleted

-----------------------------------------------------------------------------
(* The window. *)

\* There is no window before the first surfaceChanged.
LEMMA DrawInit == LiveInit => DrawInv
<1> SUFFICES ASSUME LiveInit PROVE DrawInv
  OBVIOUS
<1>1. window \in BOOLEAN /\ mutex \in BOOLEAN /\ gone \in BOOLEAN
  BY Zenon DEF LiveInit
<1>2. ui = "new" /\ TypeOK
  BY PlayerInit DEF LiveInit, Init, PlayerInv
<1>3. QED
  BY <1>1, <1>2 DEF LiveInit, DrawInv, LiveTypeOK, MutexGuards, Held

\* Every step of the player, and every section on the window, preserves it.
LEMMA DrawStepInv == PlayerInv /\ DrawInv /\ [LiveNext]_liveVars => DrawInv'
<1> SUFFICES ASSUME PlayerInv, DrawInv, [LiveNext]_liveVars PROVE DrawInv'
  OBVIOUS
<1>0. TypeOK'
  <2>1. [Next]_vars
    BY DEF LiveNext, liveVars, PlayerStep, SetSurface, ReleaseWindow, DrawBegin, DrawStep,
       DrawLock, DrawLockFails, DrawPost
  <2>2. QED
    BY <2>1, PlayerStepInv DEF PlayerInv
<1> USE DEF DrawInv, LiveTypeOK, MutexGuards, Held
<1>1. ASSUME SetSurface PROVE DrawInv'
  BY <1>0, <1>1 DEF SetSurface, vars, uiVars
<1>2. ASSUME ReleaseWindow PROVE DrawInv'
  <2>1. window' \in BOOLEAN /\ mutex' \in BOOLEAN /\ gone' \in BOOLEAN
    BY <1>2, Zenon DEF ReleaseWindow
  <2>2. QED
    BY <1>0, <1>2, <2>1 DEF ReleaseWindow, vars, uiVars
<1>3. ASSUME DrawBegin PROVE DrawInv'
  BY <1>0, <1>3 DEF DrawBegin, vars, uiVars
<1>4. ASSUME DrawLock PROVE DrawInv'
  BY <1>0, <1>4 DEF DrawLock, vars, uiVars
<1>5. ASSUME DrawLockFails PROVE DrawInv'
  <2>1. window' \in BOOLEAN /\ mutex' \in BOOLEAN /\ gone' \in BOOLEAN
    BY <1>5, Zenon DEF DrawLockFails
  <2>2. QED
    BY <1>0, <1>5, <2>1 DEF DrawLockFails, vars, uiVars
<1>6. ASSUME DrawPost PROVE DrawInv'
  BY <1>0, <1>6 DEF DrawPost, vars, uiVars
<1>7. ASSUME PlayerStep PROVE DrawInv'
  <2>1. UNCHANGED windowVars /\ (ui' = "released" => gone)
    BY <1>7 DEF PlayerStep
  <2>2. ui \in {"releasing", "released"} => ui' \in {"releasing", "released"}
    BY <1>7 DEF PlayerStep, Next, UiStep, Prepare, PrepareReturns, Stop, StopSpawn, Release,
       ReleaseReturns, PreStep, PreOpen, PreInfo, PreError, PreStream, PreCheck, PreOnPrepare,
       PreStart, StartVideo, StartAudio, StartChannel, SpawnPlay, PlayStep, PlayLoop, PlayRead,
       PlayEof, PlayFinished, StopVideo, StopAudio, StopChannel, RenderAudioClock, StopStep,
       JoinPre, JoinPlay, DeleteChannels, ReleaseFormatContext, UseDeleted, Over, vars, uiVars
  <2>3. QED
    BY <1>0, <2>1, <2>2 DEF windowVars
<1>8. CASE UNCHANGED liveVars
  BY <1>0, <1>8 DEF liveVars, windowVars, vars, uiVars
<1>9. QED
  BY <1>1, <1>2, <1>3, <1>4, <1>5, <1>6, <1>7, <1>8 DEF LiveNext, DrawStep

\* The render thread draws on a window that stays acquired while it does, and what
\* is acquired is released exactly once, by whichever of the three places.
THEOREM WindowAlwaysSafe == LiveSpec => []WindowInv
<1>1. DrawInv => WindowInv
  BY DEF DrawInv, LiveTypeOK, MutexGuards, WindowInv, WindowStaysWhileDrawn,
     WindowReleasedOnce, Held
<1>2. QED
  BY DrawInit, DrawStepInv, PlayerAlways, LiveImplementsPlayer, <1>1, PTL DEF LiveSpec
-----------------------------------------------------------------------------
(* Playback. *)

\* What the demuxer and decode() have tested before they add to a queue is still
\* true when they do, because nobody else adds to that queue.
RoomKept ==
    /\ dmx = "read" => \A k \in Kinds : packets[k] <= PacketLimit
    /\ \A k \in Kinds : dec[k] \in {"pop", "send"} => frames[k] <= FrameLimit

\* The inductive invariant behind PipelineInv.
BoundsInv == PlaybackTypeOK /\ QueuesBounded /\ RoomKept

\* Nothing of stream k comes any more, and what is under way is in two hands.
Drained(k) == packets[k] = 0 /\ InFlight(k) <= 2

\* What the polls at the end of the media have established so far, although the
\* threads have gone on since: the demuxer adds nothing while it polls.
PollsStand ==
    /\ dmx \in DOMAIN Polled => left = 0 /\ cause = "none"
    /\ dmx \in {"loop", "read"} => cause = "none"
    /\ dmx = "audioFrames" => packets["audio"] = 0
    /\ dmx \in {"videoPackets", "videoFrames"} => Drained("audio")
    /\ dmx = "videoFrames" => packets["video"] = 0

\* The inductive invariant behind EofCutsOffLittle.
EofInv == PollsStand /\ EofCutsOffLittle
-----------------------------------------------------------------------------
\* What start() leaves satisfies the bounds.
LEMMA BoundsInit == PlaybackInit => BoundsInv
  BY PipelineAssumption DEF PlaybackInit, BoundsInv, PlaybackTypeOK, QueuesBounded, RoomKept, Kinds,
     DemuxPoints, Polled

\* Every step of the demuxer and of the threads of both channels keeps them.
LEMMA BoundsStep == BoundsInv /\ [PlaybackNext]_playbackVars => BoundsInv'
<1> SUFFICES ASSUME BoundsInv, [PlaybackNext]_playbackVars PROVE BoundsInv'
  OBVIOUS
<1> USE PipelineAssumption
    DEF BoundsInv, PlaybackTypeOK, QueuesBounded, RoomKept, Kinds, DemuxPoints, Polled,
        demuxVars, channelVars
<1>1. ASSUME UserStop PROVE BoundsInv'
  BY <1>1 DEF UserStop
<1>2. ASSUME DemuxTest PROVE BoundsInv'
  BY <1>2 DEF DemuxTest, Room
<1>3. ASSUME NEW k \in Kinds, DemuxPush(k) PROVE BoundsInv'
  BY <1>3 DEF DemuxPush
<1>4. ASSUME DemuxOther PROVE BoundsInv'
  BY <1>4 DEF DemuxOther
<1>5. ASSUME DemuxFails PROVE BoundsInv'
  BY <1>5 DEF DemuxFails
<1>6. ASSUME DemuxEof PROVE BoundsInv'
  BY <1>6 DEF DemuxEof
<1>7. ASSUME DemuxPoll PROVE BoundsInv'
  BY <1>7 DEF DemuxPoll, Following
<1>8. ASSUME DemuxEnd PROVE BoundsInv'
  BY <1>8 DEF DemuxEnd
<1>9. ASSUME DemuxJoinVideo PROVE BoundsInv'
  BY <1>9 DEF DemuxJoinVideo
<1>10. ASSUME DemuxJoinAudio PROVE BoundsInv'
  BY <1>10 DEF DemuxJoinAudio
<1>11. ASSUME NEW k \in Kinds, DecodeLoop(k) PROVE BoundsInv'
  BY <1>11 DEF DecodeLoop
<1>12. ASSUME NEW k \in Kinds, DecodePop(k) PROVE BoundsInv'
  BY <1>12 DEF DecodePop
<1>13. ASSUME NEW k \in Kinds, DecodeSend(k) PROVE BoundsInv'
  BY <1>13 DEF DecodeSend
<1>14. ASSUME NEW k \in Kinds, DecodeDies(k) PROVE BoundsInv'
  BY <1>14 DEF DecodeDies
<1>15. ASSUME AudioSetup PROVE BoundsInv'
  BY <1>15 DEF AudioSetup
<1>16. ASSUME AudioSetupFails PROVE BoundsInv'
  BY <1>16 DEF AudioSetupFails
<1>17. ASSUME NEW k \in Kinds, OutPop(k) PROVE BoundsInv'
  BY <1>17 DEF OutPop
<1>18. ASSUME NEW k \in Kinds, OutShow(k) PROVE BoundsInv'
  BY <1>18 DEF OutShow
<1>19. ASSUME OutLate PROVE BoundsInv'
  BY <1>19 DEF OutLate
<1>20. ASSUME AudioChainBreaks PROVE BoundsInv'
  BY <1>20 DEF AudioChainBreaks
<1>21. CASE UNCHANGED playbackVars
  BY <1>21 DEF playbackVars, demuxVars, channelVars
<1>22. QED
  BY <1>1, <1>2, <1>3, <1>4, <1>5, <1>6, <1>7, <1>8, <1>9, <1>10, <1>11, <1>12,
     <1>13, <1>14, <1>15, <1>16, <1>17, <1>18, <1>19, <1>20, <1>21
  DEF PlaybackNext, DemuxStep, DecodeStep, OutStep

\* The back-pressure of the demuxer and of decode() keeps all four queues within
\* one of their limits, whichever threads have died.
THEOREM QueuesAlwaysBounded == PlaybackSpec => []PipelineInv
<1>1. BoundsInv => PipelineInv
  BY DEF BoundsInv, PipelineInv
<1>2. QED
  BY BoundsInit, BoundsStep, <1>1, PTL DEF PlaybackSpec

-----------------------------------------------------------------------------
\* Nothing has been polled when playback begins.
LEMMA EofInit == PlaybackInit => EofInv
  BY DEF PlaybackInit, EofInv, PollsStand, EofCutsOffLittle, Polled

\* Every step keeps what the polls have established.
LEMMA EofStep == BoundsInv /\ EofInv /\ [PlaybackNext]_playbackVars => EofInv'
<1> SUFFICES ASSUME BoundsInv, EofInv, [PlaybackNext]_playbackVars PROVE EofInv'
  OBVIOUS
<1> USE PipelineAssumption
    DEF BoundsInv, PlaybackTypeOK, EofInv, PollsStand, EofCutsOffLittle, Drained, InFlight,
        Kinds, DemuxPoints, Polled, demuxVars, channelVars
<1>1. ASSUME UserStop PROVE EofInv'
  BY <1>1 DEF UserStop
<1>2. ASSUME DemuxTest PROVE EofInv'
  BY <1>2 DEF DemuxTest
<1>3. ASSUME NEW k \in Kinds, DemuxPush(k) PROVE EofInv'
  BY <1>3 DEF DemuxPush
<1>4. ASSUME DemuxOther PROVE EofInv'
  BY <1>4 DEF DemuxOther
<1>5. ASSUME DemuxFails PROVE EofInv'
  BY <1>5 DEF DemuxFails
<1>6. ASSUME DemuxEof PROVE EofInv'
  BY <1>6 DEF DemuxEof
<1>7. ASSUME DemuxPoll PROVE EofInv'
  BY <1>7 DEF DemuxPoll, Following
<1>8. ASSUME DemuxEnd PROVE EofInv'
  BY <1>8 DEF DemuxEnd
<1>9. ASSUME DemuxJoinVideo PROVE EofInv'
  BY <1>9 DEF DemuxJoinVideo
<1>10. ASSUME DemuxJoinAudio PROVE EofInv'
  BY <1>10 DEF DemuxJoinAudio
<1>11. ASSUME NEW k \in Kinds, DecodeLoop(k) PROVE EofInv'
  BY <1>11 DEF DecodeLoop
<1>12. ASSUME NEW k \in Kinds, DecodePop(k) PROVE EofInv'
  BY <1>12 DEF DecodePop
<1>13. ASSUME NEW k \in Kinds, DecodeSend(k) PROVE EofInv'
  BY <1>13 DEF DecodeSend
<1>14. ASSUME NEW k \in Kinds, DecodeDies(k) PROVE EofInv'
  BY <1>14 DEF DecodeDies
<1>15. ASSUME AudioSetup PROVE EofInv'
  BY <1>15 DEF AudioSetup
<1>16. ASSUME AudioSetupFails PROVE EofInv'
  BY <1>16 DEF AudioSetupFails
<1>17. ASSUME NEW k \in Kinds, OutPop(k) PROVE EofInv'
  BY <1>17 DEF OutPop
<1>18. ASSUME NEW k \in Kinds, OutShow(k) PROVE EofInv'
  BY <1>18 DEF OutShow
<1>19. ASSUME OutLate PROVE EofInv'
  BY <1>19 DEF OutLate
<1>20. ASSUME AudioChainBreaks PROVE EofInv'
  BY <1>20 DEF AudioChainBreaks
<1>21. CASE UNCHANGED playbackVars
  BY <1>21 DEF playbackVars, demuxVars, channelVars
<1>22. QED
  BY <1>1, <1>2, <1>3, <1>4, <1>5, <1>6, <1>7, <1>8, <1>9, <1>10, <1>11, <1>12,
     <1>13, <1>14, <1>15, <1>16, <1>17, <1>18, <1>19, <1>20, <1>21
  DEF PlaybackNext, DemuxStep, DecodeStep, OutStep

\* The end of the media cuts off at most what decode() and the output have in
\* hand: no packet is still queued and at most two items of a stream are under
\* way when the demuxer leaves its loop, or at any time after it.
THEOREM EofAlwaysCutsOffLittle == PlaybackSpec => []EofCutsOffLittle
<1>1. EofInv => EofCutsOffLittle
  BY DEF EofInv
<1>2. QED
  BY BoundsInit, BoundsStep, EofInit, EofStep, <1>1, PTL DEF PlaybackSpec
=============================================================================
