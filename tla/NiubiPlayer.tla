---------------------------- MODULE NiubiPlayer -----------------------------
(***************************************************************************)
(* player/NiubiPlayer.cpp with its JNI entry points (app_liveplayer.cpp):  *)
(* the life of one player object.  Four threads work on it: the UI thread  *)
(* (onResume: prepare, onStop: stop, onDestroy: release), the thread of    *)
(* init_prepare, which also runs start() from the onPrepare callback, the  *)
(* thread of init_start (the demuxer) and the thread of init_stop.         *)
(*                                                                         *)
(* A channel is its life only; VideoChannel.tla and AudioChannel.tla have  *)
(* the rest, and show that a channel's stop() returns.  Which packet the   *)
(* demuxer reads and whether the queues have run empty is nondeterministic.*)
(* A null pointer that is dereferenced ends the process; an access to the  *)
(* deleted player ends it or works on the memory that is still there.      *)
(***************************************************************************)
EXTENDS Naturals, Player

CONSTANT Media  \* the sets of streams that media may have

\* A stream of another kind, subtitles say, gets a decoder but no channel.
Streams == Kinds \cup {"other"}

ASSUME MediaAssumption == Media \subseteq SUBSET Streams

VARIABLES ui,         \* where the UI thread is
          handle,     \* LibraLivePlayer.playerHandle is the player, not 0
          deleted,    \* the player has been deleted
          pre,        \* where task_init_prepare is
          play,       \* where task_init_start is
          stp,        \* where task_init_stop is
          callHelper, \* the helper: "set", "lost" (pointer 0, not freed), "freed"
          media,      \* streams of the source
          scanned,    \* streams init_prepare has looked at
          channel,    \* channel[k]: "none", "ready", "started", "stopped", "deleted"
          codec,      \* codec[k]: stream k's AVCodecContext: "none", "open", "freed"
          format,     \* formatContext: "none", "open", "closed"
          fault       \* what ended the process

uiVars == <<ui, handle, deleted>>
fields == <<isPlaying, callHelper, channel, codec, format>>
vars == <<uiVars, pre, play, stp, fields, media, scanned, fault>>

Init ==
    /\ ui = "new" /\ handle = FALSE /\ deleted = FALSE
    /\ pre = "none" /\ play = "none" /\ stp = "none"
    /\ isPlaying = FALSE /\ callHelper = "set"
    /\ media \in Media /\ scanned = {}
    /\ channel = [k \in Kinds |-> "none"]
    /\ codec = [k \in Streams |-> "none"]
    /\ format = "none"
    /\ fault = "none"

-----------------------------------------------------------------------------
(* The UI thread. *)

\* native_prepare: new NiubiPlayer, prepare() creates the thread.
Prepare ==
    /\ ui = "new"
    /\ ui' = "preparing"
    /\ pre' = "open"
    /\ UNCHANGED <<handle, deleted, play, stp, fields, media, scanned, fault>>

\* native_prepare returns and playerHandle is assigned.
PrepareReturns ==
    /\ ui = "preparing"
    /\ ui' = "prepared"
    /\ handle' = TRUE
    /\ UNCHANGED <<deleted, pre, play, stp, fields, media, scanned, fault>>

\* stop(): isPlaying = 0 ...
Stop ==
    /\ ui = "prepared"
    /\ isPlaying' = FALSE
    /\ ui' = "stopping"
    /\ UNCHANGED <<handle, deleted, pre, play, stp, callHelper, channel, codec, format, media,
                   scanned, fault>>

\* ... callHelper = 0, and the thread of init_stop is created.
StopSpawn ==
    /\ ui = "stopping"
    /\ callHelper' = "lost"
    /\ stp' = "pre"
    /\ ui' = "stopped"
    /\ UNCHANGED <<handle, deleted, pre, play, isPlaying, channel, codec, format, media, scanned,
                   fault>>

\* DELETE(callHelper): does nothing for 0.
HelperDeleted == IF callHelper = "set" THEN "freed" ELSE callHelper

\* native_release deletes the player, and the destructor its callHelper.
Release ==
    /\ ui = "stopped"
    /\ deleted' = TRUE
    /\ callHelper' = HelperDeleted
    /\ ui' = "releasing"
    /\ UNCHANGED <<handle, pre, play, stp, isPlaying, channel, codec, format, media, scanned,
                   fault>>

\* native_release returns and playerHandle is set to 0.
ReleaseReturns ==
    /\ ui = "releasing"
    /\ handle' = FALSE
    /\ ui' = "released"
    /\ UNCHANGED <<deleted, pre, play, stp, fields, media, scanned, fault>>

-----------------------------------------------------------------------------
(* init_prepare, and start() in the onPrepare callback. *)

\* avformat_open_input; when it fails the context is gone.
PreOpen ==
    /\ pre = "open"
    /\ \/ format' = "open" /\ pre' = "info"
       \/ pre' = "error" /\ UNCHANGED format
    /\ UNCHANGED <<uiVars, play, stp, isPlaying, callHelper, channel, codec, media, scanned,
                   fault>>

\* avformat_find_stream_info; a failure is reported, and that is all.
PreInfo ==
    /\ pre = "info"
    /\ pre' \in {"streams", "infoError"}
    /\ UNCHANGED <<uiVars, play, stp, fields, media, scanned, fault>>

\* callHelper->onError through a null pointer ends the process.
PreError ==
    /\ pre \in {"error", "infoError"}
    /\ \/ /\ callHelper = "set"
          /\ pre' = IF pre = "error" THEN "done" ELSE "streams"
          /\ UNCHANGED fault
       \/ callHelper # "set" /\ fault' = "callHelper" /\ UNCHANGED pre
    /\ UNCHANGED <<uiVars, play, stp, fields, media, scanned>>

\* One turn of the loop over the streams: a decoder is found, its context made and
\* opened and the channel created, which takes the context over.  Any of it may
\* fail, and init_prepare gives up; a context that was made stays.
PreStream(k) ==
    /\ pre = "streams"
    /\ k \in media \ scanned
    /\ scanned' = scanned \cup {k}
    /\ \/ pre' = "error" /\ UNCHANGED <<channel, codec>>
       \/ pre' = "error" /\ codec' = [codec EXCEPT ![k] = "open"] /\ UNCHANGED channel
       \/ /\ codec' = [codec EXCEPT ![k] = "open"]
          /\ channel' = [j \in Kinds |-> IF j = k THEN "ready" ELSE channel[j]]
          /\ UNCHANGED pre
    /\ UNCHANGED <<uiVars, play, stp, isPlaying, callHelper, format, media, fault>>

\* No channel at all is an error.
PreCheck ==
    /\ pre = "streams"
    /\ scanned = media
    /\ pre' = IF \A k \in Kinds : channel[k] = "none" THEN "error" ELSE "call"
    /\ UNCHANGED <<uiVars, play, stp, fields, media, scanned, fault>>

\* callHelper->onPrepare: the listener is called.
PreOnPrepare ==
    /\ pre = "call"
    /\ \/ callHelper = "set" /\ pre' = "prepared" /\ UNCHANGED fault
       \/ callHelper # "set" /\ fault' = "callHelper" /\ UNCHANGED <<pre>>
    /\ UNCHANGED <<uiVars, play, stp, fields, media, scanned>>

\* The listener calls native_start: nothing for handle 0, else start() sets isPlaying.
PreStart ==
    /\ pre = "prepared"
    /\ isPlaying' = (handle \/ isPlaying)
    /\ pre' = IF handle THEN "startVideo" ELSE "done"
    /\ UNCHANGED <<uiVars, play, stp, callHelper, channel, codec, format, media, scanned,
                   fault>>

\* start(): a channel that exists is started.
StartChannel(k, at, next) ==
    /\ pre = at
    /\ channel' = [channel EXCEPT ![k] = IF @ = "ready" THEN "started" ELSE @]
    /\ pre' = next
    /\ UNCHANGED <<uiVars, play, stp, isPlaying, callHelper, codec, format, media,
                   scanned, fault>>

StartVideo == StartChannel("video", "startVideo", "startAudio")
StartAudio == StartChannel("audio", "startAudio", "spawn")

\* start() creates the thread of init_start; this also ends init_prepare.
SpawnPlay ==
    /\ pre = "spawn"
    /\ play' = "loop"
    /\ pre' = "done"
    /\ UNCHANGED <<uiVars, stp, fields, media, scanned, fault>>

-----------------------------------------------------------------------------
(* init_start. *)

\* Mutant of PlayLoop: isPlaying is not looked at.
PlayLoopForever ==
    /\ play = "loop"
    /\ play' = "read"
    /\ UNCHANGED <<uiVars, pre, stp, fields, media, scanned, fault>>

\* The loop test; waiting for a full queue is part of not moving on.
PlayLoop ==
    /\ play = "loop"
    /\ play' = IF isPlaying THEN "read" ELSE "finished"
    /\ UNCHANGED <<uiVars, pre, stp, fields, media, scanned, fault>>

\* av_read_frame: a packet for one of the channels or for none, the end, an error.
PlayRead ==
    /\ play = "read"
    /\ play' \in {"loop", "eof", "finished"}
    /\ UNCHANGED <<uiVars, pre, stp, fields, media, scanned, fault>>

\* At the end: audio's queues and then video's are looked at, both pointers used
\* unseen; when all four are empty the loop ends.
PlayEof ==
    /\ play = "eof"
    /\ \/ channel["audio"] = "none" /\ fault' = "channel" /\ UNCHANGED play
       \/ channel["audio"] # "none" /\ play' = "loop" /\ UNCHANGED fault
       \/ channel["audio"] # "none" /\ channel["video"] = "none"
          /\ fault' = "channel" /\ UNCHANGED play
       \/ (\A k \in Kinds : channel[k] # "none") /\ play' = "finished" /\ UNCHANGED fault
    /\ UNCHANGED <<uiVars, pre, stp, fields, media, scanned>>

\* isPlaying = 0 after the loop.
PlayFinished ==
    /\ play = "finished"
    /\ isPlaying' = FALSE
    /\ play' = "stopVideo"
    /\ UNCHANGED <<uiVars, pre, stp, callHelper, channel, codec, format, media, scanned,
                   fault>>

\* The channels are stopped, whether they exist or not.
StopChannel(k, at, next) ==
    /\ play = at
    /\ \/ /\ channel[k] = "none"
          /\ fault' = "channel"
          /\ UNCHANGED <<play, channel>>
       \/ /\ channel[k] # "none"
          /\ channel' = [channel EXCEPT ![k] = "stopped"]
          /\ play' = next
          /\ UNCHANGED fault
    /\ UNCHANGED <<uiVars, pre, stp, isPlaying, callHelper, codec, format, media, scanned>>

StopVideo == StopChannel("video", "stopVideo", "stopAudio")

\* Mutant of StopAudio: the audio channel is not stopped.
StopAudioForgotten ==
    /\ play = "stopAudio"
    /\ play' = "done"
    /\ UNCHANGED <<uiVars, pre, stp, fields, media, scanned, fault>>

StopAudio == StopChannel("audio", "stopAudio", "done")

-----------------------------------------------------------------------------
\* The render thread of a video channel reads the audio channel's clock, through
\* the pointer start() gave it.
RenderAudioClock ==
    /\ channel["video"] = "started"
    /\ channel["audio"] = "none"
    /\ fault' = "channel"
    /\ UNCHANGED <<uiVars, pre, play, stp, fields, media, scanned>>

-----------------------------------------------------------------------------
(* init_stop. *)

\* Mutant of JoinPre: init_stop does not wait for init_prepare.
JoinPreForgotten ==
    /\ stp = "pre"
    /\ stp' = "play"
    /\ UNCHANGED <<uiVars, pre, play, fields, media, scanned, fault>>

\* pthread_join(pid_pre).
JoinPre ==
    /\ stp = "pre"
    /\ pre = "done"
    /\ stp' = "play"
    /\ UNCHANGED <<uiVars, pre, play, fields, media, scanned, fault>>

\* Mutant of JoinPlay: init_stop does not wait for init_start.
JoinPlayForgotten ==
    /\ stp = "play"
    /\ stp' = "channels"
    /\ UNCHANGED <<uiVars, pre, play, fields, media, scanned, fault>>

\* pthread_join(pid_play), which returns at once when there is no such thread.
JoinPlay ==
    /\ stp = "play"
    /\ play \in {"none", "done"}
    /\ stp' = "channels"
    /\ UNCHANGED <<uiVars, pre, play, fields, media, scanned, fault>>

\* DELETE of the channels that exist, each with its codec context, and of callHelper.
DeleteChannels ==
    /\ stp = "channels"
    /\ channel' = [k \in Kinds |-> IF channel[k] = "none" THEN "none" ELSE "deleted"]
    /\ codec' = [k \in Streams |->
                     IF k \in Kinds /\ channel[k] # "none" THEN "freed" ELSE codec[k]]
    /\ callHelper' = HelperDeleted
    /\ stp' = "format"
    /\ UNCHANGED <<uiVars, pre, play, isPlaying, format, media, scanned,
                   fault>>

\* releaseFormatContext.
ReleaseFormatContext ==
    /\ stp = "format"
    /\ format' = IF format = "open" THEN "closed" ELSE format
    /\ stp' = "done"
    /\ UNCHANGED <<uiVars, pre, play, isPlaying, callHelper, channel, codec, media, scanned,
                   fault>>

-----------------------------------------------------------------------------
UiStep ==
    \/ Prepare \/ PrepareReturns \/ Stop \/ StopSpawn \/ Release \/ ReleaseReturns

PreStep ==
    \/ PreOpen \/ PreInfo \/ PreError \/ (\E k \in Streams : PreStream(k)) \/ PreCheck
    \/ PreOnPrepare \/ PreStart \/ StartVideo \/ StartAudio \/ SpawnPlay

PlayStep == PlayLoop \/ PlayRead \/ PlayEof \/ PlayFinished \/ StopVideo \/ StopAudio

StopStep == JoinPre \/ JoinPlay \/ DeleteChannels \/ ReleaseFormatContext

\* The deleted player is used: by init_prepare and init_start wherever they
\* are, by init_stop unless it is blocked in a join.
PlayerUsed ==
    \/ pre \notin {"none", "prepared", "done"}
    \/ play \notin {"none", "done"}
    \/ stp = "pre" /\ pre = "done"
    \/ stp = "play" /\ play \in {"none", "done"}
    \/ stp \in {"channels", "format"}

UseDeleted ==
    /\ deleted
    /\ PlayerUsed
    /\ fault' = "deleted"
    /\ UNCHANGED <<uiVars, pre, play, stp, fields, media, scanned>>

\* The process has ended, or nobody has anything left to do.
Over ==
    /\ fault # "none" \/ ui = "released"
    /\ UNCHANGED vars

Next ==
    \/ /\ fault = "none"
       /\ UiStep \/ PreStep \/ PlayStep \/ RenderAudioClock \/ StopStep \/ UseDeleted
    \/ Over

Spec == Init /\ [][Next]_vars

\* The threads run.  Whether the user leaves the activity is open, but the UI
\* thread does not stay inside native_prepare, stop or native_release.
Fairness ==
    /\ WF_vars(fault = "none" /\ (PrepareReturns \/ StopSpawn \/ ReleaseReturns))
    /\ WF_vars(fault = "none" /\ PreStep)
    /\ WF_vars(fault = "none" /\ PlayStep)
    /\ WF_vars(fault = "none" /\ StopStep)

FairSpec == Spec /\ Fairness

-----------------------------------------------------------------------------
(* Properties. *)

\* The type invariant.
TypeOK ==
    /\ ui \in {"new", "preparing", "prepared", "stopping", "stopped", "releasing", "released"}
    /\ handle \in BOOLEAN /\ deleted \in BOOLEAN /\ isPlaying \in BOOLEAN
    /\ pre \in {"none", "open", "info", "infoError", "error", "streams", "call", "prepared",
                "startVideo", "startAudio", "spawn", "done"}
    /\ play \in {"none", "loop", "read", "eof", "finished", "stopVideo", "stopAudio", "done"}
    /\ stp \in {"none", "pre", "play", "channels", "format", "done"}
    /\ callHelper \in {"set", "lost", "freed"}
    /\ media \in SUBSET Streams /\ scanned \in SUBSET media
    /\ channel \in [Kinds -> {"none", "ready", "started", "stopped", "deleted"}]
    /\ codec \in [Streams -> {"none", "open", "freed"}]
    /\ format \in {"none", "open", "closed"}
    /\ fault \in {"none", "callHelper", "channel", "deleted"}

\* init_stop deletes no channel and closes no context that the preparing or the
\* demuxing thread can still use, although stop() waits for neither.
NothingFreedInUse ==
    (format = "closed" \/ \E k \in Kinds : channel[k] = "deleted") =>
        pre = "done" /\ play \in {"none", "done"}

\* A channel whose threads run is not deleted under them: between start() and
\* the deletion there is always the channel's stop().
StoppedBeforeDeleted ==
    [][\A k \in Kinds : channel[k] = "started" => channel'[k] # "deleted"]_vars

\* When init_stop is through, wherever init_prepare was when stop() came, the format
\* context is closed and every channel deleted, and with it the codec context it was
\* given.  Of those that no channel was made for one of an audio or video stream can
\* be left, of the stream init_prepare gave up at, and then nothing was played.
StopReleasesMedia ==
    stp = "done" =>
        /\ format # "open"
        /\ \A k \in Kinds :
            /\ channel[k] \in {"none", "deleted"}
            /\ channel[k] = "deleted" <=> codec[k] = "freed"
            /\ codec[k] = "open" =>
                play = "none" /\ \A j \in Kinds \ {k} : codec[j] # "open"

\* A stop() that comes when init_prepare and start() are over is carried through:
\* the demuxer ends, the channels are stopped, init_stop returns.  It may end in
\* a fault instead: the player is deleted under its threads, or, with a single
\* stream only, the channel that is not there is used.
StopAfterStartReturns ==
    (stp = "pre" /\ pre = "done" /\ ~isPlaying)
        ~> (stp = "done" \/ fault = "deleted" \/ (fault = "channel" /\ ~(Kinds \subseteq media)))

\* "保证 start 线程结束" (NiubiPlayer.cpp:259): once stop() has been called, the
\* start thread ends and init_stop gets past its joins.
StartThreadEnds == (stp = "pre") ~> (stp = "done" \/ fault # "none")
=============================================================================
