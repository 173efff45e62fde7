---------------------------- MODULE MCLivePlayer ----------------------------
(* TLC instances of LivePlayer. *)
EXTENDS LivePlayer

\* Any combination of streams, and media with one audio and one video stream.
AnyMedia == SUBSET Streams
BothStreams == {Kinds}
=============================================================================
