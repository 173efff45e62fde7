------------------------------- MODULE Player -------------------------------
(***************************************************************************)
(* What NiubiPlayer.tla, the life of the player, and Pipeline.tla, its     *)
(* playback, have in common.                                               *)
(***************************************************************************)

\* The streams the player has a channel for.
Kinds == {"video", "audio"}

VARIABLE isPlaying  \* NiubiPlayer::isPlaying
=============================================================================
