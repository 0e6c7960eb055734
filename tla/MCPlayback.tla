----------------------------- MODULE MCPlayback -----------------------------
(* Instances of Playback for TLC: the configurations give the sizes. *)
EXTENDS Playback
=============================================================================
