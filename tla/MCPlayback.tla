----------------------------- MODULE MCPlayback -----------------------------
(* PlaybackSession for TLC.                                                *)
EXTENDS PlaybackSession
=============================================================================
