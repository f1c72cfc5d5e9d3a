----------------------------- MODULE MCPlayback -----------------------------
(* Playback on a small instance: two requests, a clock of half ticks.        *)
EXTENDS Playback

CONSTANTS r1, r2

=============================================================================
