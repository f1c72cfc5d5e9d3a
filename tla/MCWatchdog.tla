----------------------------- MODULE MCWatchdog -----------------------------
(* Watchdog on a small instance: two frames that may freeze the loop.        *)
EXTENDS Watchdog

CONSTANTS f1, f2

=============================================================================
