------------------------------ MODULE MCMonitor ------------------------------
(* Monitor on a small instance: tasks and a worker that serves both.         *)
EXTENDS Monitor, TLC

CONSTANTS t1, t2, w1

=============================================================================
