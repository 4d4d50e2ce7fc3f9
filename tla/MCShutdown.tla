------------------------------ MODULE MCShutdown ------------------------------
(***************************************************************************)
(* Instance of Shutdown for TLC: a process with an HTTP server and both    *)
(* kinds of workers, timeouts in the code's order but shorter.             *)
(***************************************************************************)
EXTENDS Shutdown

CONSTANTS r1, j1, t1
=============================================================================
