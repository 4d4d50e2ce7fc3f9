------------------------------ MODULE MCStartup ------------------------------
(***************************************************************************)
(* Instance of Startup for TLC: a rolling deployment.  The API and        *)
(* `migrate up` are of the new release, the worker of the one before.      *)
(***************************************************************************)
EXTENDS Startup

CONSTANTS api, worker, cli

MCKnows == [p \in Procs |-> IF p = worker THEN Newest - 1 ELSE Newest]
=============================================================================
