--------------------------- MODULE MCEventPipeline ---------------------------
(***************************************************************************)
(* Instances of EventPipeline for TLC.                                     *)
(***************************************************************************)
EXTENDS EventPipeline

CONSTANTS e1, e2, w1, w2
=============================================================================
