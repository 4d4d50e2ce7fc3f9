----------------------------- MODULE MCResilience -----------------------------
(***************************************************************************)
(* An instance of Resilience for TLC: two callers, one retry, both orders  *)
(* of the policies, and a half open breaker that closes after one success, *)
(* after two, or by the failure threshold.                                 *)
(***************************************************************************)
EXTENDS Resilience

MCPolicies ==
  [outer : {"retry", "breaker"}, failureThreshold : {2},
   successThreshold : 0 .. 2, maxRetries : {1}]
=============================================================================
