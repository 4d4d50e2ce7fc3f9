---------------------------- MODULE MCCacheEngine ----------------------------
(***************************************************************************)
(* Instances of CacheEngine for TLC: two fetches and a writer on one node, *)
(* a fetch on another.                                                     *)
(***************************************************************************)
EXTENDS CacheEngine

CONSTANTS n1, n2, f1, f2, f3, w1

MCNodeOf == [p \in Fetch \cup Writer |-> IF p = f3 THEN n2 ELSE n1]
=============================================================================
