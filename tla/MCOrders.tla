------------------------------ MODULE MCOrders ------------------------------
(***************************************************************************)
(* Instances of Orders for TLC: two calls of one tenant cancel the order   *)
(* that a third makes, one call of another tenant tries to, and a reader   *)
(* of the tenant looks at it.                                              *)
(***************************************************************************)
EXTENDS Orders

CONSTANTS o1, cancel1, cancel2, stranger, reader, tenantA, tenantB

MCTarget == [c \in Canceller \cup Reader |-> o1]
MCTenantOf == [c \in Call |-> IF c = stranger THEN tenantB ELSE tenantA]
=============================================================================
