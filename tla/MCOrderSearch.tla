---------------------------- MODULE MCOrderSearch ----------------------------
(***************************************************************************)
(* An instance of OrderSearch for TLC: three orders of one tenant and one  *)
(* client, who walks over all orders or over the pending ones, a page of   *)
(* one order at a time or of the default size.                             *)
(***************************************************************************)
EXTENDS OrderSearch, TLC

CONSTANTS o1, o2, o3, client

MCTenantOf == [x \in {o1, o2, o3, client} |-> 1]
MCUserOf == [o \in {o1, o2, o3} |-> 1]
MCTotalOf == [o \in {o1, o2, o3} |-> 1]

Ask(s, u, min, max, n) == [status |-> s, user |-> u, min |-> min, max |-> max, limit |-> n]
MCRequest ==
  { Ask(Unset, Unset, 0, 1, 1), Ask("pending", 1, 1, 0, 1), Ask("pending", Unset, 0, 0, 0) }
Sym == Permutations({o1, o2, o3})
=============================================================================
