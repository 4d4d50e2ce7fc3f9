-------------------------- MODULE MCTenantLifecycle --------------------------
(***************************************************************************)
(* Instances of TenantLifecycle for TLC: two registrations of one address, *)
(* and a purge task enqueued twice.                                        *)
(***************************************************************************)
EXTENDS TenantLifecycle

CONSTANTS ann1, ann2, address

MCEmail == [r \in {ann1, ann2} |-> address]
=============================================================================
