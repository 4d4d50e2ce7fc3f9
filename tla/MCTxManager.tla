---------------------------- MODULE MCTxManager ----------------------------
(***************************************************************************)
(* Instances of TxManager for TLC.  Two calls share one connection: the    *)
(* first has a tenant, the second has none and would see what the first    *)
(* left on the session.                                                    *)
(***************************************************************************)
EXTENDS TxManager

CONSTANTS request, system, tenantA

MCTenantOf == [p \in {request, system} |-> IF p = request THEN tenantA ELSE NoTenant]
=============================================================================
