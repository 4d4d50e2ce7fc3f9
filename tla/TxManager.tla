------------------------------ MODULE TxManager ------------------------------
(***************************************************************************)
(* database.TxManager.RunInTx: transactions bound to a context, nested     *)
(* calls as savepoints, rollback detached from the request's cancellation, *)
(* and the tenant of the request set on the session of the root            *)
(* transaction.  Several goroutines share the connection pool.             *)
(*                                                                         *)
(* Each process makes one outermost call.  Its fn is arbitrary: it         *)
(* executes statements, calls RunInTx again, swallows errors or returns    *)
(* them, or panics.  pgx and PostgreSQL are external and modelled by what  *)
(* RunInTx relies on: a failed statement aborts the transaction, rolling   *)
(* back to a savepoint revives it, COMMIT of an aborted transaction rolls  *)
(* back and reports an error, a statement whose context is done before it  *)
(* is sent is not sent, one interrupted on the wire costs the connection,  *)
(* and a transaction handle whose Commit was tried is closed: a later      *)
(* Rollback of it does nothing.                                            *)
(***************************************************************************)
EXTENDS Naturals, Sequences, SequencesExt

CONSTANTS
  Proc,           \* goroutines: request handlers and task workers
  Conn,           \* slots of the connection pool
  NoConn,
  Tenant,
  NoTenant,       \* the empty tenant: no set_config is executed
  TenantOf,       \* TenantOf[p]: the tenant in the context of p's call
  MaxDepth,       \* bound: RunInTx calls nested in each other
  MaxStmts,       \* bound: statements fn issues, savepoints included
  NestedTimeouts  \* TRUE: a nested call may have a deadline of its own

ASSUME ConnAssumption == NoConn \notin Conn
ASSUME BoundAssumption == MaxDepth \in Nat \ {0} /\ MaxStmts \in Nat
ASSUME TenantAssumption == TenantOf \in [Proc -> Tenant \cup {NoTenant}]
ASSUME TimeoutAssumption == NestedTimeouts \in BOOLEAN

VARIABLES
  pc,      \* pc[p]: where p is in RunInTx; "rollback" and "unwind" run the
           \* deferred function of the innermost call, after an error or a panic
  stack,   \* stack[p]: the open calls of p, outermost first
  cut,     \* cut[p]: the outermost open call whose context is done, or 0
  conn,    \* conn[p]: the connection p holds
  issued,  \* issued[p]: statements p's fn has issued
  result,  \* result[p]: what the outermost call returned
  tx,      \* tx[c]: what the server knows of the transaction on slot c
  db       \* committed statements

vars == <<pc, stack, cut, conn, issued, result, tx, db>>

Tenants == Tenant \cup {NoTenant}

\* A statement: who executed it, which one, and the session's tenant then.
Stmt == [p \in Proc |-> [proc : {p}, n : 1 .. MaxStmts, tenant : Tenants]]
AllStmts == UNION {Stmt[p] : p \in Proc}

\* A call of RunInTx: what the transaction held when its savepoint was set,
\* and what the call's fn was told has been done since.
Frame == [mark : SUBSET AllStmts, acc : SUBSET AllStmts]

\* A slot's transaction: open, aborted by a failed statement, or dead with
\* its connection; pending is what COMMIT would apply.
Transaction == [status : {"idle", "open", "aborted", "dead"},
                pending : SUBSET AllStmts, tenant : Tenants]
Fresh == [status |-> "idle", pending |-> {}, tenant |-> NoTenant]

Depth(p) == Len(stack[p])
\* The context of p's i-th open call is not done.
Live(p, i) == cut[p] = 0 \/ i < cut[p]
Tx(p) == tx[conn[p]]
Free(c) == \A p \in Proc : conn[p] # c

Init ==
  /\ pc = [p \in Proc |-> "begin"]
  /\ stack = [p \in Proc |-> <<>>]
  /\ cut = [p \in Proc |-> 0]
  /\ conn = [p \in Proc |-> NoConn]
  /\ issued = [p \in Proc |-> 0]
  /\ result = [p \in Proc |-> "none"]
  /\ tx = [c \in Conn |-> Fresh]
  /\ db = {}

-----------------------------------------------------------------------------
\* Mutants: the setting outlives the transaction; it is reset to no tenant's
\* value.
SettingAfterTxSessionWide(t) == t
SettingAfterTxUnknown(t) == "unknown"

\* What set_config(name, value, is_local) leaves on the session when the
\* transaction ends: the third argument is true, so nothing.
SettingAfterTx(t) == NoTenant

\* The slot after ROLLBACK or COMMIT; a dead connection is replaced.
AfterTx(t) == IF t.status = "dead" THEN Fresh
              ELSE [Fresh EXCEPT !.tenant = SettingAfterTx(t.tenant)]

\* What a statement that fails in p's innermost call can leave behind.
FailedStatus(p) ==
  IF Live(p, Depth(p)) /\ Tx(p).status # "dead" THEN {"aborted", "dead"}
  ELSE {Tx(p).status}

SetStatus(p, s) == tx' = [tx EXCEPT ![conn[p]].status = s]

\* The innermost call of p returns, and with it a deadline of its own.
Leave(p, s) ==
  /\ stack' = [stack EXCEPT ![p] = s]
  /\ cut' = [cut EXCEPT ![p] = IF @ = Depth(p) THEN 0 ELSE @]

\* The outermost call of p returns r and gives its connection back.
Return(p, r) ==
  /\ tx' = [tx EXCEPT ![conn[p]] = AfterTx(@)]
  /\ conn' = [conn EXCEPT ![p] = NoConn]
  /\ result' = [result EXCEPT ![p] = r]
  /\ pc' = [pc EXCEPT ![p] = "done"]
  /\ UNCHANGED <<stack, cut, issued>>

-----------------------------------------------------------------------------
\* pool.Begin: wait for a slot, then BEGIN.
BeginRoot(p) ==
  /\ pc[p] = "begin" /\ Live(p, 1)
  /\ \E c \in Conn :
       /\ Free(c)
       /\ conn' = [conn EXCEPT ![p] = c]
       /\ tx' = [tx EXCEPT ![c].status = "open"]
  /\ stack' = [stack EXCEPT ![p] = <<[mark |-> {}, acc |-> {}]>>]
  /\ pc' = [pc EXCEPT ![p] = "setTenant"]
  /\ UNCHANGED <<cut, issued, result, db>>

\* The context is done while waiting, or BEGIN fails on the slot.
BeginFails(p) ==
  /\ pc[p] = "begin"
  /\ ~Live(p, 1) \/ \E c \in Conn : Free(c)
  /\ pc' = [pc EXCEPT ![p] = "done"]
  /\ result' = [result EXCEPT ![p] = "err"]
  /\ UNCHANGED <<stack, cut, conn, issued, tx, db>>

\* The TenantSetter hook, tenant.SetTenantSession.
SetTenantSession(p) ==
  /\ pc[p] = "setTenant"
  /\ \/ TenantOf[p] = NoTenant /\ UNCHANGED tx
     \/ /\ TenantOf[p] # NoTenant /\ Live(p, 1) /\ Tx(p).status = "open"
        /\ tx' = [tx EXCEPT ![conn[p]].tenant = TenantOf[p]]
  /\ pc' = [pc EXCEPT ![p] = "fn"]
  /\ UNCHANGED <<stack, cut, conn, issued, result, db>>

SetTenantSessionFails(p) ==
  /\ pc[p] = "setTenant" /\ TenantOf[p] # NoTenant
  /\ \E s \in FailedStatus(p) : SetStatus(p, s)
  /\ pc' = [pc EXCEPT ![p] = "rollback"]
  /\ UNCHANGED <<stack, cut, conn, issued, result, db>>

\* fn executes a statement on the handle GetDB returns.
Exec(p) ==
  /\ pc[p] = "fn" /\ issued[p] < MaxStmts
  /\ Live(p, Depth(p)) /\ Tx(p).status = "open"
  /\ LET s == [proc |-> p, n |-> issued[p] + 1, tenant |-> Tx(p).tenant]
     IN  /\ tx' = [tx EXCEPT ![conn[p]].pending = @ \cup {s}]
         /\ stack' = [stack EXCEPT ![p][Depth(p)].acc = @ \cup {s}]
  /\ issued' = [issued EXCEPT ![p] = @ + 1]
  /\ UNCHANGED <<pc, cut, conn, result, db>>

\* A statement or SAVEPOINT of fn fails; fn may go on.
ExecFails(p) ==
  /\ pc[p] = "fn" /\ issued[p] < MaxStmts
  /\ \E s \in FailedStatus(p) : SetStatus(p, s)
  /\ issued' = [issued EXCEPT ![p] = @ + 1]
  /\ UNCHANGED <<pc, stack, cut, conn, result, db>>

\* fn calls RunInTx with its own context: parentTx.Begin sets a savepoint.
BeginNested(p) ==
  /\ pc[p] = "fn" /\ issued[p] < MaxStmts /\ Depth(p) < MaxDepth
  /\ Live(p, Depth(p)) /\ Tx(p).status = "open"
  /\ stack' = [stack EXCEPT ![p] = Append(@, [mark |-> Tx(p).pending, acc |-> {}])]
  /\ issued' = [issued EXCEPT ![p] = @ + 1]
  /\ UNCHANGED <<pc, cut, conn, result, tx, db>>

\* The fn of the innermost call returns nil, returns an error, or panics.
FnReturns(p) ==
  /\ pc[p] = "fn"
  /\ \E next \in {"commit", "rollback", "unwind"} : pc' = [pc EXCEPT ![p] = next]
  /\ UNCHANGED <<stack, cut, conn, issued, result, tx, db>>

-----------------------------------------------------------------------------
\* The stack after the innermost call returned nil: what its fn was told
\* done is now done by the call around it.
Released(s) == [Front(s) EXCEPT ![Len(s) - 1].acc = @ \cup Last(s).acc]

\* nestedTx.Commit releases the savepoint.
ReleaseSavepoint(p) ==
  /\ pc[p] = "commit" /\ Depth(p) > 1
  /\ Live(p, Depth(p)) /\ Tx(p).status = "open"
  /\ Leave(p, Released(stack[p]))
  /\ pc' = [pc EXCEPT ![p] = "fn"]
  /\ UNCHANGED <<conn, issued, result, tx, db>>

\* It fails.  The handle is closed all the same, so the deferred Rollback
\* does nothing and the caller gets the error.
ReleaseFails(p) ==
  /\ pc[p] = "commit" /\ Depth(p) > 1
  /\ \E s \in FailedStatus(p) : SetStatus(p, s)
  /\ Leave(p, Front(stack[p]))
  /\ pc' = [pc EXCEPT ![p] = "fn"]
  /\ UNCHANGED <<conn, issued, result, db>>

\* What ROLLBACK TO SAVEPOINT leaves pending.
RestoredTo(frame) == frame.mark

\* Mutant: the rollback is not deferred, so a panic skips it.
RollbackPcsNotDeferred == {"rollback"}

\* The calls whose deferred function rolls back: all that did not commit.
RollbackPcs == {"rollback", "unwind"}

\* Mutant: an error of fn returns without a rollback.
RollbackNestedForgotten(p) ==
  /\ pc[p] \in RollbackPcs /\ Depth(p) > 1
  /\ Leave(p, Front(stack[p]))
  /\ pc' = [pc EXCEPT ![p] = IF @ = "rollback" THEN "fn" ELSE "unwind"]
  /\ UNCHANGED <<conn, issued, result, tx, db>>

\* The deferred nestedTx.Rollback, on a context detached from the request's:
\* it succeeds, or it runs into its own 2 seconds and costs the connection.
RollbackNested(p) ==
  /\ pc[p] \in RollbackPcs /\ Depth(p) > 1
  /\ \/ /\ Tx(p).status # "dead"
        /\ tx' = [tx EXCEPT ![conn[p]] =
                    [@ EXCEPT !.status = "open", !.pending = RestoredTo(Last(stack[p]))]]
     \/ SetStatus(p, "dead")
  /\ Leave(p, Front(stack[p]))
  /\ pc' = [pc EXCEPT ![p] = IF @ = "rollback" THEN "fn" ELSE "unwind"]
  /\ UNCHANGED <<conn, issued, result, db>>

\* tx.Commit of the root transaction.
CommitRoot(p) ==
  /\ pc[p] = "commit" /\ Depth(p) = 1
  /\ Live(p, 1) /\ Tx(p).status = "open"
  /\ db' = db \cup Tx(p).pending
  /\ Return(p, "ok")

\* Mutant: the answer ROLLBACK to a COMMIT is not taken for an error.
CommitRootFailsUnnoticed(p) ==
  /\ pc[p] = "commit" /\ Depth(p) = 1
  /\ Return(p, "ok")
  /\ UNCHANGED db

\* It fails: not sent, sent to an aborted transaction, or sent and the
\* answer lost, in which case the server may have committed.
CommitRootFails(p) ==
  /\ pc[p] = "commit" /\ Depth(p) = 1
  /\ \/ UNCHANGED db
     \/ Live(p, 1) /\ Tx(p).status = "open" /\ db' = db \cup Tx(p).pending
  /\ Return(p, "commitErr")

\* Mutant: the transaction is left as it is and nobody gives its slot back.
RollbackRootForgotten(p) ==
  /\ pc[p] \in RollbackPcs /\ Depth(p) = 1
  /\ pc' = [pc EXCEPT ![p] = "done"]
  /\ result' = [result EXCEPT ![p] = IF pc[p] = "rollback" THEN "err" ELSE "panic"]
  /\ UNCHANGED <<stack, cut, conn, issued, tx, db>>

\* The deferred tx.Rollback of the root.  Whether it succeeds or costs the
\* connection, the slot returns to the pool.
RollbackRoot(p) ==
  /\ pc[p] \in RollbackPcs /\ Depth(p) = 1
  /\ Return(p, IF pc[p] = "rollback" THEN "err" ELSE "panic")
  /\ UNCHANGED db

-----------------------------------------------------------------------------
\* The request is cancelled, or a nested call's own deadline passes.
CancelContext(p) ==
  /\ pc[p] # "done"
  /\ \E i \in {1} \cup (IF NestedTimeouts THEN 2 .. Depth(p) ELSE {}) :
       Live(p, i) /\ cut' = [cut EXCEPT ![p] = i]
  /\ UNCHANGED <<pc, stack, conn, issued, result, tx, db>>

Step(p) ==
  \/ BeginRoot(p) \/ BeginFails(p)
  \/ SetTenantSession(p) \/ SetTenantSessionFails(p)
  \/ Exec(p) \/ ExecFails(p) \/ BeginNested(p) \/ FnReturns(p)
  \/ ReleaseSavepoint(p) \/ ReleaseFails(p) \/ RollbackNested(p)
  \/ CommitRoot(p) \/ CommitRootFails(p) \/ RollbackRoot(p)

Next == \E p \in Proc : Step(p) \/ CancelContext(p)

Spec == Init /\ [][Next]_vars

\* A goroutine that can go on does: the Go scheduler is fair to it.
FairSpec == Spec /\ \A p \in Proc : WF_vars(Step(p))

-----------------------------------------------------------------------------
TypeOK ==
  /\ pc \in [Proc -> {"begin", "setTenant", "fn", "commit", "rollback", "unwind", "done"}]
  /\ stack \in [Proc -> Seq(Frame)]
  /\ cut \in [Proc -> Nat]
  /\ conn \in [Proc -> Conn \cup {NoConn}]
  /\ issued \in [Proc -> 0 .. MaxStmts]
  /\ result \in [Proc -> {"none", "ok", "err", "commitErr", "panic"}]
  /\ tx \in [Conn -> Transaction]
  /\ db \in SUBSET AllStmts

Committed(p) == {s \in db : s.proc = p}

\* RunInTx is atomic through nesting, swallowed errors, cancellation, panics
\* and lost connections: nil means exactly the statements of the calls that
\* returned nil are committed, an error or a panic that nothing is, and an
\* error of the commit itself that it is the one or the other.
AllOrNothing ==
  \A p \in Proc :
    /\ result[p] = "ok" => Committed(p) = stack[p][1].acc
    /\ result[p] = "commitErr" => Committed(p) \in {{}, stack[p][1].acc}
    /\ result[p] \in {"none", "err", "panic"} => Committed(p) = {}

\* Whatever connection a request is given and whoever used it before, what it
\* commits was executed under its own tenant's session setting, and a request
\* without a tenant under none (SetTenantSession, tenant.go).
OwnTenantOnly == \A s \in db : s.tenant = TenantOf[s.proc]

\* Two calls never share a connection; a call that returned holds none; and
\* the connection it gave back carries neither an open transaction nor
\* pending work nor a tenant into the next call.
PoolClean ==
  /\ \A p, q \in Proc : p # q /\ conn[p] # NoConn => conn[p] # conn[q]
  /\ \A p \in Proc : pc[p] = "done" => conn[p] = NoConn
  /\ \A c \in Conn : Free(c) => tx[c] = Fresh

\* RunInTx implements the promise of UnitOfWork: what its callers hold is
\* what the fn of each open call was told has been done.
Promise == INSTANCE UnitOfWork WITH
  work <- [p \in Proc |-> [i \in 1 .. Depth(p) |-> stack[p][i].acc]]
ImplementsUnitOfWork == Promise!Spec

\* With more callers than connections and callers that fail in every way,
\* each call of RunInTx returns: no connection is lost for good.
EveryCallReturns == \A p \in Proc : <>(pc[p] = "done")
=============================================================================
