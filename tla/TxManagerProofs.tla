--------------------------- MODULE TxManagerProofs ---------------------------
(***************************************************************************)
(* Theorems about TxManager for any number of processes, connections,      *)
(* tenants, nested calls and statements.                                   *)
(***************************************************************************)
EXTENDS TxManager, SequenceTheorems, TLAPS

\* The stack without its innermost call, and that call.
LEMMA FrontLast ==
  ASSUME NEW S, NEW s \in Seq(S), Len(s) > 0
  PROVE  /\ Front(s) \in Seq(S)
         /\ Len(Front(s)) = Len(s) - 1
         /\ \A i \in 1 .. Len(s) - 1 : Front(s)[i] = s[i]
         /\ Last(s) = s[Len(s)]
         /\ Last(s) \in S
<1>1. Len(s) \in Nat /\ s \in [1 .. Len(s) -> S]
  BY LenProperties
<1>2. \A i \in 1 .. Len(s) - 1 : s[i] \in S
  BY <1>1
<1>3. /\ SubSeq(s, 1, Len(s) - 1) \in Seq(S)
      /\ Len(SubSeq(s, 1, Len(s) - 1)) = IF 1 <= Len(s) - 1 THEN Len(s) - 1 - 1 + 1 ELSE 0
      /\ \A i \in 1 .. Len(s) - 1 - 1 + 1 : SubSeq(s, 1, Len(s) - 1)[i] = s[1 + i - 1]
  BY <1>1, <1>2, 1 \in Int, Len(s) - 1 \in Int, SubSeqProperties
<1> QED
  BY <1>1, <1>3 DEF Front, Last

\* Every statement p can execute is a statement.
LEMMA StmtOf ==
  ASSUME NEW p \in Proc, NEW n \in 1 .. MaxStmts, NEW t \in Tenants
  PROVE  [proc |-> p, n |-> n, tenant |-> t] \in AllStmts
<1>1. [proc |-> p, n |-> n, tenant |-> t] \in Stmt[p]
  BY DEF Stmt
<1> QED
  BY <1>1 DEF AllStmts

LEMMA ReleasedType ==
  ASSUME NEW s \in Seq(Frame), Len(s) > 1
  PROVE  /\ Released(s) \in Seq(Frame)
         /\ Len(Released(s)) = Len(s) - 1
         /\ Released(s)[Len(s) - 1].acc = s[Len(s) - 1].acc \cup s[Len(s)].acc
         /\ Released(s)[Len(s) - 1].mark = s[Len(s) - 1].mark
         /\ \A i \in 1 .. Len(s) - 2 : Released(s)[i] = s[i]
<1>1. /\ Front(s) \in Seq(Frame) /\ Len(Front(s)) = Len(s) - 1
      /\ \A i \in 1 .. Len(s) - 1 : Front(s)[i] = s[i]
      /\ Last(s) = s[Len(s)] /\ Last(s) \in Frame
  BY FrontLast
<1>2. Len(s) \in Nat /\ Len(s) - 1 \in 1 .. Len(Front(s))
  BY <1>1
<1>3. Front(s)[Len(s) - 1] \in Frame
  BY <1>1, <1>2
<1>4. [Front(s)[Len(s) - 1] EXCEPT !.acc = @ \cup Last(s).acc] \in Frame
  BY <1>1, <1>3 DEF Frame
<1>5. Released(s) = [Front(s) EXCEPT ![Len(s) - 1] =
                       [Front(s)[Len(s) - 1] EXCEPT !.acc = @ \cup Last(s).acc]]
  BY DEF Released
<1>6. Released(s) \in Seq(Frame) /\ Len(Released(s)) = Len(Front(s))
      /\ \A i \in 1 .. Len(Front(s)) :
           Released(s)[i] = IF i = Len(s) - 1
                            THEN [Front(s)[Len(s) - 1] EXCEPT !.acc = @ \cup Last(s).acc]
                            ELSE Front(s)[i]
  BY <1>1, <1>2, <1>4, <1>5, ExceptSeq
<1>7. Released(s)[Len(s) - 1] = [s[Len(s) - 1] EXCEPT !.acc = @ \cup s[Len(s)].acc]
  BY <1>1, <1>2, <1>6
<1>8. s[Len(s) - 1] \in Frame
  BY <1>1, <1>2, <1>3
<1>9. /\ Released(s)[Len(s) - 1].acc = s[Len(s) - 1].acc \cup s[Len(s)].acc
      /\ Released(s)[Len(s) - 1].mark = s[Len(s) - 1].mark
  BY <1>7, <1>8 DEF Frame
<1>10. \A i \in 1 .. Len(s) - 2 : Released(s)[i] = s[i]
  BY <1>1, <1>2, <1>6
<1> QED
  BY <1>1, <1>2, <1>6, <1>9, <1>10

-----------------------------------------------------------------------------
\* A call that has begun its root transaction and not returned.
Active(p) == pc[p] \notin {"begin", "done"}

\* The shape of a call: a connection exactly while it is active, an empty
\* stack before, one call on it while the tenant is set.
Shape ==
  \A p \in Proc :
    /\ Active(p) => conn[p] \in Conn /\ Depth(p) >= 1
    /\ ~Active(p) => conn[p] = NoConn
    /\ pc[p] = "begin" => stack[p] = <<>>
    /\ pc[p] = "setTenant" => Depth(p) = 1
    /\ result[p] = "none" <=> pc[p] # "done"

ConnInv == TypeOK /\ Shape /\ PoolClean

LEMMA FreshType == Fresh \in Transaction
  BY DEF Fresh, Transaction, Tenants

LEMMA AfterTxFresh ==
  ASSUME NEW t \in Transaction
  PROVE  AfterTx(t) = Fresh
  BY DEF AfterTx, SettingAfterTx, Fresh, Transaction

LEMMA ConnInit == Init => ConnInv
<1> SUFFICES ASSUME Init PROVE ConnInv
  OBVIOUS
<1>1. TypeOK
  BY FreshType, BoundAssumption, EmptySeq DEF Init, TypeOK
<1>2. Shape
  BY DEF Init, Shape, Active
<1>3. PoolClean
  BY DEF Init, PoolClean
<1> QED
  BY <1>1, <1>2, <1>3 DEF ConnInv

\* Returning from the outermost call.
LEMMA ConnReturn ==
  ASSUME ConnInv, NEW p \in Proc, Active(p),
         NEW r \in {"ok", "err", "commitErr", "panic"}, Return(p, r),
         db' \in SUBSET AllStmts
  PROVE  ConnInv'
<1> USE DEF ConnInv
<1>1. conn[p] \in Conn /\ tx' = [tx EXCEPT ![conn[p]] = Fresh]
  BY AfterTxFresh DEF Return, Shape, TypeOK
<1>2. TypeOK'
  BY <1>1, FreshType DEF TypeOK, Return
<1>3. Shape'
  BY DEF Shape, Return, TypeOK, Active, Depth
<1>4. PoolClean'
  BY <1>1, ConnAssumption DEF PoolClean, Return, TypeOK, Free, Shape, Active
<1> QED
  BY <1>2, <1>3, <1>4

\* Steps that keep every connection where it is and change one transaction.
LEMMA ConnKept ==
  ASSUME ConnInv, NEW p \in Proc, Active(p), conn' = conn, TypeOK',
         \A q \in Proc : q # p => /\ pc'[q] = pc[q] /\ stack'[q] = stack[q],
         result' = result, pc'[p] \notin {"begin", "done", "setTenant"},
         Len(stack'[p]) >= 1,
         \A c \in Conn : c # conn[p] => tx'[c] = tx[c]
  PROVE  ConnInv'
<1>1. Shape'
  BY DEF ConnInv, Shape, Active, Depth
<1>2. PoolClean'
  BY DEF ConnInv, PoolClean, Free, Shape, Active
<1> QED
  BY <1>1, <1>2 DEF ConnInv

\* One transaction changes.
LEMMA TxUpdate ==
  ASSUME TypeOK, NEW c \in Conn, NEW t \in Transaction, tx' = [tx EXCEPT ![c] = t]
  PROVE  /\ tx' \in [Conn -> Transaction]
         /\ tx'[c] = t
         /\ \A d \in Conn : d # c => tx'[d] = tx[d]
  BY DEF TypeOK

\* A status that a failed statement leaves is a status.
LEMMA FailedType ==
  ASSUME TypeOK, NEW p \in Proc, conn[p] \in Conn,
         NEW s \in FailedStatus(p), SetStatus(p, s)
  PROVE  /\ tx' \in [Conn -> Transaction]
         /\ \A c \in Conn : c # conn[p] => tx'[c] = tx[c]
         /\ tx'[conn[p]] = [tx[conn[p]] EXCEPT !.status = s]
  BY DEF FailedStatus, SetStatus, Tx, TypeOK, Transaction

\* The transaction after the deferred rollback of a nested call.
LEMMA RollbackNestedTx ==
  ASSUME TypeOK, NEW p \in Proc, conn[p] \in Conn, RollbackNested(p)
  PROVE  /\ tx' \in [Conn -> Transaction]
         /\ \A c \in Conn : c # conn[p] => tx'[c] = tx[c]
         /\ tx'[conn[p]].tenant = tx[conn[p]].tenant
         /\ \/ /\ tx'[conn[p]].status = "open"
               /\ tx'[conn[p]].pending = Last(stack[p]).mark
            \/ /\ tx'[conn[p]].status = "dead"
               /\ tx'[conn[p]].pending = tx[conn[p]].pending
<1>1. tx[conn[p]] \in Transaction /\ stack[p] \in Seq(Frame) /\ Len(stack[p]) > 0
  BY DEF TypeOK, RollbackNested, Depth
<1>2. Last(stack[p]) \in Frame
  BY <1>1, FrontLast
<1>3. /\ [tx[conn[p]] EXCEPT !.status = "open", !.pending = Last(stack[p]).mark] \in Transaction
      /\ [tx[conn[p]] EXCEPT !.status = "dead"] \in Transaction
  BY <1>1, <1>2 DEF Transaction, Frame
<1>4. \/ tx' = [tx EXCEPT ![conn[p]] =
                  [tx[conn[p]] EXCEPT !.status = "open", !.pending = Last(stack[p]).mark]]
      \/ tx' = [tx EXCEPT ![conn[p]] = [tx[conn[p]] EXCEPT !.status = "dead"]]
  BY DEF RollbackNested, RestoredTo, SetStatus
<1>5. CASE tx' = [tx EXCEPT ![conn[p]] =
                    [tx[conn[p]] EXCEPT !.status = "open", !.pending = Last(stack[p]).mark]]
  <2>1. tx'[conn[p]] =
          [tx[conn[p]] EXCEPT !.status = "open", !.pending = Last(stack[p]).mark]
    BY <1>3, <1>5, TxUpdate
  <2> QED
    BY <1>1, <1>3, <1>5, <2>1, TxUpdate DEF Transaction
<1>6. CASE tx' = [tx EXCEPT ![conn[p]] = [tx[conn[p]] EXCEPT !.status = "dead"]]
  <2>1. tx'[conn[p]] = [tx[conn[p]] EXCEPT !.status = "dead"]
    BY <1>3, <1>6, TxUpdate
  <2> QED
    BY <1>1, <1>3, <1>6, <2>1, TxUpdate DEF Transaction
<1> QED
  BY <1>4, <1>5, <1>6

\* Leaving a nested call.
LEMMA LeaveType ==
  ASSUME TypeOK, NEW p \in Proc, NEW s \in Seq(Frame), Leave(p, s)
  PROVE  /\ stack' \in [Proc -> Seq(Frame)]
         /\ cut' \in [Proc -> Nat]
         /\ stack'[p] = s
         /\ \A q \in Proc : q # p => stack'[q] = stack[q] /\ cut'[q] = cut[q]
  BY DEF Leave, TypeOK

LEMMA ConnStep == ConnInv /\ [Next]_vars => ConnInv'
<1> SUFFICES ASSUME ConnInv, [Next]_vars PROVE ConnInv'
  OBVIOUS
<1>0. TypeOK /\ Shape /\ PoolClean
  BY DEF ConnInv
<1>1. CASE UNCHANGED vars
  BY <1>1 DEF vars, ConnInv, TypeOK, Shape, PoolClean, Active, Depth, Free
<1>2. ASSUME NEW p \in Proc, Step(p) \/ CancelContext(p) PROVE ConnInv'
  <2>0. Active(p) => /\ conn[p] \in Conn /\ stack[p] \in Seq(Frame)
                     /\ Len(stack[p]) \in Nat /\ Len(stack[p]) >= 1
                     /\ tx[conn[p]] \in Transaction
    BY <1>0 DEF Shape, TypeOK, Depth
  <2>1. CASE BeginRoot(p)
    <3>1. PICK c \in Conn : /\ Free(c)
                            /\ conn' = [conn EXCEPT ![p] = c]
                            /\ tx' = [tx EXCEPT ![c].status = "open"]
      BY <2>1 DEF BeginRoot
    <3>2. [mark |-> {}, acc |-> {}] \in Frame
      BY DEF Frame
    <3>3. /\ <<[mark |-> {}, acc |-> {}]>> \in Seq(Frame)
          /\ Len(<<[mark |-> {}, acc |-> {}]>>) = 1
      BY <3>2
    <3>7. [tx[c] EXCEPT !.status = "open"] \in Transaction
      BY <1>0 DEF TypeOK, Transaction
    <3>8. tx' \in [Conn -> Transaction]
      BY <1>0, <3>1, <3>7, TxUpdate
    <3>4. TypeOK'
      BY <1>0, <2>1, <3>1, <3>3, <3>8 DEF BeginRoot, TypeOK
    <3>5. Shape'
      BY <1>0, <2>1, <3>1, <3>3 DEF BeginRoot, TypeOK, Shape, Active, Depth
    <3>6. PoolClean'
      BY <1>0, <2>1, <3>1, ConnAssumption
      DEF BeginRoot, TypeOK, Shape, Active, PoolClean, Free
    <3> QED
      BY <3>4, <3>5, <3>6 DEF ConnInv
  <2>2. CASE BeginFails(p)
    <3>1. TypeOK'
      BY <1>0, <2>2 DEF BeginFails, TypeOK
    <3>2. Shape'
      BY <1>0, <2>2 DEF BeginFails, TypeOK, Shape, Active, Depth
    <3>3. PoolClean'
      BY <1>0, <2>2 DEF BeginFails, TypeOK, Shape, Active, PoolClean, Free
    <3> QED
      BY <3>1, <3>2, <3>3 DEF ConnInv
  <2>3. CASE SetTenantSession(p)
    <3>1. conn[p] \in Conn /\ tx[conn[p]] \in Transaction
      BY <2>0, <2>3 DEF SetTenantSession, Active
    <3>2. [tx[conn[p]] EXCEPT !.tenant = TenantOf[p]] \in Transaction
      BY <3>1, TenantAssumption DEF Transaction, Tenants
    <3>3. tx' = tx \/ tx' = [tx EXCEPT ![conn[p]] = [tx[conn[p]] EXCEPT !.tenant = TenantOf[p]]]
      BY <2>3 DEF SetTenantSession
    <3>4. tx' \in [Conn -> Transaction] /\ \A c \in Conn : c # conn[p] => tx'[c] = tx[c]
      BY <1>0, <3>1, <3>2, <3>3, TxUpdate DEF TypeOK
    <3>5. TypeOK'
      BY <1>0, <2>3, <3>4 DEF SetTenantSession, TypeOK
    <3> QED
      BY <1>0, <2>0, <2>3, <3>4, <3>5, ConnKept DEF SetTenantSession, TypeOK, Active
  <2>4. CASE SetTenantSessionFails(p)
    <3>1. PICK s \in FailedStatus(p) : SetStatus(p, s)
      BY <2>4 DEF SetTenantSessionFails
    <3>2. TypeOK'
      BY <1>0, <2>0, <2>4, <3>1, FailedType DEF SetTenantSessionFails, TypeOK, Active
    <3> QED
      BY <1>0, <2>0, <2>4, <3>1, <3>2, FailedType, ConnKept
      DEF SetTenantSessionFails, TypeOK, Active
  <2>5. CASE Exec(p)
    <3> DEFINE s == [proc |-> p, n |-> issued[p] + 1, tenant |-> Tx(p).tenant]
    <3>0. conn[p] \in Conn /\ tx[conn[p]] \in Transaction
      BY <2>0, <2>5 DEF Exec, Active
    <3>9. issued[p] + 1 \in 1 .. MaxStmts /\ issued' \in [Proc -> 0 .. MaxStmts]
      BY <1>0, <2>5, BoundAssumption DEF Exec, TypeOK
    <3>10. Tx(p).tenant \in Tenants
      BY <3>0 DEF Tx, Transaction
    <3>1. s \in AllStmts
      BY <3>9, <3>10, StmtOf
    <3>2. stack[p][Depth(p)] \in Frame /\ Depth(p) \in 1 .. Len(stack[p])
      BY <2>0, <2>5, ElementOfSeq DEF Exec, Active, Depth
    <3>3. [stack[p][Depth(p)] EXCEPT !.acc = @ \cup {s}] \in Frame
      BY <3>1, <3>2 DEF Frame
    <3>4. stack' = [stack EXCEPT ![p] = [stack[p] EXCEPT ![Depth(p)] =
                      [stack[p][Depth(p)] EXCEPT !.acc = @ \cup {s}]]]
      BY <2>5 DEF Exec
    <3>5. stack'[p] \in Seq(Frame) /\ Len(stack'[p]) = Len(stack[p])
      BY <1>0, <2>0, <2>5, <3>2, <3>3, <3>4, ExceptSeq DEF Exec, Active, TypeOK
    <3>11. [tx[conn[p]] EXCEPT !.pending = @ \cup {s}] \in Transaction
      BY <3>0, <3>1 DEF Transaction
    <3>12. tx' = [tx EXCEPT ![conn[p]] = [tx[conn[p]] EXCEPT !.pending = @ \cup {s}]]
      BY <2>5 DEF Exec
    <3>13. tx' \in [Conn -> Transaction] /\ \A c \in Conn : c # conn[p] => tx'[c] = tx[c]
      BY <1>0, <3>0, <3>11, <3>12, TxUpdate
    <3>14. /\ stack' \in [Proc -> Seq(Frame)]
           /\ \A q \in Proc : q # p => stack'[q] = stack[q]
      BY <1>0, <3>4, <3>5 DEF TypeOK
    <3>6. TypeOK'
      BY <1>0, <2>5, <3>9, <3>13, <3>14 DEF Exec, TypeOK
    <3> QED
      BY <1>0, <2>0, <2>5, <3>5, <3>6, <3>13, <3>14, ConnKept DEF Exec, TypeOK, Active
  <2>6. CASE ExecFails(p)
    <3>1. PICK s \in FailedStatus(p) : SetStatus(p, s)
      BY <2>6 DEF ExecFails
    <3>3. issued' \in [Proc -> 0 .. MaxStmts]
      BY <1>0, <2>6, BoundAssumption DEF ExecFails, TypeOK
    <3>2. TypeOK'
      BY <1>0, <2>0, <2>6, <3>1, <3>3, FailedType DEF ExecFails, TypeOK, Active
    <3> QED
      BY <1>0, <2>0, <2>6, <3>1, <3>2, FailedType, ConnKept DEF ExecFails, TypeOK, Active
  <2>7. CASE BeginNested(p)
    <3> DEFINE f == [mark |-> Tx(p).pending, acc |-> {}]
    <3>1. f \in Frame
      BY <2>0, <2>7 DEF BeginNested, Frame, Active, Tx, Transaction
    <3>2. stack' = [stack EXCEPT ![p] = Append(stack[p], f)]
      BY <2>7 DEF BeginNested
    <3>3. stack'[p] \in Seq(Frame) /\ Len(stack'[p]) = Len(stack[p]) + 1
      BY <1>0, <2>0, <2>7, <3>1, <3>2, AppendProperties DEF BeginNested, Active, TypeOK
    <3>5. issued' \in [Proc -> 0 .. MaxStmts]
      BY <1>0, <2>7, BoundAssumption DEF BeginNested, TypeOK
    <3>6. /\ stack' \in [Proc -> Seq(Frame)]
          /\ \A q \in Proc : q # p => stack'[q] = stack[q]
      BY <1>0, <3>2, <3>3 DEF TypeOK
    <3>4. TypeOK'
      BY <1>0, <2>7, <3>5, <3>6 DEF BeginNested, TypeOK
    <3>7. Len(stack'[p]) >= 1
      BY <2>0, <2>7, <3>3 DEF BeginNested, Active
    <3> QED
      BY <1>0, <2>0, <2>7, <3>4, <3>6, <3>7, ConnKept DEF BeginNested, Active
  <2>8. CASE FnReturns(p)
    <3>1. TypeOK'
      BY <1>0, <2>8 DEF FnReturns, TypeOK
    <3> QED
      BY <1>0, <2>0, <2>8, <3>1, ConnKept DEF FnReturns, TypeOK, Active
  <2>9. CASE ReleaseSavepoint(p)
    <3>1. /\ Released(stack[p]) \in Seq(Frame)
          /\ Len(Released(stack[p])) = Len(stack[p]) - 1
      BY <2>0, <2>9, ReleasedType DEF ReleaseSavepoint, Active, Depth
    <3>2. TypeOK'
      BY <1>0, <2>9, <3>1, LeaveType DEF ReleaseSavepoint, TypeOK
    <3>3. Len(stack'[p]) >= 1 /\ \A q \in Proc : q # p => stack'[q] = stack[q]
      BY <1>0, <2>0, <2>9, <3>1, LeaveType DEF ReleaseSavepoint, Active, Depth
    <3> QED
      BY <1>0, <2>0, <2>9, <3>2, <3>3, ConnKept DEF ReleaseSavepoint, TypeOK, Active
  <2>10. CASE ReleaseFails(p)
    <3>1. PICK s \in FailedStatus(p) : SetStatus(p, s)
      BY <2>10 DEF ReleaseFails
    <3>2. Front(stack[p]) \in Seq(Frame) /\ Len(Front(stack[p])) = Len(stack[p]) - 1
      BY <2>0, <2>10, FrontLast DEF ReleaseFails, Active
    <3>3. TypeOK'
      BY <1>0, <2>0, <2>10, <3>1, <3>2, FailedType, LeaveType DEF ReleaseFails, TypeOK, Active
    <3>4. Len(stack'[p]) >= 1 /\ \A q \in Proc : q # p => stack'[q] = stack[q]
      BY <1>0, <2>0, <2>10, <3>2, LeaveType DEF ReleaseFails, Active, Depth
    <3>5. \A c \in Conn : c # conn[p] => tx'[c] = tx[c]
      BY <1>0, <2>0, <2>10, <3>1, FailedType DEF ReleaseFails, Active
    <3> QED
      BY <1>0, <2>0, <2>10, <3>3, <3>4, <3>5, ConnKept DEF ReleaseFails, TypeOK, Active
  <2>11. CASE RollbackNested(p)
    <3>1. /\ Front(stack[p]) \in Seq(Frame) /\ Len(Front(stack[p])) = Len(stack[p]) - 1
          /\ Last(stack[p]) \in Frame
      BY <2>0, <2>11, FrontLast DEF RollbackNested, RollbackPcs, Active
    <3>2. tx' \in [Conn -> Transaction] /\ \A c \in Conn : c # conn[p] => tx'[c] = tx[c]
      BY <1>0, <2>0, <2>11, RollbackNestedTx DEF RollbackNested, RollbackPcs, Active
    <3>3. TypeOK'
      BY <1>0, <2>11, <3>1, <3>2, LeaveType DEF RollbackNested, RollbackPcs, TypeOK
    <3>7. Len(stack'[p]) >= 1 /\ \A q \in Proc : q # p => stack'[q] = stack[q]
      BY <1>0, <2>0, <2>11, <3>1, LeaveType DEF RollbackNested, RollbackPcs, Active, Depth
    <3>8. Active(p) /\ conn' = conn /\ result' = result
      BY <2>11 DEF RollbackNested, RollbackPcs, Active
    <3>9. pc'[p] \in {"fn", "unwind"} /\ \A q \in Proc : q # p => pc'[q] = pc[q]
      BY <1>0, <2>11 DEF RollbackNested, TypeOK
    <3> QED
      BY <3>2, <3>3, <3>7, <3>8, <3>9, ConnKept
  <2>12. CASE CommitRoot(p)
    <3>1. db' \in SUBSET AllStmts
      BY <1>0, <2>0, <2>12 DEF CommitRoot, TypeOK, Transaction, Active, Tx
    <3> QED
      BY <2>12, <3>1, ConnReturn DEF CommitRoot, Active
  <2>13. CASE CommitRootFails(p)
    <3>1. db' \in SUBSET AllStmts
      BY <1>0, <2>0, <2>13 DEF CommitRootFails, TypeOK, Transaction, Active, Tx
    <3> QED
      BY <2>13, <3>1, ConnReturn DEF CommitRootFails, Active
  <2>14. CASE RollbackRoot(p)
    <3>1. db' \in SUBSET AllStmts
      BY <1>0, <2>14 DEF RollbackRoot, TypeOK
    <3> QED
      BY <2>14, <3>1, ConnReturn DEF RollbackRoot, RollbackPcs, Active
  <2>15. CASE CancelContext(p)
    <3>1. TypeOK'
      BY <1>0, <2>15 DEF CancelContext, TypeOK, Depth
    <3>2. Shape' /\ PoolClean'
      BY <1>0, <2>15 DEF CancelContext, Shape, PoolClean, Active, Depth, Free
    <3> QED
      BY <3>1, <3>2 DEF ConnInv
  <2> QED
    BY <1>2, <2>1, <2>2, <2>3, <2>4, <2>5, <2>6, <2>7, <2>8, <2>9, <2>10, <2>11,
       <2>12, <2>13, <2>14, <2>15 DEF Step
<1> QED
  BY <1>1, <1>2 DEF Next

\* RunInTx keeps its connections and transactions in order: the type
\* invariant holds in every reachable state.
THEOREM TypeCorrect == Spec => []TypeOK
<1>1. ConnInv => TypeOK
  BY DEF ConnInv
<1> QED
  BY ConnInit, ConnStep, <1>1, PTL DEF Spec

\* No connection is shared or kept, and none carries a transaction, pending
\* work or a tenant from one call into the next, for any pool and any callers.
THEOREM PoolCleanHolds == Spec => []PoolClean
<1>1. ConnInv => PoolClean
  BY DEF ConnInv
<1> QED
  BY ConnInit, ConnStep, <1>1, PTL DEF Spec

-----------------------------------------------------------------------------
\* A step of p changes nothing of another call, its transaction included.
Elsewhere(p) ==
  \A q \in Proc : q # p =>
    /\ pc'[q] = pc[q] /\ stack'[q] = stack[q] /\ cut'[q] = cut[q]
    /\ conn'[q] = conn[q] /\ result'[q] = result[q]
    /\ Active(q) => tx'[conn[q]] = tx[conn[q]]

LEMMA StepElsewhere ==
  ASSUME ConnInv, NEW p \in Proc, Step(p) \/ CancelContext(p)
  PROVE  Elsewhere(p)
<1>0. TypeOK /\ Shape /\ PoolClean
  BY DEF ConnInv
<1>1. ASSUME NEW q \in Proc, q # p
      PROVE  /\ pc'[q] = pc[q] /\ stack'[q] = stack[q] /\ cut'[q] = cut[q]
             /\ conn'[q] = conn[q] /\ result'[q] = result[q]
  BY <1>0, <1>1
  DEF Step, BeginRoot, BeginFails, SetTenantSession, SetTenantSessionFails, Exec, ExecFails,
      BeginNested, FnReturns, ReleaseSavepoint, ReleaseFails, RollbackNested, CommitRoot,
      CommitRootFails, RollbackRoot, CancelContext, Leave, Return, TypeOK
<1>2. ASSUME NEW q \in Proc, q # p, Active(q) PROVE tx'[conn[q]] = tx[conn[q]]
  <2>1. conn[q] \in Conn /\ (Active(p) => conn[p] \in Conn) /\ conn[q] # conn[p]
    BY <1>0, <1>2, ConnAssumption DEF Shape, PoolClean
  <2>2. CASE BeginRoot(p)
    BY <1>0, <1>2, <2>1, <2>2 DEF BeginRoot, Free, TypeOK
  <2>3. CASE tx' = tx
    BY <2>3
  <2>4. CASE \E t : tx' = [tx EXCEPT ![conn[p]] = t]
    BY <1>0, <2>1, <2>4 DEF TypeOK
  <2>5. BeginRoot(p) \/ tx' = tx \/ \E t : tx' = [tx EXCEPT ![conn[p]] = t]
    BY DEF Step, BeginRoot, BeginFails, SetTenantSession, SetTenantSessionFails, Exec,
           ExecFails, BeginNested, FnReturns, ReleaseSavepoint, ReleaseFails, RollbackNested,
           CommitRoot, CommitRootFails, RollbackRoot, CancelContext, SetStatus, Return
  <2> QED
    BY <2>2, <2>3, <2>4, <2>5
<1> QED
  BY <1>1, <1>2 DEF Elsewhere

-----------------------------------------------------------------------------
Own(p, s) == s.proc = p /\ s.tenant = TenantOf[p]

\* The session's tenant.  A transaction starts on a slot without one; from
\* the hook on, while fn can execute statements, it is the tenant of the
\* call's context; and every statement pending, saved or committed was
\* executed by its process under that tenant.
TenantOk(p) ==
  Active(p) =>
    /\ pc[p] = "setTenant" => Tx(p).tenant = NoTenant
    /\ pc[p] \in {"fn", "commit"} \/ Depth(p) > 1 => Tx(p).tenant = TenantOf[p]
    /\ \A s \in Tx(p).pending : Own(p, s)
    /\ \A i \in 1 .. Depth(p) : \A s \in stack[p][i].mark : Own(p, s)

TenantInv == OwnTenantOnly /\ \A p \in Proc : TenantOk(p)

LEMMA TenantInit == Init => TenantInv
  BY DEF Init, TenantInv, TenantOk, OwnTenantOnly, Active

LEMMA TenantStep ==
  ASSUME ConnInv, TenantInv, NEW p \in Proc, Step(p) \/ CancelContext(p)
  PROVE  TenantInv'
<1>0. TypeOK /\ Shape /\ PoolClean /\ TenantOk(p)
  BY DEF ConnInv, TenantInv
<1>1. ASSUME NEW q \in Proc, q # p PROVE TenantOk(q)'
  BY <1>1, StepElsewhere DEF TenantInv, TenantOk, Elsewhere, Active, Tx, Depth, Own
<1>2. Active(p) => /\ conn[p] \in Conn /\ stack[p] \in Seq(Frame)
                   /\ Len(stack[p]) \in Nat /\ Len(stack[p]) >= 1
                   /\ tx[conn[p]] \in Transaction
  BY <1>0 DEF Shape, TypeOK, Depth
<1>3. TenantOk(p)' /\ OwnTenantOnly'
  <2>1. CASE BeginRoot(p)
    <3>1. PICK c \in Conn : /\ Free(c)
                            /\ conn' = [conn EXCEPT ![p] = c]
                            /\ tx' = [tx EXCEPT ![c].status = "open"]
      BY <2>1 DEF BeginRoot
    <3>2. tx[c] = Fresh /\ conn'[p] = c
      BY <1>0, <3>1 DEF PoolClean, TypeOK
    <3>3. Tx(p)'.tenant = NoTenant /\ Tx(p)'.pending = {}
      BY <1>0, <3>1, <3>2 DEF Tx, Fresh, TypeOK, Transaction
    <3>4. Depth(p)' = 1 /\ stack'[p][1].mark = {} /\ pc'[p] = "setTenant"
      BY <1>0, <2>1 DEF BeginRoot, Depth, TypeOK
    <3> QED
      BY <2>1, <3>3, <3>4 DEF TenantOk, BeginRoot, OwnTenantOnly, TenantInv, Own
  <2>2. CASE BeginFails(p)
    BY <1>0, <2>2 DEF BeginFails, TenantOk, OwnTenantOnly, TenantInv, TypeOK, Active
  <2>3. CASE SetTenantSession(p)
    <3>1. Active(p) /\ Depth(p) = 1
      BY <1>0, <2>3 DEF SetTenantSession, Active, Shape
    <3>2. Tx(p)'.tenant = TenantOf[p] /\ Tx(p)'.pending = Tx(p).pending
      BY <1>0, <1>2, <2>3, <3>1 DEF SetTenantSession, TenantOk, Tx, TypeOK, Transaction
    <3>3. pc'[p] = "fn" /\ stack' = stack /\ db' = db
      BY <1>0, <2>3 DEF SetTenantSession, TypeOK
    <3>4. OwnTenantOnly'
      BY <3>3 DEF OwnTenantOnly, TenantInv
    <3> QED
      BY <1>0, <3>1, <3>2, <3>3, <3>4 DEF TenantOk, Depth, Own
  <2>4. CASE SetTenantSessionFails(p)
    <3>1. Active(p) /\ Depth(p) = 1
      BY <1>0, <2>4 DEF SetTenantSessionFails, Active, Shape
    <3>2. Tx(p)'.pending = Tx(p).pending
      BY <1>0, <1>2, <2>4, <3>1 DEF SetTenantSessionFails, SetStatus, Tx, TypeOK, Transaction
    <3>3. pc'[p] = "rollback"
      BY <1>0, <2>4 DEF SetTenantSessionFails, TypeOK
    <3> QED
      BY <1>0, <2>4, <3>1, <3>2, <3>3
      DEF SetTenantSessionFails, TenantOk, OwnTenantOnly, TenantInv, Depth, Own
  <2>5. CASE Exec(p)
    <3> DEFINE s == [proc |-> p, n |-> issued[p] + 1, tenant |-> Tx(p).tenant]
    <3>1. Active(p) /\ Tx(p).tenant = TenantOf[p] /\ pc' = pc
      BY <1>0, <2>5 DEF Exec, Active, TenantOk
    <3>2. Tx(p)'.tenant = Tx(p).tenant /\ Tx(p)'.pending = Tx(p).pending \cup {s}
      BY <1>0, <1>2, <2>5, <3>1 DEF Exec, Tx, TypeOK, Transaction
    <3>3. Own(p, s)
      BY <3>1 DEF Own
    <3>4. stack[p][Depth(p)] \in Frame /\ Depth(p) \in 1 .. Len(stack[p])
      BY <1>2, <3>1, ElementOfSeq DEF Depth
    <3>5. /\ stack'[p] = [stack[p] EXCEPT ![Depth(p)] =
                            [stack[p][Depth(p)] EXCEPT !.acc = @ \cup {s}]]
      BY <1>0, <2>5 DEF Exec, TypeOK
    <3>6. DOMAIN stack[p] = 1 .. Len(stack[p])
      BY <1>2, <3>1, LenProperties
    <3>7. Depth(p)' = Depth(p)
      BY <1>0, <1>2, <3>1, <3>5, <3>6 DEF Depth
    <3>8. \A i \in 1 .. Depth(p) : stack'[p][i].mark = stack[p][i].mark
      BY <3>4, <3>5, <3>6 DEF Depth, Frame
    <3> QED
      BY <1>0, <2>5, <3>1, <3>2, <3>3, <3>7, <3>8
      DEF Exec, TenantOk, OwnTenantOnly, TenantInv, Own, Active
  <2>6. CASE ExecFails(p)
    <3>1. Active(p) /\ pc' = pc
      BY <2>6 DEF ExecFails, Active
    <3>2. Tx(p)'.tenant = Tx(p).tenant /\ Tx(p)'.pending = Tx(p).pending
      BY <1>0, <1>2, <2>6, <3>1 DEF ExecFails, SetStatus, Tx, TypeOK, Transaction
    <3> QED
      BY <1>0, <2>6, <3>1, <3>2
      DEF ExecFails, TenantOk, OwnTenantOnly, TenantInv, Depth, Own, Active
  <2>7. CASE BeginNested(p)
    <3> DEFINE f == [mark |-> Tx(p).pending, acc |-> {}]
    <3>1. Active(p) /\ pc' = pc /\ pc[p] = "fn" /\ Tx(p)' = Tx(p)
      BY <2>7 DEF BeginNested, Active, Tx
    <3>2. f \in Frame
      BY <1>2, <3>1 DEF Frame, Tx, Transaction
    <3>3. stack'[p] = Append(stack[p], f)
      BY <1>0, <2>7 DEF BeginNested, TypeOK
    <3>4. /\ Depth(p)' = Depth(p) + 1
          /\ \A i \in 1 .. Depth(p) : stack'[p][i] = stack[p][i]
          /\ stack'[p][Depth(p) + 1] = f
      BY <1>2, <3>1, <3>2, <3>3, AppendProperties DEF Depth
    <3>5. \A i \in 1 .. Depth(p)' : i \in 1 .. Depth(p) \/ i = Depth(p) + 1
      BY <1>2, <3>1, <3>4 DEF Depth
    <3>6. \A i \in 1 .. Depth(p)' : \A s \in stack'[p][i].mark : Own(p, s)
      BY <1>0, <3>1, <3>4, <3>5 DEF TenantOk
    <3> QED
      BY <1>0, <2>7, <3>1, <3>6 DEF BeginNested, TenantOk, OwnTenantOnly, TenantInv, Own
  <2>8. CASE FnReturns(p)
    BY <1>0, <2>8 DEF FnReturns, TenantOk, OwnTenantOnly, TenantInv, Depth, Own, Active, Tx,
                      TypeOK
  <2>9. CASE ReleaseSavepoint(p)
    <3>1. Active(p) /\ Depth(p) > 1 /\ Tx(p)' = Tx(p) /\ Tx(p).tenant = TenantOf[p]
      BY <1>0, <2>9 DEF ReleaseSavepoint, Active, Tx, TenantOk
    <3>2. stack'[p] = Released(stack[p])
      BY <1>0, <2>9 DEF ReleaseSavepoint, Leave, TypeOK
    <3>3. /\ Depth(p)' = Depth(p) - 1
          /\ \A i \in 1 .. Depth(p) - 1 : stack'[p][i].mark = stack[p][i].mark
      BY <1>2, <3>1, <3>2, ReleasedType DEF Depth
    <3>4. \A i \in 1 .. Depth(p)' : i \in 1 .. Depth(p) - 1 /\ i \in 1 .. Depth(p)
      BY <1>2, <3>1, <3>3 DEF Depth
    <3>5. \A i \in 1 .. Depth(p)' : \A s \in stack'[p][i].mark : Own(p, s)
      BY <1>0, <3>1, <3>3, <3>4 DEF TenantOk
    <3> QED
      BY <1>0, <2>9, <3>1, <3>5 DEF ReleaseSavepoint, TenantOk, OwnTenantOnly, TenantInv, Own
  <2>10. CASE ReleaseFails(p)
    <3>1. Active(p) /\ Depth(p) > 1 /\ Tx(p).tenant = TenantOf[p]
      BY <1>0, <2>10 DEF ReleaseFails, Active, TenantOk
    <3>2. Tx(p)'.tenant = Tx(p).tenant /\ Tx(p)'.pending = Tx(p).pending
      BY <1>0, <1>2, <2>10, <3>1 DEF ReleaseFails, SetStatus, Tx, TypeOK, Transaction
    <3>3. stack'[p] = Front(stack[p])
      BY <1>0, <2>10 DEF ReleaseFails, Leave, TypeOK
    <3>4. /\ Depth(p)' = Depth(p) - 1
          /\ \A i \in 1 .. Depth(p) - 1 : stack'[p][i] = stack[p][i]
      BY <1>2, <3>1, <3>3, FrontLast DEF Depth
    <3>5. \A i \in 1 .. Depth(p)' : i \in 1 .. Depth(p) - 1 /\ i \in 1 .. Depth(p)
      BY <1>2, <3>1, <3>4 DEF Depth
    <3>6. \A i \in 1 .. Depth(p)' : \A s \in stack'[p][i].mark : Own(p, s)
      BY <1>0, <3>1, <3>4, <3>5 DEF TenantOk
    <3> QED
      BY <1>0, <2>10, <3>1, <3>2, <3>6 DEF ReleaseFails, TenantOk, OwnTenantOnly, TenantInv, Own
  <2>11. CASE RollbackNested(p)
    <3>1. Active(p) /\ Depth(p) > 1 /\ Tx(p).tenant = TenantOf[p]
      BY <1>0, <2>11 DEF RollbackNested, RollbackPcs, Active, TenantOk
    <3>2. stack'[p] = Front(stack[p])
      BY <1>0, <2>11 DEF RollbackNested, Leave, TypeOK
    <3>3. /\ Depth(p)' = Depth(p) - 1
          /\ \A i \in 1 .. Depth(p) - 1 : stack'[p][i] = stack[p][i]
          /\ Last(stack[p]) = stack[p][Depth(p)]
      BY <1>2, <3>1, <3>2, FrontLast DEF Depth
    <3>4. /\ \A i \in 1 .. Depth(p)' : i \in 1 .. Depth(p) - 1 /\ i \in 1 .. Depth(p)
          /\ Depth(p) \in 1 .. Depth(p)
      BY <1>2, <3>1, <3>3 DEF Depth
    <3>5. \A i \in 1 .. Depth(p)' : \A s \in stack'[p][i].mark : Own(p, s)
      BY <1>0, <3>1, <3>3, <3>4 DEF TenantOk
    <3>6. /\ Tx(p)'.tenant = Tx(p).tenant
          /\ Tx(p)'.pending \in {Tx(p).pending, stack[p][Depth(p)].mark}
      BY <1>0, <1>2, <2>11, <3>1, <3>3, RollbackNestedTx
      DEF RollbackNested, Tx, Transaction
    <3>7. \A s \in Tx(p)'.pending : Own(p, s)
      BY <1>0, <3>1, <3>4, <3>6 DEF TenantOk
    <3>8. pc'[p] # "setTenant"
      BY <1>0, <2>11 DEF RollbackNested, TypeOK
    <3> QED
      BY <1>0, <2>11, <3>1, <3>5, <3>6, <3>7, <3>8
      DEF RollbackNested, TenantOk, OwnTenantOnly, TenantInv, Own
  <2>12. CASE CommitRoot(p) \/ CommitRootFails(p)
    <3>1. Active(p) /\ (db' = db \/ db' = db \cup Tx(p).pending)
      BY <2>12 DEF CommitRoot, CommitRootFails, Active
    <3>2. OwnTenantOnly'
      BY <1>0, <3>1 DEF TenantOk, TenantInv, OwnTenantOnly, Own
    <3>3. ~Active(p)'
      BY <1>0, <2>12 DEF CommitRoot, CommitRootFails, Return, Active, TypeOK
    <3> QED
      BY <3>2, <3>3 DEF TenantOk
  <2>13. CASE RollbackRoot(p)
    BY <1>0, <2>13
    DEF RollbackRoot, Return, TenantOk, TenantInv, OwnTenantOnly, Active, TypeOK
  <2>14. CASE CancelContext(p)
    BY <1>0, <2>14
    DEF CancelContext, TenantOk, TenantInv, OwnTenantOnly, Active, Tx, Depth, Own
  <2> QED
    BY <2>1, <2>2, <2>3, <2>4, <2>5, <2>6, <2>7, <2>8, <2>9, <2>10, <2>11, <2>12, <2>13,
       <2>14 DEF Step
<1> QED
  BY <1>1, <1>3 DEF TenantInv

\* What a request commits was executed under its own tenant, whatever
\* connections it shares with other tenants' requests and with requests
\* that have none.
THEOREM OwnTenantOnlyHolds == Spec => []OwnTenantOnly
<1>1. ConnInv /\ TenantInv /\ [Next]_vars => (ConnInv /\ TenantInv)'
  <2> SUFFICES ASSUME ConnInv, TenantInv, [Next]_vars PROVE TenantInv'
    BY ConnStep
  <2>1. CASE UNCHANGED vars
    BY <2>1 DEF vars, TenantInv, TenantOk, OwnTenantOnly, Active, Tx, Depth, Own
  <2>2. CASE Next
    BY <2>2, TenantStep DEF Next
  <2> QED
    BY <2>1, <2>2
<1>2. TenantInv => OwnTenantOnly
  BY DEF TenantInv
<1> QED
  BY ConnInit, TenantInit, <1>1, <1>2, PTL DEF Spec

-----------------------------------------------------------------------------
\* Savepoints and what fn was told.  Each savepoint was set when exactly the
\* work of the calls around it was pending; and as long as the transaction
\* is open and the request not cancelled, what COMMIT would apply is what
\* the open calls were told.  Once the request is cancelled nothing more is
\* sent but rollbacks, and a call that failed to release its savepoint may
\* leave more pending than its caller was told.
Top(p) == stack[p][Depth(p)]
WorkOk(p) ==
  /\ cut[p] \in {0, 1}
  /\ Active(p) =>
       /\ stack[p][1].mark = {}
       /\ \A i \in 1 .. Depth(p) - 1 :
            stack[p][i + 1].mark = stack[p][i].mark \cup stack[p][i].acc
       /\ Tx(p).status = "open" /\ cut[p] = 0 => Tx(p).pending = Top(p).mark \cup Top(p).acc

AllOrNothingFor(p) ==
  /\ result[p] = "ok" => Committed(p) = stack[p][1].acc
  /\ result[p] = "commitErr" => Committed(p) \in {{}, stack[p][1].acc}
  /\ result[p] \in {"none", "err", "panic"} => Committed(p) = {}

WorkInv == \A p \in Proc : WorkOk(p) /\ AllOrNothingFor(p)

LEMMA WorkInit == Init => WorkInv
  BY DEF Init, WorkInv, WorkOk, AllOrNothingFor, Committed, Active

\* What a step does to the database: nothing, or the pending statements of
\* its own transaction.
LEMMA CommittedStep ==
  ASSUME ConnInv, TenantInv, WorkInv, NEW p \in Proc, Step(p) \/ CancelContext(p)
  PROVE  \A q \in Proc : q # p => AllOrNothingFor(q)'
<1>1. db' = db \/ (Active(p) /\ db' = db \cup Tx(p).pending)
  BY DEF Step, BeginRoot, BeginFails, SetTenantSession, SetTenantSessionFails, Exec,
         ExecFails, BeginNested, FnReturns, ReleaseSavepoint, ReleaseFails, RollbackNested,
         CommitRoot, CommitRootFails, RollbackRoot, CancelContext, Active
<1>2. ASSUME NEW q \in Proc, q # p PROVE Committed(q)' = Committed(q)
  BY <1>1, <1>2 DEF Committed, TenantInv, TenantOk, Own
<1>3. ASSUME NEW q \in Proc, q # p PROVE AllOrNothingFor(q)'
  BY <1>2, <1>3, StepElsewhere DEF Elsewhere, AllOrNothingFor, WorkInv
<1> QED
  BY <1>3

LEMMA WorkStep ==
  ASSUME ~NestedTimeouts, ConnInv, TenantInv, WorkInv,
         NEW p \in Proc, Step(p) \/ CancelContext(p)
  PROVE  WorkInv'
<1>0. TypeOK /\ Shape /\ PoolClean /\ TenantOk(p) /\ WorkOk(p) /\ AllOrNothingFor(p)
  BY DEF ConnInv, TenantInv, WorkInv
<1>1. ASSUME NEW q \in Proc, q # p PROVE WorkOk(q)' /\ AllOrNothingFor(q)'
  <2>1. AllOrNothingFor(q)'
    BY <1>1, CommittedStep
  <2>2. WorkOk(q)'
    BY <1>1, StepElsewhere DEF WorkInv, WorkOk, Elsewhere, Active, Tx, Depth, Top
  <2> QED
    BY <2>1, <2>2
<1>2. Active(p) => /\ conn[p] \in Conn /\ stack[p] \in Seq(Frame)
                   /\ Depth(p) = Len(stack[p]) /\ Depth(p) \in Nat /\ Depth(p) >= 1
                   /\ tx[conn[p]] \in Transaction
                   /\ DOMAIN stack[p] = 1 .. Len(stack[p])
  BY <1>0, LenProperties DEF Shape, TypeOK, Depth
<1>3. ASSUME Active(p), \A i \in 1 .. Depth(p) : i \in Nat, NEW i \in 1 .. Depth(p)
      PROVE  stack[p][i] \in Frame
  BY <1>2, <1>3, ElementOfSeq
\* A call that stays active returns nothing yet and commits nothing.
<1>4. ASSUME Active(p), result'[p] = result[p], db' = db PROVE AllOrNothingFor(p)'
  BY <1>0, <1>4 DEF AllOrNothingFor, Shape, Active, Committed
<1>5. CASE BeginRoot(p)
  <2>1. PICK c \in Conn : /\ Free(c)
                          /\ conn' = [conn EXCEPT ![p] = c]
                          /\ tx' = [tx EXCEPT ![c].status = "open"]
    BY <1>5 DEF BeginRoot
  <2>2. Tx(p)'.pending = {}
    BY <1>0, <2>1 DEF PoolClean, TypeOK, Tx, Fresh, Transaction
  <2>3. Depth(p)' = 1 /\ stack'[p][1] = [mark |-> {}, acc |-> {}] /\ cut' = cut
    BY <1>0, <1>5 DEF BeginRoot, Depth, TypeOK
  <2>4. WorkOk(p)'
    BY <1>0, <2>2, <2>3 DEF WorkOk, Top
  <2>5. AllOrNothingFor(p)'
    BY <1>0, <1>5 DEF BeginRoot, AllOrNothingFor, Shape, Active, Committed
  <2> QED
    BY <1>1, <2>4, <2>5 DEF WorkInv
<1>6. CASE BeginFails(p)
  <2>1. WorkOk(p)'
    BY <1>0, <1>6 DEF BeginFails, WorkOk, TypeOK, Active
  <2>2. AllOrNothingFor(p)'
    BY <1>0, <1>6 DEF BeginFails, AllOrNothingFor, TypeOK, Shape, Committed
  <2> QED
    BY <1>1, <2>1, <2>2 DEF WorkInv
<1>7. CASE SetTenantSession(p)
  <2>1. Active(p)
    BY <1>7 DEF SetTenantSession, Active
  <2>2. Tx(p)'.status = Tx(p).status /\ Tx(p)'.pending = Tx(p).pending
    BY <1>0, <1>2, <1>7, <2>1 DEF SetTenantSession, Tx, TypeOK, Transaction
  <2>3. WorkOk(p)'
    BY <1>0, <1>7, <2>1, <2>2 DEF SetTenantSession, WorkOk, Depth, Top
  <2> QED
    BY <1>1, <1>4, <1>7, <2>1, <2>3 DEF WorkInv, SetTenantSession
<1>8. CASE SetTenantSessionFails(p) \/ ExecFails(p)
  <2>1. Active(p) /\ conn' = conn /\ stack' = stack /\ cut' = cut
    BY <1>8 DEF SetTenantSessionFails, ExecFails, Active
  <2>2. PICK s \in FailedStatus(p) : SetStatus(p, s)
    BY <1>8 DEF SetTenantSessionFails, ExecFails
  <2>3. Tx(p)'.pending = Tx(p).pending /\ Tx(p)'.status = s
    BY <1>0, <1>2, <2>1, <2>2 DEF SetStatus, Tx, TypeOK, Transaction
  <2>4. s = "open" => Tx(p).status = "open"
    BY <2>2 DEF FailedStatus
  <2>5. WorkOk(p)'
    BY <1>0, <2>1, <2>3, <2>4 DEF WorkOk, Depth, Top
  <2> QED
    BY <1>1, <1>4, <1>8, <2>1, <2>5 DEF WorkInv, SetTenantSessionFails, ExecFails
<1>9. CASE Exec(p)
  <2> DEFINE s == [proc |-> p, n |-> issued[p] + 1, tenant |-> Tx(p).tenant]
  <2>1. Active(p) /\ cut' = cut
    BY <1>9 DEF Exec, Active
  <2>2. Tx(p)'.status = Tx(p).status /\ Tx(p)'.pending = Tx(p).pending \cup {s}
    BY <1>0, <1>2, <1>9, <2>1 DEF Exec, Tx, TypeOK, Transaction
  <2>3. Depth(p) \in 1 .. Depth(p) /\ stack[p][Depth(p)] \in Frame
    BY <1>2, <1>3, <2>1
  <2>4. stack'[p] = [stack[p] EXCEPT ![Depth(p)] =
                       [stack[p][Depth(p)] EXCEPT !.acc = @ \cup {s}]]
    BY <1>0, <1>9 DEF Exec, TypeOK
  <2>5. /\ Depth(p)' = Depth(p)
        /\ \A i \in 1 .. Depth(p) - 1 : stack'[p][i] = stack[p][i]
        /\ stack'[p][Depth(p)].mark = stack[p][Depth(p)].mark
        /\ stack'[p][Depth(p)].acc = stack[p][Depth(p)].acc \cup {s}
    <3>1. Depth(p)' = Depth(p)
      BY <1>2, <2>1, <2>4 DEF Depth
    <3>2. \A i \in 1 .. Depth(p) - 1 : stack'[p][i] = stack[p][i]
      BY <1>2, <2>1, <2>3, <2>4
    <3>3. stack'[p][Depth(p)] = [stack[p][Depth(p)] EXCEPT !.acc = @ \cup {s}]
      BY <1>2, <2>1, <2>3, <2>4
    <3> QED
      BY <2>3, <3>1, <3>2, <3>3 DEF Frame
  <2>6. \A i \in 1 .. Depth(p) - 1 : stack'[p][i + 1].mark = stack[p][i + 1].mark
    BY <1>2, <2>1, <2>5
  <2>7. stack'[p][1].mark = stack[p][1].mark
    BY <1>2, <2>1, <2>5
  <2>8. WorkOk(p)'
    BY <1>0, <2>1, <2>2, <2>5, <2>6, <2>7 DEF WorkOk, Top, Active, Depth
  <2> QED
    BY <1>1, <1>4, <1>9, <2>1, <2>8 DEF WorkInv, Exec
<1>10. CASE BeginNested(p)
  <2> DEFINE f == [mark |-> Tx(p).pending, acc |-> {}]
  <2>1. Active(p) /\ cut' = cut /\ Tx(p)' = Tx(p) /\ cut[p] = 0 /\ Tx(p).status = "open"
    BY <1>0, <1>2, <1>10 DEF BeginNested, Active, Tx, Live, WorkOk
  <2>2. f \in Frame
    BY <1>2, <2>1 DEF Frame, Tx, Transaction
  <2>3. stack'[p] = Append(stack[p], f)
    BY <1>0, <1>10 DEF BeginNested, TypeOK
  <2>4. /\ Depth(p)' = Depth(p) + 1
        /\ \A i \in 1 .. Depth(p) : stack'[p][i] = stack[p][i]
        /\ stack'[p][Depth(p) + 1] = f
    BY <1>2, <2>1, <2>2, <2>3, AppendProperties DEF Depth
  <2>5. f.mark = stack[p][Depth(p)].mark \cup stack[p][Depth(p)].acc
    BY <1>0, <2>1 DEF WorkOk, Top
  <2>6. ASSUME NEW i \in 1 .. Depth(p)
        PROVE stack'[p][i + 1].mark = stack'[p][i].mark \cup stack'[p][i].acc
    <3>1. CASE i = Depth(p)
      BY <2>4, <2>5, <3>1
    <3>2. CASE i # Depth(p)
      <4>1. i \in 1 .. Depth(p) - 1 /\ i + 1 \in 1 .. Depth(p)
        BY <1>2, <2>1, <3>2
      <4>2. stack[p][i + 1].mark = stack[p][i].mark \cup stack[p][i].acc
        BY <1>0, <2>1, <4>1 DEF WorkOk
      <4> QED
        BY <2>4, <4>1, <4>2
    <3> QED
      BY <3>1, <3>2
  <2>7. stack'[p][1].mark = {}
    BY <1>0, <1>2, <2>1, <2>4 DEF WorkOk
  <2>8. Tx(p)'.pending = Top(p)'.mark \cup Top(p)'.acc
    BY <2>1, <2>4 DEF Top
  <2>9. Depth(p)' - 1 = Depth(p)
    BY <1>2, <2>1, <2>4
  <2>10. WorkOk(p)'
    BY <1>0, <2>1, <2>6, <2>7, <2>8, <2>9 DEF WorkOk
  <2> QED
    BY <1>1, <1>4, <1>10, <2>1, <2>10 DEF WorkInv, BeginNested
<1>11. CASE FnReturns(p)
  <2>1. Active(p)
    BY <1>11 DEF FnReturns, Active
  <2>2. WorkOk(p)'
    BY <1>0, <1>11, <2>1 DEF FnReturns, WorkOk, Depth, Top, Tx
  <2> QED
    BY <1>1, <1>4, <1>11, <2>1, <2>2 DEF WorkInv, FnReturns
<1>12. CASE ReleaseSavepoint(p)
  <2>1. /\ Active(p) /\ Depth(p) > 1 /\ Tx(p)' = Tx(p)
        /\ cut[p] = 0 /\ Tx(p).status = "open"
    BY <1>0, <1>2, <1>12 DEF ReleaseSavepoint, Active, Tx, Live, WorkOk
  <2>2. stack'[p] = Released(stack[p]) /\ cut'[p] = 0
    BY <1>0, <1>12, <2>1 DEF ReleaseSavepoint, Leave, TypeOK
  <2>3. /\ Depth(p)' = Depth(p) - 1
        /\ \A i \in 1 .. Depth(p) - 2 : stack'[p][i] = stack[p][i]
        /\ stack'[p][Depth(p) - 1].mark = stack[p][Depth(p) - 1].mark
        /\ stack'[p][Depth(p) - 1].acc = stack[p][Depth(p) - 1].acc \cup stack[p][Depth(p)].acc
    BY <1>2, <2>1, <2>2, ReleasedType DEF Depth
  <2>4. ASSUME NEW i \in 1 .. Depth(p) - 2
        PROVE stack'[p][i + 1].mark = stack'[p][i].mark \cup stack'[p][i].acc
    <3>1. stack[p][i + 1].mark = stack[p][i].mark \cup stack[p][i].acc
      BY <1>0, <1>2, <2>1 DEF WorkOk
    <3>2. stack'[p][i + 1].mark = stack[p][i + 1].mark
      <4>1. i + 1 \in 1 .. Depth(p) - 2 \/ i + 1 = Depth(p) - 1
        BY <1>2, <2>1
      <4> QED
        BY <2>3, <4>1
    <3> QED
      BY <2>3, <3>1, <3>2
  <2>5. stack'[p][1].mark = {}
    BY <1>0, <1>2, <2>1, <2>3 DEF WorkOk
  <2>6. Tx(p)'.pending = Top(p)'.mark \cup Top(p)'.acc
    <3>1. Tx(p).pending = stack[p][Depth(p)].mark \cup stack[p][Depth(p)].acc
      BY <1>0, <2>1 DEF WorkOk, Top
    <3>2. stack[p][Depth(p)].mark = stack[p][Depth(p) - 1].mark \cup stack[p][Depth(p) - 1].acc
      <4>1. Depth(p) - 1 \in 1 .. Depth(p) - 1 /\ (Depth(p) - 1) + 1 = Depth(p)
        BY <1>2, <2>1
      <4> QED
        BY <1>0, <2>1, <4>1 DEF WorkOk
    <3> QED
      BY <2>1, <2>3, <3>1, <3>2 DEF Top
  <2>7. Depth(p)' - 1 = Depth(p) - 2
    BY <1>2, <2>1, <2>3
  <2>8. WorkOk(p)'
    BY <2>1, <2>2, <2>4, <2>5, <2>6, <2>7 DEF WorkOk
  <2> QED
    BY <1>1, <1>4, <1>12, <2>1, <2>8 DEF WorkInv, ReleaseSavepoint
\* A failed release and a rollback drop the innermost call.
<1>13. ASSUME Active(p), Depth(p) > 1, Leave(p, Front(stack[p])), conn' = conn
       PROVE  /\ Depth(p)' = Depth(p) - 1 /\ cut'[p] = cut[p]
              /\ stack'[p][1].mark = {}
              /\ \A i \in 1 .. Depth(p)' - 1 :
                   stack'[p][i + 1].mark = stack'[p][i].mark \cup stack'[p][i].acc
              /\ Top(p)' = stack[p][Depth(p) - 1]
              /\ stack[p][Depth(p)].mark =
                   stack[p][Depth(p) - 1].mark \cup stack[p][Depth(p) - 1].acc
  <2>1. stack'[p] = Front(stack[p]) /\ cut'[p] = cut[p]
    BY <1>0, <1>2, <1>13 DEF Leave, TypeOK, WorkOk
  <2>2. /\ Depth(p)' = Depth(p) - 1
        /\ \A i \in 1 .. Depth(p) - 1 : stack'[p][i] = stack[p][i]
    <3>1. /\ Len(Front(stack[p])) = Len(stack[p]) - 1
          /\ \A i \in 1 .. Len(stack[p]) - 1 : Front(stack[p])[i] = stack[p][i]
      BY <1>2, <1>13, FrontLast
    <3> QED
      BY <1>2, <1>13, <2>1, <3>1 DEF Depth
  <2>3. /\ 1 \in 1 .. Depth(p) - 1 /\ Depth(p) - 1 \in 1 .. Depth(p) - 1
        /\ (Depth(p) - 1) + 1 = Depth(p)
    BY <1>2, <1>13
  <2>4. \A i \in 1 .. Depth(p)' - 1 : i \in 1 .. Depth(p) - 1 /\ i + 1 \in 1 .. Depth(p) - 1
    BY <1>2, <1>13, <2>2
  <2> QED
    BY <1>0, <1>13, <2>1, <2>2, <2>3, <2>4 DEF WorkOk, Top
<1>14. CASE ReleaseFails(p)
  <2>1. Active(p) /\ Depth(p) > 1 /\ Leave(p, Front(stack[p])) /\ conn' = conn
    BY <1>14 DEF ReleaseFails, Active
  <2>2. PICK s \in FailedStatus(p) : SetStatus(p, s)
    BY <1>14 DEF ReleaseFails
  <2>3. Tx(p)'.status = s
    BY <1>0, <1>2, <2>1, <2>2 DEF SetStatus, Tx, TypeOK, Transaction
  <2>4. s = "open" => cut[p] # 0
    BY <2>2 DEF FailedStatus, Live
  <2>5. WorkOk(p)'
    BY <1>0, <1>13, <2>1, <2>3, <2>4 DEF WorkOk
  <2> QED
    BY <1>1, <1>4, <1>14, <2>1, <2>5 DEF WorkInv, ReleaseFails
<1>15. CASE RollbackNested(p)
  <2>1. Active(p) /\ Depth(p) > 1 /\ Leave(p, Front(stack[p])) /\ conn' = conn
    BY <1>15 DEF RollbackNested, RollbackPcs, Active
  <2>2. Tx(p)'.status = "open" => Tx(p)'.pending = stack[p][Depth(p)].mark
    BY <1>0, <1>2, <1>15, <2>1, RollbackNestedTx, FrontLast DEF Tx
  <2>3. WorkOk(p)'
    BY <1>0, <1>13, <2>1, <2>2 DEF WorkOk
  <2> QED
    BY <1>1, <1>4, <1>15, <2>1, <2>3 DEF WorkInv, RollbackNested
\* The call returns.
<1>16. ASSUME Active(p), NEW r, Return(p, r)
       PROVE  /\ WorkOk(p)' /\ result'[p] = r /\ stack' = stack
  BY <1>0, <1>16 DEF Return, WorkOk, Active, TypeOK
<1>17. ASSUME Active(p), Depth(p) = 1, Live(p, 1), Tx(p).status = "open",
              db' = db \cup Tx(p).pending
       PROVE  Committed(p)' = stack[p][1].acc
  <2>4. cut[p] = 0
    BY <1>0, <1>17 DEF WorkOk, Live
  <2>5. stack[p][1].mark = {} /\ Tx(p).pending = stack[p][1].mark \cup stack[p][1].acc
    BY <1>0, <1>17, <2>4 DEF WorkOk, Top
  <2>1. Tx(p).pending = stack[p][1].acc
    BY <2>5
  <2>2. Committed(p) = {}
    BY <1>0, <1>17 DEF AllOrNothingFor, Shape, Active
  <2>3. \A s \in Tx(p).pending : s.proc = p
    BY <1>0, <1>17 DEF TenantOk, Own
  <2> QED
    BY <1>17, <2>1, <2>2, <2>3 DEF Committed
<1>18. CASE CommitRoot(p)
  <2>1. /\ Active(p) /\ Depth(p) = 1 /\ Live(p, 1) /\ Tx(p).status = "open"
        /\ db' = db \cup Tx(p).pending /\ Return(p, "ok")
    BY <1>18 DEF CommitRoot, Active
  <2>2. AllOrNothingFor(p)'
    BY <1>16, <1>17, <2>1 DEF AllOrNothingFor
  <2> QED
    BY <1>1, <1>16, <2>1, <2>2 DEF WorkInv
<1>19. CASE CommitRootFails(p)
  <2>1. /\ Active(p) /\ Depth(p) = 1 /\ Return(p, "commitErr")
        /\ \/ db' = db
           \/ Live(p, 1) /\ Tx(p).status = "open" /\ db' = db \cup Tx(p).pending
    BY <1>19 DEF CommitRootFails, Active
  <2>2. db' = db => Committed(p)' = {}
    BY <1>0, <2>1 DEF AllOrNothingFor, Shape, Active, Committed
  <2>3. AllOrNothingFor(p)'
    BY <1>16, <1>17, <2>1, <2>2 DEF AllOrNothingFor
  <2> QED
    BY <1>1, <1>16, <2>1, <2>3 DEF WorkInv
<1>20. CASE RollbackRoot(p)
  <2>1. Active(p) /\ db' = db /\ \E r \in {"err", "panic"} : Return(p, r)
    BY <1>20 DEF RollbackRoot, RollbackPcs, Active
  <2>2. Committed(p)' = {}
    BY <1>0, <2>1 DEF AllOrNothingFor, Shape, Active, Committed
  <2>3. AllOrNothingFor(p)' /\ WorkOk(p)'
    BY <1>16, <2>1, <2>2 DEF AllOrNothingFor
  <2> QED
    BY <1>1, <2>3 DEF WorkInv
<1>21. CASE CancelContext(p)
  <2>1. cut'[p] = 1 /\ UNCHANGED <<pc, stack, conn, issued, result, tx, db>>
    BY <1>0, <1>21 DEF CancelContext, TypeOK
  <2>2. WorkOk(p)' /\ AllOrNothingFor(p)'
    BY <1>0, <2>1 DEF WorkOk, AllOrNothingFor, Committed, Active, Depth, Top, Tx
  <2> QED
    BY <1>1, <2>2 DEF WorkInv
<1> QED
  BY <1>5, <1>6, <1>7, <1>8, <1>9, <1>10, <1>11, <1>12, <1>14, <1>15, <1>18, <1>19, <1>20,
     <1>21 DEF Step

LEMMA InvStep ==
  ASSUME ~NestedTimeouts
  PROVE  ConnInv /\ TenantInv /\ WorkInv /\ [Next]_vars => (ConnInv /\ TenantInv /\ WorkInv)'
<1> SUFFICES ASSUME ConnInv, TenantInv, WorkInv, [Next]_vars
             PROVE  (ConnInv /\ TenantInv /\ WorkInv)'
  OBVIOUS
<1>1. CASE UNCHANGED vars
  <2>1. ConnInv'
    BY ConnStep
  <2>2. TenantInv'
    BY <1>1 DEF vars, TenantInv, TenantOk, OwnTenantOnly, Active, Tx, Depth, Own
  <2>3. WorkInv'
    BY <1>1 DEF vars, WorkInv, WorkOk, AllOrNothingFor, Committed, Active, Depth, Top, Tx
  <2> QED
    BY <2>1, <2>2, <2>3
<1>2. CASE Next
  BY <1>2, ConnStep, TenantStep, WorkStep DEF Next
<1> QED
  BY <1>1, <1>2

\* When nested calls live as long as their caller's context, RunInTx is
\* atomic: a nil result means exactly the work of the calls that returned nil
\* is committed, an error or a panic that nothing is.
THEOREM AllOrNothingHolds == ~NestedTimeouts => (Spec => []AllOrNothing)
<1> SUFFICES ASSUME ~NestedTimeouts PROVE Spec => []AllOrNothing
  OBVIOUS
<1> DEFINE Inv == ConnInv /\ TenantInv /\ WorkInv
<1>1. Init => Inv
  BY ConnInit, TenantInit, WorkInit
<1>2. Inv /\ [Next]_vars => Inv'
  BY InvStep
<1>3. Inv => AllOrNothing
  BY DEF WorkInv, AllOrNothingFor, AllOrNothing
<1> QED
  BY <1>1, <1>2, <1>3, PTL DEF Spec

-----------------------------------------------------------------------------
\* What the open calls of a stack hold, outermost first.
Accs(s) == [i \in 1 .. Len(s) |-> s[i].acc]

LEMMA AccsType ==
  ASSUME NEW s \in Seq(Frame)
  PROVE  /\ Accs(s) \in Seq(SUBSET AllStmts)
         /\ Len(Accs(s)) = Len(s)
         /\ \A i \in 1 .. Len(s) : Accs(s)[i] = s[i].acc
<1>1. Len(s) \in Nat
  BY LenProperties
<1>4. ASSUME NEW i \in 1 .. Len(s) PROVE s[i].acc \in SUBSET AllStmts
  <2>1. s[i] \in Frame
    BY ElementOfSeq
  <2> QED
    BY <2>1 DEF Frame
<1>2. Accs(s) \in Seq(SUBSET AllStmts)
  BY <1>1, <1>4, IsASeq DEF Accs
<1>3. Len(Accs(s)) = Len(s)
  BY <1>1, <1>2, LenProperties DEF Accs
<1> QED
  BY <1>2, <1>3 DEF Accs

\* A nested call begins.
LEMMA AccsAppend ==
  ASSUME NEW s \in Seq(Frame), NEW f \in Frame
  PROVE  Accs(Append(s, f)) = Append(Accs(s), f.acc)
<1> DEFINE t == Append(s, f)
           u == Append(Accs(s), f.acc)
<1>1. t \in Seq(Frame) /\ Len(t) = Len(s) + 1 /\ t[Len(s) + 1] = f
      /\ \A i \in 1 .. Len(s) : t[i] = s[i]
  BY AppendProperties
<1>2. f.acc \in SUBSET AllStmts /\ Len(s) \in Nat
  BY LenProperties DEF Frame
<1>3. u \in Seq(SUBSET AllStmts) /\ Len(u) = Len(s) + 1 /\ u[Len(s) + 1] = f.acc
      /\ \A i \in 1 .. Len(s) : u[i] = s[i].acc
  BY <1>2, AccsType, AppendProperties
<1>4. \A i \in 1 .. Len(s) + 1 : Accs(t)[i] = u[i]
  <2>1. \A i \in 1 .. Len(s) + 1 : Accs(t)[i] = t[i].acc
    BY <1>1, AccsType
  <2>2. \A i \in 1 .. Len(s) + 1 : i \in 1 .. Len(s) \/ i = Len(s) + 1
    BY <1>2
  <2> QED
    BY <1>1, <1>3, <2>1, <2>2
<1>5. Accs(t) = u
  <2> HIDE DEF t, u
  <2> QED
    BY <1>1, <1>3, <1>4, AccsType, SeqEqual
<1> QED
  BY <1>5

\* A nested call fails.
LEMMA AccsFront ==
  ASSUME NEW s \in Seq(Frame), Len(s) > 0
  PROVE  Accs(Front(s)) = Front(Accs(s))
<1> DEFINE t == Front(s)
           u == Front(Accs(s))
<1>1. t \in Seq(Frame) /\ Len(t) = Len(s) - 1 /\ \A i \in 1 .. Len(s) - 1 : t[i] = s[i]
  BY FrontLast
<1>2. u \in Seq(SUBSET AllStmts) /\ Len(u) = Len(s) - 1
      /\ \A i \in 1 .. Len(s) - 1 : u[i] = s[i].acc
  BY AccsType, FrontLast
<1>3. \A i \in 1 .. Len(s) - 1 : Accs(t)[i] = u[i]
  BY <1>1, <1>2, AccsType
<1>4. Accs(t) = u
  <2> HIDE DEF t, u
  <2> QED
    BY <1>1, <1>2, <1>3, AccsType, SeqEqual
<1> QED
  BY <1>4

\* The innermost call is told of one more statement.
LEMMA AccsRecord ==
  ASSUME NEW s \in Seq(Frame), Len(s) > 0, NEW x \in AllStmts
  PROVE  Accs([s EXCEPT ![Len(s)] = [s[Len(s)] EXCEPT !.acc = @ \cup {x}]])
           = [Accs(s) EXCEPT ![Len(s)] = @ \cup {x}]
<1> DEFINE n == Len(s)
           f == [s[n] EXCEPT !.acc = @ \cup {x}]
           t == [s EXCEPT ![n] = f]
           u == [Accs(s) EXCEPT ![n] = Accs(s)[n] \cup {x}]
<1>1. n \in 1 .. Len(s) /\ s[n] \in Frame
  BY LenProperties, ElementOfSeq
<1>2. f \in Frame /\ f.acc = s[n].acc \cup {x}
  BY <1>1 DEF Frame
<1>3. t \in Seq(Frame) /\ Len(t) = Len(s)
      /\ \A i \in 1 .. Len(s) : t[i] = IF i = n THEN f ELSE s[i]
  BY <1>1, <1>2, ExceptSeq
<1>4. Accs(s)[n] \cup {x} \in SUBSET AllStmts
  BY <1>1, AccsType, ElementOfSeq
<1>5. u \in Seq(SUBSET AllStmts) /\ Len(u) = Len(s)
      /\ \A i \in 1 .. Len(s) : u[i] = IF i = n THEN Accs(s)[n] \cup {x} ELSE Accs(s)[i]
  BY <1>1, <1>4, AccsType, ExceptSeq
<1>6. \A i \in 1 .. Len(s) : Accs(t)[i] = u[i]
  <2>1. \A i \in 1 .. Len(s) : Accs(t)[i] = t[i].acc /\ Accs(s)[i] = s[i].acc
    BY <1>3, AccsType
  <2> HIDE DEF t, u, f, n
  <2> QED
    BY <1>1, <1>2, <1>3, <1>5, <2>1
<1>7. Accs(t) = u
  <2> HIDE DEF t, u
  <2> QED
    BY <1>3, <1>5, <1>6, AccsType, SeqEqual
<1> QED
  BY <1>7

\* A nested call returns nil.
LEMMA AccsReleased ==
  ASSUME NEW s \in Seq(Frame), Len(s) > 1
  PROVE  Accs(Released(s)) = Promise!Merge(Accs(s))
<1> DEFINE n == Len(s) - 1
           a == Front(Accs(s))
           u == [a EXCEPT ![n] = a[n] \cup Last(Accs(s))]
<1>1. /\ Released(s) \in Seq(Frame) /\ Len(Released(s)) = n
      /\ Released(s)[n].acc = s[n].acc \cup s[Len(s)].acc
      /\ \A i \in 1 .. n - 1 : Released(s)[i] = s[i]
  BY ReleasedType, LenProperties
<1>2. n \in Nat /\ n \in 1 .. n /\ n \in 1 .. Len(s) /\ Len(s) \in 1 .. Len(s)
  BY LenProperties
<1>3. /\ a \in Seq(SUBSET AllStmts) /\ Len(a) = n
      /\ \A i \in 1 .. n : a[i] = s[i].acc
      /\ Last(Accs(s)) = s[Len(s)].acc /\ Last(Accs(s)) \in SUBSET AllStmts
  <2>1. /\ Accs(s) \in Seq(SUBSET AllStmts) /\ Len(Accs(s)) = Len(s) /\ Len(Accs(s)) > 0
        /\ \A i \in 1 .. Len(s) : Accs(s)[i] = s[i].acc
    BY <1>2, AccsType
  <2>2. /\ a \in Seq(SUBSET AllStmts) /\ Len(a) = Len(Accs(s)) - 1
        /\ \A i \in 1 .. Len(Accs(s)) - 1 : a[i] = Accs(s)[i]
        /\ Last(Accs(s)) = Accs(s)[Len(Accs(s))] /\ Last(Accs(s)) \in SUBSET AllStmts
    BY <2>1, FrontLast
  <2>3. \A i \in 1 .. n : i \in 1 .. Len(s)
    BY <1>2
  <2> QED
    BY <1>2, <2>1, <2>2, <2>3
<1>4. a[n] \cup Last(Accs(s)) \in SUBSET AllStmts
  BY <1>2, <1>3, ElementOfSeq
<1>5. u \in Seq(SUBSET AllStmts) /\ Len(u) = n
      /\ \A i \in 1 .. n : u[i] = IF i = n THEN a[n] \cup Last(Accs(s)) ELSE a[i]
  BY <1>2, <1>3, <1>4, ExceptSeq
<1>6. \A i \in 1 .. n : Accs(Released(s))[i] = u[i]
  <2> SUFFICES ASSUME NEW i \in 1 .. n PROVE Accs(Released(s))[i] = u[i]
    OBVIOUS
  <2>1. Accs(Released(s))[i] = Released(s)[i].acc
    BY <1>1, AccsType
  <2>2. i = n \/ i \in 1 .. n - 1
    BY <1>2
  <2> QED
    BY <1>1, <1>2, <1>3, <1>5, <2>1, <2>2
<1>7. Accs(Released(s)) = u
  <2> HIDE DEF u, n
  <2> QED
    BY <1>1, <1>5, <1>6, AccsType, SeqEqual
<1>8. Promise!Merge(Accs(s)) = u
  <2>1. Len(Accs(s)) - 1 = n
    BY AccsType
  <2> QED
    BY <2>1 DEF Promise!Merge, Promise!Front, Promise!Last, Front, Last
<1> QED
  BY <1>7, <1>8

-----------------------------------------------------------------------------
\* The state UnitOfWork sees.
Held == [p \in Proc |-> Accs(stack[p])]

\* A step of p leaves what the other processes hold alone.
LEMMA HeldStep ==
  ASSUME ConnInv, NEW p \in Proc, Step(p) \/ CancelContext(p)
  PROVE  Held' = [Held EXCEPT ![p] = Accs(stack'[p])]
<1>1. \A q \in Proc : q # p => stack'[q] = stack[q]
  BY StepElsewhere DEF Elsewhere
<1> QED
  BY <1>1 DEF Held, Accs

\* Each step of a process is one of the unit of work's, or changes nothing a
\* caller can see.
Mapped(p) ==
  \/ Promise!Open(p) \/ Promise!Record(p) \/ Promise!Keep(p) \/ Promise!Discard(p)
  \/ Promise!Commit(p) \/ Promise!CommitFails(p) \/ Promise!Fail(p)
  \/ UNCHANGED Promise!vars

LEMMA StepImplements ==
  ASSUME ~NestedTimeouts, ConnInv, TenantInv, WorkInv,
         NEW p \in Proc, Step(p) \/ CancelContext(p)
  PROVE  Mapped(p)
<1>0. TypeOK /\ Shape /\ PoolClean /\ TenantOk(p) /\ WorkOk(p) /\ AllOrNothingFor(p)
  BY DEF ConnInv, TenantInv, WorkInv
<1>1. /\ stack[p] \in Seq(Frame) /\ Len(stack[p]) \in Nat
      /\ Depth(p) = Len(stack[p])
      /\ Accs(stack[p]) \in Seq(SUBSET AllStmts) /\ Len(Accs(stack[p])) = Len(stack[p])
      /\ \A i \in 1 .. Len(stack[p]) : Accs(stack[p])[i] = stack[p][i].acc
  BY <1>0, AccsType, LenProperties DEF TypeOK, Depth
<1>2. Active(p) => /\ conn[p] \in Conn /\ Depth(p) >= 1 /\ result[p] = "none"
                   /\ tx[conn[p]] \in Transaction
  BY <1>0 DEF Shape, TypeOK, Active
<1>3. pc[p] = "begin" => /\ result[p] = "none" /\ stack[p] = <<>>
  BY <1>0 DEF Shape
<1>4. /\ Held[p] = Accs(stack[p])
      /\ Held' = [Held EXCEPT ![p] = Accs(stack'[p])]
  BY HeldStep DEF Held
\* The actions of UnitOfWork, in terms of Held.
<1>5. ASSUME result[p] = "none", Held' = [Held EXCEPT ![p] = Append(Held[p], {})],
             UNCHANGED <<db, result>>
      PROVE  Promise!Open(p)
  BY <1>5 DEF Promise!Open, Held, Accs, Depth
<1>6. ASSUME result[p] = "none", Len(Held[p]) > 0, UNCHANGED <<db, result>>,
             NEW s \in Stmt[p],
             Held' = [Held EXCEPT ![p] = [Held[p] EXCEPT ![Len(Held[p])] = @ \cup {s}]]
      PROVE  Promise!Record(p)
  BY <1>6 DEF Promise!Record, Promise!Running, Held, Accs, Depth
<1>7. ASSUME result[p] = "none", Len(Held[p]) > 1, UNCHANGED <<db, result>>,
             Held' = [Held EXCEPT ![p] = Promise!Merge(Held[p])]
      PROVE  Promise!Keep(p)
  BY <1>7 DEF Promise!Keep, Promise!Running, Held, Accs, Depth
<1>8. ASSUME result[p] = "none", Len(Held[p]) > 1, UNCHANGED <<db, result>>,
             Held' = [Held EXCEPT ![p] = Front(Held[p])]
      PROVE  Promise!Discard(p)
  <2>1. Promise!Front(Held[p]) = Front(Held[p])
    BY DEF Promise!Front, Front
  <2>2. Held' = [Held EXCEPT ![p] = Promise!Front(Held[p])]
    BY <1>8, <2>1
  <2> QED
    BY <1>8, <2>2 DEF Promise!Discard, Promise!Running, Held, Accs, Depth
<1>9. ASSUME result[p] = "none", Len(Held[p]) = 1, Held' = Held,
             result' = [result EXCEPT ![p] = "ok"], db' = db \cup Held[p][1]
      PROVE  Promise!Commit(p)
  BY <1>9 DEF Promise!Commit, Promise!Running, Held, Accs, Depth
<1>10. ASSUME result[p] = "none", Len(Held[p]) = 1, Held' = Held,
              result' = [result EXCEPT ![p] = "commitErr"], db' \in {db, db \cup Held[p][1]}
       PROVE  Promise!CommitFails(p)
  <2>1. CASE db' = db
    BY <1>10, <2>1 DEF Promise!CommitFails, Promise!Running, Held, Accs, Depth
  <2>2. CASE db' = db \cup Held[p][1]
    BY <1>10, <2>2 DEF Promise!CommitFails, Promise!Running, Held, Accs, Depth
  <2> QED
    BY <1>10, <2>1, <2>2
<1>11. ASSUME result[p] = "none", Len(Held[p]) <= 1, Held' = Held, db' = db,
              NEW r \in {"err", "panic"}, result' = [result EXCEPT ![p] = r]
       PROVE  Promise!Fail(p)
  BY <1>11 DEF Promise!Fail, Held, Accs, Depth
<1>12. ASSUME Held' = Held, UNCHANGED <<db, result>>
       PROVE  UNCHANGED Promise!vars
  BY <1>12 DEF Promise!vars, Held, Accs, Depth
<1>13. ASSUME stack' = stack PROVE Held' = Held
  BY <1>13 DEF Held, Accs
\* What a root transaction commits is what its call holds.
<1>14. ASSUME Active(p), Depth(p) = 1, Live(p, 1), Tx(p).status = "open"
       PROVE  Tx(p).pending = Held[p][1]
  <2>1. cut[p] = 0
    BY <1>0, <1>14 DEF WorkOk, Live
  <2>2. stack[p][1].mark = {} /\ Tx(p).pending = stack[p][1].mark \cup stack[p][1].acc
    BY <1>0, <1>14, <2>1 DEF WorkOk, Top
  <2> QED
    BY <1>1, <1>4, <1>14, <2>2
<1>15. CASE BeginRoot(p)
  <2>1. Held[p] = <<>> /\ result[p] = "none"
    BY <1>1, <1>3, <1>4, <1>15, EmptySeq DEF BeginRoot
  <2>2. stack'[p] = <<[mark |-> {}, acc |-> {}]>>
    BY <1>0, <1>15 DEF BeginRoot, TypeOK
  <2>3. Accs(stack'[p]) = <<{}>>
    BY <2>2 DEF Accs
  <2>4. Append(Held[p], {}) = <<{}>>
    BY <2>1
  <2> QED
    BY <1>4, <1>5, <1>15, <2>1, <2>3, <2>4 DEF BeginRoot, Mapped
<1>16. CASE BeginFails(p)
  <2>1. Len(Held[p]) = 0
    BY <1>1, <1>3, <1>4, <1>16 DEF BeginFails
  <2> QED
    BY <1>3, <1>11, <1>13, <1>16, <2>1 DEF BeginFails, Mapped
<1>17. CASE SetTenantSession(p) \/ SetTenantSessionFails(p) \/ ExecFails(p) \/ FnReturns(p)
            \/ CancelContext(p)
  BY <1>12, <1>13, <1>17
  DEF SetTenantSession, SetTenantSessionFails, ExecFails, FnReturns, CancelContext, Mapped
<1>18. CASE Exec(p)
  <2> DEFINE s == [proc |-> p, n |-> issued[p] + 1, tenant |-> Tx(p).tenant]
  <2>1. Active(p) /\ result[p] = "none" /\ Len(stack[p]) > 0
    BY <1>1, <1>2, <1>18 DEF Exec, Active
  <2>2. issued[p] + 1 \in 1 .. MaxStmts
    BY <1>0, <1>18, BoundAssumption DEF Exec, TypeOK
  <2>3. Tx(p).tenant \in Tenants
    BY <1>2, <2>1 DEF Tx, Transaction
  <2>4. s \in Stmt[p] /\ s \in AllStmts
    BY <2>2, <2>3, StmtOf DEF Stmt
  <2>5. stack'[p] = [stack[p] EXCEPT ![Len(stack[p])] =
                       [stack[p][Len(stack[p])] EXCEPT !.acc = @ \cup {s}]]
    BY <1>0, <1>18 DEF Exec, Depth, TypeOK
  <2>6. Accs(stack'[p]) = [Accs(stack[p]) EXCEPT ![Len(stack[p])] = @ \cup {s}]
    <3> HIDE DEF s
    <3> QED
      BY <1>1, <2>1, <2>4, <2>5, AccsRecord
  <2>7. UNCHANGED <<db, result>>
    BY <1>18 DEF Exec
  <2> HIDE DEF s
  <2> QED
    BY <1>1, <1>4, <1>6, <2>1, <2>4, <2>6, <2>7 DEF Mapped
<1>19. CASE BeginNested(p)
  <2> DEFINE f == [mark |-> Tx(p).pending, acc |-> {}]
  <2>1. Active(p) /\ result[p] = "none" /\ UNCHANGED <<db, result>>
    BY <1>2, <1>19 DEF BeginNested, Active
  <2>2. f \in Frame /\ f.acc = {}
    BY <1>2, <2>1 DEF Frame, Tx, Transaction
  <2>3. stack'[p] = Append(stack[p], f)
    BY <1>0, <1>19 DEF BeginNested, TypeOK
  <2>4. Accs(stack'[p]) = Append(Accs(stack[p]), {})
    <3> HIDE DEF f
    <3> QED
      BY <1>1, <2>2, <2>3, AccsAppend
  <2> QED
    BY <1>4, <1>5, <2>1, <2>4 DEF Mapped
<1>20. CASE ReleaseSavepoint(p)
  <2>1. result[p] = "none" /\ Len(stack[p]) > 1 /\ UNCHANGED <<db, result>>
    BY <1>1, <1>2, <1>20 DEF ReleaseSavepoint, Active
  <2>2. stack'[p] = Released(stack[p])
    BY <1>0, <1>20 DEF ReleaseSavepoint, Leave, TypeOK
  <2>3. Accs(stack'[p]) = Promise!Merge(Accs(stack[p]))
    BY <1>1, <2>1, <2>2, AccsReleased
  <2> QED
    BY <1>1, <1>4, <1>7, <2>1, <2>3 DEF Mapped
<1>21. CASE ReleaseFails(p) \/ RollbackNested(p)
  <2>1. result[p] = "none" /\ Len(stack[p]) > 1 /\ UNCHANGED <<db, result>>
    BY <1>1, <1>2, <1>21 DEF ReleaseFails, RollbackNested, RollbackPcs, Active
  <2>2. stack'[p] = Front(stack[p])
    BY <1>0, <1>21 DEF ReleaseFails, RollbackNested, Leave, TypeOK
  <2>3. Accs(stack'[p]) = Front(Accs(stack[p]))
    BY <1>1, <2>1, <2>2, AccsFront
  <2> QED
    BY <1>1, <1>4, <1>8, <2>1, <2>3 DEF Mapped
<1>22. ASSUME Depth(p) = 1, NEW r, Return(p, r)
       PROVE  /\ Held' = Held /\ Len(Held[p]) = 1
              /\ result' = [result EXCEPT ![p] = r]
  BY <1>1, <1>4, <1>13, <1>22 DEF Return
<1>23. CASE CommitRoot(p)
  <2>1. Active(p) /\ result[p] = "none"
    BY <1>2, <1>23 DEF CommitRoot, Active
  <2> QED
    BY <1>9, <1>14, <1>22, <1>23, <2>1 DEF CommitRoot, Mapped
<1>24. CASE CommitRootFails(p)
  <2>1. Active(p) /\ result[p] = "none"
    BY <1>2, <1>24 DEF CommitRootFails, Active
  <2>2. db' \in {db, db \cup Held[p][1]}
    BY <1>14, <1>24, <2>1 DEF CommitRootFails
  <2> QED
    BY <1>10, <1>22, <1>24, <2>1, <2>2 DEF CommitRootFails, Mapped
<1>25. CASE RollbackRoot(p)
  <2>1. result[p] = "none" /\ Depth(p) = 1 /\ db' = db
    BY <1>2, <1>25 DEF RollbackRoot, RollbackPcs, Active
  <2>2. PICK r \in {"err", "panic"} : Return(p, r)
    BY <1>25 DEF RollbackRoot
  <2>3. Held' = Held /\ Len(Held[p]) = 1 /\ result' = [result EXCEPT ![p] = r]
    BY <1>22, <2>1, <2>2
  <2>4. Len(Held[p]) <= 1
    BY <2>3
  <2> QED
    BY <1>11, <2>1, <2>3, <2>4 DEF Mapped
<1> QED
  BY <1>15, <1>16, <1>17, <1>18, <1>19, <1>20, <1>21, <1>23, <1>24, <1>25 DEF Step

\* When nested calls live as long as their caller's context, RunInTx keeps the
\* promise of UnitOfWork, to any callers, connections, tenants and nesting.
THEOREM UnitOfWorkImplemented == ~NestedTimeouts => (Spec => ImplementsUnitOfWork)
<1> SUFFICES ASSUME ~NestedTimeouts PROVE Spec => ImplementsUnitOfWork
  OBVIOUS
<1> DEFINE Inv == ConnInv /\ TenantInv /\ WorkInv
<1>1. Init => Promise!Init
  <2> SUFFICES ASSUME Init PROVE Promise!Init
    OBVIOUS
  <2>1. \A p \in Proc : Depth(p) = 0
    BY DEF Init, Depth
  <2> QED
    BY <2>1 DEF Init, Promise!Init
<1>2. ASSUME Inv, [Next]_vars PROVE [Promise!Next]_Promise!vars
  <2>1. CASE UNCHANGED vars
    BY <2>1 DEF vars, Promise!vars, Depth
  <2>2. CASE Next
    <3>1. PICK p \in Proc : Step(p) \/ CancelContext(p)
      BY <2>2 DEF Next
    <3>2. Mapped(p)
      BY <1>2, <3>1, StepImplements
    <3> QED
      BY <3>2 DEF Mapped, Promise!Next
  <2> QED
    BY <1>2, <2>1, <2>2
<1>3. Init => Inv
  BY ConnInit, TenantInit, WorkInit
<1>4. Inv /\ [Next]_vars => Inv'
  BY InvStep
<1> QED
  BY <1>1, <1>2, <1>3, <1>4, PTL DEF Spec, ImplementsUnitOfWork, Promise!Spec

-----------------------------------------------------------------------------
\* With deadlines of nested calls too, what the open calls were told is saved
\* or pending: each savepoint, and in the end the transaction, holds at least
\* the work of the calls around it.
HeldPending(p) ==
  Active(p) =>
    /\ \A i \in 1 .. Depth(p) - 1 :
         stack[p][i].mark \cup stack[p][i].acc \subseteq stack[p][i + 1].mark
    /\ Top(p).mark \cup Top(p).acc \subseteq Tx(p).pending

NothingLostFor(p) ==
  /\ result[p] = "ok" => stack[p][1].acc \subseteq Committed(p)
  /\ result[p] = "commitErr" => Committed(p) = {} \/ stack[p][1].acc \subseteq Committed(p)
  /\ result[p] \in {"none", "err", "panic"} => Committed(p) = {}

NothingLost == \A p \in Proc : NothingLostFor(p)

KeptInv == NothingLost /\ \A p \in Proc : HeldPending(p)

LEMMA KeptInit == Init => KeptInv
  BY DEF Init, KeptInv, HeldPending, NothingLost, NothingLostFor, Committed, Active

LEMMA KeptElsewhere ==
  ASSUME ConnInv, TenantInv, KeptInv, NEW p \in Proc, Step(p) \/ CancelContext(p),
         NEW q \in Proc, q # p
  PROVE  HeldPending(q)' /\ NothingLostFor(q)'
<1>1. db' = db \/ (Active(p) /\ db' = db \cup Tx(p).pending)
  BY DEF Step, BeginRoot, BeginFails, SetTenantSession, SetTenantSessionFails, Exec,
         ExecFails, BeginNested, FnReturns, ReleaseSavepoint, ReleaseFails, RollbackNested,
         CommitRoot, CommitRootFails, RollbackRoot, CancelContext, Active
<1>2. Committed(q)' = Committed(q)
  BY <1>1 DEF Committed, TenantInv, TenantOk, Own
<1>3. NothingLostFor(q)'
  BY <1>2, StepElsewhere DEF Elsewhere, NothingLostFor, NothingLost, KeptInv
<1>4. HeldPending(q)'
  BY StepElsewhere DEF KeptInv, HeldPending, Elsewhere, Active, Tx, Depth, Top
<1> QED
  BY <1>3, <1>4

\* The work is kept by a step of its own process.
LEMMA KeptOwn ==
  ASSUME ConnInv, KeptInv, NEW p \in Proc, Step(p) \/ CancelContext(p)
  PROVE  HeldPending(p)'
<1>0. TypeOK /\ Shape /\ PoolClean /\ HeldPending(p)
  BY DEF ConnInv, KeptInv
<1>1. Active(p) => /\ conn[p] \in Conn /\ stack[p] \in Seq(Frame)
                   /\ Depth(p) = Len(stack[p]) /\ Depth(p) \in Nat /\ Depth(p) >= 1
                   /\ tx[conn[p]] \in Transaction
                   /\ DOMAIN stack[p] = 1 .. Len(stack[p])
  BY <1>0, LenProperties DEF Shape, TypeOK, Depth
<1>2. CASE BeginRoot(p)
  <2>1. stack'[p] = <<[mark |-> {}, acc |-> {}]>>
    BY <1>0, <1>2 DEF BeginRoot, TypeOK
  <2> QED
    BY <2>1 DEF HeldPending, Depth, Top
<1>3. CASE BeginFails(p) \/ CommitRoot(p) \/ CommitRootFails(p) \/ RollbackRoot(p)
  <2>1. ~Active(p)'
    BY <1>0, <1>3 DEF BeginFails, CommitRoot, CommitRootFails, RollbackRoot, Return, Active,
                      TypeOK
  <2> QED
    BY <2>1 DEF HeldPending
\* Steps that change neither the stack nor what is pending.
<1>4. ASSUME Active(p), stack' = stack, Tx(p)'.pending = Tx(p).pending
      PROVE  HeldPending(p)'
  BY <1>0, <1>4 DEF HeldPending, Depth, Top
<1>5. CASE SetTenantSession(p)
  <2>1. Active(p) /\ stack' = stack
    BY <1>5 DEF SetTenantSession, Active
  <2>2. Tx(p)'.pending = Tx(p).pending
    BY <1>0, <1>1, <1>5, <2>1 DEF SetTenantSession, Tx, TypeOK, Transaction
  <2> QED
    BY <1>4, <2>1, <2>2
<1>6. CASE SetTenantSessionFails(p) \/ ExecFails(p)
  <2>1. Active(p) /\ conn' = conn /\ stack' = stack
    BY <1>6 DEF SetTenantSessionFails, ExecFails, Active
  <2>2. PICK s \in FailedStatus(p) : SetStatus(p, s)
    BY <1>6 DEF SetTenantSessionFails, ExecFails
  <2>3. Tx(p)'.pending = Tx(p).pending
    BY <1>0, <1>1, <2>1, <2>2 DEF SetStatus, Tx, TypeOK, Transaction
  <2> QED
    BY <1>4, <2>1, <2>3
<1>7. CASE FnReturns(p) \/ (CancelContext(p) /\ Active(p))
  BY <1>4, <1>7 DEF FnReturns, CancelContext, Active, Tx
<1>8. CASE CancelContext(p) /\ ~Active(p)
  BY <1>8 DEF CancelContext, Active, HeldPending
<1>9. CASE Exec(p)
  <2> DEFINE s == [proc |-> p, n |-> issued[p] + 1, tenant |-> Tx(p).tenant]
             n == Depth(p)
  <2>1. Active(p)
    BY <1>9 DEF Exec, Active
  <2>2. Tx(p)'.pending = Tx(p).pending \cup {s}
    BY <1>0, <1>1, <1>9, <2>1 DEF Exec, Tx, TypeOK, Transaction
  <2>3. n \in 1 .. n /\ stack[p][n] \in Frame
    BY <1>1, <2>1, ElementOfSeq
  <2>4. stack'[p] = [stack[p] EXCEPT ![n] = [stack[p][n] EXCEPT !.acc = @ \cup {s}]]
    BY <1>0, <1>9 DEF Exec, TypeOK
  <2>5. Depth(p)' = n
    BY <1>1, <2>1, <2>4 DEF Depth
  <2>6. \A i \in 1 .. n - 1 : stack'[p][i] = stack[p][i]
    BY <1>1, <2>1, <2>3, <2>4
  <2>7. stack'[p][n] = [stack[p][n] EXCEPT !.acc = @ \cup {s}]
    BY <1>1, <2>1, <2>3, <2>4
  <2>8. stack'[p][n].mark = stack[p][n].mark /\ stack'[p][n].acc = stack[p][n].acc \cup {s}
    BY <2>3, <2>7 DEF Frame
  <2>9. \A i \in 1 .. n - 1 : stack'[p][i + 1].mark = stack[p][i + 1].mark
    BY <1>1, <2>1, <2>6, <2>8
  <2> HIDE DEF s
  <2> QED
    BY <1>0, <2>1, <2>2, <2>5, <2>6, <2>8, <2>9 DEF HeldPending, Top
<1>10. CASE BeginNested(p)
  <2> DEFINE f == [mark |-> Tx(p).pending, acc |-> {}]
             n == Depth(p)
  <2>1. Active(p) /\ Tx(p)' = Tx(p)
    BY <1>10 DEF BeginNested, Active, Tx
  <2>2. f \in Frame
    BY <1>1, <2>1 DEF Frame, Tx, Transaction
  <2>3. stack'[p] = Append(stack[p], f)
    BY <1>0, <1>10 DEF BeginNested, TypeOK
  <2>4. /\ Depth(p)' = n + 1
        /\ \A i \in 1 .. n : stack'[p][i] = stack[p][i]
        /\ stack'[p][n + 1] = f
    BY <1>1, <2>1, <2>2, <2>3, AppendProperties DEF Depth
  <2>5. ASSUME NEW i \in 1 .. n
        PROVE stack'[p][i].mark \cup stack'[p][i].acc \subseteq stack'[p][i + 1].mark
    <3>1. CASE i = n
      BY <1>0, <2>1, <2>4, <3>1 DEF HeldPending, Top
    <3>2. CASE i # n
      <4>1. i \in 1 .. n - 1 /\ i + 1 \in 1 .. n
        BY <1>1, <2>1, <3>2
      <4>2. stack[p][i].mark \cup stack[p][i].acc \subseteq stack[p][i + 1].mark
        BY <1>0, <2>1, <4>1 DEF HeldPending
      <4> QED
        BY <2>4, <4>1, <4>2
    <3> QED
      BY <3>1, <3>2
  <2>6. Depth(p)' - 1 = n
    BY <1>1, <2>1, <2>4
  <2>7. Top(p)'.mark \cup Top(p)'.acc \subseteq Tx(p)'.pending
    BY <2>1, <2>4 DEF Top
  <2> QED
    BY <2>5, <2>6, <2>7 DEF HeldPending
\* Steps that drop the innermost call: its savepoint holds the work of the
\* calls around it.
<1>11. ASSUME Active(p), Depth(p) > 1
       PROVE  /\ Depth(p) - 1 \in 1 .. Depth(p) - 1 /\ Depth(p) - 1 + 1 = Depth(p)
              /\ stack[p][Depth(p) - 1].mark \cup stack[p][Depth(p) - 1].acc
                   \subseteq stack[p][Depth(p)].mark
              /\ \A i \in 1 .. Depth(p) - 2 :
                   /\ stack[p][i].mark \cup stack[p][i].acc \subseteq stack[p][i + 1].mark
                   /\ i + 1 \in 1 .. Depth(p) - 2 \/ i + 1 = Depth(p) - 1
  <2>1. Depth(p) - 1 \in 1 .. Depth(p) - 1 /\ Depth(p) - 1 + 1 = Depth(p)
    BY <1>1, <1>11
  <2>2. stack[p][Depth(p) - 1].mark \cup stack[p][Depth(p) - 1].acc
          \subseteq stack[p][Depth(p)].mark
    BY <1>0, <1>11, <2>1 DEF HeldPending
  <2>3. \A i \in 1 .. Depth(p) - 2 :
          /\ i \in 1 .. Depth(p) - 1
          /\ i + 1 \in 1 .. Depth(p) - 2 \/ i + 1 = Depth(p) - 1
    BY <1>1, <1>11
  <2>4. \A i \in 1 .. Depth(p) - 1 :
          stack[p][i].mark \cup stack[p][i].acc \subseteq stack[p][i + 1].mark
    BY <1>0, <1>11 DEF HeldPending
  <2> QED
    BY <2>1, <2>2, <2>3, <2>4
<1>12. CASE ReleaseSavepoint(p)
  <2>1. Active(p) /\ Depth(p) > 1 /\ Tx(p)' = Tx(p)
    BY <1>12 DEF ReleaseSavepoint, Active, Tx
  <2>2. stack'[p] = Released(stack[p])
    BY <1>0, <1>12 DEF ReleaseSavepoint, Leave, TypeOK
  <2>3. /\ Depth(p)' = Depth(p) - 1
        /\ \A i \in 1 .. Depth(p) - 2 : stack'[p][i] = stack[p][i]
        /\ stack'[p][Depth(p) - 1].mark = stack[p][Depth(p) - 1].mark
        /\ stack'[p][Depth(p) - 1].acc = stack[p][Depth(p) - 1].acc \cup stack[p][Depth(p)].acc
    BY <1>1, <2>1, <2>2, ReleasedType DEF Depth
  <2>4. \A i \in 1 .. Depth(p) - 2 : stack'[p][i + 1].mark = stack[p][i + 1].mark
    BY <1>11, <2>1, <2>3
  <2>5. Depth(p)' - 1 = Depth(p) - 2
    BY <1>1, <2>1, <2>3
  <2>6. stack[p][Depth(p)].mark \cup stack[p][Depth(p)].acc \subseteq Tx(p).pending
    BY <1>0, <2>1 DEF HeldPending, Top
  <2>7. Top(p)'.mark \cup Top(p)'.acc \subseteq Tx(p)'.pending
    BY <1>11, <2>1, <2>3, <2>6 DEF Top
  <2> QED
    BY <1>11, <2>1, <2>3, <2>4, <2>5, <2>7 DEF HeldPending
<1>13. CASE ReleaseFails(p) \/ RollbackNested(p)
  <2>1. Active(p) /\ Depth(p) > 1 /\ conn' = conn
    BY <1>13 DEF ReleaseFails, RollbackNested, RollbackPcs, Active
  <2>2. stack'[p] = Front(stack[p])
    BY <1>0, <1>13 DEF ReleaseFails, RollbackNested, Leave, TypeOK
  <2>3. /\ Depth(p)' = Depth(p) - 1
        /\ \A i \in 1 .. Depth(p) - 1 : stack'[p][i] = stack[p][i]
        /\ Last(stack[p]) = stack[p][Depth(p)]
    BY <1>1, <2>1, <2>2, FrontLast DEF Depth
  <2>4. Tx(p)'.pending \in {Tx(p).pending, stack[p][Depth(p)].mark}
    <3>1. CASE ReleaseFails(p)
      <4>1. PICK s \in FailedStatus(p) : SetStatus(p, s)
        BY <3>1 DEF ReleaseFails
      <4> QED
        BY <1>0, <1>1, <2>1, <4>1 DEF SetStatus, Tx, TypeOK, Transaction
    <3>2. CASE RollbackNested(p)
      BY <1>0, <1>1, <2>1, <2>3, <3>2, RollbackNestedTx DEF Tx
    <3> QED
      BY <1>13, <3>1, <3>2
  <2>5. stack[p][Depth(p)].mark \subseteq Tx(p)'.pending
    BY <1>0, <2>1, <2>4 DEF HeldPending, Top
  <2>6. Top(p)'.mark \cup Top(p)'.acc \subseteq Tx(p)'.pending
    BY <1>11, <2>1, <2>3, <2>5 DEF Top
  <2>7. \A i \in 1 .. Depth(p)' - 1 :
          i \in 1 .. Depth(p) - 2 /\ i \in 1 .. Depth(p) - 1 /\ i + 1 \in 1 .. Depth(p) - 1
    BY <1>1, <2>1, <2>3
  <2> QED
    BY <1>11, <2>1, <2>3, <2>6, <2>7 DEF HeldPending
<1> QED
  BY <1>2, <1>3, <1>5, <1>6, <1>7, <1>8, <1>9, <1>10, <1>12, <1>13 DEF Step

LEMMA KeptCommits ==
  ASSUME ConnInv, TenantInv, KeptInv, NEW p \in Proc, Step(p) \/ CancelContext(p)
  PROVE  NothingLostFor(p)'
<1>0. TypeOK /\ Shape /\ TenantOk(p) /\ HeldPending(p) /\ NothingLostFor(p)
  BY DEF ConnInv, TenantInv, KeptInv, NothingLost
<1>1. CASE db' = db /\ result'[p] = result[p]
  <2>1. result[p] \in {"ok", "commitErr"} => stack'[p] = stack[p]
    BY <1>0 DEF Shape, Step, BeginRoot, BeginFails, SetTenantSession, SetTenantSessionFails,
                Exec, ExecFails, BeginNested, FnReturns, ReleaseSavepoint, ReleaseFails,
                RollbackNested, CommitRoot, CommitRootFails, RollbackRoot, RollbackPcs,
                CancelContext
  <2> QED
    BY <1>0, <1>1, <2>1 DEF NothingLostFor, Committed
<1>2. CASE BeginFails(p)
  <2>1. pc[p] = "begin" /\ db' = db /\ result'[p] = "err"
    BY <1>0, <1>2 DEF BeginFails, TypeOK
  <2> QED
    BY <1>0, <2>1 DEF Shape, NothingLostFor, Committed
<1>3. CASE CommitRoot(p) \/ CommitRootFails(p)
  <2>1. /\ Active(p) /\ Depth(p) = 1 /\ stack' = stack
        /\ \/ result'[p] = "ok" /\ db' = db \cup Tx(p).pending
           \/ result'[p] = "commitErr" /\ db' \in {db, db \cup Tx(p).pending}
    BY <1>0, <1>3 DEF CommitRoot, CommitRootFails, Return, Active, TypeOK
  <2>2. stack[p][1].acc \subseteq Tx(p).pending /\ \A s \in Tx(p).pending : s.proc = p
    BY <1>0, <2>1 DEF HeldPending, Top, TenantOk, Own
  <2>3. Committed(p) = {}
    BY <1>0, <2>1 DEF Shape, Active, NothingLostFor
  <2>4. db' = db => Committed(p)' = {}
    BY <2>3 DEF Committed
  <2>5. db' = db \cup Tx(p).pending => stack'[p][1].acc \subseteq Committed(p)'
    BY <2>1, <2>2 DEF Committed
  <2> QED
    BY <2>1, <2>4, <2>5 DEF NothingLostFor
<1>4. CASE RollbackRoot(p)
  <2>1. Active(p) /\ db' = db /\ result'[p] \in {"err", "panic"}
    BY <1>0, <1>4 DEF RollbackRoot, RollbackPcs, Return, Active, TypeOK
  <2> QED
    BY <1>0, <2>1 DEF Shape, Active, NothingLostFor, Committed
<1>5. \/ db' = db /\ result'[p] = result[p]
      \/ BeginFails(p) \/ CommitRoot(p) \/ CommitRootFails(p) \/ RollbackRoot(p)
  BY DEF Step, BeginRoot, SetTenantSession, SetTenantSessionFails, Exec, ExecFails,
         BeginNested, FnReturns, ReleaseSavepoint, ReleaseFails, RollbackNested, CancelContext
<1> QED
  BY <1>1, <1>2, <1>3, <1>4, <1>5

\* Whatever deadlines nested calls have, no work that RunInTx acknowledged is
\* lost, nothing of a call that returned an error or panicked before its commit
\* is kept, and a commit that failed lost all or nothing of what was
\* acknowledged: a nested deadline can only make a commit hold more than its
\* callers were told.
THEOREM NothingLostHolds == Spec => []NothingLost
<1> DEFINE Inv == ConnInv /\ TenantInv /\ KeptInv
<1>1. Init => Inv
  BY ConnInit, TenantInit, KeptInit
<1>2. Inv /\ [Next]_vars => Inv'
  <2> SUFFICES ASSUME ConnInv, TenantInv, KeptInv, [Next]_vars PROVE Inv'
    OBVIOUS
  <2>1. CASE UNCHANGED vars
    <3>1. TenantInv'
      BY <2>1 DEF vars, TenantInv, TenantOk, OwnTenantOnly, Active, Tx, Depth, Own
    <3>2. KeptInv'
      BY <2>1 DEF vars, KeptInv, HeldPending, NothingLost, NothingLostFor, Committed, Active,
                  Depth, Top, Tx
    <3> QED
      BY <3>1, <3>2, ConnStep
  <2>2. CASE Next
    <3>1. PICK p \in Proc : Step(p) \/ CancelContext(p)
      BY <2>2 DEF Next
    <3>2. KeptInv'
      BY <3>1, KeptElsewhere, KeptOwn, KeptCommits DEF KeptInv, NothingLost
    <3> QED
      BY <3>1, <3>2, ConnStep, TenantStep
  <2> QED
    BY <2>1, <2>2
<1>3. Inv => NothingLost
  BY DEF KeptInv
<1> QED
  BY <1>1, <1>2, <1>3, PTL DEF Spec
=============================================================================
