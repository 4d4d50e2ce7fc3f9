------------------------------- MODULE Orders -------------------------------
(***************************************************************************)
(* The orders service: CreateOrder, CancelOrder and GetOrderByID, each a   *)
(* transaction of several statements that other calls' statements fall     *)
(* between, with the events and audit records they stage in the River      *)
(* outbox.                                                                 *)
(*                                                                         *)
(* RunInTx is used by its promise (TxManager): the work of a call enters   *)
(* the database at its commit or never.  PostgreSQL is external: at READ   *)
(* COMMITTED each statement sees what is committed when it starts, and the *)
(* row policies decide by that too; an UPDATE waits for the transaction    *)
(* that updated the row before; after a failed statement the transaction   *)
(* can only be rolled back.  So is the purge of a tenant, which is that of *)
(* TenantLifecycle: orders keep their rows, and the policies hide them.    *)
(***************************************************************************)
EXTENDS Naturals, FiniteSets

CONSTANTS
  Order,           \* orders, each named for the call of CreateOrder that makes it
  Canceller,       \* calls of CancelOrder
  Reader,          \* calls of GetOrderByID
  NoCall,
  Target,          \* Target[c]: the id given to a CancelOrder or GetOrderByID
  TenantOf,        \* TenantOf[c]: the tenant of the call's principal
  LineCount,       \* lines of an order
  RiverConfigured, \* the service was given a River client
  RowSecurity      \* the policies bind the role of DATABASE_URL; not a superuser

Call == Order \cup Canceller \cup Reader

ASSUME CallsAssumption ==
  /\ Order \cap (Canceller \cup Reader) = {} /\ Canceller \cap Reader = {}
  /\ NoCall \notin Call
ASSUME TargetAssumption == Target \in [Canceller \cup Reader -> Order]
ASSUME LineAssumption == LineCount \in Nat \ {0}
ASSUME RiverAssumption == RiverConfigured \in BOOLEAN
ASSUME RowSecurityAssumption == RowSecurity \in BOOLEAN

VARIABLES
  pc,      \* pc[c]: the statement call c is at
  work,    \* work[c]: rows c's transaction has written
  broken,  \* broken[c]: a statement failed in c's transaction and c went on
  seen,    \* seen[c]: what GetByID has read
  lockOf,  \* lockOf[o]: the transaction that has updated the row of o
  result,  \* result[c]: what the call returned
  db,      \* committed rows
  active   \* tenants whose status is active

vars == <<pc, work, broken, seen, lockOf, result, db, active>>

Tenants == {TenantOf[c] : c \in Call}
Line == 1 .. LineCount

\* Rows.  An update of the status is a row of its own: statuses only go from
\* pending to cancelled, so whether it is there is all a reader can tell.
Header(o) == [table |-> "orders", of |-> o]
Item(o, n) == [table |-> "order_items", of |-> o, line |-> n]
Cancellation(o) == [table |-> "orders.status", of |-> o]
Job(kind, c) == [table |-> "river_job", kind |-> kind, of |-> c]

Rows ==
  {Header(o) : o \in Order} \cup {Cancellation(o) : o \in Order}
    \cup {Item(o, n) : o \in Order, n \in Line}
    \cup {Job(k, c) : k \in {"created", "audit"}, c \in Order \cup Canceller}

Unread == [status |-> "none", lines |-> {}]

StatusIn(rows, o) == IF Cancellation(o) \in rows THEN "cancelled" ELSE "pending"
LinesIn(rows, o) == {n \in Line : Item(o, n) \in rows}

Init ==
  /\ pc = [c \in Call |-> "start"]
  /\ work = [c \in Call |-> {}]
  /\ broken = [c \in Call |-> FALSE]
  /\ seen = [c \in Call |-> Unread]
  /\ lockOf = [o \in Order |-> NoCall]
  /\ result = [c \in Call |-> "none"]
  /\ db = {}
  /\ active = Tenants

-----------------------------------------------------------------------------
\* The row locks after the transaction of c ended.
Unlocked(c) == [o \in Order |-> IF lockOf[o] = c THEN NoCall ELSE lockOf[o]]

\* RunInTx returns r; whatever c has not committed is gone.
Return(c, r) ==
  /\ pc' = [pc EXCEPT ![c] = "done"]
  /\ result' = [result EXCEPT ![c] = r]
  /\ lockOf' = Unlocked(c)
  /\ UNCHANGED <<work, broken, seen, active>>

\* A statement of c that writes row, then on to next.
Write(c, row, next) ==
  /\ work' = [work EXCEPT ![c] = @ \cup {row}]
  /\ pc' = [pc EXCEPT ![c] = next]
  /\ UNCHANGED <<broken, seen, result, db, active>>

\* riverClient.InsertTx, skipped without a client.
Stage(c, kind, next) ==
  /\ IF RiverConfigured THEN Write(c, Job(kind, c), next)
     ELSE /\ pc' = [pc EXCEPT ![c] = next]
          /\ UNCHANGED <<work, broken, seen, result, db, active>>
  /\ UNCHANGED lockOf

\* The policies let c's tenant read and write its rows.
Open(c) == RowSecurity => TenantOf[c] \in active

\* An INSERT into orders or order_items; a policy that refuses it is an error.
Insert(o, row, next) ==
  IF Open(o) THEN Write(o, row, next) /\ UNCHANGED lockOf
  ELSE Return(o, "err") /\ UNCHANGED db

-----------------------------------------------------------------------------
\* Mutant: the header is inserted on the pool, outside the transaction.
InsertHeaderOnPool(o) ==
  /\ pc[o] = "start"
  /\ db' = db \cup {Header(o)}
  /\ pc' = [pc EXCEPT ![o] = "items"]
  /\ UNCHANGED <<work, broken, seen, lockOf, result, active>>

\* CreateOrder: the header, then one INSERT per line, the event, the audit record.
InsertHeader(o) ==
  /\ pc[o] = "start"
  /\ Insert(o, Header(o), "items")

\* Mutant: lines are numbered from zero.
NextLineFromZero(o) == Cardinality(LinesIn(work[o], o))
\* The line the loop over the items is at.
NextLine(o) == Cardinality(LinesIn(work[o], o)) + 1

InsertItem(o) ==
  /\ pc[o] = "items"
  /\ Insert(o, Item(o, NextLine(o)), IF NextLine(o) < LineCount THEN "items" ELSE "event")

\* Mutant: the event is inserted on the pool, outside the transaction.
StageEventOnPool(o) ==
  /\ pc[o] = "event"
  /\ db' = db \cup {Job("created", o)}
  /\ pc' = [pc EXCEPT ![o] = "audit"]
  /\ UNCHANGED <<work, broken, seen, lockOf, result, active>>

StageEvent(o) ==
  /\ pc[o] = "event"
  /\ Stage(o, "created", "audit")

-----------------------------------------------------------------------------
\* The row is the tenant's own, by the WHERE clause and by the policy, and the
\* policy finds the tenant active.
Visible(c) == Header(Target[c]) \in db /\ TenantOf[c] = TenantOf[Target[c]] /\ Open(c)

\* GetByID reads the header, then, in a second statement, the lines.
ReadHeader(c) ==
  /\ pc[c] = "start"
  /\ IF Visible(c)
     THEN /\ seen' = [seen EXCEPT ![c].status = StatusIn(db, Target[c])]
          /\ pc' = [pc EXCEPT ![c] = "lines"]
          /\ UNCHANGED <<work, broken, lockOf, result, db, active>>
     ELSE Return(c, "notFound") /\ UNCHANGED db

ReadLines(c) ==
  /\ pc[c] = "lines"
  /\ seen' = [seen EXCEPT ![c].lines = IF Open(c) THEN LinesIn(db, Target[c]) ELSE {}]
  /\ pc' = [pc EXCEPT ![c] = IF c \in Reader THEN "commit" ELSE "check"]
  /\ UNCHANGED <<work, broken, lockOf, result, db, active>>

AlreadyCancelled(c) ==
  /\ pc[c] = "check" /\ seen[c].status = "cancelled"
  /\ Return(c, "alreadyCancelled")
  /\ UNCHANGED db

\* UpdateStatus starts: its snapshot decides whether there is a row.
StartUpdate(c) ==
  /\ pc[c] = "check" /\ seen[c].status # "cancelled"
  /\ IF Visible(c)
     THEN /\ pc' = [pc EXCEPT ![c] = "update"]
          /\ UNCHANGED <<work, broken, seen, lockOf, result, db, active>>
     ELSE Return(c, "notFound") /\ UNCHANGED db

\* It waits for the row; it does not look at the status again.
UpdateStatus(c) ==
  /\ pc[c] = "update"
  /\ lockOf[Target[c]] = NoCall
  /\ lockOf' = [lockOf EXCEPT ![Target[c]] = c]
  /\ Write(c, Cancellation(Target[c]), "audit")

-----------------------------------------------------------------------------
StageAudit(c) ==
  /\ pc[c] = "audit"
  /\ Stage(c, "audit", "commit")

\* Mutant: the failed INSERT is rolled back to a savepoint of its own.
StageAuditFailsInSavepoint(c) ==
  /\ pc[c] = "audit" /\ RiverConfigured
  /\ pc' = [pc EXCEPT ![c] = "commit"]
  /\ UNCHANGED <<work, broken, seen, lockOf, result, db, active>>

\* CancelOrder drops the error of StageAuditLog and goes on to commit.
StageAuditFails(c) ==
  /\ pc[c] = "audit" /\ RiverConfigured
  /\ broken' = [broken EXCEPT ![c] = TRUE]
  /\ pc' = [pc EXCEPT ![c] = "commit"]
  /\ UNCHANGED <<work, seen, lockOf, result, db, active>>

\* Any other error returns from fn: the request is refused, the transaction
\* does not begin, a statement fails, the request is cancelled.
Fails(c) ==
  /\ pc[c] \notin {"commit", "done"}
  /\ ~(c \in Canceller /\ pc[c] = "audit")
  /\ Return(c, "err")
  /\ UNCHANGED db

Commit(c) ==
  /\ pc[c] = "commit" /\ ~broken[c]
  /\ db' = db \cup work[c]
  /\ Return(c, "ok")

\* Mutant: the error returns without a rollback, and the row stays locked.
CommitFailsOnly(c) ==
  /\ pc[c] = "commit"
  /\ pc' = [pc EXCEPT ![c] = "done"]
  /\ result' = [result EXCEPT ![c] = "err"]
  /\ UNCHANGED <<work, broken, seen, lockOf, db, active>>

\* The transaction was broken, the commit fails, or its answer is lost.
CommitFails(c) ==
  /\ pc[c] = "commit"
  /\ \/ UNCHANGED db
     \/ ~broken[c] /\ db' = db \cup work[c]
  /\ Return(c, "err")

\* A purge task commits, between any two statements of anybody.
PurgeTenant(t) ==
  /\ t \in active
  /\ active' = active \ {t}
  /\ UNCHANGED <<pc, work, broken, seen, lockOf, result, db>>

Create(o) == InsertHeader(o) \/ InsertItem(o) \/ StageEvent(o)
Get(c) == ReadHeader(c) \/ ReadLines(c)
Cancel(c) == Get(c) \/ AlreadyCancelled(c) \/ StartUpdate(c) \/ UpdateStatus(c)

Progress(c) ==
  \/ c \in Order /\ Create(c)
  \/ c \in Reader /\ Get(c)
  \/ c \in Canceller /\ Cancel(c)
  \/ StageAudit(c)
  \/ Commit(c) \/ CommitFails(c)

Next ==
  \/ \E c \in Call :
       Progress(c) \/ Fails(c) \/ (c \in Canceller /\ StageAuditFails(c))
  \/ \E t \in Tenants : PurgeTenant(t)

Spec == Init /\ [][Next]_vars

\* A call that can go on does; nothing is assumed of requests being cancelled.
FairSpec == Spec /\ \A c \in Call : WF_vars(Progress(c))

-----------------------------------------------------------------------------
TypeOK ==
  /\ pc \in [Call -> {"start", "items", "event", "lines", "check", "update",
                      "audit", "commit", "done"}]
  /\ work \in [Call -> SUBSET Rows]
  /\ broken \in [Call -> BOOLEAN]
  /\ seen \in [Call -> [status : {"none", "pending", "cancelled"}, lines : SUBSET Line]]
  /\ lockOf \in [Order -> Canceller \cup {NoCall}]
  /\ result \in [Call -> {"none", "ok", "err", "notFound", "alreadyCancelled"}]
  /\ db \in SUBSET Rows
  /\ active \in SUBSET Tenants

\* GetByID reads an order in two statements, each with its own snapshot.  It
\* shows all lines or, when the tenant was purged between the two and the
\* policy hides them, none and no error: never some.  And no cancellation
\* succeeds with the order that was read so, its lines are all there.
WholeOrders ==
  \A c \in Canceller \cup Reader :
    result[c] = "ok" =>
      \/ seen[c].lines = Line
      \/ c \in Reader /\ seen[c].lines = {} /\ ~Open(c)

\* The effects of a call that returned nil are in the database together with
\* its outbox entries; CancelOrder drops the error of StageAuditLog, yet no
\* cancellation it reports done lacks its audit record.  A call that was
\* refused has left none.
ResultsTruthful ==
  /\ \A o \in Order :
       result[o] = "ok" =>
         /\ Header(o) \in db /\ LinesIn(db, o) = Line
         /\ RiverConfigured => {Job("created", o), Job("audit", o)} \subseteq db
  /\ \A c \in Canceller :
       /\ result[c] = "ok" =>
            /\ Cancellation(Target[c]) \in db
            /\ RiverConfigured => Job("audit", c) \in db
       /\ result[c] \in {"notFound", "alreadyCancelled"} => Job("audit", c) \notin db

\* The module keeps the promise of OrderBook.
Book == INSTANCE OrderBook WITH
  book <- [o \in Order |->
             IF Header(o) \in db
             THEN [status |-> StatusIn(db, o), lines |-> LinesIn(db, o)] ELSE Unread],
  outbox <- {r \in db : r.table = "river_job"}
ImplementsOrderBook == Book!Spec

\* Calls that wait for each other's row locks all return.
EveryCallReturns == \A c \in Call : <>(pc[c] = "done")

\* Cancelling again returns ErrOrderAlreadyCancelled: of the calls that cancel
\* an order at most one returns the order (orders_test.go).
CancelledOnce ==
  \A c, d \in Canceller :
    result[c] = "ok" /\ result[d] = "ok" /\ Target[c] = Target[d] => c = d
=============================================================================
