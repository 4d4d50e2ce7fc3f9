----------------------------- MODULE OrderBook -----------------------------
(***************************************************************************)
(* What the orders module promises: an order appears complete or not at    *)
(* all, it is pending until it is cancelled and cancelled for ever after,  *)
(* only its own tenant cancels it, and each change enters the outbox in    *)
(* the step that makes it: the domain event and the audit record of a      *)
(* creation, the audit record of a cancellation.                           *)
(***************************************************************************)
CONSTANTS
  Order,     \* orders
  Canceller, \* calls of CancelOrder
  Line,      \* the lines of an order
  Target,    \* Target[c]: the order that c is about
  TenantOf,  \* TenantOf[x]: the tenant of an order, or of a call
  Job(_, _)  \* Job(kind, x): the outbox entry of that kind made by x

VARIABLES
  book,   \* book[o]: the order's status and its lines
  outbox  \* the jobs staged

vars == <<book, outbox>>

Absent == [status |-> "none", lines |-> {}]

Init ==
  /\ book = [o \in Order |-> Absent]
  /\ outbox = {}

Create(o) ==
  /\ book[o] = Absent
  /\ book' = [book EXCEPT ![o] = [status |-> "pending", lines |-> Line]]
  /\ outbox' = outbox \cup {Job("created", o), Job("audit", o)}

Cancel(c) ==
  /\ book[Target[c]] # Absent
  /\ TenantOf[c] = TenantOf[Target[c]]
  /\ Job("audit", c) \notin outbox
  /\ book' = [book EXCEPT ![Target[c]].status = "cancelled"]
  /\ outbox' = outbox \cup {Job("audit", c)}

Next ==
  \/ \E o \in Order : Create(o)
  \/ \E c \in Canceller : Cancel(c)

Spec == Init /\ [][Next]_vars
=============================================================================
