----------------------------- MODULE OrderSearch -----------------------------
(***************************************************************************)
(* A client walks through GET /v1/orders/search page by page while orders  *)
(* are created and cancelled.  Each page is a request of its own: the      *)
(* middleware checks the client's token (TokenService), and the service    *)
(* reads one slice of the matching orders, newest first, in one statement. *)
(*                                                                         *)
(* An order is made as OrderBook promises, whole and at a commit.  Its     *)
(* created_at is taken by the application before the transaction begins,   *)
(* so an order may appear behind others that were created after it, and    *)
(* two may have the same one.                                              *)
(***************************************************************************)
EXTENDS TokenService, FiniteSets

CONSTANTS
  Order,
  TenantOf,      \* TenantOf[x]: the tenant of an order or of a client
  UserOf,        \* UserOf[o]: the user who created the order
  TotalOf,       \* TotalOf[o]: its total
  Request,       \* parameters a client may walk with
  Unset,         \* a status or user that is not given
  DefaultLimit   \* 50 in the code

Client == Token

ASSUME DistinctAssumption == Order \cap Client = {}
ASSUME OrdersAssumption == IsFiniteSet(Order)
ASSUME LimitAssumption == DefaultLimit \in Nat \ {0}
ASSUME TotalAssumption == \A o \in Order : TotalOf[o] \in Int
ASSUME RequestAssumption ==
  \A q \in Request : {q.min, q.max, q.limit} \subseteq Int

VARIABLES
  createdAt,  \* createdAt[o]: 0 before CreateOrder is called
  status,     \* status[o]: the committed row, "none" before there is one
  asked,      \* asked[c]: the parameters of c's walk
  pc,         \* pc[c]: where the client or its request is
  offset,     \* offset[c]: the offset of its next page
  got,        \* got[c]: orders it has been shown
  twice,      \* twice[c]: orders it has been shown on two pages
  constant,   \* history. constant[c]: orders that matched since the first page
  left,       \* history. left[c]: orders that ceased to match since then
  entered     \* history. entered[c]: orders that began to match since then

history == <<constant, left, entered>>
walkVars == <<asked, pc, offset, got, twice>>
orderVars == <<createdAt, status>>
vars == <<tokenVars, orderVars, walkVars, history>>

Init ==
  /\ TokenInit
  /\ createdAt = [o \in Order |-> 0]
  /\ status = [o \in Order |-> "none"]
  /\ asked \in [Client -> Request]
  /\ pc = [c \in Client |-> "idle"]
  /\ offset = [c \in Client |-> 0]
  /\ got = [c \in Client |-> {}] /\ twice = [c \in Client |-> {}]
  /\ constant = [c \in Client |-> {}]
  /\ left = [c \in Client |-> {}] /\ entered = [c \in Client |-> {}]

-----------------------------------------------------------------------------
\* A zero amount is no bound, a maximum of zero included.
Matches(o, q) ==
  /\ q.status \in {Unset, status[o]}
  /\ q.user \in {Unset, UserOf[o]}
  /\ q.min > 0 => TotalOf[o] >= q.min
  /\ q.max > 0 => TotalOf[o] <= q.max

\* Rows that satisfy the WHERE clause (nothing ever sets deleted_at).  The policy
\* says no more of a tenant that is active, and no tenant is purged here.
Matching(c) ==
  {o \in Order : /\ status[o] # "none" /\ TenantOf[o] = TenantOf[c]
                 /\ Matches(o, asked[c])}

Limit(c) == IF asked[c].limit > 0 THEN asked[c].limit ELSE DefaultLimit

Newer(a, b) == createdAt[a] > createdAt[b]
\* Every order of one set is at least as new as every one of another.
NotOlder(S, T) == \A a \in S, b \in T : createdAt[a] >= createdAt[b]

\* Mutant: no ORDER BY.
SliceUnsorted(S, M, from, size) ==
  \E ahead \in SUBSET (M \ S) :
    /\ Cardinality(ahead) <= from /\ Cardinality(S) <= size
    /\ Cardinality(ahead) < from => ahead = M
    /\ Cardinality(S) < size => ahead \cup S = M

\* Mutant: oldest first.
SliceOldestFirst(S, M, from, size) ==
  \E ahead \in SUBSET (M \ S) :
    /\ NotOlder(M \ ahead, ahead) /\ NotOlder(M \ (ahead \cup S), S)
    /\ Cardinality(ahead) <= from /\ Cardinality(S) <= size
    /\ Cardinality(ahead) < from => ahead = M
    /\ Cardinality(S) < size => ahead \cup S = M

\* S is what ORDER BY created_at DESC LIMIT size OFFSET from may return of M:
\* orders that were created at the same time come in any order.
Slice(S, M, from, size) ==
  \E ahead \in SUBSET (M \ S) :
    /\ NotOlder(ahead, M \ ahead) /\ NotOlder(S, M \ (ahead \cup S))
    /\ Cardinality(ahead) <= from /\ Cardinality(S) <= size
    /\ Cardinality(ahead) < from => ahead = M
    /\ Cardinality(S) < size => ahead \cup S = M

-----------------------------------------------------------------------------
\* The client has its first page and asks for more.
Walking(c) == offset[c] > 0 /\ pc[c] \in {"idle", "search"}

\* The history of the walks over a step that changes orders.
Watch ==
  /\ constant' = [c \in Client |->
       IF Walking(c) THEN constant[c] \cap Matching(c)' ELSE constant[c]]
  /\ left' = [c \in Client |->
       IF Walking(c) THEN left[c] \cup (Matching(c) \ Matching(c)') ELSE left[c]]
  /\ entered' = [c \in Client |->
       IF Walking(c) THEN entered[c] \cup (Matching(c)' \ Matching(c)) ELSE entered[c]]

\* CreateOrder takes the time ...
BeginOrder(o) ==
  /\ createdAt[o] = 0
  /\ createdAt' = [createdAt EXCEPT ![o] = clock]
  /\ UNCHANGED <<tokenVars, status, walkVars, history>>

\* ... and its transaction commits, or never does.
CommitOrder(o) ==
  /\ createdAt[o] > 0 /\ status[o] = "none"
  /\ status' = [status EXCEPT ![o] = "pending"]
  /\ UNCHANGED <<tokenVars, createdAt, walkVars>>
  /\ Watch

\* Mutant: a status that no filter knows.
CancelOrderMisspelt(o) ==
  /\ status[o] = "pending"
  /\ status' = [status EXCEPT ![o] = "canceled"]
  /\ UNCHANGED <<tokenVars, createdAt, walkVars>>
  /\ Watch

CancelOrder(o) ==
  /\ status[o] = "pending"
  /\ status' = [status EXCEPT ![o] = "cancelled"]
  /\ UNCHANGED <<tokenVars, createdAt, walkVars>>
  /\ Watch

-----------------------------------------------------------------------------
GoTo(c, next) == pc' = [pc EXCEPT ![c] = next]

Login(c) ==
  /\ GenerateToken(c)
  /\ UNCHANGED <<orderVars, walkVars, history>>

Revoke(c) ==
  /\ \E ttl \in 0 .. MaxTtl : RevokeToken(c, ttl)
  /\ UNCHANGED <<orderVars, walkVars, history>>

\* HTTPMiddleware: without a valid token the request goes on without a
\* principal, and the service refuses it.
Authenticate(c) ==
  /\ pc[c] = "idle" /\ Issued(c)
  /\ GoTo(c, IF ValidateToken(c) THEN "search" ELSE "refused")
  /\ UNCHANGED <<tokenVars, orderVars, asked, offset, got, twice, history>>

NextOffset(c) == offset[c] + Limit(c)

\* SearchOrders returns a page.  A short one is the client's last.
ReadPage(c) ==
  /\ pc[c] = "search"
  /\ \E page \in SUBSET Matching(c) :
       /\ Slice(page, Matching(c), offset[c], Limit(c))
       /\ got' = [got EXCEPT ![c] = @ \cup page]
       /\ twice' = [twice EXCEPT ![c] = @ \cup (got[c] \cap page)]
       /\ IF Cardinality(page) < Limit(c)
          THEN GoTo(c, "done") /\ UNCHANGED offset
          ELSE GoTo(c, "idle") /\ offset' = [offset EXCEPT ![c] = NextOffset(c)]
       /\ constant' = IF offset[c] = 0
                      THEN [constant EXCEPT ![c] = Matching(c)] ELSE constant
  /\ UNCHANGED <<tokenVars, orderVars, asked, left, entered>>

\* RunInTx fails; the client asks for the page again or gives up.
PageFails(c) ==
  /\ pc[c] = "search"
  /\ \E next \in {"idle", "failed"} : GoTo(c, next)
  /\ UNCHANGED <<tokenVars, orderVars, asked, offset, got, twice, history>>

SearchOrders(c) == Authenticate(c) \/ ReadPage(c) \/ PageFails(c)

Next ==
  \/ \E o \in Order : BeginOrder(o) \/ CommitOrder(o) \/ CancelOrder(o)
  \/ \E c \in Client : Login(c) \/ Revoke(c) \/ SearchOrders(c)
  \/ (Tick \/ RedisFailsOrReturns) /\ UNCHANGED <<orderVars, walkVars, history>>

Spec == Init /\ [][Next]_vars

-----------------------------------------------------------------------------
TypeOK ==
  /\ TokenTypeOK
  /\ createdAt \in [Order -> 0 .. MaxTime]
  /\ status \in [Order -> {"none", "pending", "cancelled"}]
  /\ asked \in [Client -> Request]
  /\ pc \in [Client -> {"idle", "search", "refused", "failed", "done"}]
  /\ offset \in [Client -> Nat]
  /\ {got, twice, constant, left, entered} \subseteq [Client -> SUBSET Order]

\* Orders that matched at some time during the walk and were created at the
\* same time as o: PostgreSQL may put them in another order on every page.
Tied(c, o) ==
  \E x \in (constant[c] \cup left[c] \cup entered[c]) \ {o} : createdAt[x] = createdAt[o]

\* A walk that reached its last page has shown every order that matched all
\* the time, except one that a newer order made move up by ceasing to match
\* (a cancellation under a status filter), or one of several of the same time.
\* Orders that come late, from transactions slower than their clocks, make
\* nothing be missed.
MissedHasCause ==
  \A c \in Client : pc[c] = "done" =>
    \A o \in constant[c] \ got[c] :
      Tied(c, o) \/ \E x \in left[c] : Newer(x, o)

\* No order is shown on two pages unless another one came in ahead of it
\* meanwhile, or had the same time.
RepeatedHasCause ==
  \A c \in Client : \A o \in twice[c] :
    Tied(c, o) \/ o \in entered[c] \/ \E x \in entered[c] : Newer(x, o)

\* A token revoked for the rest of its life begins no request any more while
\* Redis answers.
RevokedRefused ==
  [][\A c \in Client : pc[c] = "idle" /\ pc'[c] = "search" /\ covered[c] =>
       redis = "down"]_vars
=============================================================================
