-------------------------- MODULE OrderSearchProofs --------------------------
(***************************************************************************)
(* Theorems about OrderSearch for any orders, clients, parameters and page *)
(* sizes.                                                                  *)
(***************************************************************************)
EXTENDS OrderSearch, FiniteSetTheorems, TLAPS

Committed == {o \in Order : status[o] # "none"}
\* What comes before o in a list of M, and in the client's.
Before(M, o) == {x \in M : Newer(x, o)}
Ahead(c, o) == Before(Matching(c), o)
Witnesses(c) == constant[c] \cup left[c] \cup entered[c]

NoneTied(o, M) == \A x \in M \ {o} : createdAt[x] # createdAt[o]

MissExcused(c, o) == Tied(c, o) \/ \E x \in left[c] : Newer(x, o)
RepeatExcused(c, o) == Tied(c, o) \/ o \in entered[c] \/ \E x \in entered[c] : Newer(x, o)

\* Whatever a client has met was committed, and created before that.
Past ==
  /\ \A o \in Committed : createdAt[o] > 0
  /\ \A c \in Client : got[c] \cup twice[c] \cup Witnesses(c) \subseteq Committed

Fresh ==
  \A c \in Client : offset[c] = 0 /\ pc[c] # "done" =>
    got[c] = {} /\ twice[c] = {} /\ constant[c] = {}

Watched ==
  \A c \in Client : Walking(c) =>
    constant[c] \subseteq Matching(c) /\ Matching(c) \subseteq Witnesses(c)

\* An order still to be shown has all the pages so far ahead of it.
MissInv ==
  \A c \in Client : \A o \in constant[c] \ got[c] :
    /\ pc[c] = "done" => MissExcused(c, o)
    /\ Walking(c) => MissExcused(c, o) \/ Cardinality(Ahead(c, o)) >= offset[c]

\* An order that was shown has less than the pages so far ahead of it.
RepeatInv ==
  \A c \in Client :
    /\ \A o \in twice[c] : RepeatExcused(c, o)
    /\ Walking(c) => \A o \in got[c] :
         RepeatExcused(c, o) \/ Cardinality(Ahead(c, o)) < offset[c]

IInv == TypeOK /\ Past /\ Fresh /\ Watched /\ MissInv /\ RepeatInv

-----------------------------------------------------------------------------
\* Slices.

\* An order that is not on the page, though the pages before did not reach it
\* either, has this page ahead of it too, and the page is full.
LEMMA BehindSlice ==
  ASSUME createdAt \in [Order -> Int],
         NEW M \in SUBSET Order, NEW S \in SUBSET M, NEW from \in Nat, NEW size \in Nat,
         Slice(S, M, from, size), NEW o \in M \ S,
         NoneTied(o, M),
         Cardinality(Before(M, o)) >= from
  PROVE  Cardinality(S) = size /\ Cardinality(Before(M, o)) >= from + size
<1> DEFINE B == Before(M, o)
<1>1. PICK ahead \in SUBSET (M \ S) :
        /\ NotOlder(ahead, M \ ahead) /\ NotOlder(S, M \ (ahead \cup S))
        /\ Cardinality(ahead) <= from /\ Cardinality(S) <= size
        /\ Cardinality(ahead) < from => ahead = M
        /\ Cardinality(S) < size => ahead \cup S = M
  BY DEF Slice
<1>2. IsFiniteSet(M) /\ IsFiniteSet(B) /\ IsFiniteSet(ahead) /\ IsFiniteSet(S)
  BY OrdersAssumption, FS_Subset DEF Before
<1>3. Cardinality(B) \in Nat /\ Cardinality(ahead) \in Nat /\ Cardinality(S) \in Nat
  BY <1>2, FS_CardinalityType
<1>4. o \notin ahead
  <2> SUFFICES ASSUME o \in ahead PROVE FALSE
    OBVIOUS
  <2>1. B \subseteq ahead \ {o}
    BY <1>1 DEF Before, NoneTied, NotOlder, Newer
  <2>2. Cardinality(ahead \ {o}) = Cardinality(ahead) - 1 /\ IsFiniteSet(ahead \ {o})
    BY <1>2, FS_RemoveElement
  <2>3. Cardinality(B) <= Cardinality(ahead \ {o})
    BY <2>1, <2>2, FS_Subset
  <2> QED
    BY <1>1, <1>3, <2>2, <2>3
<1>5. ahead \cup S \subseteq B
  BY <1>1, <1>4 DEF Before, NoneTied, NotOlder, Newer
<1>6. Cardinality(ahead) = from /\ Cardinality(S) = size
  <2>1. ahead # M /\ ahead \cup S # M
    BY <1>4
  <2> QED
    BY <1>1, <1>3, <2>1
<1>7. Cardinality(ahead \cup S) = Cardinality(ahead) + Cardinality(S)
  <2>1. ahead \cap S = {}
    OBVIOUS
  <2>2. Cardinality(ahead \cap S) = 0
    BY <2>1, FS_EmptySet
  <2>3. Cardinality(ahead \cup S)
          = Cardinality(ahead) + Cardinality(S) - Cardinality(ahead \cap S)
    BY <1>2, FS_Union
  <2> QED
    BY <1>3, <2>2, <2>3
<1>8. Cardinality(ahead \cup S) <= Cardinality(B)
  BY <1>2, <1>5, FS_Subset
<1>9. Cardinality(B) >= from + size
  BY <1>3, <1>6, <1>7, <1>8
<1> QED
  BY <1>6, <1>9

\* An order on the page has the pages before ahead of it, and less than that
\* and this page together.
LEMMA OnSlice ==
  ASSUME createdAt \in [Order -> Int],
         NEW M \in SUBSET Order, NEW S \in SUBSET M, NEW from \in Nat, NEW size \in Nat,
         Slice(S, M, from, size), NEW o \in S,
         NoneTied(o, M)
  PROVE  Cardinality(Before(M, o)) >= from /\ Cardinality(Before(M, o)) < from + size
<1> DEFINE B == Before(M, o)
<1>1. PICK ahead \in SUBSET (M \ S) :
        /\ NotOlder(ahead, M \ ahead) /\ NotOlder(S, M \ (ahead \cup S))
        /\ Cardinality(ahead) <= from /\ Cardinality(S) <= size
        /\ Cardinality(ahead) < from => ahead = M
        /\ Cardinality(S) < size => ahead \cup S = M
  BY DEF Slice
<1>2. IsFiniteSet(M) /\ IsFiniteSet(B) /\ IsFiniteSet(ahead) /\ IsFiniteSet(S)
  BY OrdersAssumption, FS_Subset DEF Before
<1>3. Cardinality(B) \in Nat /\ Cardinality(ahead) \in Nat /\ Cardinality(S) \in Nat
  BY <1>2, FS_CardinalityType
<1>4. ahead \subseteq B
  BY <1>1 DEF Before, NoneTied, NotOlder, Newer
<1>5. Cardinality(ahead) <= Cardinality(B)
  BY <1>2, <1>4, FS_Subset
<1>6. Cardinality(ahead) = from
  BY <1>1, <1>3
<1>7. B \subseteq ahead \cup (S \ {o})
  BY <1>1 DEF Before, NoneTied, NotOlder, Newer
<1>8. Cardinality(S \ {o}) = Cardinality(S) - 1 /\ IsFiniteSet(S \ {o})
  BY <1>2, FS_RemoveElement
<1>9. /\ IsFiniteSet(ahead \cup (S \ {o}))
      /\ Cardinality(ahead \cup (S \ {o})) =
           Cardinality(ahead) + Cardinality(S \ {o}) - Cardinality(ahead \cap (S \ {o}))
  BY <1>2, <1>8, FS_Union
<1>10. Cardinality(ahead \cap (S \ {o})) \in Nat
  BY <1>2, FS_Intersection, FS_CardinalityType
<1>11. Cardinality(B) <= Cardinality(ahead \cup (S \ {o}))
  BY <1>7, <1>9, FS_Subset
<1>12. Cardinality(B) >= from /\ Cardinality(B) < from + size
  BY <1>1, <1>3, <1>5, <1>6, <1>8, <1>9, <1>10, <1>11
<1> QED
  BY <1>12

-----------------------------------------------------------------------------
\* The invariant.

LEMMA LimitPositive ==
  ASSUME TypeOK, NEW c \in Client
  PROVE  Limit(c) \in Nat /\ Limit(c) > 0
<1>1. asked[c] \in Request
  BY DEF TypeOK
<1>2. asked[c].limit \in Int
  BY <1>1, RequestAssumption
<1> QED
  BY <1>2, LimitAssumption DEF Limit

LEMMA InitEstablishes == Init => IInv
<1> SUFFICES ASSUME Init PROVE IInv
  OBVIOUS
<1>1. TypeOK
  BY TimesAssumption DEF Init, TokenInit, TypeOK, TokenTypeOK, Client
<1>2. Past
  BY DEF Init, Past, Committed, Witnesses
<1>3. Fresh
  BY DEF Init, Fresh
<1>4. \A c \in Client : ~Walking(c) /\ pc[c] # "done"
  BY DEF Init, Walking
<1>5. Watched /\ MissInv /\ RepeatInv
  BY <1>4 DEF Init, Watched, MissInv, RepeatInv
<1> QED
  BY <1>1, <1>2, <1>3, <1>5 DEF IInv

\* TypeOK.
LEMMA TypeStep == TypeOK /\ [Next]_vars => TypeOK'
<1> SUFFICES ASSUME TypeOK, [Next]_vars PROVE TypeOK'
  OBVIOUS
<1> USE TimesAssumption DEF TypeOK, TokenTypeOK
<1>1. ASSUME NEW o \in Order, BeginOrder(o) PROVE TypeOK'
  BY <1>1 DEF BeginOrder, tokenVars, walkVars, history
<1>2. ASSUME NEW o \in Order, CommitOrder(o) \/ CancelOrder(o) PROVE TypeOK'
  <2>1. /\ UNCHANGED <<tokenVars, createdAt, walkVars>>
        /\ status' \in [Order -> {"none", "pending", "cancelled"}]
    BY <1>2 DEF CommitOrder, CancelOrder
  <2>2. \A c \in Client : Matching(c) \subseteq Order /\ Matching(c)' \subseteq Order
    BY DEF Matching
  <2>3. {constant', left', entered'} \subseteq [Client -> SUBSET Order]
    <3>1. Watch
      BY <1>2 DEF CommitOrder, CancelOrder
    <3> QED
      BY <3>1, <2>2 DEF Watch
  <2> QED
    BY <2>1, <2>3 DEF tokenVars, walkVars
<1>3. ASSUME NEW c \in Client, Login(c) PROVE TypeOK'
  BY <1>3 DEF Login, GenerateToken, orderVars, walkVars, history, Client
<1>4. ASSUME NEW c \in Client, Revoke(c) PROVE TypeOK'
  <2>1. PICK ttl \in 0 .. MaxTtl : RevokeToken(c, ttl)
    BY <1>4 DEF Revoke
  <2>2. UNCHANGED <<clock, expiry, redis, orderVars, walkVars, history>>
    BY <1>4, <2>1 DEF Revoke, RevokeToken
  <2>3. covered' \in [Token -> BOOLEAN]
    BY <2>1, RedisAssumption DEF RevokeToken
  <2>4. lapse' \in [Token -> 0 .. MaxTime + MaxTtl]
    <3>1. (IF ttl = 0 THEN Never ELSE clock + ttl) \in 0 .. MaxTime + MaxTtl
      BY DEF Never
    <3>2. [lapse EXCEPT ![c] = IF ttl = 0 THEN Never ELSE clock + ttl]
            \in [Token -> 0 .. MaxTime + MaxTtl]
      BY <3>1 DEF Client
    <3> QED
      BY <2>1, <3>2 DEF RevokeToken
  <2> QED
    BY <2>2, <2>3, <2>4 DEF orderVars, walkVars, history
<1>5. ASSUME NEW c \in Client, Authenticate(c) PROVE TypeOK'
  BY <1>5 DEF Authenticate, GoTo, tokenVars, orderVars, history
<1>6. ASSUME NEW c \in Client, ReadPage(c) PROVE TypeOK'
  <2>1. NextOffset(c) \in Nat /\ Matching(c) \subseteq Order
    BY LimitPositive DEF NextOffset, Matching
  <2> QED
    BY <1>6, <2>1 DEF ReadPage, GoTo, tokenVars, orderVars
<1>7. ASSUME NEW c \in Client, PageFails(c) PROVE TypeOK'
  BY <1>7 DEF PageFails, GoTo, tokenVars, orderVars, history
<1>8. CASE (Tick \/ RedisFailsOrReturns) /\ UNCHANGED <<orderVars, walkVars, history>>
  BY <1>8 DEF Tick, RedisFailsOrReturns, orderVars, walkVars, history
<1>9. CASE UNCHANGED vars
  BY <1>9 DEF vars, tokenVars, orderVars, walkVars, history
<1> QED
  BY <1>1, <1>2, <1>3, <1>4, <1>5, <1>6, <1>7, <1>8, <1>9 DEF Next, SearchOrders

\* No walk comes to its end.
Continuing ==
  \A d \in Client : \/ pc'[d] = pc[d]
                    \/ pc[d] # "done" /\ pc'[d] \in {"refused", "failed"}
                    \/ pc[d] \in {"idle", "search"} /\ pc'[d] \in {"idle", "search"}

\* Steps that change no order, no page and no history keep the rest.
LEMMA Still ==
  ASSUME IInv, UNCHANGED <<orderVars, asked, offset, got, twice, history>>, TypeOK',
         Continuing
  PROVE  IInv'
<1> USE DEF orderVars, history
<1>1. /\ Committed' = Committed
      /\ \A d \in Client : Matching(d)' = Matching(d) /\ Witnesses(d)' = Witnesses(d)
  BY DEF Committed, Matching, Matches, Witnesses
<1>2. \A d \in Client : \A o \in Order :
        /\ Ahead(d, o)' = Ahead(d, o)
        /\ MissExcused(d, o)' = MissExcused(d, o)
        /\ RepeatExcused(d, o)' = RepeatExcused(d, o)
  BY <1>1 DEF Ahead, Before, Newer, MissExcused, RepeatExcused, Tied
<1>3. \A d \in Client :
        /\ Walking(d)' => Walking(d)
        /\ pc'[d] = "done" <=> pc[d] = "done"
  BY DEF Continuing, Walking
<1>4. \A d \in Client : got[d] \subseteq Order /\ twice[d] \subseteq Order /\ constant[d] \subseteq Order
  BY DEF IInv, TypeOK
<1>5. Past'
  BY <1>1 DEF IInv, Past
<1>6. Fresh' /\ Watched'
  BY <1>1, <1>3 DEF IInv, Fresh, Watched
<1>7. MissInv'
  BY <1>2, <1>3, <1>4 DEF IInv, MissInv
<1>8. RepeatInv'
  BY <1>2, <1>3, <1>4 DEF IInv, RepeatInv
<1> QED
  BY <1>5, <1>6, <1>7, <1>8 DEF IInv

LEMMA BeginStep ==
  ASSUME IInv, TypeOK', NEW o \in Order, BeginOrder(o)
  PROVE  IInv'
<1> USE DEF BeginOrder, walkVars, history
<1>1. o \notin Committed
  BY DEF IInv, Past
<1>2. Committed' = Committed /\ \A x \in Committed : createdAt'[x] = createdAt[x]
  BY <1>1 DEF Committed, IInv, TypeOK
<1>3. \A c \in Client :
        /\ Matching(c)' = Matching(c) /\ Matching(c) \subseteq Committed
        /\ Witnesses(c)' = Witnesses(c)
  BY DEF Matching, Matches, Witnesses, Committed
<1>4. \A c \in Client : Witnesses(c) \subseteq Committed /\ got[c] \subseteq Committed
                     /\ twice[c] \subseteq Committed
  BY DEF IInv, Past
<1>5. \A x, y \in Committed : Newer(x, y)' = Newer(x, y)
  BY <1>2 DEF Newer
<1>6. \A c \in Client : \A x \in Committed :
        /\ Ahead(c, x)' = Ahead(c, x)
        /\ MissExcused(c, x)' = MissExcused(c, x)
        /\ RepeatExcused(c, x)' = RepeatExcused(c, x)
  <2> TAKE c \in Client
  <2> TAKE x \in Committed
  <2>1. Ahead(c, x)' = Ahead(c, x)
    BY <1>3, <1>5 DEF Ahead, Before
  <2>2. Tied(c, x)' = Tied(c, x)
    BY <1>2, <1>3, <1>4 DEF Tied, Witnesses
  <2>3. left[c] \subseteq Committed /\ entered[c] \subseteq Committed
    BY <1>4 DEF Witnesses
  <2> QED
    BY <2>1, <2>2, <2>3, <1>5 DEF MissExcused, RepeatExcused
<1>7. Past'
  BY <1>2, <1>3, <1>4 DEF IInv, Past
<1>8. Fresh' /\ Watched'
  BY <1>3 DEF IInv, Fresh, Watched, Walking
<1>9. MissInv'
  BY <1>4, <1>6 DEF IInv, MissInv, Walking, Witnesses
<1>10. RepeatInv'
  BY <1>4, <1>6 DEF IInv, RepeatInv, Walking
<1> QED
  BY <1>7, <1>8, <1>9, <1>10 DEF IInv

\* A commit or a cancellation: what leaves a walk's matching orders, and what
\* enters them, is noted.
LEMMA WatchStep ==
  ASSUME IInv, TypeOK', Watch, UNCHANGED <<tokenVars, createdAt, walkVars>>,
         Committed \subseteq Committed', \A o \in Committed' : createdAt[o] > 0
  PROVE  IInv'
<1> USE DEF walkVars
<1>1. \A c \in Client : /\ Matching(c) \subseteq Committed
                        /\ Matching(c)' \subseteq Committed'
  BY DEF Matching, Committed
<1>2. \A c \in Client : (Walking(c)' <=> Walking(c)) /\ (Walking(c) => pc[c] # "done")
  BY DEF Walking
<1>3. \A c \in Client : Walking(c) =>
        /\ constant'[c] = constant[c] \cap Matching(c)'
        /\ left'[c] = left[c] \cup (Matching(c) \ Matching(c)')
        /\ entered'[c] = entered[c] \cup (Matching(c)' \ Matching(c))
  BY DEF Watch
<1>4. \A c \in Client : ~Walking(c) =>
        constant'[c] = constant[c] /\ left'[c] = left[c] /\ entered'[c] = entered[c]
  BY DEF Watch
<1>5. \A c \in Client : /\ Witnesses(c) \subseteq Witnesses(c)'
                        /\ left[c] \subseteq left'[c] /\ entered[c] \subseteq entered'[c]
                        /\ constant'[c] \subseteq constant[c]
  BY <1>3, <1>4 DEF Witnesses, IInv, Watched
<1>6. \A x, y : Newer(x, y)' = Newer(x, y)
  BY DEF Newer
<1>7. ASSUME NEW c \in Client, NEW o
      PROVE  (MissExcused(c, o) => MissExcused(c, o)')
             /\ (RepeatExcused(c, o) => RepeatExcused(c, o)')
  <2>1. Tied(c, o) => Tied(c, o)'
    BY <1>5 DEF Tied, Witnesses
  <2> QED
    BY <2>1, <1>5, <1>6 DEF MissExcused, RepeatExcused
<1>8. Past'
  <2>1. ASSUME NEW c \in Client PROVE Witnesses(c)' \subseteq Committed'
    <3>1. Witnesses(c) \subseteq Committed
      BY DEF IInv, Past
    <3> QED
      BY <3>1, <1>1, <1>3, <1>4 DEF Witnesses
  <2> QED
    BY <2>1 DEF IInv, Past
<1>9. Fresh'
  BY <1>5 DEF IInv, Fresh
<1>10. Watched'
  BY <1>2, <1>3 DEF IInv, Watched, Witnesses
<1>11. MissInv'
  <2> SUFFICES ASSUME NEW c \in Client, NEW o \in constant'[c] \ got'[c],
                      ~MissExcused(c, o)'
               PROVE  /\ pc'[c] # "done"
                      /\ Walking(c)' => Cardinality(Ahead(c, o)') >= offset'[c]
    BY DEF MissInv
  <2>1. o \in constant[c] \ got[c] /\ ~MissExcused(c, o)
    BY <1>5, <1>7
  <2>2. pc[c] # "done" /\ (Walking(c) => Cardinality(Ahead(c, o)) >= offset[c])
    BY <2>1 DEF IInv, MissInv
  <2>3. CASE Walking(c)
    <3>1. Ahead(c, o) \subseteq Ahead(c, o)'
      <4> SUFFICES ASSUME NEW x \in Matching(c), Newer(x, o), x \notin Matching(c)'
                   PROVE  FALSE
        BY <1>6 DEF Ahead, Before
      <4>1. x \in left'[c]
        BY <1>3, <2>3
      <4> QED
        BY <4>1, <1>6 DEF MissExcused
    <3>2. Ahead(c, o)' \subseteq Order /\ IsFiniteSet(Ahead(c, o)')
      <4>1. Ahead(c, o)' \subseteq Order
        BY DEF Ahead, Before, Matching
      <4> QED
        BY <4>1, OrdersAssumption, FS_Subset
    <3>3. IsFiniteSet(Ahead(c, o)) /\ Cardinality(Ahead(c, o)) <= Cardinality(Ahead(c, o)')
      BY <3>1, <3>2, FS_Subset
    <3>4. /\ Cardinality(Ahead(c, o)) \in Nat /\ Cardinality(Ahead(c, o)') \in Nat
          /\ offset[c] \in Nat
      BY <3>2, <3>3, FS_CardinalityType DEF IInv, TypeOK
    <3> QED
      BY <2>2, <2>3, <3>3, <3>4
  <2>4. CASE ~Walking(c)
    BY <1>2, <2>2, <2>4
  <2> QED
    BY <2>3, <2>4
<1>12. RepeatInv'
  <2> SUFFICES ASSUME NEW c \in Client
               PROVE  /\ \A o \in twice[c] : RepeatExcused(c, o)'
                      /\ Walking(c)' => \A o \in got[c] :
                           RepeatExcused(c, o)' \/ Cardinality(Ahead(c, o)') < offset[c]
    BY DEF RepeatInv
  <2>1. \A o \in twice[c] : RepeatExcused(c, o)'
    BY <1>7 DEF IInv, RepeatInv
  <2>2. ASSUME Walking(c), NEW o \in got[c], ~RepeatExcused(c, o)'
        PROVE  Cardinality(Ahead(c, o)') < offset[c]
    <3>1. Cardinality(Ahead(c, o)) < offset[c]
      BY <1>7, <2>2 DEF IInv, RepeatInv
    <3>2. Ahead(c, o)' \subseteq Ahead(c, o)
      <4> SUFFICES ASSUME NEW x \in Matching(c)', Newer(x, o), x \notin Matching(c)
                   PROVE  FALSE
        BY <1>6 DEF Ahead, Before
      <4>1. x \in entered'[c]
        BY <1>3, <2>2
      <4> QED
        BY <4>1, <1>6, <2>2 DEF RepeatExcused
    <3>3. IsFiniteSet(Ahead(c, o))
      <4>1. Ahead(c, o) \subseteq Order
        BY DEF Ahead, Before, Matching
      <4> QED
        BY <4>1, OrdersAssumption, FS_Subset
    <3>4. IsFiniteSet(Ahead(c, o)') /\ Cardinality(Ahead(c, o)') <= Cardinality(Ahead(c, o))
      BY <3>2, <3>3, FS_Subset
    <3>5. /\ Cardinality(Ahead(c, o)) \in Nat /\ Cardinality(Ahead(c, o)') \in Nat
          /\ offset[c] \in Nat
      BY <3>3, <3>4, FS_CardinalityType DEF IInv, TypeOK
    <3> QED
      BY <3>1, <3>4, <3>5
  <2> QED
    BY <1>2, <2>1, <2>2
<1> QED
  BY <1>8, <1>9, <1>10, <1>11, <1>12 DEF IInv

\* A page: slices as above.
LEMMA PageStep ==
  ASSUME IInv, TypeOK', NEW c \in Client, ReadPage(c)
  PROVE  IInv'
<1> USE DEF tokenVars, orderVars
<1>1. PICK page \in SUBSET Matching(c) :
        /\ Slice(page, Matching(c), offset[c], Limit(c))
        /\ got' = [got EXCEPT ![c] = @ \cup page]
        /\ twice' = [twice EXCEPT ![c] = @ \cup (got[c] \cap page)]
        /\ IF Cardinality(page) < Limit(c)
           THEN GoTo(c, "done") /\ UNCHANGED offset
           ELSE GoTo(c, "idle") /\ offset' = [offset EXCEPT ![c] = NextOffset(c)]
        /\ constant' = IF offset[c] = 0
                       THEN [constant EXCEPT ![c] = Matching(c)] ELSE constant
  BY DEF ReadPage
<1>2. pc[c] = "search" /\ UNCHANGED <<tokenVars, orderVars, asked, left, entered>>
  BY DEF ReadPage
<1>3. /\ offset[c] \in Nat /\ Limit(c) \in Nat /\ Limit(c) > 0
      /\ createdAt \in [Order -> Int] /\ Matching(c) \in SUBSET Order
  <2>1. offset[c] \in Nat /\ createdAt \in [Order -> Int]
    BY TimesAssumption DEF IInv, TypeOK
  <2> QED
    BY <2>1, LimitPositive DEF IInv, Matching
<1>4. IsFiniteSet(page) /\ Cardinality(page) \in Nat
  BY <1>3, OrdersAssumption, FS_Subset, FS_CardinalityType
<1>5. /\ Committed' = Committed
      /\ \A d \in Client : Matching(d)' = Matching(d) /\ Matching(d) \subseteq Committed
      /\ \A x, y : Newer(x, y)' = Newer(x, y)
      /\ \A d \in Client : \A o : Ahead(d, o)' = Ahead(d, o)
  BY <1>2 DEF Committed, Matching, Matches, Newer, Ahead, Before
<1>6. /\ got'[c] = got[c] \cup page
      /\ twice'[c] = twice[c] \cup (got[c] \cap page)
      /\ constant'[c] = IF offset[c] = 0 THEN Matching(c) ELSE constant[c]
      /\ left'[c] = left[c] /\ entered'[c] = entered[c]
      /\ pc'[c] = IF Cardinality(page) < Limit(c) THEN "done" ELSE "idle"
      /\ offset'[c] = IF Cardinality(page) < Limit(c) THEN offset[c] ELSE offset[c] + Limit(c)
  BY <1>1, <1>2 DEF IInv, TypeOK, GoTo, NextOffset
<1>7. \A d \in Client \ {c} :
        /\ got'[d] = got[d] /\ twice'[d] = twice[d] /\ constant'[d] = constant[d]
        /\ left'[d] = left[d] /\ entered'[d] = entered[d]
        /\ pc'[d] = pc[d] /\ offset'[d] = offset[d]
  BY <1>1, <1>2 DEF IInv, TypeOK, GoTo
<1>8. \A d \in Client \ {c} :
        /\ Witnesses(d)' = Witnesses(d) /\ Walking(d)' = Walking(d)
        /\ \A o : /\ MissExcused(d, o)' = MissExcused(d, o)
                  /\ RepeatExcused(d, o)' = RepeatExcused(d, o)
  <2> SUFFICES ASSUME NEW d \in Client \ {c}
               PROVE  /\ Witnesses(d)' = Witnesses(d) /\ Walking(d)' = Walking(d)
                      /\ \A o : /\ MissExcused(d, o)' = MissExcused(d, o)
                                /\ RepeatExcused(d, o)' = RepeatExcused(d, o)
    OBVIOUS
  <2>1. Witnesses(d)' = Witnesses(d) /\ Walking(d)' = Walking(d)
    BY <1>7 DEF Witnesses, Walking
  <2>2. \A o : Tied(d, o)' = Tied(d, o)
    BY <1>2, <1>7 DEF Tied
  <2> QED
    BY <1>5, <1>7, <2>1, <2>2 DEF MissExcused, RepeatExcused
<1>9. constant'[c] \subseteq Matching(c) /\ Matching(c) \subseteq Witnesses(c)'
  <2>1. CASE offset[c] = 0
    BY <2>1, <1>6 DEF Witnesses
  <2>2. CASE offset[c] # 0
    <3>1. Walking(c)
      BY <1>2, <1>3, <2>2 DEF Walking
    <3> QED
      BY <3>1, <2>2, <1>6 DEF IInv, Watched, Witnesses
  <2> QED
    BY <2>1, <2>2
\* Without a tie the other matching orders have other times.
<1>10. ASSUME NEW o, ~Tied(c, o)'
       PROVE  NoneTied(o, Matching(c))
  BY <1>2, <1>9, <1>10 DEF NoneTied, Tied, Witnesses
<1>11. Past'
  <2>1. ASSUME NEW d \in Client
        PROVE  (got[d] \cup twice[d] \cup Witnesses(d))' \subseteq Committed
    <3>1. CASE d = c
      BY <3>1, <1>5, <1>6, <1>9 DEF IInv, Past, Witnesses
    <3>2. CASE d # c
      BY <3>2, <1>7, <1>8 DEF IInv, Past
    <3> QED
      BY <3>1, <3>2
  <2> QED
    BY <2>1, <1>2, <1>5 DEF IInv, Past
<1>12. Fresh'
  BY <1>3, <1>6, <1>7 DEF IInv, Fresh
<1>13. Watched'
  BY <1>5, <1>7, <1>8, <1>9 DEF IInv, Watched
<1>14. MissInv'
  <2>1. ASSUME NEW o \in constant'[c] \ got'[c], ~MissExcused(c, o)'
        PROVE  pc'[c] # "done" /\ Cardinality(Ahead(c, o)) >= offset'[c]
    <3>1. o \in Matching(c) \ page /\ o \notin got[c]
      BY <2>1, <1>6, <1>9
    <3>2. Cardinality(Ahead(c, o)) >= offset[c]
      <4>1. CASE offset[c] = 0
        <5>1. IsFiniteSet(Ahead(c, o))
          BY <1>3, OrdersAssumption, FS_Subset DEF Ahead, Before
        <5> QED
          BY <4>1, <5>1, FS_CardinalityType
      <4>2. CASE offset[c] # 0
        <5>1. Walking(c) /\ o \in constant[c]
          BY <1>2, <1>3, <1>6, <2>1, <4>2 DEF Walking
        <5>2. ~MissExcused(c, o)
          BY <1>2, <1>5, <1>6, <2>1, <4>2 DEF MissExcused, Tied
        <5> QED
          BY <3>1, <5>1, <5>2 DEF IInv, MissInv
      <4> QED
        BY <4>1, <4>2
    <3>3. NoneTied(o, Matching(c))
      BY <1>10, <2>1 DEF MissExcused
    <3>4. /\ Cardinality(page) = Limit(c)
          /\ Cardinality(Ahead(c, o)) >= offset[c] + Limit(c)
      <4>1. Slice(page, Matching(c), offset[c], Limit(c)) /\ page \in SUBSET Matching(c)
        BY <1>1
      <4> QED
        BY <1>3, <3>1, <3>2, <3>3, <4>1, BehindSlice DEF Ahead
    <3> QED
      BY <1>3, <1>6, <3>4
  <2>2. \A o \in constant'[c] \ got'[c] :
          /\ pc'[c] = "done" => MissExcused(c, o)'
          /\ Walking(c)' => MissExcused(c, o)' \/ Cardinality(Ahead(c, o)') >= offset'[c]
    BY <2>1, <1>5
  <2>3. \A d \in Client \ {c} : \A o \in constant'[d] \ got'[d] :
          /\ pc'[d] = "done" => MissExcused(d, o)'
          /\ Walking(d)' => MissExcused(d, o)' \/ Cardinality(Ahead(d, o)') >= offset'[d]
    BY <1>5, <1>7, <1>8 DEF IInv, MissInv
  <2> QED
    BY <2>2, <2>3 DEF MissInv
<1>15. RepeatInv'
  <2>0. ASSUME offset[c] # 0
        PROVE  \A o : RepeatExcused(c, o)' = RepeatExcused(c, o)
    BY <1>2, <1>5, <1>6, <2>0 DEF RepeatExcused, Tied
  <2>1. ASSUME NEW o \in page, ~RepeatExcused(c, o)'
        PROVE  /\ Cardinality(Ahead(c, o)) >= offset[c]
               /\ Cardinality(Ahead(c, o)) < offset[c] + Limit(c)
    <3>1. NoneTied(o, Matching(c))
      BY <1>10, <2>1 DEF RepeatExcused
    <3> QED
      BY <1>1, <1>3, <2>1, <3>1, OnSlice DEF Ahead
  <2>2. ASSUME NEW o \in got[c], ~RepeatExcused(c, o)'
        PROVE  offset[c] # 0 /\ Cardinality(Ahead(c, o)) < offset[c]
    <3>1. offset[c] # 0
      BY <1>2, <2>2 DEF IInv, Fresh
    <3>2. Walking(c) /\ ~RepeatExcused(c, o)
      BY <1>2, <1>3, <2>0, <2>2, <3>1 DEF Walking
    <3> QED
      BY <3>1, <3>2, <2>2 DEF IInv, RepeatInv
  <2>3. ASSUME NEW o \in twice[c] PROVE RepeatExcused(c, o)'
    <3>1. offset[c] # 0
      BY <1>2, <2>3 DEF IInv, Fresh
    <3> QED
      BY <3>1, <2>0, <2>3 DEF IInv, RepeatInv
  <2>4. ASSUME NEW o \in got[c] \cap page PROVE RepeatExcused(c, o)'
    <3> SUFFICES ASSUME ~RepeatExcused(c, o)' PROVE FALSE
      OBVIOUS
    <3>1. IsFiniteSet(Ahead(c, o))
      BY <1>3, OrdersAssumption, FS_Subset DEF Ahead, Before
    <3>2. Cardinality(Ahead(c, o)) \in Nat
      BY <3>1, FS_CardinalityType
    <3> QED
      BY <1>3, <2>1, <2>2, <2>4, <3>2
  <2>5. ASSUME NEW o \in got'[c], Walking(c)', ~RepeatExcused(c, o)'
        PROVE  Cardinality(Ahead(c, o)) < offset'[c]
    <3>1. offset'[c] = offset[c] + Limit(c)
      BY <1>6, <2>5 DEF Walking
    <3>2. IsFiniteSet(Ahead(c, o))
      BY <1>3, OrdersAssumption, FS_Subset DEF Ahead, Before
    <3>3. Cardinality(Ahead(c, o)) \in Nat
      BY <3>2, FS_CardinalityType
    <3>4. CASE o \in page
      BY <2>1, <2>5, <3>1, <3>4
    <3>5. CASE o \in got[c]
      BY <1>3, <2>2, <2>5, <3>1, <3>3, <3>5
    <3> QED
      BY <1>6, <2>5, <3>4, <3>5
  <2>6. /\ \A o \in twice'[c] : RepeatExcused(c, o)'
        /\ Walking(c)' => \A o \in got'[c] :
             RepeatExcused(c, o)' \/ Cardinality(Ahead(c, o)') < offset'[c]
    BY <1>5, <1>6, <2>3, <2>4, <2>5
  <2>7. \A d \in Client \ {c} :
          /\ \A o \in twice'[d] : RepeatExcused(d, o)'
          /\ Walking(d)' => \A o \in got'[d] :
               RepeatExcused(d, o)' \/ Cardinality(Ahead(d, o)') < offset'[d]
    BY <1>5, <1>7, <1>8 DEF IInv, RepeatInv
  <2> QED
    BY <2>6, <2>7 DEF RepeatInv
<1> QED
  BY <1>11, <1>12, <1>13, <1>14, <1>15 DEF IInv

LEMMA NextPreserves == IInv /\ [Next]_vars => IInv'
<1> SUFFICES ASSUME IInv, [Next]_vars PROVE IInv'
  OBVIOUS
<1>0. TypeOK'
  BY TypeStep DEF IInv
<1>1. ASSUME NEW o \in Order, BeginOrder(o) PROVE IInv'
  BY <1>0, <1>1, BeginStep
<1>2. ASSUME NEW o \in Order, CommitOrder(o) \/ CancelOrder(o) PROVE IInv'
  <2>1. Watch /\ UNCHANGED <<tokenVars, createdAt, walkVars>>
    BY <1>2 DEF CommitOrder, CancelOrder
  <2>2. Committed \subseteq Committed' /\ \A x \in Committed' : createdAt[x] > 0
    BY <1>2 DEF CommitOrder, CancelOrder, Committed, IInv, Past, TypeOK
  <2> QED
    BY <1>0, <2>1, <2>2, WatchStep
<1>3. ASSUME NEW c \in Client, Login(c) \/ Revoke(c) PROVE IInv'
  <2>1. UNCHANGED <<orderVars, asked, offset, got, twice, history>> /\ Continuing
    BY <1>3 DEF Continuing, Login, Revoke, walkVars
  <2> QED
    BY <1>0, <2>1, Still
<1>4. ASSUME NEW c \in Client, Authenticate(c) PROVE IInv'
  <2>1. UNCHANGED <<orderVars, asked, offset, got, twice, history>>
    BY <1>4 DEF Authenticate
  <2>2. /\ \A d \in Client \ {c} : pc'[d] = pc[d]
        /\ pc[c] = "idle" /\ pc'[c] \in {"search", "refused"}
    BY <1>4 DEF Authenticate, GoTo, IInv, TypeOK
  <2>3. Continuing
    BY <2>2 DEF Continuing
  <2> QED
    BY <1>0, <2>1, <2>3, Still
<1>5. ASSUME NEW c \in Client, ReadPage(c) PROVE IInv'
  BY <1>0, <1>5, PageStep
<1>6. ASSUME NEW c \in Client, PageFails(c) PROVE IInv'
  <2>1. UNCHANGED <<orderVars, asked, offset, got, twice, history>>
    BY <1>6 DEF PageFails
  <2>2. /\ \A d \in Client \ {c} : pc'[d] = pc[d]
        /\ pc[c] = "search" /\ pc'[c] \in {"idle", "failed"}
    BY <1>6 DEF PageFails, GoTo, IInv, TypeOK
  <2>3. Continuing
    BY <2>2 DEF Continuing
  <2> QED
    BY <1>0, <2>1, <2>3, Still
<1>7. CASE (Tick \/ RedisFailsOrReturns) /\ UNCHANGED <<orderVars, walkVars, history>>
  <2>1. UNCHANGED <<orderVars, asked, offset, got, twice, history>> /\ Continuing
    BY <1>7 DEF Continuing, walkVars
  <2> QED
    BY <1>0, <2>1, Still
<1>8. CASE UNCHANGED vars
  <2>1. UNCHANGED <<orderVars, asked, offset, got, twice, history>> /\ Continuing
    BY <1>8 DEF Continuing, vars, walkVars
  <2> QED
    BY <1>0, <2>1, Still
<1> QED
  BY <1>1, <1>2, <1>3, <1>4, <1>5, <1>6, <1>7, <1>8 DEF Next, SearchOrders

-----------------------------------------------------------------------------
\* Types and ranges: no token, page or order is in a state the code does not
\* know (token.go, handler.go, service.go).
THEOREM TypeCorrect == Spec => []TypeOK
<1>1. IInv => TypeOK
  BY DEF IInv
<1> QED
  BY <1>1, InitEstablishes, NextPreserves, PTL DEF Spec

\* A walk through the search misses an order only for a cause: a cancellation
\* that moved it up, or a tie (ORDER BY created_at DESC with OFFSET,
\* repository.go).
THEOREM MissedHasCauseHolds == Spec => []MissedHasCause
<1>1. IInv => MissedHasCause
  BY DEF IInv, MissInv, MissedHasCause, MissExcused
<1> QED
  BY <1>1, InitEstablishes, NextPreserves, PTL DEF Spec

\* A walk shows an order twice only for a cause: one that came in ahead of it,
\* or a tie.
THEOREM RepeatedHasCauseHolds == Spec => []RepeatedHasCause
<1>1. IInv => RepeatedHasCause
  BY DEF IInv, RepeatInv, RepeatedHasCause, RepeatExcused
<1> QED
  BY <1>1, InitEstablishes, NextPreserves, PTL DEF Spec

-----------------------------------------------------------------------------
\* Revocation.

\* A token that was revoked for the rest of its life has a key that outlasts it.
KeyInv ==
  \A t \in Token : covered[t] =>
    RedisConfigured /\ Issued(t) /\ (lapse[t] >= expiry[t] \/ lapse[t] = Never)

LEMMA KeyStep == TypeOK /\ KeyInv /\ [Next]_vars => KeyInv'
<1> SUFFICES ASSUME TypeOK, KeyInv, [Next]_vars PROVE KeyInv'
  OBVIOUS
<1> USE DEF TypeOK, TokenTypeOK, KeyInv, Issued
<1>1. ASSUME UNCHANGED <<expiry, lapse, covered>> PROVE KeyInv'
  BY <1>1
<1>2. ASSUME NEW c \in Client, GenerateToken(c) PROVE KeyInv'
  BY <1>2 DEF GenerateToken
<1>3. ASSUME NEW c \in Client, NEW ttl \in 0 .. MaxTtl, RevokeToken(c, ttl) PROVE KeyInv'
  <2>1. expiry' = expiry /\ Issued(c)
    BY <1>3 DEF RevokeToken
  <2>2. \A t \in Token \ {c} : lapse'[t] = lapse[t] /\ covered'[t] = covered[t]
    BY <1>3 DEF RevokeToken, Client
  <2>3. ASSUME covered'[c]
        PROVE  /\ RedisConfigured
               /\ lapse'[c] >= expiry[c] \/ lapse'[c] = Never
    <3>1. /\ RedisConfigured /\ redis = "up"
          /\ ttl = 0 \/ clock + ttl >= expiry[c]
      BY <1>3, <2>3 DEF RevokeToken, Client
    <3>2. lapse'[c] = IF ttl = 0 THEN Never ELSE clock + ttl
      BY <1>3, <3>1 DEF RevokeToken, Client
    <3> QED
      BY <3>1, <3>2
  <2> QED
    BY <2>1, <2>2, <2>3
<1>4. CASE Next
  <2>1. ASSUME NEW o \in Order, BeginOrder(o) \/ CommitOrder(o) \/ CancelOrder(o) PROVE KeyInv'
    BY <1>1, <2>1 DEF BeginOrder, CommitOrder, CancelOrder, tokenVars
  <2>2. ASSUME NEW c \in Client, Login(c) \/ Revoke(c) PROVE KeyInv'
    BY <1>2, <1>3, <2>2 DEF Login, Revoke
  <2>3. ASSUME NEW c \in Client, SearchOrders(c) PROVE KeyInv'
    BY <1>1, <2>3 DEF SearchOrders, Authenticate, ReadPage, PageFails, tokenVars
  <2>4. CASE Tick \/ RedisFailsOrReturns
    BY <1>1, <2>4 DEF Tick, RedisFailsOrReturns
  <2> QED
    BY <1>4, <2>1, <2>2, <2>3, <2>4 DEF Next
<1> QED
  BY <1>1, <1>4 DEF vars, tokenVars

\* A token revoked for the rest of its life begins no request while Redis
\* answers (ValidateToken, token.go).
THEOREM RevokedRefusedHolds == Spec => RevokedRefused
<1>1. Init => KeyInv
  BY DEF Init, TokenInit, KeyInv
<1>2. ASSUME TypeOK, KeyInv, [Next]_vars, NEW c \in Client,
             pc[c] = "idle", pc'[c] = "search", covered[c]
      PROVE  redis = "down"
  <2>1. Authenticate(c)
    <3>1. ASSUME NEW d \in Client, Authenticate(d) PROVE d = c
      BY <1>2, <3>1 DEF Authenticate, GoTo, TypeOK
    <3>2. ~(\E d \in Client : ReadPage(d) \/ PageFails(d))
      BY <1>2 DEF ReadPage, PageFails, GoTo, TypeOK
    <3>3. pc' # pc
      BY <1>2
    <3> QED
      BY <1>2, <3>1, <3>2, <3>3 DEF Next, SearchOrders, BeginOrder, CommitOrder, CancelOrder,
        Login, Revoke, vars, walkVars
  <2>2. clock < expiry[c] /\ (redis = "up" => clock >= lapse[c] \/ ~RedisConfigured)
    BY <1>2, <2>1 DEF Authenticate, GoTo, ValidateToken, IsTokenRevoked, TypeOK, TokenTypeOK, Client
  <2>3. RedisConfigured /\ (lapse[c] >= expiry[c] \/ lapse[c] = MaxTime + 1)
    BY <1>2 DEF KeyInv, Never, Client
  <2>4. clock \in Nat /\ clock <= MaxTime /\ expiry[c] \in Nat /\ lapse[c] \in Nat
    BY <1>2, TimesAssumption DEF TypeOK, TokenTypeOK, Client
  <2>5. redis # "up"
    BY <2>2, <2>3, <2>4, TimesAssumption
  <2> QED
    BY <1>2, <2>5 DEF TypeOK, TokenTypeOK
<1>3. TypeOK /\ KeyInv /\ [Next]_vars =>
        [\A c \in Client : pc[c] = "idle" /\ pc'[c] = "search" /\ covered[c] =>
           redis = "down"]_vars
  BY <1>2
<1>4. IInv => TypeOK
  BY DEF IInv
<1> QED
  BY <1>1, <1>3, <1>4, InitEstablishes, NextPreserves, KeyStep, PTL DEF Spec, RevokedRefused
=============================================================================
