----------------------------- MODULE OrdersProofs -----------------------------
(***************************************************************************)
(* Theorems about Orders for any calls, tenants and number of lines; that  *)
(* it keeps the promise of OrderBook, with a River client.                 *)
(***************************************************************************)
EXTENDS Orders, FiniteSetTheorems, TLAPS

\* What a call stages, and what CreateOrder has written after k lines and in
\* the end.
Staged(kind, c) == IF RiverConfigured THEN {Job(kind, c)} ELSE {}
Written(o, k) == {Header(o)} \cup {Item(o, n) : n \in 1 .. k}
Full(o) == Written(o, LineCount) \cup Staged("created", o) \cup Staged("audit", o)
Absent(o) == Full(o) \cap db = {} /\ Cancellation(o) \notin db

\* A call of CreateOrder has written the statements it is past; its order is
\* in the database whole or not at all.
CreateInv(o) ==
  /\ ~broken[o]
  /\ pc[o] \in {"start", "items", "event", "audit", "commit", "done"}
  /\ pc[o] = "start" => work[o] = {}
  /\ pc[o] = "items" => \E k \in 0 .. LineCount - 1 : work[o] = Written(o, k)
  /\ pc[o] = "event" => work[o] = Written(o, LineCount)
  /\ pc[o] = "audit" => work[o] = Written(o, LineCount) \cup Staged("created", o)
  /\ pc[o] = "commit" => work[o] = Full(o)
  /\ Full(o) \subseteq db \/ Absent(o)
  /\ pc[o] # "done" => Absent(o) /\ result[o] = "none"
  /\ result[o] = "ok" => Full(o) \subseteq db

\* A call that is past its first statement has found its order.
Found(c) == Header(Target[c]) \in db /\ TenantOf[c] = TenantOf[Target[c]]

\* The lines it has read are all, or none because the tenant is purged.
Shown(c) == seen[c].lines = Line \/ (seen[c].lines = {} /\ ~Open(c))

\* A cancellation that is past the start of its UPDATE found the tenant active
\* then, hence also before, when it read the lines.
CancelInv(c) ==
  /\ pc[c] \in {"start", "lines", "check", "update", "audit", "commit", "done"}
  /\ pc[c] \in {"lines", "check", "update", "audit", "commit"} => Found(c)
  /\ pc[c] \in {"start", "lines", "check", "update"} => work[c] = {}
  /\ pc[c] = "audit" => work[c] = {Cancellation(Target[c])}
  /\ pc[c] = "commit" /\ ~broken[c] =>
       work[c] = {Cancellation(Target[c])} \cup Staged("audit", c)
  /\ pc[c] # "commit" /\ pc[c] # "done" => ~broken[c]
  /\ pc[c] = "check" => Shown(c)
  /\ pc[c] \in {"update", "audit", "commit"} \/ result[c] = "ok" => seen[c].lines = Line
  /\ pc[c] # "done" => result[c] = "none"
  /\ result[c] \in {"none", "notFound", "alreadyCancelled"} => Job("audit", c) \notin db
  /\ result[c] = "ok" => Cancellation(Target[c]) \in db /\ Staged("audit", c) \subseteq db

ReadInv(c) ==
  /\ pc[c] \in {"start", "lines", "commit", "done"}
  /\ pc[c] \in {"lines", "commit"} => Found(c)
  /\ work[c] = {} /\ ~broken[c]
  /\ pc[c] = "commit" \/ result[c] = "ok" => Shown(c)
  /\ pc[c] # "done" => result[c] = "none"

IInv ==
  /\ TypeOK
  /\ \A o \in Order : CreateInv(o)
  /\ \A c \in Canceller : CancelInv(c)
  /\ \A c \in Reader : ReadInv(c)

-----------------------------------------------------------------------------
\* Rows of different tables, orders, lines, kinds or calls are different.
LEMMA RowsDiffer ==
  /\ \A o, p : Header(o) = Header(p) => o = p
  /\ \A o, p : Cancellation(o) = Cancellation(p) => o = p
  /\ \A o, p, n, m : Item(o, n) = Item(p, m) => o = p /\ n = m
  /\ \A c, d, k, l : Job(k, c) = Job(l, d) => k = l /\ c = d
  /\ \A o, p : Header(o) # Cancellation(p)
  /\ \A o, p, n : Header(o) # Item(p, n) /\ Cancellation(o) # Item(p, n)
  /\ \A o, c, k : Header(o) # Job(k, c) /\ Cancellation(o) # Job(k, c)
  /\ \A o, n, c, k : Item(o, n) # Job(k, c)
<1>1. \A o, n, c, k : /\ Header(o).table = "orders" /\ Cancellation(o).table = "orders.status"
                      /\ Item(o, n).table = "order_items" /\ Job(k, c).table = "river_job"
  BY DEF Header, Cancellation, Item, Job
<1>2. \A o, n, c, k : /\ Header(o).of = o /\ Cancellation(o).of = o
                      /\ Item(o, n).of = o /\ Item(o, n).line = n
                      /\ Job(k, c).of = c /\ Job(k, c).kind = k
  BY DEF Header, Cancellation, Item, Job
<1>3. /\ "orders" # "orders.status" /\ "orders" # "order_items" /\ "orders" # "river_job"
      /\ "orders.status" # "order_items" /\ "orders.status" # "river_job"
      /\ "order_items" # "river_job"
  OBVIOUS
<1> QED
  BY <1>1, <1>2, <1>3

LEMMA Calls ==
  /\ \A c \in Canceller \cup Reader : Target[c] \in Order
  /\ \A c \in Order : c \notin Canceller /\ c \notin Reader
  /\ \A c \in Canceller : c \notin Reader
  BY CallsAssumption, TargetAssumption

\* The lines among what CreateOrder has written are those it is past.
LEMMA LinesWritten ==
  ASSUME NEW o, NEW k \in 0 .. LineCount
  PROVE  LinesIn(Written(o, k), o) = 1 .. k /\ Cardinality(LinesIn(Written(o, k), o)) = k
<1>1. LinesIn(Written(o, k), o) = 1 .. k
  <2>1. \A n \in Line : Item(o, n) \in Written(o, k) <=> n \in 1 .. k
    BY RowsDiffer DEF Written
  <2> QED
    BY <2>1, LineAssumption DEF LinesIn, Line
<1>2. Cardinality(1 .. k) = k
  <2>1. Cardinality(1 .. k) = IF 1 > k THEN 0 ELSE k - 1 + 1
    BY LineAssumption, FS_Interval
  <2> QED
    BY <2>1, LineAssumption
<1> QED
  BY <1>1, <1>2

\* An order that is there has all its lines.
LEMMA WholeInDb ==
  ASSUME IInv, NEW o \in Order, Header(o) \in db
  PROVE  LinesIn(db, o) = Line
<1>1. Full(o) \subseteq db
  BY DEF IInv, CreateInv, Absent, Full, Written
<1>2. \A n \in Line : Item(o, n) \in db
  BY <1>1 DEF Full, Written, Line
<1> QED
  BY <1>2 DEF LinesIn

LEMMA RowsTyped ==
  /\ \A o \in Order : Header(o) \in Rows /\ Cancellation(o) \in Rows
  /\ \A o \in Order : \A n \in Line : Item(o, n) \in Rows
  /\ \A c \in Order \cup Canceller : Job("created", c) \in Rows /\ Job("audit", c) \in Rows
  BY DEF Rows

LEMMA InitEstablishes == Init => IInv
<1> SUFFICES ASSUME Init PROVE IInv
  OBVIOUS
<1>1. TypeOK
  BY DEF Init, TypeOK, Unread, Call
<1>2. ASSUME NEW o \in Order PROVE CreateInv(o)
  BY DEF Init, CreateInv, Absent, Call
<1>3. ASSUME NEW c \in Canceller PROVE CancelInv(c)
  BY DEF Init, CancelInv, Call
<1>4. ASSUME NEW c \in Reader PROVE ReadInv(c)
  BY DEF Init, ReadInv, Call
<1> QED
  BY <1>1, <1>2, <1>3, <1>4 DEF IInv

-----------------------------------------------------------------------------
\* Steps of c change nothing of another call and no tenant, and the database
\* only at c's commit.
Alone(c) ==
  /\ active' = active
  /\ \A d \in Call \ {c} :
       /\ pc'[d] = pc[d] /\ work'[d] = work[d] /\ broken'[d] = broken[d]
       /\ seen'[d] = seen[d] /\ result'[d] = result[d]

Commits(c) == pc[c] = "commit" /\ ~broken[c] /\ db' = db \cup work[c]

\* What c commits is no row of another call.
LEMMA OwnRows ==
  ASSUME IInv, NEW c \in Call, Commits(c)
  PROVE  /\ \A o \in Order \ {c} : Absent(o) => Absent(o)'
         /\ \A d \in Canceller \ {c} : Job("audit", d) \notin work[c]
<1> USE RowsDiffer, Calls DEF Call, Commits, Staged
<1>1. CASE c \in Order
  <2>1. work[c] = Full(c)
    BY <1>1 DEF IInv, CreateInv
  <2>2. \A o \in Order \ {c} : Full(c) \cap Full(o) = {} /\ Cancellation(o) \notin Full(c)
    BY DEF Full, Written
  <2>3. \A d \in Canceller \ {c} : Job("audit", d) \notin Full(c)
    BY DEF Full, Written
  <2> QED
    BY <2>1, <2>2, <2>3 DEF Absent
<1>2. CASE c \in Canceller
  <2>1. work[c] = {Cancellation(Target[c])} \cup Staged("audit", c) /\ Header(Target[c]) \in db
    BY <1>2 DEF IInv, CancelInv, Found
  <2>2. \A o \in Order : Header(o) \in Full(o)
    BY DEF Full, Written
  <2>3. \A o \in Order : Absent(o) => Target[c] # o
    BY <2>1, <2>2 DEF Absent
  <2>4. \A o \in Order : work[c] \cap Full(o) = {}
    BY <1>2, <2>1 DEF Full, Written
  <2>5. \A o \in Order : Absent(o) => Cancellation(o) \notin work[c]
    BY <2>1, <2>3
  <2> QED
    BY <2>1, <2>4, <2>5 DEF Absent
<1>3. CASE c \in Reader
  BY <1>3 DEF IInv, ReadInv, Absent
<1> QED
  BY <1>1, <1>2, <1>3

LEMMA OthersKeep ==
  ASSUME IInv, NEW c \in Call, Alone(c), db' = db \/ Commits(c)
  PROVE  /\ \A o \in Order \ {c} : CreateInv(o)'
         /\ \A d \in Canceller \ {c} : CancelInv(d)'
         /\ \A d \in Reader \ {c} : ReadInv(d)'
<1>1. db \subseteq db'
  BY DEF Commits
<1>2. \A o \in Order \ {c} : Absent(o) => Absent(o)'
  BY OwnRows DEF Absent
<1>3. \A d \in Canceller \ {c} : Job("audit", d) \notin db => Job("audit", d) \notin db'
  BY OwnRows DEF Commits
<1>4. \A d \in Canceller \cup Reader : Found(d) => Found(d)'
  BY <1>1 DEF Found
<1>5. ASSUME NEW o \in Order \ {c} PROVE CreateInv(o)'
  <2>1. /\ pc'[o] = pc[o] /\ work'[o] = work[o] /\ broken'[o] = broken[o]
        /\ result'[o] = result[o]
    BY DEF Alone, Call
  <2> QED
    BY <1>1, <1>2, <2>1 DEF IInv, CreateInv
<1>6. ASSUME NEW d \in Canceller \ {c} PROVE CancelInv(d)'
  <2>1. /\ pc'[d] = pc[d] /\ work'[d] = work[d] /\ broken'[d] = broken[d]
        /\ seen'[d] = seen[d] /\ result'[d] = result[d]
        /\ Shown(d) => Shown(d)'
    BY DEF Alone, Call, Shown, Open
  <2> QED
    BY <1>1, <1>3, <1>4, <2>1 DEF IInv, CancelInv
<1>7. ASSUME NEW d \in Reader \ {c} PROVE ReadInv(d)'
  <2>1. /\ pc'[d] = pc[d] /\ work'[d] = work[d] /\ broken'[d] = broken[d]
        /\ seen'[d] = seen[d] /\ result'[d] = result[d]
        /\ Shown(d) => Shown(d)'
    BY DEF Alone, Call, Shown, Open
  <2> QED
    BY <1>4, <2>1 DEF IInv, ReadInv
<1> QED
  BY <1>5, <1>6, <1>7

\* A step is right if it is of one call, well typed, and keeps that call's part.
LEMMA OfOneCall ==
  ASSUME IInv, NEW c \in Call, Alone(c), db' = db \/ Commits(c), TypeOK',
         c \in Order => CreateInv(c)', c \in Canceller => CancelInv(c)',
         c \in Reader => ReadInv(c)'
  PROVE  IInv'
<1>1. \A o \in Order : CreateInv(o)'
  BY OthersKeep
<1>2. \A d \in Canceller : CancelInv(d)'
  BY OthersKeep
<1>3. \A d \in Reader : ReadInv(d)'
  BY OthersKeep
<1> QED
  BY <1>1, <1>2, <1>3 DEF IInv

-----------------------------------------------------------------------------
\* The pieces actions are built of.
LEMMA WriteStep ==
  ASSUME TypeOK, NEW c \in Call, NEW row \in Rows, NEW next, Write(c, row, next),
         next \in {"items", "event", "audit", "commit"},
         lockOf' \in [Order -> Canceller \cup {NoCall}]
  PROVE  /\ TypeOK' /\ Alone(c) /\ db' = db
         /\ pc'[c] = next /\ work'[c] = work[c] \cup {row}
         /\ broken'[c] = broken[c] /\ seen'[c] = seen[c] /\ result'[c] = result[c]
  BY DEF TypeOK, Write, Alone

LEMMA ReturnStep ==
  ASSUME TypeOK, NEW c \in Call, NEW r, Return(c, r), db' \in SUBSET Rows,
         r \in {"ok", "err", "notFound", "alreadyCancelled"}
  PROVE  /\ TypeOK' /\ Alone(c)
         /\ pc'[c] = "done" /\ work'[c] = work[c]
         /\ broken'[c] = broken[c] /\ seen'[c] = seen[c] /\ result'[c] = r
<1>1. lockOf' \in [Order -> Canceller \cup {NoCall}]
  BY DEF TypeOK, Return, Unlocked
<1> QED
  BY <1>1 DEF TypeOK, Return, Alone

LEMMA StageStep ==
  ASSUME TypeOK, NEW c \in Order \cup Canceller, NEW kind \in {"created", "audit"},
         NEW next \in {"audit", "commit"}, Stage(c, kind, next)
  PROVE  /\ TypeOK' /\ Alone(c) /\ db' = db
         /\ pc'[c] = next /\ work'[c] = work[c] \cup Staged(kind, c)
         /\ broken'[c] = broken[c] /\ seen'[c] = seen[c] /\ result'[c] = result[c]
<1>0. c \in Call /\ lockOf' = lockOf /\ Job(kind, c) \in Rows
  BY RowsTyped DEF Stage, Call
<1>1. CASE RiverConfigured
  <2>1. Write(c, Job(kind, c), next) /\ lockOf' \in [Order -> Canceller \cup {NoCall}]
    BY <1>0, <1>1 DEF Stage, TypeOK
  <2> QED
    BY <1>0, <1>1, <2>1, WriteStep DEF Staged
<1>2. CASE ~RiverConfigured
  BY <1>0, <1>2 DEF Stage, Staged, TypeOK, Alone
<1> QED
  BY <1>1, <1>2

-----------------------------------------------------------------------------
\* CreateOrder.

\* A call that returns an error before its commit.
LEMMA ErrStep ==
  ASSUME IInv, NEW c \in Call, pc[c] \notin {"commit", "done"}, Return(c, "err"), db' = db
  PROVE  IInv'
<1>1. /\ TypeOK' /\ Alone(c)
      /\ pc'[c] = "done" /\ work'[c] = work[c] /\ broken'[c] = broken[c]
      /\ result'[c] = "err"
  <2>1. db' \in SUBSET Rows
    BY DEF IInv, TypeOK
  <2> QED
    BY <2>1, ReturnStep DEF IInv
<1>2. c \in Order => CreateInv(c)'
  BY <1>1 DEF IInv, CreateInv, Absent
<1>3. c \in Canceller => CancelInv(c)'
  BY <1>1 DEF IInv, CancelInv
<1>4. c \in Reader => ReadInv(c)'
  BY <1>1 DEF IInv, ReadInv
<1> QED
  BY <1>1, <1>2, <1>3, <1>4, OfOneCall

LEMMA InsertHeaderStep ==
  ASSUME IInv, NEW o \in Order, InsertHeader(o), Open(o) PROVE IInv'
<1>1. pc[o] = "start" /\ Write(o, Header(o), "items") /\ lockOf' = lockOf
  BY DEF InsertHeader, Insert
<1>2. /\ TypeOK' /\ Alone(o) /\ db' = db
      /\ pc'[o] = "items" /\ work'[o] = work[o] \cup {Header(o)}
      /\ broken'[o] = broken[o] /\ result'[o] = result[o]
  <2>1. o \in Call /\ Header(o) \in Rows /\ lockOf' \in [Order -> Canceller \cup {NoCall}]
    BY <1>1, RowsTyped DEF Call, IInv, TypeOK
  <2> QED
    BY <1>1, <2>1, WriteStep DEF IInv
<1>3. work'[o] = Written(o, 0) /\ 0 \in 0 .. LineCount - 1
  <2>1. work[o] = {}
    BY <1>1 DEF IInv, CreateInv
  <2>2. 1 .. 0 = {}
    OBVIOUS
  <2>3. Written(o, 0) = {Header(o)}
    BY <2>2 DEF Written
  <2> QED
    BY <1>2, <2>1, <2>3, LineAssumption
<1>4. CreateInv(o)'
  BY <1>1, <1>2, <1>3 DEF IInv, CreateInv, Absent
<1> QED
  BY <1>2, <1>4, OfOneCall, Calls DEF Call

LEMMA InsertItemStep ==
  ASSUME IInv, NEW o \in Order, InsertItem(o), Open(o) PROVE IInv'
<1> DEFINE next == IF NextLine(o) < LineCount THEN "items" ELSE "event"
<1>1. pc[o] = "items" /\ Write(o, Item(o, NextLine(o)), next) /\ lockOf' = lockOf
  BY DEF InsertItem, Insert
<1>2. PICK k \in 0 .. LineCount - 1 : work[o] = Written(o, k)
  BY <1>1 DEF IInv, CreateInv
<1>3. NextLine(o) = k + 1 /\ k + 1 \in 1 .. LineCount
  <2>1. k \in 0 .. LineCount
    BY LineAssumption
  <2> QED
    BY <1>2, <2>1, LinesWritten, LineAssumption DEF NextLine
<1>4. /\ TypeOK' /\ Alone(o) /\ db' = db
      /\ pc'[o] = next /\ work'[o] = work[o] \cup {Item(o, k + 1)}
      /\ broken'[o] = broken[o] /\ result'[o] = result[o]
  <2>1. /\ o \in Call /\ Item(o, NextLine(o)) \in Rows
        /\ lockOf' \in [Order -> Canceller \cup {NoCall}]
    BY <1>1, <1>3, RowsTyped DEF Call, IInv, TypeOK, Line
  <2>2. next \in {"items", "event", "audit", "commit"}
    OBVIOUS
  <2> HIDE DEF next
  <2> QED
    BY <1>1, <1>3, <2>1, <2>2, WriteStep DEF IInv
<1>5. work'[o] = Written(o, k + 1)
  <2>1. 1 .. k + 1 = (1 .. k) \cup {k + 1}
    BY LineAssumption
  <2> QED
    BY <1>2, <1>4, <2>1 DEF Written
<1>6. /\ pc'[o] \in {"items", "event"}
      /\ pc'[o] = "items" => k + 1 \in 0 .. LineCount - 1
      /\ pc'[o] = "event" => k + 1 = LineCount
  BY <1>3, <1>4, LineAssumption
<1>7. CreateInv(o)'
  <2>1. pc'[o] = "event" => work'[o] = Written(o, LineCount)
    BY <1>5, <1>6
  <2>2. pc'[o] = "items" => \E j \in 0 .. LineCount - 1 : work'[o] = Written(o, j)
    BY <1>5, <1>6
  <2> QED
    BY <1>1, <1>4, <1>6, <2>1, <2>2 DEF IInv, CreateInv, Absent
<1> QED
  BY <1>4, <1>7, OfOneCall, Calls DEF Call

LEMMA StageEventStep == ASSUME IInv, NEW o \in Order, StageEvent(o) PROVE IInv'
<1>1. pc[o] = "event" /\ Stage(o, "created", "audit")
  BY DEF StageEvent
<1>2. /\ TypeOK' /\ Alone(o) /\ db' = db
      /\ pc'[o] = "audit" /\ work'[o] = work[o] \cup Staged("created", o)
      /\ broken'[o] = broken[o] /\ result'[o] = result[o]
  BY <1>1, StageStep DEF IInv
<1>3. CreateInv(o)'
  BY <1>1, <1>2 DEF IInv, CreateInv, Absent
<1> QED
  BY <1>2, <1>3, OfOneCall, Calls DEF Call

\* The policy does not accept the row.
LEMMA InsertRefusedStep ==
  ASSUME IInv, NEW o \in Order, InsertHeader(o) \/ InsertItem(o), ~Open(o) PROVE IInv'
<1>1. o \in Call /\ pc[o] \notin {"commit", "done"} /\ Return(o, "err") /\ db' = db
  BY DEF InsertHeader, InsertItem, Insert, Call
<1> QED
  BY <1>1, ErrStep

-----------------------------------------------------------------------------
\* CancelOrder and GetOrderByID.

LEMMA ReadHeaderStep ==
  ASSUME IInv, NEW c \in Canceller \cup Reader, ReadHeader(c) PROVE IInv'
<1>0. c \in Call /\ c \notin Order /\ pc[c] = "start" /\ db' = db /\ Target[c] \in Order
  BY Calls DEF ReadHeader, Call
<1>1. CASE Visible(c)
  <2>1. /\ seen' = [seen EXCEPT ![c].status = StatusIn(db, Target[c])]
        /\ pc' = [pc EXCEPT ![c] = "lines"]
        /\ UNCHANGED <<work, broken, lockOf, result, db, active>>
    BY <1>1 DEF ReadHeader
  <2>2. StatusIn(db, Target[c]) \in {"none", "pending", "cancelled"}
    BY DEF StatusIn
  <2>3. TypeOK' /\ Alone(c)
    BY <2>1, <2>2 DEF IInv, TypeOK, Alone
  <2>4. pc'[c] = "lines" /\ Found(c)'
    BY <1>0, <1>1, <2>1 DEF IInv, TypeOK, Visible, Found
  <2>5. c \in Canceller => CancelInv(c)'
    BY <1>0, <2>1, <2>4 DEF IInv, CancelInv
  <2>6. c \in Reader => ReadInv(c)'
    BY <1>0, <2>1, <2>4 DEF IInv, ReadInv
  <2> QED
    BY <1>0, <2>3, <2>5, <2>6, OfOneCall
<1>2. CASE ~Visible(c)
  <2>1. Return(c, "notFound")
    BY <1>2 DEF ReadHeader
  <2>2. db' \in SUBSET Rows
    BY <1>0 DEF IInv, TypeOK
  <2>3. /\ TypeOK' /\ Alone(c)
        /\ pc'[c] = "done" /\ work'[c] = work[c]
        /\ broken'[c] = broken[c] /\ result'[c] = "notFound"
    BY <1>0, <2>1, <2>2, ReturnStep DEF IInv
  <2>4. c \in Canceller => CancelInv(c)'
    BY <1>0, <2>3 DEF IInv, CancelInv
  <2>5. c \in Reader => ReadInv(c)'
    BY <1>0, <2>3 DEF IInv, ReadInv
  <2> QED
    BY <1>0, <2>3, <2>4, <2>5, OfOneCall
<1> QED
  BY <1>1, <1>2

LEMMA ReadLinesStep ==
  ASSUME IInv, NEW c \in Canceller \cup Reader, ReadLines(c) PROVE IInv'
<1> DEFINE lines == IF Open(c) THEN LinesIn(db, Target[c]) ELSE {}
<1>0. /\ c \in Call /\ c \notin Order /\ pc[c] = "lines" /\ db' = db /\ Target[c] \in Order
      /\ UNCHANGED <<work, broken, lockOf, result, active>>
      /\ seen' = [seen EXCEPT ![c].lines = lines]
      /\ pc' = [pc EXCEPT ![c] = IF c \in Reader THEN "commit" ELSE "check"]
  BY Calls DEF ReadLines, Call
<1>1. Found(c) /\ Found(c)'
  BY <1>0 DEF IInv, CancelInv, ReadInv, Found
<1>2. lines = Line \/ (lines = {} /\ ~Open(c))
  BY <1>0, <1>1, WholeInDb DEF Found
<1>3. lines \in SUBSET Line
  BY <1>2
<1> HIDE DEF lines
<1>4. TypeOK' /\ Alone(c)
  BY <1>0, <1>3 DEF IInv, TypeOK, Alone
<1>5. Shown(c)' /\ pc'[c] = IF c \in Reader THEN "commit" ELSE "check"
  BY <1>0, <1>2 DEF IInv, TypeOK, Shown, Open
<1>6. c \in Canceller => CancelInv(c)'
  <2>1. c \in Canceller => pc'[c] = "check"
    BY <1>5, Calls
  <2> QED
    BY <1>0, <1>1, <1>5, <2>1 DEF IInv, CancelInv
<1>7. c \in Reader => ReadInv(c)'
  BY <1>0, <1>1, <1>5 DEF IInv, ReadInv
<1> QED
  BY <1>0, <1>4, <1>6, <1>7, OfOneCall

LEMMA AlreadyCancelledStep ==
  ASSUME IInv, NEW c \in Canceller, AlreadyCancelled(c) PROVE IInv'
<1>1. pc[c] = "check" /\ Return(c, "alreadyCancelled") /\ db' = db /\ c \in Call
  BY DEF AlreadyCancelled, Call
<1>2. /\ TypeOK' /\ Alone(c)
      /\ pc'[c] = "done" /\ work'[c] = work[c] /\ broken'[c] = broken[c]
      /\ result'[c] = "alreadyCancelled"
  <2>1. db' \in SUBSET Rows
    BY <1>1 DEF IInv, TypeOK
  <2> QED
    BY <1>1, <2>1, ReturnStep DEF IInv
<1>3. CancelInv(c)'
  BY <1>1, <1>2 DEF IInv, CancelInv
<1> QED
  BY <1>1, <1>2, <1>3, OfOneCall, Calls

\* The UPDATE finds the row only while the tenant is active.
LEMMA StartUpdateStep ==
  ASSUME IInv, NEW c \in Canceller, StartUpdate(c) PROVE IInv'
<1>0. pc[c] = "check" /\ db' = db /\ c \in Call
  BY DEF StartUpdate, Call
<1>1. CASE Visible(c)
  <2>1. /\ pc' = [pc EXCEPT ![c] = "update"]
        /\ UNCHANGED <<work, broken, seen, lockOf, result, db, active>>
    BY <1>1 DEF StartUpdate
  <2>2. TypeOK' /\ Alone(c) /\ pc'[c] = "update"
    BY <1>0, <2>1 DEF IInv, TypeOK, Alone
  <2>3. seen[c].lines = Line
    BY <1>0, <1>1 DEF IInv, CancelInv, Shown, Visible
  <2>4. CancelInv(c)'
    BY <1>0, <2>1, <2>2, <2>3 DEF IInv, CancelInv, Found
  <2> QED
    BY <1>0, <2>2, <2>4, OfOneCall, Calls
<1>2. CASE ~Visible(c)
  <2>1. Return(c, "notFound") /\ db' \in SUBSET Rows
    BY <1>0, <1>2 DEF StartUpdate, IInv, TypeOK
  <2>2. /\ TypeOK' /\ Alone(c)
        /\ pc'[c] = "done" /\ work'[c] = work[c]
        /\ broken'[c] = broken[c] /\ result'[c] = "notFound"
    BY <1>0, <2>1, ReturnStep DEF IInv
  <2>3. CancelInv(c)'
    BY <1>0, <2>2 DEF IInv, CancelInv
  <2> QED
    BY <1>0, <2>2, <2>3, OfOneCall, Calls
<1> QED
  BY <1>1, <1>2

LEMMA UpdateStatusStep ==
  ASSUME IInv, NEW c \in Canceller, UpdateStatus(c) PROVE IInv'
<1>1. /\ pc[c] = "update" /\ Write(c, Cancellation(Target[c]), "audit")
      /\ lockOf' = [lockOf EXCEPT ![Target[c]] = c]
      /\ c \in Call /\ Target[c] \in Order
  BY Calls DEF UpdateStatus, Call
<1>2. /\ TypeOK' /\ Alone(c) /\ db' = db
      /\ pc'[c] = "audit" /\ work'[c] = work[c] \cup {Cancellation(Target[c])}
      /\ broken'[c] = broken[c] /\ seen'[c] = seen[c] /\ result'[c] = result[c]
  <2>1. Cancellation(Target[c]) \in Rows /\ lockOf' \in [Order -> Canceller \cup {NoCall}]
    BY <1>1, RowsTyped DEF IInv, TypeOK
  <2> QED
    BY <1>1, <2>1, WriteStep DEF IInv
<1>3. CancelInv(c)'
  BY <1>1, <1>2 DEF IInv, CancelInv, Found
<1> QED
  BY <1>1, <1>2, <1>3, OfOneCall, Calls

-----------------------------------------------------------------------------
\* The audit record, and the end of a transaction.

LEMMA StageAuditStep == ASSUME IInv, NEW c \in Call, StageAudit(c) PROVE IInv'
<1>1. pc[c] = "audit" /\ Stage(c, "audit", "commit")
  BY DEF StageAudit
<1>2. c \in Order \cup Canceller
  BY <1>1 DEF IInv, ReadInv, Call
<1>3. /\ TypeOK' /\ Alone(c) /\ db' = db
      /\ pc'[c] = "commit" /\ work'[c] = work[c] \cup Staged("audit", c)
      /\ broken'[c] = broken[c] /\ seen'[c] = seen[c] /\ result'[c] = result[c]
  BY <1>1, <1>2, StageStep DEF IInv
<1>4. ASSUME c \in Order PROVE CreateInv(c)'
  BY <1>1, <1>3, <1>4 DEF IInv, CreateInv, Absent, Full
<1>5. ASSUME c \in Canceller PROVE CancelInv(c)'
  BY <1>1, <1>3, <1>5 DEF IInv, CancelInv, Found
<1> QED
  BY <1>2, <1>3, <1>4, <1>5, OfOneCall, Calls

LEMMA StageAuditFailsStep ==
  ASSUME IInv, NEW c \in Canceller, StageAuditFails(c) PROVE IInv'
<1>1. /\ pc[c] = "audit" /\ c \in Call
      /\ broken' = [broken EXCEPT ![c] = TRUE]
      /\ pc' = [pc EXCEPT ![c] = "commit"]
      /\ UNCHANGED <<work, seen, lockOf, result, db, active>>
  BY DEF StageAuditFails, Call
<1>2. /\ TypeOK' /\ Alone(c) /\ pc'[c] = "commit" /\ broken'[c] = TRUE
  BY <1>1 DEF IInv, TypeOK, Alone
<1>3. CancelInv(c)'
  BY <1>1, <1>2 DEF IInv, CancelInv, Found
<1> QED
  BY <1>1, <1>2, <1>3, OfOneCall, Calls

LEMMA FailsStep == ASSUME IInv, NEW c \in Call, Fails(c) PROVE IInv'
  BY ErrStep DEF Fails

LEMMA CommitStep == ASSUME IInv, NEW c \in Call, Commit(c) PROVE IInv'
<1>1. /\ pc[c] = "commit" /\ ~broken[c] /\ Return(c, "ok") /\ db' = db \cup work[c]
      /\ Commits(c)
  BY DEF Commit, Commits
<1>2. /\ TypeOK' /\ Alone(c)
      /\ pc'[c] = "done" /\ work'[c] = work[c] /\ broken'[c] = broken[c]
      /\ seen'[c] = seen[c] /\ result'[c] = "ok"
  <2>1. db' \in SUBSET Rows
    BY <1>1 DEF IInv, TypeOK
  <2> QED
    BY <1>1, <2>1, ReturnStep DEF IInv
<1>3. c \in Order => CreateInv(c)'
  BY <1>1, <1>2 DEF IInv, CreateInv
<1>4. c \in Canceller => CancelInv(c)'
  BY <1>1, <1>2 DEF IInv, CancelInv
<1>5. c \in Reader => ReadInv(c)'
  BY <1>1, <1>2 DEF IInv, ReadInv, Shown, Open, Alone
<1> QED
  BY <1>1, <1>2, <1>3, <1>4, <1>5, OfOneCall

LEMMA CommitFailsStep == ASSUME IInv, NEW c \in Call, CommitFails(c) PROVE IInv'
<1>1. pc[c] = "commit" /\ Return(c, "err") /\ (db' = db \/ Commits(c))
  BY DEF CommitFails, Commits
<1>2. /\ TypeOK' /\ Alone(c)
      /\ pc'[c] = "done" /\ work'[c] = work[c] /\ broken'[c] = broken[c]
      /\ result'[c] = "err"
  <2>1. db' \in SUBSET Rows
    BY <1>1 DEF IInv, TypeOK, Commits
  <2> QED
    BY <1>1, <2>1, ReturnStep DEF IInv
<1>3. c \in Order => CreateInv(c)'
  <2>1. c \in Order => work[c] = Full(c) /\ ~broken[c] /\ Absent(c)
    BY <1>1 DEF IInv, CreateInv
  <2>2. db' = db => (Absent(c) => Absent(c)')
    BY DEF Absent
  <2> QED
    BY <1>1, <1>2, <2>1, <2>2 DEF CreateInv, Commits
<1>4. c \in Canceller => CancelInv(c)'
  BY <1>1, <1>2 DEF IInv, CancelInv
<1>5. c \in Reader => ReadInv(c)'
  BY <1>1, <1>2 DEF IInv, ReadInv
<1> QED
  BY <1>1, <1>2, <1>3, <1>4, <1>5, OfOneCall

\* Tenants only cease to be active, and what a call has read of one that does
\* stays as it was.
LEMMA PurgeTenantStep ==
  ASSUME IInv, NEW t \in Tenants, PurgeTenant(t) PROVE IInv'
<1>1. /\ active' = active \ {t}
      /\ UNCHANGED <<pc, work, broken, seen, lockOf, result, db>>
  BY DEF PurgeTenant
<1>2. \A c \in Canceller \cup Reader : Shown(c) => Shown(c)'
  BY <1>1 DEF Shown, Open
<1>3. TypeOK'
  BY <1>1 DEF IInv, TypeOK
<1>4. \A o \in Order : CreateInv(o)'
  BY <1>1 DEF IInv, CreateInv, Absent
<1>5. \A c \in Canceller : CancelInv(c)'
  BY <1>1, <1>2 DEF IInv, CancelInv, Found
<1>6. \A c \in Reader : ReadInv(c)'
  BY <1>1, <1>2 DEF IInv, ReadInv, Found
<1> QED
  BY <1>3, <1>4, <1>5, <1>6 DEF IInv

LEMMA NextPreserves == IInv /\ [Next]_vars => IInv'
<1> SUFFICES ASSUME IInv, [Next]_vars PROVE IInv'
  OBVIOUS
<1>1. CASE UNCHANGED vars
  <2>1. TypeOK'
    BY <1>1 DEF IInv, TypeOK, vars
  <2>2. \A o \in Order : CreateInv(o)'
    BY <1>1 DEF IInv, CreateInv, Absent, vars
  <2>3. \A c \in Canceller : CancelInv(c)'
    BY <1>1 DEF IInv, CancelInv, Found, Shown, Open, vars
  <2>4. \A c \in Reader : ReadInv(c)'
    BY <1>1 DEF IInv, ReadInv, Found, Shown, Open, vars
  <2> QED
    BY <2>1, <2>2, <2>3, <2>4 DEF IInv
<1>2. ASSUME NEW c \in Order, Create(c) PROVE IInv'
  BY <1>2, InsertHeaderStep, InsertItemStep, InsertRefusedStep, StageEventStep DEF Create
<1>3. ASSUME NEW c \in Canceller \cup Reader, Get(c) PROVE IInv'
  BY <1>3, ReadHeaderStep, ReadLinesStep DEF Get
<1>4. ASSUME NEW c \in Canceller, Cancel(c) PROVE IInv'
  BY <1>3, <1>4, AlreadyCancelledStep, StartUpdateStep, UpdateStatusStep DEF Cancel
<1>5. ASSUME NEW c \in Call, StageAudit(c) \/ Commit(c) \/ CommitFails(c) PROVE IInv'
  BY <1>5, StageAuditStep, CommitStep, CommitFailsStep
<1>6. ASSUME NEW c \in Call, Fails(c) \/ (c \in Canceller /\ StageAuditFails(c)) PROVE IInv'
  BY <1>6, FailsStep, StageAuditFailsStep
<1> QED
  BY <1>1, <1>2, <1>3, <1>4, <1>5, <1>6, PurgeTenantStep DEF Next, Progress

-----------------------------------------------------------------------------
\* Types and ranges.
THEOREM TypeCorrect == Spec => []TypeOK
<1>1. IInv => TypeOK
  BY DEF IInv
<1> QED
  BY <1>1, InitEstablishes, NextPreserves, PTL DEF Spec

\* Nobody is shown an order some of whose lines are missing; all of them are,
\* except to a reader whose tenant was purged between the two statements of
\* GetByID (repository.go).
THEOREM WholeOrdersHolds == Spec => []WholeOrders
<1>1. IInv => WholeOrders
  BY DEF IInv, CancelInv, ReadInv, Shown, WholeOrders
<1> QED
  BY <1>1, InitEstablishes, NextPreserves, PTL DEF Spec

\* What CreateOrder and CancelOrder return is so, outbox entries included
\* (service.go).
THEOREM ResultsTruthfulHolds == Spec => []ResultsTruthful
<1>1. ASSUME IInv, NEW o \in Order, result[o] = "ok"
      PROVE  /\ Header(o) \in db /\ LinesIn(db, o) = Line
             /\ RiverConfigured => {Job("created", o), Job("audit", o)} \subseteq db
  <2>1. Full(o) \subseteq db
    BY <1>1 DEF IInv, CreateInv
  <2>2. Header(o) \in db
    BY <2>1 DEF Full, Written
  <2> QED
    BY <1>1, <2>1, <2>2, WholeInDb DEF Full, Staged
<1>2. ASSUME IInv, NEW c \in Canceller
      PROVE  /\ result[c] = "ok" =>
                  /\ Cancellation(Target[c]) \in db
                  /\ RiverConfigured => Job("audit", c) \in db
             /\ result[c] \in {"notFound", "alreadyCancelled"} => Job("audit", c) \notin db
  BY <1>2 DEF IInv, CancelInv, Staged
<1>3. IInv => ResultsTruthful
  BY <1>1, <1>2 DEF ResultsTruthful
<1> QED
  BY <1>3, InitEstablishes, NextPreserves, PTL DEF Spec

-----------------------------------------------------------------------------
\* OrderBook: a commit is a step of it, everything else changes nothing there.

BookOf(rows) ==
  [o \in Order |->
     IF Header(o) \in rows
     THEN [status |-> StatusIn(rows, o), lines |-> LinesIn(rows, o)] ELSE Unread]
JobsOf(rows) == {r \in rows : r.table = "river_job"}

LEMMA Tables ==
  /\ \A o : Header(o).table # "river_job" /\ Cancellation(o).table # "river_job"
  /\ \A o, n : Item(o, n).table # "river_job"
  /\ \A k, c : Job(k, c).table = "river_job"
  BY DEF Header, Cancellation, Item, Job

LEMMA CommitsOrNot ==
  [Next]_vars => db' = db \/ \E c \in Call : Commits(c)
<1> USE DEF Commits
<1>1. ASSUME NEW c \in Call, Progress(c)
      PROVE  db' = db \/ Commits(c)
  <2>1. CASE Commit(c) \/ CommitFails(c)
    BY <2>1 DEF Commit, CommitFails
  <2>2. CASE StageAudit(c)
    BY <2>2 DEF StageAudit, Stage, Write
  <2>3. CASE c \in Order /\ Create(c)
    BY <2>3 DEF Create, InsertHeader, InsertItem, Insert, StageEvent, Stage, Write
  <2>4. CASE Get(c)
    BY <2>4 DEF Get, ReadHeader, ReadLines
  <2>5. CASE AlreadyCancelled(c) \/ StartUpdate(c) \/ UpdateStatus(c)
    BY <2>5 DEF AlreadyCancelled, StartUpdate, UpdateStatus, Write
  <2> QED
    BY <1>1, <2>1, <2>2, <2>3, <2>4, <2>5 DEF Progress, Cancel
<1>2. ASSUME NEW c \in Call, Fails(c) \/ StageAuditFails(c) PROVE db' = db
  BY <1>2 DEF Fails, StageAuditFails
<1>3. ASSUME NEW t \in Tenants, PurgeTenant(t) PROVE db' = db
  BY <1>3 DEF PurgeTenant
<1> QED
  BY <1>1, <1>2, <1>3 DEF Next, vars

\* CreateOrder's commit.
LEMMA CreateImplements ==
  ASSUME IInv, RiverConfigured, NEW o \in Order, Commits(o)
  PROVE  /\ BookOf(db)[o] = Unread
         /\ BookOf(db') = [BookOf(db) EXCEPT ![o] = [status |-> "pending", lines |-> Line]]
         /\ JobsOf(db') = JobsOf(db) \cup {Job("created", o), Job("audit", o)}
<1>1. work[o] = Full(o) /\ Absent(o) /\ db' = db \cup Full(o)
  BY DEF IInv, CreateInv, Commits
<1>2. Header(o) \in Full(o) /\ \A n \in Line : Item(o, n) \in Full(o)
  BY DEF Full, Written, Line
<1>3. Header(o) \notin db /\ Header(o) \in db'
  BY <1>1, <1>2 DEF Absent
<1>4. \A p \in Order \ {o} :
        /\ Header(p) \in db' <=> Header(p) \in db
        /\ \A n : Item(p, n) \in db' <=> Item(p, n) \in db
  BY <1>1, RowsDiffer DEF Full, Written, Staged
<1>5. \A p \in Order : Cancellation(p) \in db' <=> Cancellation(p) \in db
  BY <1>1, RowsDiffer DEF Full, Written, Staged
<1>6. LinesIn(db', o) = Line /\ StatusIn(db', o) = "pending"
  BY <1>1, <1>2, <1>5 DEF LinesIn, StatusIn, Absent
<1>7. \A p \in Order \ {o} : LinesIn(db', p) = LinesIn(db, p) /\ StatusIn(db', p) = StatusIn(db, p)
  BY <1>4, <1>5 DEF LinesIn, StatusIn
<1>8. BookOf(db') = [BookOf(db) EXCEPT ![o] = [status |-> "pending", lines |-> Line]]
  BY <1>3, <1>4, <1>6, <1>7 DEF BookOf
<1>9. JobsOf(Full(o)) = {Job("created", o), Job("audit", o)}
  BY Tables DEF JobsOf, Full, Written, Staged
<1>10. JobsOf(db') = JobsOf(db) \cup JobsOf(Full(o))
  BY <1>1 DEF JobsOf
<1> QED
  BY <1>3, <1>8, <1>9, <1>10 DEF BookOf

\* CancelOrder's commit.
LEMMA CancelImplements ==
  ASSUME IInv, RiverConfigured, NEW c \in Canceller, Commits(c)
  PROVE  /\ BookOf(db)[Target[c]] # Unread
         /\ TenantOf[c] = TenantOf[Target[c]]
         /\ Job("audit", c) \notin JobsOf(db)
         /\ BookOf(db') = [BookOf(db) EXCEPT ![Target[c]].status = "cancelled"]
         /\ JobsOf(db') = JobsOf(db) \cup {Job("audit", c)}
<1> DEFINE o == Target[c]
<1>1. /\ db' = db \cup {Cancellation(o), Job("audit", c)}
      /\ Header(o) \in db /\ TenantOf[c] = TenantOf[o] /\ Job("audit", c) \notin db
  BY DEF IInv, CancelInv, Commits, Found, Staged
<1>2. o \in Order
  BY Calls
<1> HIDE DEF o
<1>3. \A p \in Order : /\ Header(p) \in db' <=> Header(p) \in db
                       /\ \A n : Item(p, n) \in db' <=> Item(p, n) \in db
                       /\ p # o => (Cancellation(p) \in db' <=> Cancellation(p) \in db)
  BY <1>1, RowsDiffer
<1>4. \A p \in Order : LinesIn(db', p) = LinesIn(db, p)
  BY <1>3 DEF LinesIn
<1>5. \A p \in Order \ {o} : StatusIn(db', p) = StatusIn(db, p)
  BY <1>3 DEF StatusIn
<1>6. StatusIn(db', o) = "cancelled"
  BY <1>1 DEF StatusIn
<1>7. BookOf(db)[o] = [status |-> StatusIn(db, o), lines |-> LinesIn(db, o)]
  BY <1>1, <1>2 DEF BookOf
<1>8. BookOf(db)[o] # Unread
  <2>1. StatusIn(db, o) # "none"
    BY DEF StatusIn
  <2> QED
    BY <1>7, <2>1 DEF Unread
<1>9. BookOf(db') = [BookOf(db) EXCEPT ![o] = [status |-> "cancelled", lines |-> LinesIn(db, o)]]
  BY <1>1, <1>2, <1>3, <1>4, <1>5, <1>6 DEF BookOf
<1>10. BookOf(db') = [BookOf(db) EXCEPT ![o].status = "cancelled"]
  <2>1. [BookOf(db)[o] EXCEPT !.status = "cancelled"]
          = [status |-> "cancelled", lines |-> LinesIn(db, o)]
    BY <1>7
  <2>2. [BookOf(db) EXCEPT ![o].status = "cancelled"]
          = [BookOf(db) EXCEPT ![o] = [BookOf(db)[o] EXCEPT !.status = "cancelled"]]
    OBVIOUS
  <2> QED
    BY <1>9, <2>1, <2>2
<1>11. JobsOf(db') = JobsOf(db) \cup {Job("audit", c)}
  BY <1>1, Tables DEF JobsOf
<1> QED
  BY <1>1, <1>8, <1>10, <1>11 DEF o, JobsOf

\* With a River client the module implements OrderBook (service.go): orders
\* appear whole, statuses only go to cancelled, and each change is committed
\* with its outbox entries.
THEOREM OrderBookImplemented == RiverConfigured => (Spec => ImplementsOrderBook)
<1> SUFFICES ASSUME RiverConfigured PROVE Spec => ImplementsOrderBook
  OBVIOUS
<1> USE DEF Book!Absent, Unread
<1>1. Init => Book!Init
  BY DEF Init, Book!Init
<1>2. ASSUME IInv, [Next]_vars PROVE [Book!Next]_Book!vars
  <2>1. CASE db' = db
    BY <2>1 DEF Book!vars
  <2>2. ASSUME NEW o \in Order, Commits(o) PROVE Book!Create(o)
    BY <1>2, <2>2, CreateImplements DEF Book!Create, BookOf, JobsOf
  <2>3. ASSUME NEW c \in Canceller, Commits(c) PROVE Book!Cancel(c)
    BY <1>2, <2>3, CancelImplements DEF Book!Cancel, BookOf, JobsOf
  <2>4. ASSUME NEW c \in Reader, Commits(c) PROVE db' = db
    BY <1>2, <2>4 DEF Commits, IInv, ReadInv
  <2> QED
    BY <1>2, <2>1, <2>2, <2>3, <2>4, CommitsOrNot DEF Book!Next, Call
<1> QED
  BY <1>1, <1>2, InitEstablishes, NextPreserves, PTL DEF Spec, ImplementsOrderBook, Book!Spec
=============================================================================
