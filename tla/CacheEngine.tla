----------------------------- MODULE CacheEngine -----------------------------
(***************************************************************************)
(* The two-tier cache: nodes with an L1 in memory, the L2 in Redis they    *)
(* share, a single flight per node around the computation of a value, and  *)
(* Invalidate with its broadcast to the other nodes.                       *)
(*                                                                         *)
(* One key: keys share nothing but the flight's map.  Its value is the     *)
(* version of the data that compute reads, zero standing for no value.     *)
(* Writers change the data and then invalidate the key; they are the       *)
(* engine's users, and so is compute.  Redis, its publish/subscribe and    *)
(* singleflight.Group are external: a call of Redis may fail, a message    *)
(* may miss a node, a key is gone when its time is over.                   *)
(***************************************************************************)
EXTENDS Naturals, FiniteSets

CONSTANTS
  Node,
  Fetch,   \* goroutines that call FetchOrCompute, again and again
  Writer,  \* goroutines that change the data and call Invalidate, once each
  NodeOf,  \* NodeOf[p]: the node a goroutine runs on
  NoFetch,
  L2       \* the shared tier, as a place where an entry can be

ASSUME NodeAssumption == NodeOf \in [Fetch \cup Writer -> Node] /\ L2 \notin Node
ASSUME FetchAssumption == NoFetch \notin Fetch /\ Fetch \cap Writer = {}
ASSUME WriterAssumption == IsFiniteSet(Writer)

VARIABLES
  data,    \* the version of the data
  entry,   \* entry[x]: the version cached at a node or in L2
  flight,  \* flight[n]: the call that computes on node n
  inbox,   \* inbox[n]: writers whose message node n has yet to receive
  pc,      \* pc[p]: where p is
  val,     \* val[p]: the version a fetch has in hand
  excused  \* history: places whose entry may be older than the data

vars == <<data, entry, flight, inbox, pc, val, excused>>

Place == Node \cup {L2}
Absent == 0

FetchPc == {"idle", "readL2", "fillL1", "join", "compute", "wait", "storeL2", "storeL1"}
WriterPc == {"start", "clearL1", "del", "publish", "done"}

Init ==
  /\ data = 1
  /\ entry = [x \in Place |-> Absent]
  /\ flight = [n \in Node |-> NoFetch]
  /\ inbox = [n \in Node |-> {}]
  /\ pc = [p \in Fetch \cup Writer |-> IF p \in Fetch THEN "idle" ELSE "start"]
  /\ val = [p \in Fetch |-> Absent]
  /\ excused = {}

Goto(p, place) == pc' = [pc EXCEPT ![p] = place]

\* An entry that is old when it is stored is excused while it is there.
Store(x, v) ==
  /\ entry' = [entry EXCEPT ![x] = v]
  /\ excused' = IF v < data THEN excused \cup {x} ELSE excused \ {x}

Remove(x) ==
  /\ entry' = [entry EXCEPT ![x] = Absent]
  /\ excused' = excused \ {x}

-----------------------------------------------------------------------------
(* FetchOrCompute.  A hit in L1 changes nothing.                             *)

MissL1(p) ==
  /\ pc[p] = "idle"
  /\ entry[NodeOf[p]] = Absent
  /\ Goto(p, "readL2")
  /\ UNCHANGED <<data, entry, flight, inbox, val, excused>>

HitL2(p) ==
  /\ pc[p] = "readL2"
  /\ entry[L2] # Absent
  /\ val' = [val EXCEPT ![p] = entry[L2]]
  /\ Goto(p, "fillL1")
  /\ UNCHANGED <<data, entry, flight, inbox, excused>>

\* The key is not there, or GET fails.
MissL2(p) ==
  /\ pc[p] = "readL2"
  /\ Goto(p, "join")
  /\ UNCHANGED <<data, entry, flight, inbox, val, excused>>

\* Mutant: a hit renews the entry of L2.
FillL1Renewing(p) ==
  /\ pc[p] = "fillL1"
  /\ entry' = [entry EXCEPT ![NodeOf[p]] = val[p], ![L2] = val[p]]
  /\ excused' = IF val[p] < data THEN excused \cup {NodeOf[p], L2}
                                 ELSE excused \ {NodeOf[p], L2}
  /\ val' = [val EXCEPT ![p] = Absent]
  /\ Goto(p, "idle")
  /\ UNCHANGED <<data, flight, inbox>>

FillL1(p) ==
  /\ pc[p] = "fillL1"
  /\ Store(NodeOf[p], val[p])
  /\ val' = [val EXCEPT ![p] = Absent]
  /\ Goto(p, "idle")
  /\ UNCHANGED <<data, flight, inbox>>

\* Mutant: compute is called outside the group.
JoinAlone(p) ==
  /\ pc[p] = "join"
  /\ flight' = [flight EXCEPT ![NodeOf[p]] = p]
  /\ Goto(p, "compute")
  /\ UNCHANGED <<data, entry, inbox, val, excused>>

\* The first to come to group.Do computes, the others wait for its result.
Join(p) ==
  /\ pc[p] = "join"
  /\ \/ /\ flight[NodeOf[p]] = NoFetch
        /\ flight' = [flight EXCEPT ![NodeOf[p]] = p]
        /\ Goto(p, "compute")
     \/ /\ flight[NodeOf[p]] # NoFetch
        /\ Goto(p, "wait")
        /\ UNCHANGED flight
  /\ UNCHANGED <<data, entry, inbox, val, excused>>

\* The flight ends: its caller and those that wait for it return.
Land(p) ==
  /\ flight' = [flight EXCEPT ![NodeOf[p]] = NoFetch]
  /\ pc' = [q \in DOMAIN pc |->
              IF q = p \/ (pc[q] = "wait" /\ NodeOf[q] = NodeOf[p]) THEN "idle" ELSE pc[q]]
  /\ val' = [val EXCEPT ![p] = Absent]

Compute(p) ==
  /\ pc[p] = "compute"
  /\ val' = [val EXCEPT ![p] = data]
  /\ Goto(p, "storeL2")
  /\ UNCHANGED <<data, entry, flight, inbox, excused>>

ComputeFails(p) ==
  /\ pc[p] = "compute"
  /\ Land(p)
  /\ UNCHANGED <<data, entry, inbox, excused>>

\* The error of SET is dropped.
StoreL2(p) ==
  /\ pc[p] = "storeL2"
  /\ Store(L2, val[p]) \/ UNCHANGED <<entry, excused>>
  /\ Goto(p, "storeL1")
  /\ UNCHANGED <<data, flight, inbox, val>>

StoreL1(p) ==
  /\ pc[p] = "storeL1"
  /\ Store(NodeOf[p], val[p])
  /\ Land(p)
  /\ UNCHANGED <<data, inbox>>

-----------------------------------------------------------------------------
(* A writer, and Invalidate.                                                 *)

UpdateData(w) ==
  /\ pc[w] = "start"
  /\ data' = data + 1
  /\ Goto(w, "clearL1")
  /\ UNCHANGED <<entry, flight, inbox, val, excused>>

ClearL1(w) ==
  /\ pc[w] = "clearL1"
  /\ Remove(NodeOf[w])
  /\ Goto(w, "del")
  /\ UNCHANGED <<data, flight, inbox, val>>

DelL2(w) ==
  /\ pc[w] = "del"
  /\ Remove(L2)
  /\ Goto(w, "publish")
  /\ UNCHANGED <<data, flight, inbox, val>>

\* Invalidate returns the error, and publishes nothing.
DelFails(w) ==
  /\ pc[w] = "del"
  /\ excused' = excused \cup (Place \ {NodeOf[w]})
  /\ Goto(w, "done")
  /\ UNCHANGED <<data, entry, flight, inbox, val>>

\* The message comes to the nodes that are subscribed, all of them at best.
Publish(w) ==
  /\ pc[w] = "publish"
  /\ \E reached \in SUBSET Node :
       /\ inbox' = [n \in Node |-> IF n \in reached THEN inbox[n] \cup {w} ELSE inbox[n]]
       /\ excused' = excused \cup (Node \ (reached \cup {NodeOf[w]}))
  /\ Goto(w, "done")
  /\ UNCHANGED <<data, entry, flight, val>>

\* Mutant: the comparison of the node ids is the wrong way round.
ForeignInverted(n, w) == NodeOf[w] = n

\* A node passes over its own messages.
Foreign(n, w) == NodeOf[w] # n

Receive(n, w) ==
  /\ w \in inbox[n]
  /\ inbox' = [inbox EXCEPT ![n] = @ \ {w}]
  /\ IF Foreign(n, w) THEN Remove(n) ELSE UNCHANGED <<entry, excused>>
  /\ UNCHANGED <<data, flight, pc, val>>

\* The 2 minutes of L1 or the time to live of L2 are over, or L1 is full.
Expire(x) ==
  /\ entry[x] # Absent
  /\ Remove(x)
  /\ UNCHANGED <<data, flight, inbox, pc, val>>

-----------------------------------------------------------------------------
FetchStep(p) ==
  \/ HitL2(p) \/ MissL2(p) \/ FillL1(p)
  \/ Join(p) \/ Compute(p) \/ ComputeFails(p) \/ StoreL2(p) \/ StoreL1(p)

Invalidate(w) == ClearL1(w) \/ DelL2(w) \/ DelFails(w) \/ Publish(w)

Next ==
  \/ \E p \in Fetch : MissL1(p) \/ FetchStep(p)
  \/ \E w \in Writer : UpdateData(w) \/ Invalidate(w)
  \/ \E n \in Node, w \in Writer : Receive(n, w)
  \/ \E x \in Place : Expire(x)

Spec == Init /\ [][Next]_vars

\* Goroutines go on, messages that reached a node are received, and entries
\* expire.  Nobody need fetch or write.
Fairness ==
  /\ \A p \in Fetch : WF_vars(FetchStep(p))
  /\ \A w \in Writer : WF_vars(Invalidate(w))
  /\ \A n \in Node, w \in Writer : WF_vars(Receive(n, w))
  /\ \A x \in Place : WF_vars(Expire(x))

FairSpec == Spec /\ Fairness

-----------------------------------------------------------------------------
(* Properties.                                                               *)

Stale(x) == entry[x] # Absent /\ entry[x] < data

\* A writer that has changed the data and whose Invalidate has not come to x.
Coming(w, x) ==
  \/ pc[w] = "clearL1"
  \/ x # NodeOf[w] /\ pc[w] = "del"
  \/ x \in Node \ {NodeOf[w]} /\ (pc[w] = "publish" \/ w \in inbox[x])

\* Invalidate comes everywhere: an entry older than the data is one an
\* invalidation is still on its way to, one that was old when it was stored,
\* or one whose invalidation Redis failed or lost.  No other interleaving of
\* fetches, writers and messages leaves an old entry in any tier.
StaleHasCause ==
  \A x \in Place :
    Stale(x) => x \in excused \/ \E w \in Writer : Coming(w, x)

\* A node runs one computation at a time, the flight's ("Prevent Cache Stampede").
Computing == {"compute", "storeL2", "storeL1"}
OneComputation ==
  \A p \in Fetch : pc[p] \in Computing => flight[NodeOf[p]] = p

\* Whatever was lost or raced, the times to live heal it: when the writers
\* have come to rest, a time comes from which no tier holds an old value.
EventuallyFresh == <>[](\A x \in Place : ~Stale(x))
=============================================================================
