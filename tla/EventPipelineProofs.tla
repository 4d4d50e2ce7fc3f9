------------------------- MODULE EventPipelineProofs -------------------------
(***************************************************************************)
(* Theorems about EventPipeline for any events, workers, attempts, retries *)
(* and faults.                                                             *)
(***************************************************************************)
EXTENDS EventPipeline, TLAPS

\* An attempt appends at most one entry, and only entries there are are read.
RelayInv ==
  \A e \in Event :
    /\ delivered[e] <= appended[e] /\ appended[e] <= attempts[e]
    /\ job[e] = "available" => attempts[e] < MaxAttempts
    /\ job[e] = "running" => appended[e] < attempts[e]

\* A worker that is not idle has an entry.
HandInv == \A w \in Worker : pc[w] # "idle" => msg[w] \in Entry

\* The key of an event is taken before its handler runs, and stays.
KeyInv ==
  /\ \A w \in Worker : pc[w] \in Executing => msg[w].event \in keys
  /\ \A e \in Event : handled[e] > 0 => e \in keys

IInv == TypeOK /\ RelayInv /\ HandInv /\ KeyInv /\ HandledAtMostOnce

LEMMA InitEstablishes == Init => IInv
<1> SUFFICES ASSUME Init PROVE IInv
  OBVIOUS
<1>1. TypeOK
  BY BoundsAssumption DEF Init, TypeOK, Executing
<1>2. RelayInv
  <2> SUFFICES ASSUME NEW e \in Event
               PROVE  /\ delivered[e] <= appended[e] /\ appended[e] <= attempts[e]
                      /\ job[e] = "available" => attempts[e] < MaxAttempts
                      /\ job[e] # "running"
    BY DEF RelayInv
  <2>1. delivered[e] = 0 /\ appended[e] = 0 /\ attempts[e] = 0 /\ job[e] = "available"
    BY DEF Init
  <2> QED
    BY <2>1, BoundsAssumption
<1>3. HandInv
  <2>1. \A w \in Worker : pc[w] = "idle"
    BY DEF Init
  <2> QED
    BY <2>1 DEF HandInv
<1>4. KeyInv /\ HandledAtMostOnce
  BY DEF Init, KeyInv, HandledAtMostOnce, Executing
<1> QED
  BY <1>1, <1>2, <1>3, <1>4 DEF IInv

\* The relay touches nothing the subscriber has but the entries it appends.
LEMMA RelayPreserves ==
  ASSUME IInv, NEW e \in Event,
         RelayStep(e) \/ PublishFails(e) \/ RelayDies(e)
  PROVE  IInv'
<1> USE BoundsAssumption
<1>1. RelayInv'
  <2> USE DEF IInv, TypeOK, RelayInv, subscriberVars
  <2>1. CASE FetchJob(e)
    BY <2>1 DEF FetchJob
  <2>2. CASE Publish(e)
    BY <2>2 DEF Publish
  <2>3. CASE CompleteJob(e)
    BY <2>3 DEF CompleteJob
  <2>4. CASE PublishFails(e)
    BY <2>4 DEF PublishFails, AfterFailure
  <2>5. CASE RelayDies(e)
    BY <2>5 DEF RelayDies, AfterFailure
  <2> QED
    BY <2>1, <2>2, <2>3, <2>4, <2>5 DEF RelayStep
<1>2. TypeOK'
  <2> USE DEF IInv, TypeOK, RelayInv, subscriberVars
  <2>1. CASE FetchJob(e)
    BY <2>1 DEF FetchJob
  <2>2. CASE Publish(e)
    BY <2>2 DEF Publish
  <2>3. CASE CompleteJob(e)
    BY <2>3 DEF CompleteJob
  <2>4. CASE PublishFails(e)
    BY <2>4 DEF PublishFails, AfterFailure, Fault
  <2>5. CASE RelayDies(e)
    BY <2>5 DEF RelayDies, AfterFailure, Fault
  <2> QED
    BY <2>1, <2>2, <2>3, <2>4, <2>5 DEF RelayStep
<1>3. UNCHANGED subscriberVars
  BY DEF RelayStep, FetchJob, Publish, CompleteJob, PublishFails, RelayDies
<1>4. (HandInv /\ KeyInv /\ HandledAtMostOnce)'
  BY <1>3 DEF IInv, HandInv, KeyInv, HandledAtMostOnce, subscriberVars
<1> QED
  BY <1>1, <1>2, <1>4 DEF IInv

\* A worker that takes an entry, read or claimed, is not yet at the handler.
LEMMA TakePreserves ==
  ASSUME IInv, TakeOne
  PROVE  IInv'
<1> USE BoundsAssumption
<1>1. PICK w \in Worker : \/ \E e \in Event : Deliver(w, e)
                          \/ \E m \in pending : Claim(w, m)
  BY DEF TakeOne
<1>2. PICK m \in Entry :
        /\ Take(w, m)
        /\ \/ UNCHANGED <<delivered, pending>>
           \/ /\ delivered[m.event] < appended[m.event]
              /\ delivered' = [delivered EXCEPT ![m.event] = @ + 1]
              /\ pending' = pending \cup {m}
  <2>1. CASE \E x \in pending : Claim(w, x)
    BY <2>1 DEF Claim, IInv, TypeOK
  <2>2. CASE \E e \in Event : Deliver(w, e)
    <3>1. PICK e \in Event : Deliver(w, e)
      BY <2>2
    <3>2. delivered[e] + 1 \in 1 .. MaxAttempts
      BY <3>1 DEF Deliver, IInv, TypeOK
    <3>3. [event |-> e, copy |-> delivered[e] + 1] \in Entry
      BY <3>2 DEF Entry
    <3> QED
      BY <3>1, <3>3 DEF Deliver
  <2> QED
    BY <1>1, <2>1, <2>2
<1>3. m.event \in Event
  BY DEF Entry
<1> USE <1>2, <1>3 DEF Take, Goto, relayVars
<1>4. TypeOK'
  BY DEF IInv, TypeOK, RelayInv
<1>5. RelayInv'
  BY DEF IInv, TypeOK, RelayInv
<1>6. HandInv' /\ KeyInv'
  BY DEF IInv, TypeOK, HandInv, KeyInv, Executing
<1>7. HandledAtMostOnce'
  BY DEF IInv, TypeOK, HandledAtMostOnce, Executing
<1> QED
  BY <1>4, <1>5, <1>6, <1>7 DEF IInv

\* The worker's own steps and its faults.
WorkerMoves(w) == WorkerStep(w) \/ CheckKeyFails(w) \/ PoisonFails(w) \/ WorkerDies(w)

LEMMA WorkerPreserves ==
  ASSUME IInv, NEW w \in Worker, WorkerMoves(w)
  PROVE  IInv'
<1> USE BoundsAssumption
<1>0. pc[w] # "idle" /\ msg[w] \in Entry /\ msg[w].event \in Event
  BY DEF WorkerMoves, WorkerStep, CheckKey, HandlerSucceeds, HandlerFails, PoisonPublishes, Ack,
     CheckKeyFails, PoisonFails, WorkerDies, IInv, HandInv, Entry
<1>1. RelayInv'
  <2>1. UNCHANGED <<relayVars, delivered>>
    BY DEF WorkerMoves, WorkerStep, CheckKey, HandlerSucceeds, HandlerFails, PoisonPublishes, Ack,
       CheckKeyFails, PoisonFails, WorkerDies
  <2> QED
    BY <2>1 DEF relayVars, RelayInv, IInv
<1> USE <1>0 DEF Goto, relayVars
<1>2. TypeOK'
  <2> USE DEF IInv, TypeOK, Executing
  <2>1. CASE CheckKey(w)
    BY <2>1 DEF CheckKey
  <2>2. CASE HandlerSucceeds(w)
    BY <2>2 DEF HandlerSucceeds
  <2>3. CASE HandlerFails(w)
    BY <2>3 DEF HandlerFails
  <2>4. CASE PoisonPublishes(w)
    BY <2>4 DEF PoisonPublishes
  <2>5. CASE Ack(w)
    BY <2>5 DEF Ack
  <2>6. CASE CheckKeyFails(w)
    BY <2>6 DEF CheckKeyFails, Fault
  <2>7. CASE PoisonFails(w)
    BY <2>7 DEF PoisonFails, Fault, RetriesLeft
  <2>8. CASE WorkerDies(w)
    BY <2>8 DEF WorkerDies, Fault
  <2> QED
    BY <2>1, <2>2, <2>3, <2>4, <2>5, <2>6, <2>7, <2>8 DEF WorkerMoves, WorkerStep
<1>3. (HandInv /\ KeyInv /\ HandledAtMostOnce)'
  <2> USE DEF IInv, TypeOK, Executing, HandInv, KeyInv, HandledAtMostOnce
  <2>1. CASE CheckKey(w)
    BY <2>1 DEF CheckKey
  <2>2. CASE HandlerSucceeds(w)
    BY <2>2 DEF HandlerSucceeds
  <2>3. CASE HandlerFails(w)
    BY <2>3 DEF HandlerFails
  <2>4. CASE PoisonPublishes(w)
    BY <2>4 DEF PoisonPublishes
  <2>5. CASE Ack(w)
    BY <2>5 DEF Ack
  <2>6. CASE CheckKeyFails(w)
    BY <2>6 DEF CheckKeyFails
  <2>7. CASE PoisonFails(w)
    BY <2>7 DEF PoisonFails
  <2>8. CASE WorkerDies(w)
    BY <2>8 DEF WorkerDies
  <2> QED
    BY <2>1, <2>2, <2>3, <2>4, <2>5, <2>6, <2>7, <2>8 DEF WorkerMoves, WorkerStep
<1> QED
  BY <1>1, <1>2, <1>3 DEF IInv

LEMMA StepPreserves == IInv /\ [Next]_vars => IInv'
<1> SUFFICES ASSUME IInv, [Next]_vars PROVE IInv'
  OBVIOUS
<1>1. CASE \E e \in Event : RelayStep(e) \/ PublishFails(e) \/ RelayDies(e)
  BY <1>1, RelayPreserves
<1>2. CASE TakeOne
  BY <1>2, TakePreserves
<1>3. CASE \E w \in Worker : WorkerMoves(w)
  BY <1>3, WorkerPreserves
<1>4. CASE UNCHANGED vars
  BY <1>4 DEF vars, relayVars, subscriberVars, IInv, TypeOK, RelayInv, HandInv, KeyInv, HandledAtMostOnce
<1> QED
  BY <1>1, <1>2, <1>3, <1>4 DEF Next, FaultStep, WorkerMoves

LEMMA Invariance == Spec => []IInv
  BY InitEstablishes, StepPreserves, PTL DEF Spec

\* Every variable keeps its type: no job is attempted, and no event published,
\* more often than River's limit, and Retry stops at MaxRetries.
THEOREM TypeCorrect == Spec => []TypeOK
<1>1. IInv => TypeOK
  BY DEF IInv
<1> QED
  BY <1>1, Invariance, PTL

\* The handler of an event is run to success at most once, by one worker at a
\* time, whatever is published, delivered or claimed again.
THEOREM HandledAtMostOnceHolds == Spec => []HandledAtMostOnce
<1>1. IInv => HandledAtMostOnce
  BY DEF IInv
<1> QED
  BY <1>1, Invariance, PTL

(***************************************************************************)
(* No event gets lost: the safety that SettledUnlessStruck rests on.       *)
(***************************************************************************)

\* Some worker runs the handlers of the event.
BeingHandled(e) == \E w \in Worker : pc[w] \in Executing /\ msg[w].event = e

\* An event whose key is in Redis was not only seen: its handler runs or has
\* come to its outcome, or a fault struck it.
KeysAccounted == \A e \in keys : Settled(e) \/ e \in struck \/ BeingHandled(e)

\* An entry that was read stays in the pending list until its event has a key,
\* and a worker acknowledges only entries whose event has one.
EntriesAccounted ==
  /\ \A m \in Entry : m.copy <= delivered[m.event] => m \in pending \/ m.event \in keys
  /\ \A w \in Worker : pc[w] = "acking" => msg[w].event \in keys

\* A job ends as done only after its event was appended to the stream.
JobsAccounted == \A e \in Event : job[e] \in {"published", "completed"} => appended[e] > 0

Accounted == KeysAccounted /\ EntriesAccounted /\ JobsAccounted

\* Where an event is: with River, in the stream, in the pending list, in a
\* handler, or at its outcome.
EventKept(e) ==
  IF appended[e] = 0
  THEN job[e] \in {"available", "running", "discarded"}
  ELSE \/ delivered[e] < appended[e]
       \/ \E m \in pending : m.event = e
       \/ BeingHandled(e)
       \/ Settled(e) \/ e \in struck

LEMMA InitAccounts == Init => Accounted
<1> SUFFICES ASSUME Init PROVE Accounted
  OBVIOUS
<1>1. \A m \in Entry : ~(m.copy <= delivered[m.event])
  <2> SUFFICES ASSUME NEW m \in Entry PROVE ~(m.copy <= delivered[m.event])
    OBVIOUS
  <2>1. m.event \in Event /\ m.copy \in 1 .. MaxAttempts
    BY DEF Entry
  <2> QED
    BY <2>1, BoundsAssumption DEF Init
<1> QED
  BY <1>1 DEF Init, Accounted, KeysAccounted, EntriesAccounted, JobsAccounted

\* The relay's steps: a job is done only after an entry was appended.
LEMMA RelayAccounts ==
  ASSUME IInv, Accounted, NEW e \in Event,
         RelayStep(e) \/ PublishFails(e) \/ RelayDies(e)
  PROVE  Accounted'
<1>1. UNCHANGED subscriberVars
  BY DEF RelayStep, FetchJob, Publish, CompleteJob, PublishFails, RelayDies
<1>2. KeysAccounted' /\ EntriesAccounted'
  BY <1>1 DEF subscriberVars, Accounted, KeysAccounted, EntriesAccounted, BeingHandled, Settled
<1>3. JobsAccounted'
  <2> USE DEF Accounted, JobsAccounted, IInv, TypeOK
  <2>1. CASE FetchJob(e)
    BY <2>1 DEF FetchJob
  <2>2. CASE Publish(e)
    <3>1. appended[e] \in Nat
      BY BoundsAssumption
    <3> QED
      BY <2>2, <3>1 DEF Publish
  <2>3. CASE CompleteJob(e)
    BY <2>3 DEF CompleteJob
  <2>4. CASE PublishFails(e)
    <3>1. \A f \in Event \ {e} : job'[f] = job[f] /\ appended'[f] = appended[f]
      BY <2>4 DEF PublishFails
    <3>2. job'[e] \notin {"published", "completed"}
      BY <2>4 DEF PublishFails, AfterFailure
    <3> QED
      BY <3>1, <3>2
  <2>5. CASE RelayDies(e)
    BY <2>5 DEF RelayDies, AfterFailure
  <2> QED
    BY <2>1, <2>2, <2>3, <2>4, <2>5 DEF RelayStep
<1> QED
  BY <1>2, <1>3 DEF Accounted

\* A worker that reads an entry puts it into the pending list.
LEMMA TakeAccounts ==
  ASSUME IInv, Accounted, TakeOne
  PROVE  Accounted'
<1>1. PICK w \in Worker : \/ \E e \in Event : Deliver(w, e)
                          \/ \E m \in pending : Claim(w, m)
  BY DEF TakeOne
<1>2. PICK m : Take(w, m)
  BY <1>1 DEF Deliver, Claim
<1>3. \A m1 \in Entry : m1.copy <= delivered'[m1.event] => m1 \in pending' \/ m1.event \in keys
  <2>1. CASE \E m1 \in pending : Claim(w, m1)
    BY <2>1 DEF Claim, Accounted, EntriesAccounted
  <2>2. CASE \E e \in Event : Deliver(w, e)
    <3>1. PICK e \in Event : Deliver(w, e)
      BY <2>2
    <3> DEFINE new == [event |-> e, copy |-> delivered[e] + 1]
    <3>2. /\ delivered' = [delivered EXCEPT ![e] = @ + 1]
          /\ pending' = pending \cup {new}
      BY <3>1 DEF Deliver
    <3> SUFFICES ASSUME NEW n \in Entry, n.copy <= delivered'[n.event], n.event \notin keys
                 PROVE  n \in pending'
      OBVIOUS
    <3>3. n.event \in Event /\ n.copy \in Nat /\ n = [event |-> n.event, copy |-> n.copy]
      BY BoundsAssumption DEF Entry
    <3>4. delivered[e] \in Nat /\ delivered[n.event] \in Nat
      BY <3>3, BoundsAssumption DEF IInv, TypeOK
    <3>5. n.copy <= delivered[n.event] \/ (n.event = e /\ n.copy = delivered[e] + 1)
      BY <3>2, <3>3, <3>4 DEF IInv, TypeOK
    <3>6. CASE n.copy <= delivered[n.event]
      BY <3>2, <3>6 DEF Accounted, EntriesAccounted
    <3>7. CASE n.event = e /\ n.copy = delivered[e] + 1
      BY <3>2, <3>3, <3>7
    <3> QED
      BY <3>5, <3>6, <3>7
  <2> QED
    BY <1>1, <2>1, <2>2
<1>4. /\ pc[w] = "idle" /\ pc' = [pc EXCEPT ![w] = "checking"]
      /\ msg' = [msg EXCEPT ![w] = m]
      /\ UNCHANGED <<keys, handled, dead, struck, job, appended>>
  BY <1>2 DEF Take, Goto, relayVars
<1>5. \A v \in Worker : v # w => pc'[v] = pc[v] /\ msg'[v] = msg[v]
  BY <1>4 DEF IInv, TypeOK
<1>6. pc'[w] = "checking"
  BY <1>4 DEF IInv, TypeOK
<1>7. EntriesAccounted'
  BY <1>3, <1>4, <1>5, <1>6 DEF Accounted, EntriesAccounted
<1>8. \A e : BeingHandled(e) => BeingHandled(e)'
  BY <1>4, <1>5 DEF BeingHandled, Executing
<1>9. KeysAccounted' /\ JobsAccounted'
  BY <1>4, <1>8 DEF Accounted, KeysAccounted, JobsAccounted, Settled
<1> QED
  BY <1>7, <1>9 DEF Accounted

\* A worker's step or fault leaves the other workers where they are.
LEMMA WorkersApart ==
  ASSUME IInv, NEW w \in Worker, WorkerMoves(w)
  PROVE  /\ \A v \in Worker : v # w => pc'[v] = pc[v] /\ msg'[v] = msg[v]
         /\ UNCHANGED <<job, attempts, appended, delivered>>
         /\ keys \subseteq keys' /\ dead \subseteq dead' /\ struck \subseteq struck'
         /\ pending' \in {pending, pending \ {msg[w]}}
         /\ pending' # pending => pc[w] = "acking"
<1> USE DEF Goto, relayVars, IInv, TypeOK
<1>1. CASE CheckKey(w)
  BY <1>1 DEF CheckKey
<1>2. CASE HandlerSucceeds(w)
  BY <1>2 DEF HandlerSucceeds
<1>3. CASE HandlerFails(w)
  BY <1>3 DEF HandlerFails
<1>4. CASE PoisonPublishes(w)
  BY <1>4 DEF PoisonPublishes
<1>5. CASE Ack(w)
  BY <1>5 DEF Ack
<1>6. CASE CheckKeyFails(w)
  BY <1>6 DEF CheckKeyFails
<1>7. CASE PoisonFails(w)
  BY <1>7 DEF PoisonFails
<1>8. CASE WorkerDies(w)
  BY <1>8 DEF WorkerDies
<1> QED
  BY <1>1, <1>2, <1>3, <1>4, <1>5, <1>6, <1>7, <1>8 DEF WorkerMoves, WorkerStep

\* What a worker's step does to the event it has in hand.
LEMMA OwnEventAccounted ==
  ASSUME IInv, Accounted, NEW w \in Worker, WorkerMoves(w)
  PROVE  /\ pc'[w] = "acking" => msg'[w].event \in keys'
         /\ \A e \in keys' \ keys : e \in struck' \/ (pc'[w] \in Executing /\ msg'[w].event = e)
         /\ \A e \in Event : pc[w] \in Executing /\ msg[w].event = e =>
              e \in struck' \/ Settled(e)' \/ (pc'[w] \in Executing /\ msg'[w].event = e)
         /\ \A e \in Event : handled'[e] >= handled[e]
<1>0. /\ pc[w] # "idle" /\ msg[w] \in Entry /\ msg[w].event \in Event
      /\ \A e \in Event : handled[e] \in Nat
  BY DEF WorkerMoves, WorkerStep, CheckKey, HandlerSucceeds, HandlerFails, PoisonPublishes, Ack,
     CheckKeyFails, PoisonFails, WorkerDies, IInv, HandInv, TypeOK, Entry
<1> USE <1>0 DEF Goto, IInv, TypeOK, Executing, Settled
<1>1. CASE CheckKey(w)
  BY <1>1 DEF CheckKey
<1>2. CASE HandlerSucceeds(w)
  BY <1>2 DEF HandlerSucceeds, KeyInv
<1>3. CASE HandlerFails(w)
  BY <1>3 DEF HandlerFails
<1>4. CASE PoisonPublishes(w)
  BY <1>4 DEF PoisonPublishes, KeyInv
<1>5. CASE Ack(w)
  BY <1>5 DEF Ack
<1>6. CASE CheckKeyFails(w)
  BY <1>6 DEF CheckKeyFails
<1>7. CASE PoisonFails(w)
  BY <1>7 DEF PoisonFails
<1>8. CASE WorkerDies(w)
  BY <1>8 DEF WorkerDies
<1> QED
  BY <1>1, <1>2, <1>3, <1>4, <1>5, <1>6, <1>7, <1>8 DEF WorkerMoves, WorkerStep

LEMMA WorkerAccounts ==
  ASSUME IInv, Accounted, NEW w \in Worker, WorkerMoves(w)
  PROVE  Accounted'
<1>1. KeysAccounted'
  <2> SUFFICES ASSUME NEW e \in keys'
               PROVE  (Settled(e) \/ e \in struck \/ BeingHandled(e))'
    BY DEF KeysAccounted
  <2>1. CASE e \notin keys
    BY <2>1, OwnEventAccounted DEF BeingHandled
  <2>2. CASE e \in keys /\ (Settled(e) \/ e \in struck)
    <3>1. e \in Event /\ handled[e] \in Nat /\ handled'[e] >= handled[e]
      BY <2>2, OwnEventAccounted DEF IInv, TypeOK
    <3>2. handled'[e] \in Nat
      BY <3>1, WorkerPreserves DEF IInv, TypeOK
    <3> QED
      BY <2>2, <3>1, <3>2, WorkersApart DEF Settled
  <2>3. CASE e \in keys /\ BeingHandled(e)
    <3>1. PICK v \in Worker : pc[v] \in Executing /\ msg[v].event = e
      BY <2>3 DEF BeingHandled
    <3>2. CASE v = w
      <4>1. e \in Event
        BY <2>3 DEF IInv, TypeOK
      <4> QED
        BY <3>1, <3>2, <4>1, OwnEventAccounted DEF BeingHandled
    <3>3. CASE v # w
      BY <3>1, <3>3, WorkersApart DEF BeingHandled, Executing
    <3> QED
      BY <3>2, <3>3
  <2> QED
    BY <2>1, <2>2, <2>3 DEF Accounted, KeysAccounted
<1>2. EntriesAccounted'
  <2>1. \A v \in Worker : pc'[v] = "acking" => msg'[v].event \in keys'
    BY WorkersApart, OwnEventAccounted DEF Accounted, EntriesAccounted
  <2>2. ASSUME NEW m \in Entry, m.copy <= delivered'[m.event]
        PROVE  m \in pending' \/ m.event \in keys'
    <3>1. m \in pending \/ m.event \in keys
      BY <2>2, WorkersApart DEF Accounted, EntriesAccounted
    <3>2. m \in pending /\ m \notin pending' => m = msg[w] /\ pc[w] = "acking"
      BY WorkersApart
    <3> QED
      BY <3>1, <3>2, WorkersApart DEF Accounted, EntriesAccounted
  <2> QED
    BY <2>1, <2>2 DEF EntriesAccounted
<1>3. JobsAccounted'
  BY WorkersApart DEF Accounted, JobsAccounted
<1> QED
  BY <1>1, <1>2, <1>3 DEF Accounted

LEMMA StepAccounts == IInv /\ Accounted /\ [Next]_vars => Accounted'
<1> SUFFICES ASSUME IInv, Accounted, [Next]_vars PROVE Accounted'
  OBVIOUS
<1>1. CASE \E e \in Event : RelayStep(e) \/ PublishFails(e) \/ RelayDies(e)
  BY <1>1, RelayAccounts
<1>2. CASE TakeOne
  BY <1>2, TakeAccounts
<1>3. CASE \E w \in Worker : WorkerMoves(w)
  BY <1>3, WorkerAccounts
<1>4. CASE UNCHANGED vars
  BY <1>4 DEF vars, relayVars, subscriberVars, Accounted, KeysAccounted, EntriesAccounted,
     JobsAccounted, BeingHandled, Settled
<1> QED
  BY <1>1, <1>2, <1>3, <1>4 DEF Next, FaultStep, WorkerMoves

\* A committed event is never out of reach.  Before its first publication River
\* has its job, or gave it up after its last attempt; after that it is in the
\* stream, in the pending list or with a handler until it is handled or dead,
\* even if River gave the job up: only a fault between the key's being set and
\* the outcome can end its way.
THEOREM EventsKept == Spec => [](\A e \in Event : EventKept(e))
<1>1. ASSUME IInv, Accounted, NEW e \in Event
      PROVE  EventKept(e)
  <2>1. job[e] \in {"available", "running", "published", "completed", "discarded"}
        /\ appended[e] \in Nat /\ delivered[e] \in Nat
        /\ delivered[e] <= appended[e] /\ appended[e] <= MaxAttempts
    BY <1>1, BoundsAssumption DEF IInv, TypeOK, RelayInv
  <2>2. CASE appended[e] = 0
    BY <1>1, <2>1, <2>2 DEF EventKept, Accounted, JobsAccounted
  <2>3. CASE appended[e] # 0 /\ delivered[e] < appended[e]
    BY <2>3 DEF EventKept
  <2>4. CASE appended[e] # 0 /\ ~(delivered[e] < appended[e])
    <3> DEFINE first == [event |-> e, copy |-> 1]
    <3>1. first \in Entry /\ first.copy <= delivered[first.event]
      BY <2>1, <2>4, BoundsAssumption DEF Entry
    <3>2. first \in pending \/ e \in keys
      BY <1>1, <3>1 DEF Accounted, EntriesAccounted
    <3> QED
      BY <1>1, <2>4, <3>2 DEF EventKept, Accounted, KeysAccounted
  <2> QED
    BY <2>2, <2>3, <2>4
<1>2. IInv /\ Accounted => \A e \in Event : EventKept(e)
  BY <1>1
<1> QED
  BY <1>2, InitEstablishes, StepPreserves, InitAccounts, StepAccounts, PTL DEF Spec
=============================================================================
