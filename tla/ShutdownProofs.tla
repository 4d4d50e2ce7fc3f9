---------------------------- MODULE ShutdownProofs ----------------------------
(***************************************************************************)
(* Theorems about Shutdown for any work and any timeouts that fit into the *)
(* budget.                                                                 *)
(***************************************************************************)
EXTENDS Shutdown, TLAPS

\* The types of the variables the theorems need.
Shape ==
  /\ phase \in Phase
  /\ now \in Nat /\ end \in Nat /\ asynqEnd \in Nat
  /\ state \in [Work -> {"out", "running", "done", "cut"}]
  /\ holds \subseteq Running
  /\ waiting \subseteq Worker
  /\ asynq \in {"running", "own", "called", "stopped"}
  /\ overdue \subseteq Work

\* What the coordinator waits for, phase by phase.
Order ==
  /\ phase # "stopping" => waiting = {}
  /\ phase \in {"stopping", "flushing", "releasing"} /\ "asynq" \notin waiting
       => asynq \in {"own", "stopped"}
  /\ asynq = "called" => phase = "stopping"
  /\ phase = "serving" => asynq = "running"
  /\ closed # {} => phase \in {"releasing", "exited"}

\* Each phase ends by the sum of the timeouts so far, work that is overdue apart.
Timely ==
  /\ phase = "serving" => now = 0
  /\ phase = "unready" => now <= end /\ end <= Pause
  /\ phase = "closing" => now <= Pause
  /\ phase = "draining" => now <= end /\ end <= Pause + HttpTimeout
  /\ phase = "stopping" => now <= end /\ end <= WorkersEnd
  /\ phase = "stopping" /\ asynq = "running" => now + WorkerTimeout = end
  /\ phase = "stopping" /\ asynq = "called" => asynqEnd <= end
  /\ asynq \in {"own", "called"} => asynqEnd <= WorkersEnd
  /\ phase = "flushing" => now <= end /\ end <= FlushEnd
  /\ phase \in {"releasing", "exited"} => now <= FlushEnd \/ overdue # {}

\* Work that is still running behind the coordinator.
Late ==
  /\ phase \in {"stopping", "flushing", "releasing"} => Running \cap Request \subseteq overdue
  /\ phase \in {"stopping", "flushing", "releasing"} /\ "river" \notin waiting
       => Running \cap Job \subseteq overdue
  /\ asynq = "stopped" => Running \cap Task \subseteq overdue
  /\ phase \in {"stopping", "flushing", "releasing"} /\ "asynq" \notin waiting
       => Running \cap Task \subseteq overdue \cup abandoned
  /\ phase = "exited" => Running = {}

IInv == Shape /\ Order /\ Timely /\ Late /\ NothingCutShort

LEMMA InitEstablishes == Init => IInv
<1> SUFFICES ASSUME Init PROVE IInv
  OBVIOUS
<1>1. Running = {}
  BY DEF Init, Running
<1>2. Shape
  BY <1>1 DEF Init, Shape, Phase, Early, Worker
<1>3. Order /\ NothingCutShort
  BY DEF Init, Order, NothingCutShort
<1>4. Timely
  BY DEF Init, Timely
<1>5. Late
  BY <1>1 DEF Init, Late
<1> QED
  BY <1>2, <1>3, <1>4, <1>5 DEF IInv

\* Work that begins was accepted, and what ends is running no more.
LEMMA WorkPreserves ==
  ASSUME IInv, NEW w \in Work, WorkStep(w)
  PROVE  IInv'
<1> USE DEF server, streams, workers, history
<1>1. UNCHANGED <<phase, now, end, workers, closed, overdue, abandoned>>
  BY DEF WorkStep, Begin, Acquire, Release, Finish, FindsClosed, Ends
<1>2. /\ state' \in [Work -> {"out", "running", "done", "cut"}]
      /\ Running' \subseteq Running \cup {w}
      /\ w \in Running' \ Running => Accepted(w)
      /\ holds' \subseteq Running'
  <2>1. CASE Begin(w)
    BY <2>1 DEF IInv, Shape, Begin, Running
  <2>2. CASE Acquire(w) \/ Release(w)
    BY <2>2 DEF IInv, Shape, Acquire, Release, Running
  <2>3. CASE Ends(w, "done") \/ Ends(w, "cut")
    BY <2>3 DEF IInv, Shape, Ends, Running
  <2> QED
    BY <2>1, <2>2, <2>3 DEF WorkStep, Finish, FindsClosed
<1>3. Shape'
  BY <1>1, <1>2 DEF IInv, Shape
<1>4. Order' /\ Timely'
  BY <1>1 DEF IInv, Order, Timely
<1>5. Late'
  BY <1>1, <1>2, WorkAssumption DEF IInv, Shape, Late, Order, Accepted, Early
<1>6. NothingCutShort'
  <2>1. CASE FindsClosed(w)
    <3>1. w \in Running /\ phase \in {"releasing", "exited"}
      BY <2>1 DEF FindsClosed, Ends, IInv, Order
    <3>2. w \in overdue \cup abandoned
      BY <3>1 DEF IInv, Late, Order, Work
    <3> QED
      BY <1>1, <2>1, <3>2 DEF FindsClosed, Ends, IInv, Shape, NothingCutShort
  <2>2. CASE Begin(w) \/ Acquire(w) \/ Release(w) \/ Finish(w)
    BY <1>1, <2>2 DEF Begin, Acquire, Release, Finish, Ends, IInv, Shape, NothingCutShort
  <2> QED
    BY <2>1, <2>2 DEF WorkStep
<1> QED
  BY <1>3, <1>4, <1>5, <1>6 DEF IInv

LEMMA RegisterPreserves ==
  ASSUME IInv, NEW s \in Request, Register(s)
  PROVE  IInv'
  BY DEF Register, server, workers, history, IInv, Shape, Order, Timely, Late,
     NothingCutShort, Running

\* The steps that only move the coordinator on.
LEMMA PhasePreserves ==
  ASSUME IInv, UNCHANGED <<now, state, holds, asynq, asynqEnd, closed, abandoned>>,
         \/ Signal \/ StartClosing \/ (\E s \in Request : CloseStream(s))
         \/ StreamsClosed \/ Drained \/ WorkersStopped \/ Flushed
  PROVE  IInv'
<1> USE DEF server, streams, workers, history
<1>1. Running' = Running
  BY DEF Running
<1>2. Shape'
  <2>1. end' \in Nat
    BY TimeAssumption
    DEF IInv, Shape, Signal, StartClosing, CloseStream, StreamsClosed, Drained,
        WorkersStopped, Flushed
  <2>2. overdue' \subseteq Work
    BY DEF IInv, Shape, Signal, StartClosing, CloseStream, StreamsClosed, Drained, HttpWork,
       WorkersStopped, Flushed, Work
  <2>3. phase' \in Phase /\ waiting' \subseteq Worker
    BY DEF IInv, Shape, Signal, StartClosing, CloseStream, StreamsClosed, Drained,
       WorkersStopped, Flushed, Phase, Early
  <2> QED
    BY <1>1, <2>1, <2>2, <2>3 DEF IInv, Shape
<1>3. Order'
  BY DEF IInv, Order, Signal, StartClosing, CloseStream, StreamsClosed, Drained,
     WorkersStopped, Flushed, Worker
<1>4. Timely'
  <2>1. CASE Signal \/ StartClosing \/ StreamsClosed \/ \E s \in Request : CloseStream(s)
    BY <2>1, TimeAssumption
    DEF IInv, Shape, Order, Timely, Signal, StartClosing, StreamsClosed, CloseStream
  <2>2. CASE Drained
    BY <2>2, TimeAssumption DEF IInv, Shape, Order, Timely, Drained, WorkersEnd
  <2>3. CASE WorkersStopped
    BY <2>3, TimeAssumption DEF IInv, Shape, Order, Timely, WorkersStopped, FlushEnd, WorkersEnd
  <2>4. CASE Flushed
    BY <2>4, TimeAssumption DEF IInv, Shape, Order, Timely, Flushed, FlushEnd, WorkersEnd
  <2> QED
    BY <2>1, <2>2, <2>3, <2>4
<1>5. Late'
  BY <1>1
  DEF IInv, Shape, Late, Order, Signal, StartClosing, CloseStream, StreamsClosed, Drained,
      HttpWork, WorkersStopped, Flushed, Worker
<1>6. NothingCutShort'
  BY DEF IInv, NothingCutShort, Signal, StartClosing, CloseStream, StreamsClosed, Drained,
     WorkersStopped, Flushed
<1> QED
  BY <1>2, <1>3, <1>4, <1>5, <1>6 DEF IInv

\* The workers: River, and Asynq's server whoever shuts it down.
LEMMA WorkersPreserve ==
  ASSUME IInv,
         \/ RiverStops \/ ShutdownAsynq \/ ShutdownAsynqReturns
         \/ AsynqHearsSignal \/ AsynqStops
  PROVE  IInv'
<1> USE DEF server, streams, workers, history
<1>1. Running' = Running /\ UNCHANGED <<phase, now, end, state, holds, closed>>
  BY DEF RiverStops, ShutdownAsynq, ShutdownAsynqReturns, AsynqHearsSignal, AsynqStops,
     AsynqShutsDown, Running
<1>2. Shape'
  BY <1>1, TimeAssumption
  DEF IInv, Shape, RiverStops, ShutdownAsynq, ShutdownAsynqReturns, AsynqHearsSignal,
      AsynqStops, AsynqShutsDown, Running
<1>3. Order'
  BY <1>1
  DEF IInv, Shape, Order, RiverStops, ShutdownAsynq, ShutdownAsynqReturns, AsynqHearsSignal,
      AsynqStops, AsynqShutsDown, Phase, Early
<1>4. Timely'
  <2>1. CASE RiverStops \/ ShutdownAsynqReturns \/ AsynqStops
    BY <1>1, <2>1 DEF IInv, Shape, Order, Timely, RiverStops, ShutdownAsynqReturns, AsynqStops
  <2>2. CASE ShutdownAsynq
    BY <1>1, <2>2, TimeAssumption
    DEF IInv, Shape, Order, Timely, ShutdownAsynq, AsynqShutsDown, WorkersEnd
  <2>3. CASE AsynqHearsSignal
    BY <1>1, <2>3, TimeAssumption
    DEF IInv, Shape, Order, Timely, AsynqHearsSignal, AsynqShutsDown, WorkersEnd, Phase, Early
  <2> QED
    BY <2>1, <2>2, <2>3
<1>5. Late'
  BY <1>1
  DEF IInv, Shape, Late, Order, RiverStops, ShutdownAsynq, ShutdownAsynqReturns,
      AsynqHearsSignal, AsynqStops, AsynqShutsDown
<1>6. NothingCutShort'
  BY <1>1
  DEF IInv, NothingCutShort, RiverStops, ShutdownAsynq, ShutdownAsynqReturns,
      AsynqHearsSignal, AsynqStops, AsynqShutsDown
<1> QED
  BY <1>2, <1>3, <1>4, <1>5, <1>6 DEF IInv

LEMMA ReleasePreserves ==
  ASSUME IInv, Exit \/ \E h \in Handle : CloseHandle(h)
  PROVE  IInv'
<1> USE DEF server, streams, workers, history
<1>1. CASE \E h \in Handle : CloseHandle(h)
  BY <1>1 DEF CloseHandle, IInv, Shape, Order, Timely, Late, NothingCutShort, Running
<1>2. CASE Exit
  <2>1. Running \subseteq overdue \cup abandoned
    BY <1>2 DEF Exit, IInv, Late, Order, Shape, Running, Work
  <2>2. Running' = {} /\ state' \in [Work -> {"out", "running", "done", "cut"}]
    BY <1>2 DEF Exit, IInv, Shape, Running
  <2>3. NothingCutShort'
    BY <1>2, <2>1 DEF Exit, IInv, Shape, NothingCutShort
  <2>4. Shape' /\ Order' /\ Late'
    BY <1>2, <2>2 DEF Exit, IInv, Shape, Order, Late, Phase
  <2>5. Timely'
    BY <1>2 DEF Exit, IInv, Timely, Order
  <2> QED
    BY <2>3, <2>4, <2>5 DEF IInv
<1> QED
  BY <1>1, <1>2

\* When the pool is waited for, whoever holds a connection is overdue, or is a
\* task that Asynq's server still waits for.
LEMMA TickPreserves ==
  ASSUME IInv, Tick
  PROVE  IInv'
<1> USE DEF server, streams, workers, history
<1>1. Running' = Running /\ now' = now + 1
  BY DEF Tick, Running
<1>2. Shape' /\ Order' /\ Late' /\ NothingCutShort'
  BY <1>1 DEF Tick, IInv, Shape, Order, Late, NothingCutShort
<1>3. Timely'
  <2>1. CASE phase \in {"unready", "draining", "flushing"} /\ now < end
    BY <1>1, <2>1 DEF Tick, IInv, Shape, Order, Timely
  <2>2. CASE phase = "stopping"
    <3>1. /\ waiting # {}
          /\ "river" \in waiting => now < end
          /\ "asynq" \in waiting => asynq = "called"
      BY <2>2 DEF Tick, Waits
    <3>2. asynq # "running"
      BY <2>2, <3>1 DEF IInv, Order
    <3>3. now < end
      <4>1. CASE "river" \in waiting
        BY <3>1, <4>1
      <4>2. CASE "river" \notin waiting
        <5>1. "asynq" \in waiting
          BY <3>1, <4>2 DEF IInv, Shape, Worker
        <5>2. now < asynqEnd /\ asynqEnd <= end
          BY <2>2, <3>1, <5>1 DEF Tick, IInv, Timely
        <5> QED
          BY <5>2 DEF IInv, Shape
      <4> QED
        BY <4>1, <4>2
    <3> QED
      BY <1>1, <2>2, <3>2, <3>3 DEF Tick, IInv, Shape, Timely
  <2>3. CASE phase = "releasing" /\ holds # {}
    <3>1. overdue # {} \/ asynq = "own"
      BY <2>3 DEF IInv, Late, Order, Shape, Running, Work
    <3>2. asynq = "own" => now + 1 <= FlushEnd
      BY TimeAssumption DEF Tick, IInv, Shape, Timely, FlushEnd, WorkersEnd
    <3> QED
      BY <1>1, <2>3, <3>1, <3>2 DEF Tick, IInv, Timely, Order
  <2> QED
    BY <2>1, <2>2, <2>3 DEF Tick, Waits
<1> QED
  BY <1>2, <1>3 DEF IInv

LEMMA StepPreserves == IInv /\ [Next]_vars => IInv'
<1> SUFFICES ASSUME IInv, [Next]_vars PROVE IInv'
  OBVIOUS
<1>1. CASE \E w \in Work : WorkStep(w)
  BY <1>1, WorkPreserves
<1>2. CASE \E s \in Request : Register(s)
  BY <1>2, RegisterPreserves
<1>3. CASE \/ Signal \/ StartClosing \/ (\E s \in Request : CloseStream(s))
           \/ StreamsClosed \/ Drained \/ WorkersStopped \/ Flushed
  <2>1. UNCHANGED <<now, state, holds, asynq, asynqEnd, closed, abandoned>>
    BY <1>3
    DEF Signal, StartClosing, CloseStream, StreamsClosed, Drained, WorkersStopped, Flushed,
        server, workers, history
  <2> QED
    BY <1>3, <2>1, PhasePreserves
<1>4. CASE \/ RiverStops \/ ShutdownAsynq \/ ShutdownAsynqReturns
           \/ AsynqHearsSignal \/ AsynqStops
  BY <1>4, WorkersPreserve
<1>5. CASE Exit \/ \E h \in Handle : CloseHandle(h)
  BY <1>5, ReleasePreserves
<1>6. CASE Tick
  BY <1>6, TickPreserves
<1>7. CASE UNCHANGED vars
  BY <1>7
  DEF vars, server, streams, workers, history, IInv, Shape, Order, Timely, Late,
      NothingCutShort, Running
<1> QED
  BY <1>1, <1>2, <1>3, <1>4, <1>5, <1>6, <1>7 DEF Next, Coordinator

LEMMA Invariance == Spec => []IInv
  BY InitEstablishes, StepPreserves, PTL DEF Spec

\* Whatever runs when the process ends, it is cut short by a closed handle or the
\* exit only when its timeout was over or its server had heard the signal itself.
THEOREM NothingCutShortHolds == Spec => []NothingCutShort
<1>1. IInv => NothingCutShort
  BY DEF IInv
<1> QED
  BY <1>1, Invariance, PTL

\* Timeouts that add up to no more than the budget keep to it, unless work that
\* outlived its own holds a connection.
THEOREM WithinBudgetHolds == Spec => []WithinBudget
<1>1. IInv => WithinBudget
  <2> SUFFICES ASSUME IInv, now > Budget PROVE overdue # {}
    BY DEF WithinBudget
  <2>1. now > FlushEnd
    BY TimeAssumption DEF IInv, Shape, FlushEnd, WorkersEnd
  <2> QED
    BY <2>1, TimeAssumption DEF IInv, Shape, Timely, Phase, Early, FlushEnd, WorkersEnd
<1> QED
  BY <1>1, Invariance, PTL
=============================================================================
