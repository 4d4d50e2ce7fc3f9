------------------------------- MODULE Shutdown -------------------------------
(***************************************************************************)
(* The end of a process: the coordinator's five phases against the work    *)
(* that is under way, which uses the database pool, Redis and storage.     *)
(*                                                                         *)
(* Work is requests of the HTTP server, jobs of River and tasks of Asynq,  *)
(* each running when it likes and using a connection of the pool now and   *)
(* then.  A request may open a stream of events, which it registers.  The  *)
(* clock counts seconds from the signal.                                   *)
(* net/http, River, Asynq and pgxpool are external: Server.Shutdown and    *)
(* Client.Stop stop taking work and wait until it is done or their context *)
(* is; Asynq's server, which cmd/worker runs with Run, hears the signal    *)
(* itself, and a second call of its Shutdown returns at once; Pool.Close   *)
(* waits until every connection is returned.                               *)
(***************************************************************************)
EXTENDS Naturals

CONSTANTS
  Request, Job, Task,
  Pause,          \* seconds of phase 1, rounded up
  HttpTimeout,    \* of phase 2
  WorkerTimeout,  \* of River in phase 3
  AsynqTimeout,   \* Asynq's own
  FlushTimeout,   \* of phase 4
  Budget,
  MaxTime         \* bound of the clock

Work == Request \cup Job \cup Task

\* When the workers have been stopped at the latest, and when phase 5 begins.
WorkersEnd == Pause + HttpTimeout + WorkerTimeout
FlushEnd == WorkersEnd + FlushTimeout

ASSUME TimeAssumption ==
  /\ {Pause, HttpTimeout, WorkerTimeout, AsynqTimeout, FlushTimeout, Budget, MaxTime} \subseteq Nat
  /\ AsynqTimeout <= WorkerTimeout
  /\ FlushEnd <= Budget
ASSUME WorkAssumption ==
  Request \cap (Job \cup Task) = {} /\ Job \cap Task = {}

VARIABLES
  phase,     \* of the coordinator
  now,       \* seconds since the signal
  end,       \* when the context of the phase is done
  state,     \* state[w]: of a piece of work
  holds,     \* work that holds a connection of the pool
  hub,       \* StreamHub: requests whose stream is registered
  sweep,     \* those registered when CloseActiveStreams began
  told,      \* streams whose closer was called
  waiting,   \* workers in the coordinator's wait group
  asynq,     \* Asynq's server: who shuts it down
  asynqEnd,  \* when it gives up waiting for tasks
  closed,    \* handles that are closed
  overdue,   \* history: work that ran when its timeout was over
  abandoned  \* history: tasks the coordinator did not wait for

server == <<phase, now, end>>
streams == <<hub, sweep, told>>
workers == <<waiting, asynq, asynqEnd>>
history == <<overdue, abandoned>>
vars == <<server, state, holds, streams, workers, closed, history>>

Handle == {"storage", "cache", "redis", "pool"}
Worker == {"river", "asynq"}

Early == {"serving", "unready", "closing"}    \* the HTTP server listens
Phase == Early \cup {"draining", "stopping", "flushing", "releasing", "exited"}

Running == {w \in DOMAIN state : state[w] = "running"}

Init ==
  /\ phase = "serving"
  /\ now = 0 /\ end = 0
  /\ state = [w \in Work |-> "out"]
  /\ holds = {}
  /\ hub = {} /\ sweep = {} /\ told = {}
  /\ waiting = {}
  /\ asynq = "running" /\ asynqEnd = 0
  /\ closed = {}
  /\ overdue = {} /\ abandoned = {}

-----------------------------------------------------------------------------
(* The work.                                                                 *)

Accepted(w) ==
  \/ w \in Request /\ phase \in Early
  \/ w \in Job /\ phase \in Early \cup {"draining"}
  \/ w \in Task /\ asynq = "running" /\ phase # "exited"

Begin(w) ==
  /\ state[w] = "out" /\ Accepted(w)
  /\ state' = [state EXCEPT ![w] = "running"]
  /\ UNCHANGED <<server, holds, streams, workers, closed, history>>

Register(s) ==
  /\ s \in (Request \cap Running) \ (hub \cup told)
  /\ hub' = hub \cup {s}
  /\ UNCHANGED <<server, state, holds, sweep, told, workers, closed, history>>

Acquire(w) ==
  /\ w \in Running \ holds
  /\ "pool" \notin closed
  /\ holds' = holds \cup {w}
  /\ UNCHANGED <<server, state, streams, workers, closed, history>>

Release(w) ==
  /\ w \in holds
  /\ holds' = holds \ {w}
  /\ UNCHANGED <<server, state, streams, workers, closed, history>>

\* The handler returns; that of a stream calls Unregister.
Ends(w, outcome) ==
  /\ w \in Running \ holds
  /\ state' = [state EXCEPT ![w] = outcome]
  /\ hub' = hub \ {w}
  /\ UNCHANGED <<server, holds, sweep, told, workers, closed, history>>

Finish(w) == phase # "exited" /\ Ends(w, "done")

\* It needs a handle that is closed.
FindsClosed(w) == closed # {} /\ Ends(w, "cut")

-----------------------------------------------------------------------------
(* Phases 1 and 2.                                                           *)

Signal ==
  /\ phase = "serving"
  /\ phase' = "unready"
  /\ end' = now + Pause
  /\ UNCHANGED <<now, state, holds, streams, workers, closed, history>>

StartClosing ==
  /\ phase = "unready"
  /\ phase' = "closing"
  /\ sweep' = hub
  /\ UNCHANGED <<now, end, state, holds, hub, told, workers, closed, history>>

CloseStream(s) ==
  /\ phase = "closing"
  /\ s \in hub
  /\ told' = told \cup {s}
  /\ hub' = hub \ {s}
  /\ UNCHANGED <<server, state, holds, sweep, workers, closed, history>>

\* Mutant: phase 2 may use up the whole budget.
StreamsClosedAllTime ==
  /\ phase = "closing"
  /\ sweep \cap hub = {}
  /\ phase' = "draining"
  /\ end' = now + Budget
  /\ UNCHANGED <<now, state, holds, streams, workers, closed, history>>

\* Range has come to every stream it began with; of one registered since it
\* may have come to some.
StreamsClosed ==
  /\ phase = "closing"
  /\ sweep \cap hub = {}
  /\ phase' = "draining"
  /\ end' = now + HttpTimeout
  /\ UNCHANGED <<now, state, holds, streams, workers, closed, history>>

HttpWork == Running \cap Request

\* Mutant: Server.Shutdown gets a context that is never done.
DrainedAtLeisure ==
  /\ phase = "draining"
  /\ HttpWork = {}
  /\ phase' = "stopping"
  /\ end' = now + WorkerTimeout
  /\ waiting' = Worker
  /\ UNCHANGED <<now, state, holds, streams, asynq, asynqEnd, closed, history>>

Drained ==
  /\ phase = "draining"
  /\ HttpWork = {} \/ now >= end
  /\ phase' = "stopping"
  /\ end' = now + WorkerTimeout
  /\ waiting' = Worker
  /\ overdue' = overdue \cup HttpWork
  /\ UNCHANGED <<now, state, holds, streams, asynq, asynqEnd, closed, abandoned>>

-----------------------------------------------------------------------------
(* Phase 3, and Asynq's server.                                              *)

RiverStops ==
  /\ "river" \in waiting
  /\ Running \cap Job = {} \/ now >= end
  /\ waiting' = waiting \ {"river"}
  /\ overdue' = overdue \cup (Running \cap Job)
  /\ UNCHANGED <<server, state, holds, streams, asynq, asynqEnd, closed, abandoned>>

\* Whoever comes first, the coordinator or the server's own signal handler,
\* shuts the server down and waits for its tasks.
AsynqShutsDown(caller) ==
  /\ asynq = "running"
  /\ asynq' = caller
  /\ asynqEnd' = now + AsynqTimeout
  /\ UNCHANGED <<server, state, holds, streams, waiting, closed, history>>

ShutdownAsynq == "asynq" \in waiting /\ AsynqShutsDown("called")

AsynqHearsSignal == phase \notin {"serving", "exited"} /\ AsynqShutsDown("own")

\* Tasks that still run go back to the queue and run on.
AsynqStops ==
  /\ asynq \in {"own", "called"}
  /\ Running \cap Task = {} \/ now >= asynqEnd
  /\ asynq' = "stopped"
  /\ overdue' = overdue \cup (Running \cap Task)
  /\ UNCHANGED <<server, state, holds, streams, waiting, asynqEnd, closed, abandoned>>

\* The coordinator's call returns: its work is done, or was another's.
ShutdownAsynqReturns ==
  /\ "asynq" \in waiting
  /\ asynq \in {"own", "stopped"}
  /\ waiting' = waiting \ {"asynq"}
  /\ abandoned' = abandoned \cup (IF asynq = "own" THEN Running \cap Task ELSE {})
  /\ UNCHANGED <<server, state, holds, streams, asynq, asynqEnd, closed, overdue>>

\* Mutant: nobody waits for the wait group.
WorkersStoppedUnwaited ==
  /\ phase = "stopping"
  /\ phase' = "flushing"
  /\ end' = now + FlushTimeout
  /\ waiting' = {}
  /\ UNCHANGED <<now, state, holds, streams, asynq, asynqEnd, closed, history>>

WorkersStopped ==
  /\ phase = "stopping"
  /\ waiting = {}
  /\ phase' = "flushing"
  /\ end' = now + FlushTimeout
  /\ UNCHANGED <<now, state, holds, streams, workers, closed, history>>

-----------------------------------------------------------------------------
(* Phases 4 and 5.                                                           *)

Flushed ==
  /\ phase = "flushing"
  /\ phase' = "releasing"
  /\ UNCHANGED <<now, end, state, holds, streams, workers, closed, history>>

CloseHandle(h) ==
  /\ phase = "releasing"
  /\ h \notin closed
  /\ h = "pool" => Handle \ {"pool"} \subseteq closed
  /\ closed' = closed \cup {h}
  /\ UNCHANGED <<server, state, holds, streams, workers, history>>

\* Pool.Close returns, and main after it.
Exit ==
  /\ phase = "releasing"
  /\ closed = Handle /\ holds = {}
  /\ phase' = "exited"
  /\ state' = [w \in Work |-> IF w \in Running THEN "cut" ELSE state[w]]
  /\ hub' = {}
  /\ UNCHANGED <<now, end, holds, sweep, told, workers, closed, history>>

\* Time passes while the coordinator waits for something.
Waits ==
  \/ phase \in {"unready", "draining", "flushing"} /\ now < end
  \/ /\ phase = "stopping" /\ waiting # {}
     /\ "river" \in waiting => now < end
     /\ "asynq" \in waiting => asynq = "called"
  \/ phase = "releasing" /\ closed = Handle /\ holds # {}

Tick ==
  /\ Waits
  /\ asynq \in {"own", "called"} => now < asynqEnd
  /\ now < MaxTime
  /\ now' = now + 1
  /\ UNCHANGED <<phase, end, state, holds, streams, workers, closed, history>>

-----------------------------------------------------------------------------
WorkStep(w) ==
  Begin(w) \/ Acquire(w) \/ Release(w) \/ Finish(w) \/ FindsClosed(w)

Coordinator ==
  \/ StartClosing \/ (\E s \in Request : CloseStream(s)) \/ StreamsClosed \/ Drained
  \/ RiverStops \/ ShutdownAsynq \/ ShutdownAsynqReturns \/ WorkersStopped
  \/ Flushed \/ (\E h \in Handle : CloseHandle(h)) \/ Exit

Next ==
  \/ \E w \in Work : WorkStep(w)
  \/ \E s \in Request : Register(s)
  \/ Signal \/ Coordinator
  \/ AsynqHearsSignal \/ AsynqStops
  \/ Tick

Spec == Init /\ [][Next]_vars

\* The coordinator and Asynq's server go on, time passes, and a connection
\* that is taken is returned.  No work need ever end.
Fairness ==
  /\ WF_vars(Coordinator) /\ WF_vars(AsynqStops) /\ WF_vars(Tick)
  /\ \A w \in Work : WF_vars(Release(w) /\ "pool" \in closed)

FairSpec == Spec /\ Fairness

-----------------------------------------------------------------------------
(* Properties.                                                               *)

\* "Wait for active jobs to complete": work is cut short, by a closed handle
\* or the end of the process, only if its timeout was over, or if it is a task
\* whose server had heard the signal before the coordinator came to it.
NothingCutShort ==
  \A w \in Work : state[w] = "cut" => w \in overdue \cup abandoned

\* "A strict 25-second budget": the timeouts add up to less, and only work
\* that outlived its own keeps the process longer, by holding a connection.
WithinBudget == now > Budget => overdue # {}

\* The process exits whatever the work does, as long as connections come back.
Exits == phase = "unready" ~> phase = "exited"
=============================================================================
