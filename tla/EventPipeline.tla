---------------------------- MODULE EventPipeline ----------------------------
(***************************************************************************)
(* The way of a domain event from its committed River job to a handler:    *)
(* OutboxRelayWorker publishes it to a Redis stream, a subscriber of the   *)
(* consumer group delivers it, and the middlewares that                    *)
(* ConfigureSubscriberRouter installs run the handler: idempotency         *)
(* outermost, then Retry, then PoisonQueue around the handler.             *)
(*                                                                         *)
(* River, Redis Streams and the watermill router are external.  River runs *)
(* a job until it succeeds or its attempts are spent.  The stream keeps an *)
(* entry in the group's pending list until it is acknowledged; a pending   *)
(* entry idle for MaxIdleTime may be claimed, be its reader dead or slow.  *)
(* An entry whose handler returns an error is delivered again at once.     *)
(* Each event has a stream of its own, its topic being its type.           *)
(***************************************************************************)
EXTENDS Naturals

CONSTANTS
  Event,        \* domain events, each staged once and named by its ID
  Worker,       \* goroutines that run the handlers, in any process
  NoEvent,
  MaxAttempts,  \* attempts River gives a job
  MaxRetries,   \* MaxRetries of the Retry middleware
  FaultKinds,   \* the faults that may happen, a subset of AllFaults
  MaxFaults     \* bound: how many of them

\* The process of a relay or of a worker dies; a call of Redis fails, with or
\* without effect.
AllFaults == {"relay", "worker", "publish", "setnx", "poison"}

ASSUME NoEventAssumption == NoEvent \notin Event
ASSUME FaultsAssumption == FaultKinds \subseteq AllFaults
ASSUME BoundsAssumption ==
  MaxAttempts \in Nat \ {0} /\ MaxRetries \in Nat /\ MaxFaults \in Nat

VARIABLES
  job,       \* job[e]: the state of the event's River job
  attempts,  \* attempts[e]: attempts River has begun
  appended,  \* appended[e]: entries of the stream, one for each publication
  delivered, \* delivered[e]: entries of the stream that some worker has read
  pending,   \* entries read and not acknowledged: the group's pending list
  keys,      \* events whose idempotency key is in Redis
  pc,        \* pc[w]: where worker w is
  msg,       \* msg[w]: the entry that w has in hand
  tries,     \* tries[w]: retries of the Retry middleware so far
  handled,   \* handled[e]: times the handler returned without an error
  dead,      \* events in the dead letter stream
  struck,    \* history: events that a fault hit between key and outcome
  faults     \* history: faults so far

relayVars == <<job, attempts, appended>>
subscriberVars == <<delivered, pending, keys, pc, msg, tries, handled, dead, struck>>
vars == <<relayVars, subscriberVars, faults>>

Entry == [event : Event, copy : 1 .. MaxAttempts]
NoEntry == [event |-> NoEvent, copy |-> 0]
Executing == {"handling", "poisoning"}

TypeOK ==
  /\ job \in [Event -> {"available", "running", "published", "completed", "discarded"}]
  /\ attempts \in [Event -> 0 .. MaxAttempts]
  /\ appended \in [Event -> 0 .. MaxAttempts]
  /\ delivered \in [Event -> 0 .. MaxAttempts]
  /\ pending \subseteq Entry /\ keys \subseteq Event
  /\ pc \in [Worker -> {"idle", "checking", "acking"} \cup Executing]
  /\ msg \in [Worker -> Entry \cup {NoEntry}]
  /\ tries \in [Worker -> 0 .. MaxRetries]
  /\ handled \in [Event -> Nat]
  /\ dead \subseteq Event /\ struck \subseteq Event
  /\ faults \in 0 .. MaxFaults

Init ==
  /\ job = [e \in Event |-> "available"]
  /\ attempts = [e \in Event |-> 0]
  /\ appended = [e \in Event |-> 0]
  /\ delivered = [e \in Event |-> 0]
  /\ pending = {} /\ keys = {}
  /\ pc = [w \in Worker |-> "idle"]
  /\ msg = [w \in Worker |-> NoEntry]
  /\ tries = [w \in Worker |-> 0]
  /\ handled = [e \in Event |-> 0]
  /\ dead = {} /\ struck = {}
  /\ faults = 0

Fault(kind) == kind \in FaultKinds /\ faults < MaxFaults /\ faults' = faults + 1

-----------------------------------------------------------------------------
(* The relay: River, and the one call OutboxRelayWorker.Work makes.          *)

FetchJob(e) ==
  /\ job[e] = "available"
  /\ job' = [job EXCEPT ![e] = "running"]
  /\ attempts' = [attempts EXCEPT ![e] = @ + 1]
  /\ UNCHANGED <<appended, subscriberVars, faults>>

\* The message carries the event's ID, whichever attempt publishes it.
Publish(e) ==
  /\ job[e] = "running"
  /\ job' = [job EXCEPT ![e] = "published"]
  /\ appended' = [appended EXCEPT ![e] = @ + 1]
  /\ UNCHANGED <<attempts, subscriberVars, faults>>

AfterFailure(e) == IF attempts[e] < MaxAttempts THEN "available" ELSE "discarded"

\* Mutant: Work drops the error of Publish, and River takes the job for done.
PublishFailsUnheard(e) ==
  /\ job[e] = "running"
  /\ Fault("publish")
  /\ job' = [job EXCEPT ![e] = "completed"]
  /\ UNCHANGED <<attempts, appended, subscriberVars>>

\* Work returns Publish's error; the entry may be in the stream all the same.
PublishFails(e) ==
  /\ job[e] = "running"
  /\ Fault("publish")
  /\ job' = [job EXCEPT ![e] = AfterFailure(e)]
  /\ appended' \in {appended, [appended EXCEPT ![e] = @ + 1]}
  /\ UNCHANGED <<attempts, subscriberVars>>

CompleteJob(e) ==
  /\ job[e] = "published"
  /\ job' = [job EXCEPT ![e] = "completed"]
  /\ UNCHANGED <<attempts, appended, subscriberVars, faults>>

\* The process dies with the job in hand, and River rescues it.
RelayDies(e) ==
  /\ job[e] \in {"running", "published"}
  /\ Fault("relay")
  /\ job' = [job EXCEPT ![e] = AfterFailure(e)]
  /\ UNCHANGED <<attempts, appended, subscriberVars>>

-----------------------------------------------------------------------------
(* The subscriber.                                                           *)

Goto(w, place) == pc' = [pc EXCEPT ![w] = place]

Take(w, m) ==
  /\ pc[w] = "idle"
  /\ Goto(w, "checking")
  /\ msg' = [msg EXCEPT ![w] = m]
  /\ UNCHANGED <<keys, tries, handled, dead, struck, relayVars, faults>>

Deliver(w, e) ==
  /\ delivered[e] < appended[e]
  /\ delivered' = [delivered EXCEPT ![e] = @ + 1]
  /\ pending' = pending \cup {[event |-> e, copy |-> delivered[e] + 1]}
  /\ Take(w, [event |-> e, copy |-> delivered[e] + 1])

Claim(w, m) ==
  /\ m \in pending
  /\ Take(w, m)
  /\ UNCHANGED <<delivered, pending>>

Ack(w) ==
  /\ pc[w] = "acking"
  /\ pending' = pending \ {msg[w]}
  /\ msg' = [msg EXCEPT ![w] = NoEntry]
  /\ Goto(w, "idle")
  /\ UNCHANGED <<delivered, keys, tries, handled, dead, struck, relayVars, faults>>

\* The process of the worker dies, and another takes its place.
WorkerDies(w) ==
  /\ pc[w] # "idle"
  /\ Fault("worker")
  /\ struck' = IF pc[w] \in Executing THEN struck \cup {msg[w].event} ELSE struck
  /\ Goto(w, "idle")
  /\ msg' = [msg EXCEPT ![w] = NoEntry]
  /\ tries' = [tries EXCEPT ![w] = 0]
  /\ UNCHANGED <<delivered, pending, keys, handled, dead, relayVars>>

-----------------------------------------------------------------------------
(* The middlewares around the handler.  All messages of an event share one   *)
(* idempotency key.  Its 24 hours are taken to outlast every redelivery.     *)

\* Mutants: a GET, and a SET later, in the place of SETNX; a duplicate is an
\* error, so that it is delivered again.
CheckKeyInTwoCalls(w) ==
  /\ pc[w] = "checking"
  /\ Goto(w, "handling") \/ (msg[w].event \in keys /\ Goto(w, "acking"))
  /\ keys' = keys \cup {msg[w].event}
  /\ UNCHANGED <<delivered, pending, msg, tries, handled, dead, struck, relayVars, faults>>

CheckKeyRejects(w) ==
  /\ pc[w] = "checking"
  /\ Goto(w, IF msg[w].event \in keys THEN "checking" ELSE "handling")
  /\ keys' = keys \cup {msg[w].event}
  /\ UNCHANGED <<delivered, pending, msg, tries, handled, dead, struck, relayVars, faults>>

CheckKey(w) ==
  LET e == msg[w].event IN
  /\ pc[w] = "checking"
  /\ IF e \in keys
     THEN Goto(w, "acking")  \* taken for a duplicate
     ELSE Goto(w, "handling")
  /\ keys' = keys \cup {e}
  /\ UNCHANGED <<delivered, pending, msg, tries, handled, dead, struck, relayVars, faults>>

\* SETNX returns an error, with or without effect: the middleware returns it
\* too, and the entry is delivered again.
CheckKeyFails(w) ==
  LET e == msg[w].event IN
  /\ pc[w] = "checking"
  /\ Fault("setnx")
  /\ \/ UNCHANGED <<keys, struck>>
     \/ /\ e \notin keys
        /\ keys' = keys \cup {e}
        /\ struck' = struck \cup {e}
  /\ UNCHANGED <<delivered, pending, pc, msg, tries, handled, dead, relayVars>>

HandlerSucceeds(w) ==
  /\ pc[w] = "handling"
  /\ handled' = [handled EXCEPT ![msg[w].event] = @ + 1]
  /\ tries' = [tries EXCEPT ![w] = 0]
  /\ Goto(w, "acking")
  /\ UNCHANGED <<delivered, pending, keys, msg, dead, struck, relayVars, faults>>

HandlerFails(w) ==
  /\ pc[w] = "handling"
  /\ Goto(w, "poisoning")
  /\ UNCHANGED <<delivered, pending, keys, msg, tries, handled, dead, struck, relayVars, faults>>

\* Mutant: MaxRetries counts from one.
RetriesLeftOneMore(w) == tries[w] <= MaxRetries

RetriesLeft(w) == tries[w] < MaxRetries

\* PoisonQueue turns the failure into a success.
PoisonPublishes(w) ==
  /\ pc[w] = "poisoning"
  /\ dead' = dead \cup {msg[w].event}
  /\ tries' = [tries EXCEPT ![w] = 0]
  /\ Goto(w, "acking")
  /\ UNCHANGED <<delivered, pending, keys, msg, handled, struck, relayVars, faults>>

\* Only now does Retry see an error.  Once its retries are spent the entry is
\* delivered again, under a key that is taken.
PoisonFails(w) ==
  /\ pc[w] = "poisoning"
  /\ Fault("poison")
  /\ dead' \in {dead, dead \cup {msg[w].event}}
  /\ \/ /\ RetriesLeft(w)
        /\ tries' = [tries EXCEPT ![w] = @ + 1]
        /\ Goto(w, "handling")
        /\ UNCHANGED struck
     \/ /\ ~RetriesLeft(w)
        /\ tries' = [tries EXCEPT ![w] = 0]
        /\ struck' = struck \cup {msg[w].event}
        /\ Goto(w, "checking")
  /\ UNCHANGED <<delivered, pending, keys, msg, handled, relayVars>>

-----------------------------------------------------------------------------
RelayStep(e) == FetchJob(e) \/ Publish(e) \/ CompleteJob(e)

TakeOne ==
  \E w \in Worker :
    \/ \E e \in Event : Deliver(w, e)
    \/ \E m \in pending : Claim(w, m)

WorkerStep(w) ==
  \/ CheckKey(w)
  \/ HandlerSucceeds(w) \/ HandlerFails(w)
  \/ PoisonPublishes(w)
  \/ Ack(w)

FaultStep ==
  \/ \E e \in Event : PublishFails(e) \/ RelayDies(e)
  \/ \E w \in Worker : CheckKeyFails(w) \/ PoisonFails(w) \/ WorkerDies(w)

Next ==
  \/ \E e \in Event : RelayStep(e)
  \/ TakeOne
  \/ \E w \in Worker : WorkerStep(w)
  \/ FaultStep

Spec == Init /\ [][Next]_vars

\* River fetches and rescues jobs, subscribers read and claim, and code that
\* runs comes to its next statement.  Faults need not happen.
Fairness ==
  /\ \A e \in Event : WF_vars(RelayStep(e))
  /\ WF_vars(TakeOne)
  /\ \A w \in Worker : WF_vars(WorkerStep(w))

FairSpec == Spec /\ Fairness

-----------------------------------------------------------------------------
(* Properties.                                                               *)

\* However often an event is published, delivered and claimed, its handler
\* returns success at most once, no two workers are in it at a time, and none
\* enters it again after that (IdempotencyMiddleware).
HandledAtMostOnce ==
  \A w \in Worker :
    pc[w] \in Executing =>
      /\ handled[msg[w].event] = 0
      /\ \A other \in Worker :
           pc[other] \in Executing /\ msg[other].event = msg[w].event => other = w

\* Every committed event comes to an end: handled or among the dead letters,
\* unless River gave its job up or a fault hit a worker between the key's
\* being set and the handler's outcome.  Lost replies and crashes anywhere
\* else, in the relay or around the handler, lose nothing.
Settled(e) == handled[e] > 0 \/ e \in dead
SettledUnlessStruck ==
  \A e \in Event : <>(Settled(e) \/ e \in struck \/ job[e] = "discarded")

\* No entry stays in the pending list for ever: abandoned ones are claimed, and
\* duplicates are acknowledged (ClaimInterval; "return nil, nil").
PendingDrains == \A m \in Entry : m \in pending ~> m \notin pending

\* "Scans PEL for abandoned messages from crashed workers": the crash of a
\* worker costs no event that is in the stream its outcome.
CrashLosesNothing == \A e \in Event : appended[e] > 0 ~> Settled(e)
=============================================================================
