------------------------------ MODULE Resilience ------------------------------
(***************************************************************************)
(* Calls of an upstream service through a circuit breaker and a retry      *)
(* policy, which all callers share.  The policy a program names first is   *)
(* the outer one: a retry policy around the breaker asks the breaker       *)
(* before each attempt; a breaker around the retry policy is asked once a  *)
(* call, and hears of its last attempt only.                               *)
(*                                                                         *)
(* failsafe-go is external: a closed breaker opens after FailureThreshold  *)
(* failures in a row; an open one refuses calls until its delay has passed *)
(* and the next call finds it half open; a half open one gives out as many *)
(* permits as results decide what it becomes.  A result is recorded in the *)
(* state the breaker has by then, not the one that let the call through.   *)
(***************************************************************************)
EXTENDS Integers

CONSTANTS
  Caller,     \* goroutines that call the service again and again
  Policies,   \* what the constructors may be given
  RetriesRateLimits,  \* failsafehttp's builder adds 429 to what is retried
  MaxFaults   \* bound: outages begun and calls given up

ASSUME PoliciesAssumption ==
  \A p \in Policies :
    /\ p.outer \in {"retry", "breaker"}
    /\ p.failureThreshold \in Nat \ {0}
    /\ p.successThreshold \in Nat   \* 0: the breaker uses failureThreshold
    /\ p.maxRetries \in Nat
ASSUME RateLimitsAssumption == RetriesRateLimits \in BOOLEAN
ASSUME FaultsAssumption == MaxFaults \in Nat

VARIABLES
  policy,     \* the policies of this program
  state,      \* the breaker: "closed", "open" or "halfOpen"
  streak,     \* results in a row towards leaving a closed or half open state
  permits,    \* calls a half open breaker would still let through
  delayed,    \* the delay of an open breaker has passed
  at,         \* at[c]: where c's call is
  tries,      \* tries[c]: retries the call has made
  outcome,    \* outcome[c]: of its last attempt
  sent,       \* sent[c]: attempts that reached the upstream
  upstream,   \* "up" or "down"
  faults,     \* outages begun and calls given up so far
  failures    \* history: attempts that failed or were given up, counted up to
              \* the failure threshold

breaker == <<state, streak, permits, delayed>>
call == <<at, tries, outcome, sent>>
world == <<upstream, faults, failures>>
resilienceVars == <<policy, breaker, call, world>>

ResilienceInit ==
  /\ policy \in Policies
  /\ state = "closed" /\ streak = 0 /\ permits = 0 /\ delayed = FALSE
  /\ at = [c \in Caller |-> "idle"]
  /\ tries = [c \in Caller |-> 0]
  /\ outcome = [c \in Caller |-> "none"]
  /\ sent = [c \in Caller |-> 0]
  /\ upstream = "up" /\ faults = 0 /\ failures = 0

Enter(c, next) == at' = [at EXCEPT ![c] = next]

\* Failures in a row that open a closed breaker, and retries of one call.
FailureThreshold == policy.failureThreshold
MaxRetries == policy.maxRetries

\* The history; its bound loses nothing the properties ask.
NoteFailure ==
  failures' = IF failures < FailureThreshold THEN failures + 1 ELSE failures

-----------------------------------------------------------------------------
\* Mutant: 429 trips the breaker.
HTTPCircuitBreakerPredicateTrips(o) == o \in {"failed", "givenUp", "rateLimited"}
\* What counts as a failure: errors, those of a cancelled call included, and
\* responses from 500 on.  A 429, like any other answer, is a success.
HTTPCircuitBreakerPredicate(o) == o \in {"failed", "givenUp"}

\* What is worth a retry: every error, the breaker's own included, and
\* responses from 500 on.
HTTPRetryPredicate(o) == o \in {"failed", "givenUp", "refused"}
\* What failsafe-go does retry: not a call whose context has ended.
Retried(o) ==
  /\ HTTPRetryPredicate(o) \/ (RetriesRateLimits /\ o = "rateLimited")
  /\ o # "givenUp"

\* Permits of a half open breaker, and results that make it open or close.
Trials == IF policy.successThreshold > 0 THEN policy.successThreshold
          ELSE FailureThreshold

Become(next) ==
  /\ state' = next /\ streak' = 0 /\ delayed' = FALSE
  /\ UNCHANGED permits

\* One more result towards leaving the state, and the permit given back.
Count(n) ==
  /\ streak' = n
  /\ permits' = IF state = "halfOpen" THEN permits + 1 ELSE permits
  /\ UNCHANGED <<state, delayed>>

RecordFailure ==
  \/ /\ state = "closed"
     /\ IF streak + 1 >= FailureThreshold THEN Become("open") ELSE Count(streak + 1)
  \/ /\ state = "halfOpen"
     /\ IF policy.successThreshold > 0 \/ streak + 1 >= Trials
        THEN Become("open") ELSE Count(streak + 1)
  \/ state = "open" /\ UNCHANGED breaker

RecordSuccess ==
  \/ state = "closed" /\ Count(0)
  \/ /\ state = "halfOpen"
     /\ IF policy.successThreshold = 0 \/ streak + 1 >= Trials
        THEN Become("closed") ELSE Count(streak + 1)
  \/ state = "open" /\ UNCHANGED breaker

-----------------------------------------------------------------------------
\* A program executes the policies: Execute, or a request through the round
\* tripper.
Call(c) ==
  /\ at[c] \in {"idle", "returned"}
  /\ Enter(c, "acquire")
  /\ tries' = [tries EXCEPT ![c] = 0]
  /\ outcome' = [outcome EXCEPT ![c] = "none"]
  /\ sent' = [sent EXCEPT ![c] = 0]
  /\ UNCHANGED <<policy, breaker, world>>

\* The breaker lets the call through ...
Acquire(c) ==
  /\ at[c] = "acquire"
  /\ \/ state = "closed" /\ UNCHANGED breaker
     \/ /\ state = "open" /\ delayed
        /\ state' = "halfOpen" /\ streak' = 0 /\ permits' = Trials - 1
        /\ UNCHANGED delayed
     \/ /\ state = "halfOpen" /\ permits > 0
        /\ permits' = permits - 1
        /\ UNCHANGED <<state, streak, delayed>>
  /\ Enter(c, "send")
  /\ UNCHANGED <<policy, tries, outcome, sent, world>>

\* ... or refuses it with ErrCircuitOpen.
Refuse(c) ==
  /\ at[c] = "acquire"
  /\ (state = "open" /\ ~delayed) \/ (state = "halfOpen" /\ permits = 0)
  /\ outcome' = [outcome EXCEPT ![c] = "refused"]
  /\ Enter(c, IF policy.outer = "retry" THEN "decide" ELSE "returned")
  /\ UNCHANGED <<policy, breaker, tries, sent, world>>

Send(c) ==
  /\ at[c] = "send"
  /\ sent' = [sent EXCEPT ![c] = @ + 1]
  /\ Enter(c, "waiting")
  /\ UNCHANGED <<policy, breaker, tries, outcome, world>>

\* An attempt is over: the inner policy hears of it first.
AfterAttempt(c) == Enter(c, IF policy.outer = "retry" THEN "record" ELSE "decide")

\* The upstream answers, rate limits, or fails; a transport error is a failure.
Respond(c) ==
  /\ at[c] = "waiting"
  /\ \E o \in IF upstream = "up" THEN {"answered", "rateLimited"} ELSE {"failed"} :
       /\ outcome' = [outcome EXCEPT ![c] = o]
       /\ IF o = "failed" THEN NoteFailure ELSE UNCHANGED failures
  /\ AfterAttempt(c)
  /\ UNCHANGED <<policy, breaker, tries, sent, upstream, faults>>

\* Mutant: a call that is given up is not recorded.
GiveUpUnrecorded(c) ==
  /\ at[c] \in {"waiting", "backoff"} /\ faults < MaxFaults
  /\ faults' = faults + 1 /\ NoteFailure
  /\ outcome' = [outcome EXCEPT ![c] = "givenUp"]
  /\ Enter(c, "returned")
  /\ UNCHANGED <<policy, breaker, tries, sent, upstream>>

\* The context of the call ends: while it waits for an answer, which the
\* breaker takes for a failure; or between two attempts, where a breaker
\* outside hears of it and one inside does not.
GiveUp(c) ==
  /\ at[c] \in {"waiting", "backoff"} /\ faults < MaxFaults
  /\ faults' = faults + 1 /\ NoteFailure
  /\ outcome' = [outcome EXCEPT ![c] = "givenUp"]
  /\ IF at[c] = "waiting" THEN AfterAttempt(c)
     ELSE Enter(c, IF policy.outer = "retry" THEN "returned" ELSE "record")
  /\ UNCHANGED <<policy, breaker, tries, sent, upstream>>

\* The breaker records the outcome of what it let through.
Record(c) ==
  /\ at[c] = "record"
  /\ IF HTTPCircuitBreakerPredicate(outcome[c]) THEN RecordFailure ELSE RecordSuccess
  /\ Enter(c, IF policy.outer = "retry" THEN "decide" ELSE "returned")
  /\ UNCHANGED <<policy, tries, outcome, sent, world>>

\* Mutant: one attempt too many.
DecideOnceMore(c) ==
  /\ at[c] = "decide"
  /\ IF Retried(outcome[c]) /\ tries[c] <= MaxRetries
     THEN Enter(c, "backoff")
     ELSE Enter(c, IF policy.outer = "retry" THEN "returned" ELSE "record")
  /\ UNCHANGED <<policy, breaker, tries, outcome, sent, world>>

\* The retry policy tries again, or returns the last outcome as it is
\* (ReturnLastFailure).
Decide(c) ==
  /\ at[c] = "decide"
  /\ IF Retried(outcome[c]) /\ tries[c] < MaxRetries
     THEN Enter(c, "backoff")
     ELSE Enter(c, IF policy.outer = "retry" THEN "returned" ELSE "record")
  /\ UNCHANGED <<policy, breaker, tries, outcome, sent, world>>

\* The backoff is over.
Retry(c) ==
  /\ at[c] = "backoff"
  /\ tries' = [tries EXCEPT ![c] = @ + 1]
  /\ Enter(c, IF policy.outer = "retry" THEN "acquire" ELSE "send")
  /\ UNCHANGED <<policy, breaker, outcome, sent, world>>

DelayPasses ==
  /\ state = "open" /\ ~delayed
  /\ delayed' = TRUE
  /\ UNCHANGED <<policy, state, streak, permits, call, world>>

UpstreamFails ==
  /\ upstream = "up" /\ faults < MaxFaults
  /\ upstream' = "down" /\ faults' = faults + 1
  /\ UNCHANGED <<policy, breaker, call, failures>>

UpstreamReturns ==
  /\ upstream = "down"
  /\ upstream' = "up"
  /\ UNCHANGED <<policy, breaker, call, faults, failures>>

Execute(c) ==
  \/ Acquire(c) \/ Refuse(c) \/ Send(c) \/ Respond(c)
  \/ Record(c) \/ Decide(c) \/ Retry(c)

ResilienceNext ==
  \/ \E c \in Caller : Call(c) \/ Execute(c) \/ GiveUp(c)
  \/ DelayPasses \/ UpstreamFails \/ UpstreamReturns

ResilienceSpec == ResilienceInit /\ [][ResilienceNext]_resilienceVars

\* Calls keep coming and go on, the upstream answers in the end, time passes;
\* nothing is assumed of outages.
FairResilience ==
  /\ ResilienceSpec
  /\ \A c \in Caller : WF_resilienceVars(Call(c) \/ Execute(c))
  /\ WF_resilienceVars(DelayPasses)

-----------------------------------------------------------------------------
TypeOK ==
  /\ policy \in Policies
  /\ state \in {"closed", "open", "halfOpen"}
  /\ streak \in Nat /\ permits \in Nat /\ delayed \in BOOLEAN
  /\ at \in [Caller -> {"idle", "acquire", "send", "waiting", "record",
                        "decide", "backoff", "returned"}]
  /\ tries \in [Caller -> 0 .. MaxRetries]
  /\ outcome \in [Caller -> {"none", "answered", "rateLimited", "failed",
                             "givenUp", "refused"}]
  /\ sent \in [Caller -> Nat]
  /\ upstream \in {"up", "down"} /\ faults \in 0 .. MaxFaults /\ failures \in Nat

\* Rate limits and refused requests never trip the breaker: it is not closed
\* only if as many attempts have failed, or been given up, as its threshold
\* says.
OpensOnFailuresOnly == state # "closed" => failures >= FailureThreshold

\* What a call returns is so.  It has made at most maxRetries + 1 attempts; a
\* failure comes back only when all retries are used up; ErrCircuitOpen from
\* an outer breaker says that nothing was sent (from an inner one it does
\* not: the attempt before may have been).
ReturnsTruthfully ==
  \A c \in Caller : at[c] = "returned" =>
    /\ sent[c] <= MaxRetries + 1
    /\ outcome[c] \in {"answered", "failed"} => sent[c] > 0
    /\ outcome[c] = "failed" => tries[c] = MaxRetries
    /\ outcome[c] = "refused" =>
         IF policy.outer = "breaker" THEN sent[c] = 0 ELSE tries[c] = MaxRetries

\* When the upstream is up for good the breaker closes and stays closed: no
\* permit is lost, whichever way a call ends, and no late result of the outage
\* opens the breaker for ever.
Recovers == <>[](upstream = "up") => <>[](state = "closed")
=============================================================================
