--------------------------- MODULE PlatformProofs ---------------------------
(***************************************************************************)
(* Theorems about two libraries of the platform that share no state: the   *)
(* two-tier cache, for any nodes, fetches and writers, and the resilience  *)
(* policies, for any callers and any policies their assumptions allow.     *)
(***************************************************************************)
EXTENDS CacheEngine, Resilience, FiniteSetTheorems, TLAPS

(***************************************************************************)
(* The cache engine.  Its invariant is inductive with the types alone.     *)
(***************************************************************************)

\* The types of the variables.
CacheShape ==
  /\ data \in Nat
  /\ entry \in [Place -> Nat]
  /\ flight \in [Node -> Fetch \cup {NoFetch}]
  /\ inbox \in [Node -> SUBSET Writer]
  /\ pc \in [Fetch \cup Writer -> FetchPc \cup WriterPc]
  /\ \A w \in Writer : pc[w] \in WriterPc
  /\ val \in [Fetch -> Nat]
  /\ excused \subseteq Place

CacheInv == CacheShape /\ StaleHasCause /\ OneComputation

LEMMA CacheInitEstablishes == Init => CacheInv
<1> SUFFICES ASSUME Init PROVE CacheInv
  OBVIOUS
<1>1. CacheShape
  <2>1. pc \in [Fetch \cup Writer -> FetchPc \cup WriterPc]
        /\ \A w \in Writer : pc[w] \in WriterPc
    BY FetchAssumption DEF Init, FetchPc, WriterPc
  <2>2. inbox \in [Node -> SUBSET Writer] /\ flight \in [Node -> Fetch \cup {NoFetch}]
    BY DEF Init
  <2>3. data \in Nat /\ entry \in [Place -> Nat] /\ val \in [Fetch -> Nat] /\ excused \subseteq Place
    BY DEF Init, Absent
  <2> QED
    BY <2>1, <2>2, <2>3 DEF CacheShape
<1>2. StaleHasCause
  BY DEF Init, StaleHasCause, Stale
<1>3. OneComputation
  BY DEF Init, OneComputation, Computing
<1> QED
  BY <1>1, <1>2, <1>3 DEF CacheInv

\* Steps that leave the data, the inboxes and the writers alone, and store or
\* remove an entry at one place at most.
LEMMA FetchStaleHasCause ==
  ASSUME CacheShape, CacheShape', StaleHasCause, UNCHANGED <<data, inbox>>,
         \A w \in Writer : pc'[w] = pc[w],
         \/ UNCHANGED <<entry, excused>>
         \/ \E x \in Place : Remove(x) \/ \E v \in Nat : Store(x, v)
  PROVE  StaleHasCause'
<1> SUFFICES ASSUME NEW x \in Place, Stale(x)', x \notin excused'
             PROVE  \E w \in Writer : Coming(w, x)'
  BY DEF StaleHasCause
<1>1. Stale(x) /\ x \notin excused
  BY DEF Stale, Store, Remove, CacheShape, Absent
<1>2. PICK w \in Writer : Coming(w, x)
  BY <1>1 DEF StaleHasCause
<1>3. Coming(w, x)'
  BY <1>2 DEF Coming
<1> QED
  BY <1>3

LEMMA FetchPreserves ==
  ASSUME CacheInv, NEW p \in Fetch, MissL1(p) \/ FetchStep(p)
  PROVE  CacheInv'
<1> USE NodeAssumption, FetchAssumption
<1>0. NodeOf[p] \in Node /\ NodeOf[p] \in Place /\ L2 \in Place /\ val[p] \in Nat
  BY DEF Place, CacheInv, CacheShape
<1>1. CacheShape'
  <2> USE <1>0 DEF CacheInv, CacheShape, Goto, Land, Store, Absent, FetchPc, WriterPc
  <2>1. CASE MissL1(p) \/ HitL2(p) \/ MissL2(p)
    BY <2>1 DEF MissL1, HitL2, MissL2
  <2>2. CASE FillL1(p)
    BY <2>2 DEF FillL1
  <2>3. CASE Join(p)
    BY <2>3 DEF Join
  <2>4. CASE Compute(p) \/ ComputeFails(p)
    BY <2>4 DEF Compute, ComputeFails
  <2>5. CASE StoreL2(p)
    BY <2>5 DEF StoreL2
  <2>6. CASE StoreL1(p)
    BY <2>6 DEF StoreL1
  <2> QED
    BY <2>1, <2>2, <2>3, <2>4, <2>5, <2>6 DEF FetchStep
<1>2. StaleHasCause'
  <2>1. UNCHANGED <<data, inbox>>
    BY DEF FetchStep, MissL1, HitL2, MissL2, FillL1, Join, Compute, ComputeFails, StoreL2, StoreL1
  <2>2. \A w \in Writer : pc'[w] = pc[w]
    <3>1. Land(p) \/ \E place : Goto(p, place)
      BY DEF FetchStep, MissL1, HitL2, MissL2, FillL1, Join, Compute, ComputeFails, StoreL2, StoreL1
    <3>2. \A w \in Writer : w # p /\ pc[w] # "wait" /\ w \in DOMAIN pc
      BY DEF CacheInv, CacheShape, WriterPc
    <3> QED
      BY <3>1, <3>2 DEF Goto, Land
  <2>3. \/ UNCHANGED <<entry, excused>>
        \/ \E x \in Place : \E v \in Nat : Store(x, v)
    BY <1>0 DEF FetchStep, MissL1, HitL2, MissL2, FillL1, Join, Compute, ComputeFails, StoreL2, StoreL1
  <2> QED
    BY <1>1, <2>1, <2>2, <2>3, FetchStaleHasCause DEF CacheInv
<1>3. OneComputation'
  <2> USE <1>0 DEF CacheInv, CacheShape, Goto, Land, OneComputation, Computing
  <2>1. CASE MissL1(p) \/ HitL2(p) \/ MissL2(p) \/ FillL1(p)
    BY <2>1 DEF MissL1, HitL2, MissL2, FillL1
  <2>2. CASE Join(p)
    BY <2>2 DEF Join
  <2>3. CASE Compute(p) \/ StoreL2(p)
    BY <2>3 DEF Compute, StoreL2
  <2>4. CASE ComputeFails(p) \/ StoreL1(p)
    BY <2>4 DEF ComputeFails, StoreL1
  <2> QED
    BY <2>1, <2>2, <2>3, <2>4 DEF FetchStep
<1> QED
  BY <1>1, <1>2, <1>3 DEF CacheInv

\* The writers, the messages and the clock.
Others ==
  \/ \E w \in Writer : UpdateData(w) \/ Invalidate(w)
  \/ \E n \in Node, w \in Writer : Receive(n, w)
  \/ \E x \in Place : Expire(x)

LEMMA OthersShape ==
  ASSUME CacheShape, Others
  PROVE  CacheShape'
<1> USE NodeAssumption, FetchAssumption DEF CacheShape, Goto, Remove, Absent, Place, FetchPc, WriterPc
<1>1. CASE \E w \in Writer : UpdateData(w)
  BY <1>1 DEF UpdateData
<1>2. CASE \E w \in Writer : ClearL1(w)
  BY <1>2 DEF ClearL1
<1>3. CASE \E w \in Writer : DelL2(w) \/ DelFails(w)
  BY <1>3 DEF DelL2, DelFails
<1>4. CASE \E w \in Writer : Publish(w)
  BY <1>4 DEF Publish
<1>5. CASE \E n \in Node, w \in Writer : Receive(n, w)
  BY <1>5 DEF Receive
<1>6. CASE \E x \in Place : Expire(x)
  BY <1>6 DEF Expire
<1> QED
  BY <1>1, <1>2, <1>3, <1>4, <1>5, <1>6 DEF Others, Invalidate

\* An invalidation that has not come to x is still coming, has removed x's
\* entry, or has excused it.
LEMMA OthersStaleHasCause ==
  ASSUME CacheShape, StaleHasCause, Others
  PROVE  StaleHasCause'
<1> SUFFICES ASSUME NEW x \in Place, Stale(x)', x \notin excused'
             PROVE  \E w \in Writer : Coming(w, x)'
  BY DEF StaleHasCause
<1> USE NodeAssumption, FetchAssumption DEF CacheShape, Goto, Remove, Absent, Place, Stale, Coming
<1>1. CASE \E w \in Writer : UpdateData(w)
  BY <1>1 DEF UpdateData
<1>2. ASSUME ~ \E w \in Writer : UpdateData(w)
      PROVE  \E w \in Writer : Coming(w, x)'
  <2>1. Stale(x) /\ x \notin excused
    BY <1>2 DEF Others, Invalidate, ClearL1, DelL2, DelFails, Publish, Receive, Expire
  <2>2. PICK w \in Writer : Coming(w, x)
    BY <2>1 DEF StaleHasCause
  <2>3. CASE \E u \in Writer : ClearL1(u)
    BY <2>2, <2>3 DEF ClearL1
  <2>4. CASE \E u \in Writer : DelL2(u)
    BY <2>2, <2>4 DEF DelL2
  <2>5. CASE \E u \in Writer : DelFails(u)
    BY <2>2, <2>5 DEF DelFails
  <2>6. CASE \E u \in Writer : Publish(u)
    BY <2>2, <2>6 DEF Publish
  <2>7. CASE \E n \in Node, u \in Writer : Receive(n, u)
    BY <2>2, <2>7 DEF Receive, Foreign
  <2>8. CASE \E y \in Place : Expire(y)
    BY <2>2, <2>8 DEF Expire
  <2> QED
    BY <1>2, <2>3, <2>4, <2>5, <2>6, <2>7, <2>8 DEF Others, Invalidate
<1> QED
  BY <1>1, <1>2

LEMMA OthersPreserve ==
  ASSUME CacheInv, Others
  PROVE  CacheInv'
<1>1. CacheShape' /\ StaleHasCause'
  BY OthersShape, OthersStaleHasCause DEF CacheInv
<1>2. UNCHANGED flight /\ \A p \in Fetch : pc'[p] = pc[p]
  BY FetchAssumption DEF Others, UpdateData, Invalidate, ClearL1, DelL2, DelFails, Publish, Receive,
     Expire, Goto, CacheInv, CacheShape
<1>3. OneComputation'
  BY <1>2 DEF CacheInv, OneComputation
<1> QED
  BY <1>1, <1>3 DEF CacheInv

LEMMA StepPreserves == CacheInv /\ [Next]_vars => CacheInv'
<1> SUFFICES ASSUME CacheInv, [Next]_vars PROVE CacheInv'
  OBVIOUS
<1>1. CASE \E p \in Fetch : MissL1(p) \/ FetchStep(p)
  BY <1>1, FetchPreserves
<1>2. CASE Others
  BY <1>2, OthersPreserve
<1>3. CASE UNCHANGED vars
  BY <1>3 DEF vars, CacheInv, CacheShape, StaleHasCause, Stale, Coming, OneComputation
<1> QED
  BY <1>1, <1>2, <1>3 DEF Next, Others

LEMMA CacheInvariance == Spec => []CacheInv
  BY CacheInitEstablishes, StepPreserves, PTL DEF Spec

\* An old entry, in any tier of any node, was old when it was stored, or an
\* invalidation is on its way to it, or Redis failed or lost that invalidation.
THEOREM StaleHasCauseHolds == Spec => []StaleHasCause
<1>1. CacheInv => StaleHasCause
  BY DEF CacheInv
<1> QED
  BY <1>1, CacheInvariance, PTL

\* However many calls miss both tiers, a node runs one computation at a time.
THEOREM OneComputationHolds == Spec => []OneComputation
<1>1. CacheInv => OneComputation
  BY DEF CacheInv
<1> QED
  BY <1>1, CacheInvariance, PTL

(***************************************************************************)
(* The resilience policies.  The breaker's streak has to be related to     *)
(* the failures that came, those it has not heard of included, and the     *)
(* permits to the calls that hold one.                                     *)
(***************************************************************************)

\* Calls whose last attempt failed and was counted, and the breaker has yet to
\* hear of it.
Unrecorded ==
  {c \in Caller : /\ outcome[c] \in {"failed", "givenUp"}
                  /\ at[c] = "record" \/ (policy.outer = "breaker" /\ at[c] = "decide")}

\* The breaker counts each failure once: while fewer have come than its
\* threshold it is closed, and its streak and what it has yet to hear of do
\* not exceed them.
FailuresCounted ==
  /\ IsFiniteSet(Unrecorded)
  /\ failures >= FailureThreshold
     \/ (state = "closed" /\ streak + Cardinality(Unrecorded) <= failures)

\* Calls the breaker let through and has not heard of since.
InFlight ==
  {c \in Caller : \/ at[c] \in {"send", "waiting", "record"}
                  \/ policy.outer = "breaker" /\ at[c] \in {"decide", "backoff"}}

\* Every permit a half open breaker gave out is there or in flight, so that it
\* waits for no result that will not come.
NoPermitLost == state = "halfOpen" => permits + Cardinality(InFlight) >= Trials

\* A call in terms of what has come of its attempts.
CallSound(c) ==
  /\ sent[c] <= tries[c] + 1
  /\ at[c] \in {"acquire", "send"} => sent[c] <= tries[c]
  /\ at[c] = "backoff" => tries[c] < MaxRetries
  /\ at[c] = "waiting" \/ outcome[c] \in {"answered", "rateLimited", "failed"} => sent[c] > 0
  /\ /\ outcome[c] = "failed"
     /\ at[c] = "returned" \/ (at[c] = "record" /\ policy.outer = "breaker")
     => tries[c] = MaxRetries
  /\ policy.outer = "breaker" =>
       /\ at[c] = "acquire" => sent[c] = 0
       /\ outcome[c] = "refused" => at[c] = "returned" /\ sent[c] = 0
  /\ /\ policy.outer = "retry" /\ at[c] = "returned" /\ outcome[c] = "refused"
     => tries[c] = MaxRetries

ResilienceInv ==
  /\ TypeOK /\ FailuresCounted
  /\ IsFiniteSet(InFlight) /\ NoPermitLost
  /\ \A c \in Caller : CallSound(c)

LEMMA PolicyFacts ==
  ASSUME TypeOK
  PROVE  /\ FailureThreshold \in Nat \ {0} /\ MaxRetries \in Nat
         /\ policy.successThreshold \in Nat /\ Trials \in Nat \ {0}
         /\ policy.outer \in {"retry", "breaker"}
  BY PoliciesAssumption DEF TypeOK, FailureThreshold, MaxRetries, Trials

\* A step keeps the policies, and failures only grow in number.
LEMMA PolicyKept ==
  ASSUME TypeOK, [ResilienceNext]_resilienceVars
  PROVE  /\ policy' = policy /\ FailureThreshold' = FailureThreshold
         /\ MaxRetries' = MaxRetries /\ Trials' = Trials
         /\ failures' \in Nat /\ failures' >= failures
<1>1. policy' = policy
  BY DEF ResilienceNext, resilienceVars, Execute, Call, Acquire, Refuse, Send, Respond, Record,
         Decide, Retry, GiveUp, DelayPasses, UpstreamFails, UpstreamReturns
<1>2. failures' = failures \/ failures' = failures + 1
  BY DEF ResilienceNext, resilienceVars, Execute, Call, Acquire, Refuse, Send, Respond, Record,
         Decide, Retry, GiveUp, DelayPasses, UpstreamFails, UpstreamReturns, NoteFailure, world
<1>3. failures \in Nat
  BY DEF TypeOK
<1> QED
  BY <1>1, <1>2, <1>3 DEF FailureThreshold, MaxRetries, Trials

LEMMA ResilienceInitEstablishes == ResilienceInit => ResilienceInv
<1> SUFFICES ASSUME ResilienceInit PROVE ResilienceInv
  OBVIOUS
<1>1. TypeOK
  <2>1. MaxRetries \in Nat
    BY PoliciesAssumption DEF ResilienceInit, MaxRetries
  <2>2. 0 \in 0 .. MaxRetries /\ 0 \in 0 .. MaxFaults /\ 0 \in Nat
    BY <2>1, FaultsAssumption
  <2> QED
    BY <2>2, Zenon DEF ResilienceInit, TypeOK
<1>2. Unrecorded = {} /\ InFlight = {}
  BY DEF ResilienceInit, Unrecorded, InFlight
<1>3. FailuresCounted
  BY <1>2, FS_EmptySet DEF ResilienceInit, FailuresCounted
<1>4. IsFiniteSet(InFlight) /\ NoPermitLost
  BY <1>2, FS_EmptySet DEF ResilienceInit, NoPermitLost
<1>5. \A c \in Caller : CallSound(c)
  <2> SUFFICES ASSUME NEW c \in Caller PROVE CallSound(c)
    OBVIOUS
  <2>1. at[c] = "idle" /\ tries[c] = 0 /\ outcome[c] = "none" /\ sent[c] = 0
    BY DEF ResilienceInit
  <2>2. sent[c] <= tries[c] + 1
    BY <2>1
  <2> QED
    BY <2>1, <2>2 DEF CallSound
<1> QED
  BY <1>1, <1>3, <1>4, <1>5 DEF ResilienceInv

\* What recording a result does to the breaker.
LEMMA RecordType ==
  ASSUME TypeOK, RecordFailure \/ RecordSuccess
  PROVE  /\ state' \in {"closed", "open", "halfOpen"}
         /\ streak' \in Nat /\ permits' \in Nat /\ delayed' \in BOOLEAN
<1>1. streak \in Nat /\ streak + 1 \in Nat /\ permits \in Nat /\ permits + 1 \in Nat
  BY DEF TypeOK
<1>2. \/ \E next \in {"open", "closed"} : Become(next)
      \/ \E n \in {0, streak + 1} : Count(n)
      \/ UNCHANGED breaker
  BY DEF RecordFailure, RecordSuccess
<1>3. CASE \E next \in {"open", "closed"} : Become(next)
  <2>1. PICK next \in {"open", "closed"} : Become(next)
    BY <1>3
  <2>2. state' \in {"open", "closed"} /\ streak' = 0 /\ permits' = permits
    BY <2>1 DEF Become
  <2>3. delayed' \in BOOLEAN
    BY <2>1 DEF Become
  <2> QED
    BY <1>1, <2>2, <2>3
<1>4. CASE \E n \in {0, streak + 1} : Count(n)
  BY <1>1, <1>4 DEF Count, TypeOK
<1>5. CASE UNCHANGED breaker
  BY <1>5 DEF breaker, TypeOK
<1> QED
  BY <1>2, <1>3, <1>4, <1>5

LEMMA ResilienceTypeStep ==
  ASSUME TypeOK, \A c \in Caller : CallSound(c), [ResilienceNext]_resilienceVars
  PROVE  TypeOK'
<1> USE DEF TypeOK, Enter, call, world, breaker
<1>0. policy' = policy /\ MaxRetries' = MaxRetries /\ failures' \in Nat /\ MaxRetries \in Nat
  BY PolicyKept, PolicyFacts
<1>1. ASSUME NEW c \in Caller, Call(c) PROVE TypeOK'
  BY <1>0, <1>1 DEF Call
<1>2. ASSUME NEW c \in Caller, Acquire(c) PROVE TypeOK'
  <2>1. state' \in {"closed", "open", "halfOpen"} /\ streak' \in Nat /\ delayed' \in BOOLEAN
    BY <1>2 DEF Acquire
  <2>2. permits' \in Nat
    <3>1. Trials - 1 \in Nat
      BY PolicyFacts
    <3>2. permits' = permits \/ permits' = Trials - 1 \/ (permits > 0 /\ permits' = permits - 1)
      BY <1>2 DEF Acquire
    <3> QED
      BY <3>1, <3>2
  <2> QED
    BY <1>0, <1>2, <2>1, <2>2 DEF Acquire
<1>3. ASSUME NEW c \in Caller, Refuse(c) PROVE TypeOK'
  BY <1>0, <1>3 DEF Refuse
<1>4. ASSUME NEW c \in Caller, Send(c) PROVE TypeOK'
  BY <1>0, <1>4 DEF Send
<1>5. ASSUME NEW c \in Caller, Respond(c) PROVE TypeOK'
  BY <1>0, <1>5 DEF Respond, AfterAttempt
<1>6. ASSUME NEW c \in Caller, GiveUp(c) PROVE TypeOK'
  BY <1>0, <1>6, FaultsAssumption DEF GiveUp, AfterAttempt
<1>7. ASSUME NEW c \in Caller, Record(c) PROVE TypeOK'
  <2>1. /\ state' \in {"closed", "open", "halfOpen"}
        /\ streak' \in Nat /\ permits' \in Nat /\ delayed' \in BOOLEAN
    BY <1>7, RecordType DEF Record
  <2> QED
    BY <1>0, <1>7, <2>1 DEF Record
<1>8. ASSUME NEW c \in Caller, Decide(c) PROVE TypeOK'
  BY <1>0, <1>8 DEF Decide
<1>9. ASSUME NEW c \in Caller, Retry(c) PROVE TypeOK'
  <2>1. tries[c] + 1 \in 0 .. MaxRetries
    BY <1>0, <1>9 DEF Retry, CallSound
  <2> QED
    BY <1>0, <1>9, <2>1 DEF Retry
<1>10. CASE DelayPasses
  BY <1>0, <1>10, Zenon DEF DelayPasses
<1>12. CASE UpstreamFails \/ UpstreamReturns
  BY <1>0, <1>12, FaultsAssumption DEF UpstreamFails, UpstreamReturns
<1>11. CASE UNCHANGED resilienceVars
  BY <1>0, <1>11 DEF resilienceVars
<1> QED
  BY <1>1, <1>2, <1>3, <1>4, <1>5, <1>6, <1>7, <1>8, <1>9, <1>10, <1>11, <1>12
  DEF ResilienceNext, Execute

\* A caller's step is none of another's.
LEMMA CallersApart ==
  ASSUME TypeOK, NEW c \in Caller, Call(c) \/ Execute(c) \/ GiveUp(c),
         NEW d \in Caller, d # c
  PROVE  at'[d] = at[d] /\ tries'[d] = tries[d] /\ outcome'[d] = outcome[d] /\ sent'[d] = sent[d]
  BY DEF TypeOK, Execute, Call, Acquire, Refuse, Send, Respond, Record, Decide, Retry, GiveUp,
         AfterAttempt, Enter

LEMMA CallSoundStep ==
  ASSUME TypeOK, \A c \in Caller : CallSound(c), [ResilienceNext]_resilienceVars
  PROVE  \A c \in Caller : CallSound(c)'
<1>0. policy' = policy /\ MaxRetries' = MaxRetries /\ MaxRetries \in Nat
      /\ policy.outer \in {"retry", "breaker"}
  BY PolicyKept, PolicyFacts
<1>1. ASSUME NEW c \in Caller, UNCHANGED <<at[c], tries[c], outcome[c], sent[c]>>
      PROVE  CallSound(c)'
  BY <1>0, <1>1 DEF CallSound
<1>2. ASSUME NEW c \in Caller, Call(c) \/ Execute(c) \/ GiveUp(c)
      PROVE  CallSound(c)'
  <2> USE <1>0, <1>2 DEF CallSound, TypeOK, Enter
  <2>1. CASE Call(c)
    BY <2>1 DEF Call
  <2>2. CASE Acquire(c)
    BY <2>2 DEF Acquire
  <2>3. CASE Refuse(c)
    BY <2>3 DEF Refuse
  <2>4. CASE Send(c)
    BY <2>4 DEF Send
  <2>5. CASE Respond(c)
    BY <2>5 DEF Respond, AfterAttempt
  <2>6. CASE GiveUp(c)
    BY <2>6 DEF GiveUp, AfterAttempt
  <2>7. CASE Record(c)
    BY <2>7 DEF Record
  <2>8. CASE Decide(c)
    BY <2>8 DEF Decide, Retried, HTTPRetryPredicate
  <2>9. CASE Retry(c)
    BY <2>9 DEF Retry
  <2> QED
    BY <2>1, <2>2, <2>3, <2>4, <2>5, <2>6, <2>7, <2>8, <2>9 DEF Execute
<1>3. CASE \E c \in Caller : Call(c) \/ Execute(c) \/ GiveUp(c)
  BY <1>1, <1>2, <1>3, CallersApart
<1>4. CASE DelayPasses \/ UpstreamFails \/ UpstreamReturns \/ UNCHANGED resilienceVars
  BY <1>1, <1>4 DEF DelayPasses, UpstreamFails, UpstreamReturns, resilienceVars, call
<1> QED
  BY <1>3, <1>4 DEF ResilienceNext

\* A failure enters Unrecorded when it is counted, and leaves it when it is
\* recorded or tried again.
LEMMA UnrecordedStep ==
  ASSUME TypeOK, NEW c \in Caller, Call(c) \/ Execute(c) \/ GiveUp(c), policy' = policy
  PROVE  /\ Unrecorded' \subseteq Unrecorded \cup {c}
         /\ NoteFailure \/ (failures' = failures /\ Unrecorded' \subseteq Unrecorded)
         /\ Record(c) => c \notin Unrecorded'
<1>1. \A d \in Caller \ {c} : d \in Unrecorded' => d \in Unrecorded
  BY CallersApart DEF Unrecorded
<1>2. ASSUME Call(c) \/ Acquire(c) \/ Refuse(c) \/ Send(c)
      PROVE  c \notin Unrecorded' /\ failures' = failures
  BY <1>2 DEF Call, Acquire, Refuse, Send, Enter, Unrecorded, TypeOK, world
<1>3. ASSUME Retry(c) \/ Record(c)
      PROVE  c \notin Unrecorded' /\ failures' = failures
  BY <1>3 DEF Retry, Record, Enter, Unrecorded, TypeOK, world
<1>4. ASSUME Decide(c)
      PROVE  (c \in Unrecorded' => c \in Unrecorded) /\ failures' = failures
  BY <1>4, PolicyFacts DEF Decide, Enter, Unrecorded, TypeOK, world
<1>5. ASSUME Respond(c)
      PROVE  NoteFailure \/ (c \notin Unrecorded' /\ failures' = failures)
  BY <1>5 DEF Respond, AfterAttempt, Enter, Unrecorded, TypeOK
<1>6. ASSUME GiveUp(c) PROVE NoteFailure
  BY <1>6 DEF GiveUp
<1>7. Unrecorded' \subseteq Caller
  BY DEF Unrecorded
<1> QED
  BY <1>1, <1>2, <1>3, <1>4, <1>5, <1>6, <1>7 DEF Execute

LEMMA FailuresCountedStep ==
  ASSUME TypeOK, FailuresCounted, [ResilienceNext]_resilienceVars
  PROVE  FailuresCounted'
<1>0. /\ policy' = policy /\ FailureThreshold' = FailureThreshold
      /\ failures' \in Nat /\ failures' >= failures /\ failures \in Nat /\ streak \in Nat
      /\ FailureThreshold \in Nat \ {0}
  BY PolicyKept, PolicyFacts DEF TypeOK
<1>1. IsFiniteSet(Unrecorded) /\ Cardinality(Unrecorded) \in Nat
  BY FS_CardinalityType DEF FailuresCounted
\* Fewer results to come, in the same state.
<1>2. ASSUME Unrecorded' \subseteq Unrecorded, state' = state, streak' \in Nat,
             streak' <= streak \/ failures >= FailureThreshold
      PROVE  FailuresCounted'
  <2>1. IsFiniteSet(Unrecorded') /\ Cardinality(Unrecorded') <= Cardinality(Unrecorded)
        /\ Cardinality(Unrecorded') \in Nat
    BY <1>1, <1>2, FS_Subset, FS_CardinalityType
  <2> QED
    BY <1>0, <1>1, <1>2, <2>1 DEF FailuresCounted
<1>3. ASSUME NEW c \in Caller, Call(c) \/ Execute(c) \/ GiveUp(c)
      PROVE  FailuresCounted'
  <2>1. /\ Unrecorded' \subseteq Unrecorded \cup {c}
        /\ NoteFailure \/ (failures' = failures /\ Unrecorded' \subseteq Unrecorded)
        /\ Record(c) => c \notin Unrecorded'
    BY <1>0, <1>3, UnrecordedStep
  <2>2. /\ IsFiniteSet(Unrecorded \cup {c})
        /\ Cardinality(Unrecorded \cup {c}) <= Cardinality(Unrecorded) + 1
    BY <1>1, FS_AddElement
  <2>3. /\ IsFiniteSet(Unrecorded') /\ Cardinality(Unrecorded') \in Nat
        /\ Cardinality(Unrecorded') <= Cardinality(Unrecorded) + 1
        /\ Unrecorded' \subseteq Unrecorded => Cardinality(Unrecorded') <= Cardinality(Unrecorded)
    <3>1. IsFiniteSet(Unrecorded') /\ Cardinality(Unrecorded') <= Cardinality(Unrecorded \cup {c})
      BY <2>1, <2>2, FS_Subset
    <3>2. Cardinality(Unrecorded \cup {c}) \in Nat /\ Cardinality(Unrecorded') \in Nat
      BY <2>2, <3>1, FS_CardinalityType
    <3>3. Unrecorded' \subseteq Unrecorded => Cardinality(Unrecorded') <= Cardinality(Unrecorded)
      BY <1>1, FS_Subset
    <3> QED
      BY <1>1, <2>2, <3>1, <3>2, <3>3
  <2>4. CASE failures >= FailureThreshold
    BY <1>0, <2>3, <2>4 DEF FailuresCounted
  <2>5. CASE failures < FailureThreshold
    <3>1. state = "closed" /\ streak + Cardinality(Unrecorded) <= failures
      BY <1>0, <2>5 DEF FailuresCounted
    <3>2. CASE Record(c)
      <4>1. failures' = failures /\ Unrecorded' \subseteq Unrecorded \ {c}
        BY <1>0, <2>1, <2>5, <3>2 DEF Record, world
      <4>2. CASE HTTPCircuitBreakerPredicate(outcome[c])
        <5>1. c \in Unrecorded
          BY <3>2, <4>2 DEF Record, HTTPCircuitBreakerPredicate, Unrecorded
        <5>2. Cardinality(Unrecorded') <= Cardinality(Unrecorded) - 1
          <6>1. IsFiniteSet(Unrecorded \ {c})
                /\ Cardinality(Unrecorded \ {c}) = Cardinality(Unrecorded) - 1
            BY <1>1, <5>1, FS_RemoveElement
          <6> QED
            BY <4>1, <6>1, FS_Subset
        <5>3. streak + 1 < FailureThreshold
          BY <1>0, <1>1, <2>3, <2>5, <3>1, <5>2
        <5>4. state' = "closed" /\ streak' = streak + 1
          BY <1>0, <3>1, <3>2, <4>2, <5>3 DEF Record, RecordFailure, Count
        <5>5. streak' + Cardinality(Unrecorded') <= failures'
          BY <1>0, <1>1, <2>3, <3>1, <4>1, <5>2, <5>4
        <5> QED
          BY <2>3, <5>4, <5>5 DEF FailuresCounted
      <4>3. CASE ~HTTPCircuitBreakerPredicate(outcome[c])
        <5>1. state' = "closed" /\ streak' = 0
          BY <3>1, <3>2, <4>3 DEF Record, RecordSuccess, Count
        <5> QED
          BY <1>0, <1>2, <3>1, <4>1, <5>1
      <4> QED
        BY <4>2, <4>3
    <3>3. CASE ~Record(c)
      <4>1. UNCHANGED <<state, streak>>
        BY <1>3, <3>1, <3>3
        DEF Execute, Call, Acquire, Refuse, Send, Respond, Decide, Retry, GiveUp, breaker
      <4>2. CASE NoteFailure
        <5>1. failures' = failures + 1
          BY <2>5, <4>2, <1>0 DEF NoteFailure
        <5>2. streak' + Cardinality(Unrecorded') <= failures'
          BY <1>0, <1>1, <2>3, <3>1, <4>1, <5>1
        <5> QED
          BY <2>3, <3>1, <4>1, <5>2 DEF FailuresCounted
      <4>3. CASE failures' = failures /\ Unrecorded' \subseteq Unrecorded
        BY <1>0, <1>2, <4>1, <4>3
      <4> QED
        BY <2>1, <4>2, <4>3
    <3> QED
      BY <3>2, <3>3
  <2> QED
    BY <1>0, <2>4, <2>5
<1>4. CASE UpstreamFails \/ UpstreamReturns \/ UNCHANGED resilienceVars
  <2>1. Unrecorded' = Unrecorded /\ UNCHANGED <<state, streak>>
    BY <1>0, <1>4 DEF UpstreamFails, UpstreamReturns, resilienceVars, breaker, call, Unrecorded
  <2> QED
    BY <1>0, <1>2, <2>1
<1>5. CASE DelayPasses
  <2>1. Unrecorded' = Unrecorded /\ UNCHANGED <<state, streak>>
    BY <1>0, <1>5 DEF DelayPasses, call, Unrecorded
  <2> QED
    BY <1>0, <1>2, <2>1
<1> QED
  BY <1>3, <1>4, <1>5 DEF ResilienceNext

\* A permit is taken by a call that goes in flight, and given back by its
\* result.
LEMMA InFlightStep ==
  ASSUME TypeOK, \A d \in Caller : CallSound(d), NEW c \in Caller,
         Call(c) \/ Execute(c) \/ GiveUp(c), policy' = policy
  PROVE  /\ Acquire(c) => InFlight' = InFlight \cup {c} /\ c \notin InFlight
         /\ Record(c) => InFlight' = InFlight \ {c} /\ c \in InFlight
         /\ ~(Acquire(c) \/ Record(c)) => InFlight' = InFlight
<1>1. \A d \in Caller \ {c} : d \in InFlight' <=> d \in InFlight
  BY CallersApart DEF InFlight
<1>2. InFlight' \subseteq Caller /\ InFlight \subseteq Caller
  BY DEF InFlight
<1>3. Acquire(c) => c \in InFlight' /\ c \notin InFlight
  BY DEF Acquire, Enter, InFlight, TypeOK
<1>4. Record(c) => c \notin InFlight' /\ c \in InFlight
  BY DEF Record, Enter, InFlight, TypeOK
<1>5. ASSUME Call(c) \/ Refuse(c) \/ Send(c) \/ Respond(c) \/ Retry(c)
      PROVE  c \in InFlight' <=> c \in InFlight
  BY <1>5, PolicyFacts DEF Call, Refuse, Send, Respond, AfterAttempt, Retry, Enter, InFlight, TypeOK
<1>6. ASSUME Decide(c)
      PROVE  c \in InFlight' <=> c \in InFlight
  BY <1>6, PolicyFacts DEF Decide, Enter, InFlight, TypeOK
<1>7. ASSUME GiveUp(c)
      PROVE  c \in InFlight' <=> c \in InFlight
  BY <1>7, PolicyFacts DEF GiveUp, AfterAttempt, Enter, InFlight, TypeOK
<1> QED
  BY <1>1, <1>2, <1>3, <1>4, <1>5, <1>6, <1>7 DEF Execute

LEMMA NoPermitLostStep ==
  ASSUME TypeOK, \A d \in Caller : CallSound(d), IsFiniteSet(InFlight), NoPermitLost,
         [ResilienceNext]_resilienceVars
  PROVE  IsFiniteSet(InFlight)' /\ NoPermitLost'
<1>0. policy' = policy /\ Trials' = Trials /\ Trials \in Nat \ {0} /\ permits \in Nat
      /\ Cardinality(InFlight) \in Nat
  BY PolicyKept, PolicyFacts, FS_CardinalityType DEF TypeOK
<1>1. ASSUME InFlight' = InFlight, UNCHANGED <<state, permits>>
      PROVE  IsFiniteSet(InFlight)' /\ NoPermitLost'
  BY <1>0, <1>1 DEF NoPermitLost
<1>2. ASSUME NEW c \in Caller, Acquire(c)
      PROVE  IsFiniteSet(InFlight)' /\ NoPermitLost'
  <2>1. InFlight' = InFlight \cup {c} /\ c \notin InFlight
    BY <1>0, <1>2, InFlightStep DEF Execute
  <2>2. IsFiniteSet(InFlight') /\ Cardinality(InFlight') = Cardinality(InFlight) + 1
    BY <2>1, FS_AddElement
  <2>3. \/ state' = "closed"
        \/ permits' = Trials - 1
        \/ state = "halfOpen" /\ permits' = permits - 1
    BY <1>2 DEF Acquire, breaker
  <2> QED
    BY <1>0, <2>2, <2>3 DEF NoPermitLost
<1>3. ASSUME NEW c \in Caller, Record(c)
      PROVE  IsFiniteSet(InFlight)' /\ NoPermitLost'
  <2>1. InFlight' = InFlight \ {c} /\ c \in InFlight
    BY <1>0, <1>3, InFlightStep DEF Execute
  <2>2. IsFiniteSet(InFlight') /\ Cardinality(InFlight') = Cardinality(InFlight) - 1
    BY <2>1, FS_RemoveElement
  <2>3. state' = "halfOpen" => state = "halfOpen" /\ permits' = permits + 1
    BY <1>3 DEF Record, RecordFailure, RecordSuccess, Become, Count, breaker
  <2> QED
    BY <1>0, <2>2, <2>3 DEF NoPermitLost
<1>4. ASSUME NEW c \in Caller, Call(c) \/ Execute(c) \/ GiveUp(c), ~Acquire(c), ~Record(c)
      PROVE  IsFiniteSet(InFlight)' /\ NoPermitLost'
  <2>1. InFlight' = InFlight
    BY <1>0, <1>4, InFlightStep
  <2>2. UNCHANGED <<state, permits>>
    BY <1>4 DEF Execute, Call, Refuse, Send, Respond, Decide, Retry, GiveUp, breaker
  <2> QED
    BY <1>1, <2>1, <2>2
<1>5. CASE DelayPasses \/ UpstreamFails \/ UpstreamReturns \/ UNCHANGED resilienceVars
  <2>1. InFlight' = InFlight /\ UNCHANGED <<state, permits>>
    BY <1>0, <1>5
    DEF DelayPasses, UpstreamFails, UpstreamReturns, resilienceVars, breaker, call, InFlight
  <2> QED
    BY <1>1, <2>1
<1> QED
  BY <1>2, <1>3, <1>4, <1>5 DEF ResilienceNext, Execute

LEMMA ResilienceInvariance == ResilienceSpec => []ResilienceInv
<1>1. ResilienceInv /\ [ResilienceNext]_resilienceVars => ResilienceInv'
  BY ResilienceTypeStep, CallSoundStep, FailuresCountedStep, NoPermitLostStep DEF ResilienceInv
<1> QED
  BY <1>1, ResilienceInitEstablishes, PTL DEF ResilienceSpec

\* Every variable keeps its type, for any callers and policies: no call makes
\* more retries than its policy allows.
THEOREM ResilienceTypeCorrect == ResilienceSpec => []TypeOK
<1>1. ResilienceInv => TypeOK
  BY DEF ResilienceInv
<1> QED
  BY <1>1, ResilienceInvariance, PTL

\* Rate limits and refusals never open the breaker, nor is a failure counted
\* twice: it takes as many failed or abandoned attempts as its threshold says.
THEOREM OpensOnFailuresOnlyHolds == ResilienceSpec => []OpensOnFailuresOnly
<1>1. ResilienceInv => OpensOnFailuresOnly
  BY DEF ResilienceInv, FailuresCounted, OpensOnFailuresOnly
<1> QED
  BY <1>1, ResilienceInvariance, PTL

\* What a call of either order of the policies returns is so.
THEOREM ReturnsTruthfullyHolds == ResilienceSpec => []ReturnsTruthfully
<1>1. ResilienceInv => ReturnsTruthfully
  <2> SUFFICES ASSUME ResilienceInv, NEW c \in Caller, at[c] = "returned"
               PROVE  /\ sent[c] <= MaxRetries + 1
                      /\ outcome[c] \in {"answered", "failed"} => sent[c] > 0
                      /\ outcome[c] = "failed" => tries[c] = MaxRetries
                      /\ outcome[c] = "refused" =>
                           IF policy.outer = "breaker" THEN sent[c] = 0
                           ELSE tries[c] = MaxRetries
    BY DEF ReturnsTruthfully
  <2>1. CallSound(c) /\ TypeOK
    BY DEF ResilienceInv
  <2>2. tries[c] \in 0 .. MaxRetries /\ sent[c] \in Nat /\ MaxRetries \in Nat
    BY <2>1, PolicyFacts DEF TypeOK
  <2>3. sent[c] <= MaxRetries + 1
    BY <2>1, <2>2 DEF CallSound
  <2> QED
    BY <2>1, <2>3, PolicyFacts DEF CallSound
<1> QED
  BY <1>1, ResilienceInvariance, PTL

\* A half open breaker never waits for a result that will not come: as long as
\* it has no permit to give, a call it let through has yet to report.
THEOREM HalfOpenNeverStuck ==
  ResilienceSpec => [](state = "halfOpen" /\ permits = 0 => InFlight # {})
<1>1. ResilienceInv => (state = "halfOpen" /\ permits = 0 => InFlight # {})
  BY PolicyFacts, FS_EmptySet DEF ResilienceInv, NoPermitLost
<1> QED
  BY <1>1, ResilienceInvariance, PTL

=============================================================================
