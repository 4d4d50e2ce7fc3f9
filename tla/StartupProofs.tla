---------------------------- MODULE StartupProofs ----------------------------
(***************************************************************************)
(* Theorems about Startup for any processes, any number of migrations and  *)
(* any mixture of releases.                                                *)
(***************************************************************************)
EXTENDS Startup, TLAPS

\* What the version a process has read says about the schema.
Reads ==
    \A p \in Procs :
        /\ at[p] = NoTable \/ at[p] \in schema
        /\ pc[p] \in {"opening", "applying"} => at[p] < Knows[p]
        /\ tx[p] # "none" => pc[p] = "applying"

\* A process that no commit so far will make fail.
Healthy(p) ==
    /\ pc[p] # "failed"
    /\ tx[p] = "wait" => NextVersion(p) \notin schema
    /\ pc[p] = "opening" /\ at[p] = NoTable => 0 \notin schema

Winner ==
    /\ 0 \in schema => last # NoTable
    /\ ~up => faults > 0
    /\ faults = 0 => \E p \in Procs : Healthy(p)

IInv == TypeOK /\ SchemaIsPrefix /\ Reads /\ ServesFullSchema /\ Winner

LEMMA InitEstablishes == Init => IInv
<1> SUFFICES ASSUME Init PROVE IInv
  OBVIOUS
<1>1. TypeOK
  BY StartupAssumption DEF Init, TypeOK, Versions, NoTable
<1>2. SchemaIsPrefix /\ Reads /\ ServesFullSchema
  BY DEF Init, SchemaIsPrefix, Reads, ServesFullSchema, Versions, NoTable
<1>3. Winner
  BY StartupAssumption DEF Init, Winner, Healthy, Versions, NoTable
<1> QED
  BY <1>1, <1>2, <1>3 DEF IInv

\* Processes that exit leave the schema and everybody else as they were.
LEMMA ExitKeeps ==
    ASSUME IInv, NEW S \in SUBSET Procs, Exit(S), UNCHANGED <<schema, last, river>>
    PROVE  /\ pc' \in [Procs -> {"connecting", "reading", "opening", "applying",
                                 "starting", "serving", "done", "failed", "unstarted"}]
           /\ pings' \in [Procs -> 0 .. Pings - 1]
           /\ at' \in [Procs -> Versions \cup {NoTable}]
           /\ tx' \in [Procs -> {"none", "create", "wait", "repeat"}]
           /\ SchemaIsPrefix' /\ Reads' /\ ServesFullSchema'
           /\ \A p \in Procs \ S : Healthy(p) => Healthy(p)'
<1>1. \A p \in Procs : /\ pc'[p] = IF p \in S THEN "failed" ELSE pc[p]
                       /\ tx'[p] = IF p \in S THEN "none" ELSE tx[p]
                       /\ at' = at
  BY DEF Exit, Set, IInv, TypeOK
<1>2. /\ pc' \in [Procs -> {"connecting", "reading", "opening", "applying",
                            "starting", "serving", "done", "failed", "unstarted"}]
      /\ tx' \in [Procs -> {"none", "create", "wait", "repeat"}]
  BY DEF Exit, Set, IInv, TypeOK
<1>3. /\ pings' \in [Procs -> 0 .. Pings - 1]
      /\ at' \in [Procs -> Versions \cup {NoTable}]
  BY StartupAssumption DEF Exit, Set, IInv, TypeOK
<1>4. SchemaIsPrefix' /\ Reads' /\ ServesFullSchema'
  BY <1>1 DEF IInv, SchemaIsPrefix, Reads, ServesFullSchema
<1>5. \A p \in Procs \ S : Healthy(p) => Healthy(p)'
  BY <1>1 DEF Healthy, NextVersion
<1> QED
  BY <1>2, <1>3, <1>4, <1>5

\* Only an unhealthy process fails without a fault.
LEMMA ExitStep ==
    ASSUME IInv, NEW S \in SUBSET Procs, Exit(S), UNCHANGED <<schema, last, river>>,
           up' \in BOOLEAN, faults' \in 0 .. MaxFaults,
           ~up' => faults' > 0,
           faults' = 0 => faults = 0 /\ \A p \in S : ~Healthy(p)
    PROVE  IInv'
<1>1. TypeOK'
  BY ExitKeeps DEF IInv, TypeOK
<1>2. Winner'
  <2>1. (0 \in schema => last # NoTable)'
    BY DEF IInv, Winner
  <2>2. ASSUME faults' = 0 PROVE \E p \in Procs : Healthy(p)'
    <3>1. PICK p \in Procs : Healthy(p)
      BY <2>2 DEF IInv, Winner
    <3> QED
      BY <2>2, <3>1, ExitKeeps
  <2> QED
    BY <2>1, <2>2 DEF Winner
<1> QED
  BY <1>1, <1>2, ExitKeeps DEF IInv

\* A step of one process that neither exits nor commits.
LEMMA RunKeeps ==
    ASSUME IInv, NEW p \in Procs,
           Ping(p) \/ ReadVersion(p) \/ OpenNew(p) \/ OpenAgain(p) \/ TakeOver(p) \/ Serve(p)
           \/ RiverFails(p)
    PROVE  IInv'
<1> USE DEF NextVersion
<1>1. CASE Ping(p)
  <2>1. TypeOK'
    BY <1>1, StartupAssumption DEF Ping, IInv, TypeOK
  <2>2. SchemaIsPrefix' /\ Reads' /\ ServesFullSchema'
    BY <1>1 DEF Ping, IInv, TypeOK, SchemaIsPrefix, Reads, ServesFullSchema
  <2>3. \A q \in Procs : Healthy(q) => Healthy(q)'
    BY <1>1 DEF Ping, IInv, TypeOK, Reads, Healthy
  <2>4. Winner'
    BY <1>1, <2>3 DEF Ping, IInv, Winner
  <2> QED
    BY <2>1, <2>2, <2>4 DEF IInv
<1>2. CASE ReadVersion(p)
  <2>0. last \in Int /\ Knows[p] \in Int
    BY StartupAssumption DEF IInv, TypeOK, Versions, NoTable
  <2>1. /\ pc' = [pc EXCEPT ![p] = pc'[p]]
        /\ pc'[p] \in {"opening", "starting", "done"}
        /\ pc'[p] = "opening" => last < Knows[p]
        /\ pc'[p] # "opening" => last >= Knows[p]
        /\ at' = [at EXCEPT ![p] = last]
        /\ UNCHANGED <<up, schema, last, pings, tx, faults, river>>
    BY <1>2, <2>0 DEF ReadVersion, IInv, TypeOK
  <2>2. tx[p] = "none"
    BY <1>2 DEF ReadVersion, IInv, Reads, TypeOK
  <2>3. TypeOK'
    BY <2>1 DEF IInv, TypeOK
  <2>4. SchemaIsPrefix'
    BY <2>1 DEF IInv, SchemaIsPrefix
  <2>5. Reads'
    BY <2>1, <2>2 DEF IInv, TypeOK, SchemaIsPrefix, Reads
  <2>6. last >= Knows[p] => 0 .. Knows[p] \subseteq schema
    BY StartupAssumption DEF IInv, TypeOK, SchemaIsPrefix, Versions, NoTable
  <2>7. ServesFullSchema'
    BY <2>1, <2>6 DEF IInv, TypeOK, ServesFullSchema
  <2>8. \A q \in Procs : Healthy(q) => Healthy(q)'
    BY <2>1, <2>2 DEF IInv, TypeOK, Winner, Healthy
  <2>9. Winner'
    BY <2>1, <2>8 DEF IInv, Winner
  <2> QED
    BY <2>3, <2>4, <2>5, <2>7, <2>9 DEF IInv
<1>3. CASE OpenNew(p) \/ OpenAgain(p) \/ TakeOver(p)
  <2>1. /\ pc' = [pc EXCEPT ![p] = "applying"]
        /\ pc[p] \in {"opening", "applying"}
        /\ tx' = [tx EXCEPT ![p] = tx'[p]]
        /\ tx'[p] \in {"create", "wait", "repeat"}
        /\ tx'[p] = "wait" => NextVersion(p) \notin schema
        /\ UNCHANGED <<up, schema, last, pings, at, faults, river>>
    <3>1. CASE OpenNew(p)
      BY <3>1 DEF OpenNew, IInv, TypeOK
    <3>2. CASE OpenAgain(p)
      BY <3>2 DEF OpenAgain, IInv, TypeOK
    <3>3. CASE TakeOver(p)
      BY <3>3 DEF TakeOver, IInv, TypeOK, Reads
    <3> QED
      BY <1>3, <3>1, <3>2, <3>3
  <2>2. TypeOK'
    BY <2>1 DEF IInv, TypeOK
  <2>3. SchemaIsPrefix' /\ Reads' /\ ServesFullSchema'
    BY <2>1 DEF IInv, TypeOK, SchemaIsPrefix, Reads, ServesFullSchema
  <2>4. \A q \in Procs : Healthy(q) => Healthy(q)'
    BY <2>1 DEF IInv, TypeOK, Healthy
  <2>5. Winner'
    BY <2>1, <2>4 DEF IInv, Winner
  <2> QED
    BY <2>2, <2>3, <2>5 DEF IInv
<1>4. CASE Serve(p) \/ RiverFails(p)
  <2>1. TypeOK'
    BY <1>4 DEF Serve, RiverFails, IInv, TypeOK
  <2>2. SchemaIsPrefix' /\ Reads' /\ ServesFullSchema'
    BY <1>4 DEF Serve, RiverFails, IInv, TypeOK, SchemaIsPrefix, Reads, ServesFullSchema
  <2>3. \A q \in Procs : Healthy(q) => Healthy(q)'
    BY <1>4 DEF Serve, RiverFails, IInv, TypeOK, Healthy
  <2>4. Winner'
    BY <1>4, <2>3 DEF Serve, RiverFails, IInv, Winner
  <2> QED
    BY <2>1, <2>2, <2>4 DEF IInv
<1> QED
  BY <1>1, <1>2, <1>3, <1>4

\* The process that commits has nothing to fear from what was committed so far.
LEMMA CommitKeeps ==
    ASSUME IInv, NEW p \in Procs, Commit(p)
    PROVE  IInv'
<1> DEFINE v == NextVersion(p)
<1>1. PICK losers \in SUBSET {q \in Procs \ {p} : tx[q] = "repeat"} :
        /\ pc' = [Set(pc, losers, "failed") EXCEPT ![p] = "reading"]
        /\ tx' = Set(tx, losers \cup {p}, "none")
  BY DEF Commit
<1>2. /\ schema' = schema \cup {v} /\ last' = v
      /\ UNCHANGED <<up, pings, at, faults, river>>
      /\ tx[p] \in {"create", "repeat"}
  BY DEF Commit
<1>3. /\ v \in Versions
      /\ at[p] = NoTable \/ at[p] \in schema
      /\ v = at[p] + 1
  BY <1>2, StartupAssumption DEF IInv, TypeOK, Reads, NextVersion, Versions, NoTable
<1>4. /\ pc'[p] = "reading" /\ tx'[p] = "none"
      /\ \A q \in Procs \ {p} :
           \/ pc'[q] = pc[q] /\ tx'[q] = tx[q]
           \/ pc'[q] = "failed" /\ tx'[q] = "none"
  BY <1>1 DEF Set, IInv, TypeOK
<1>5. TypeOK'
  <2>1. /\ pc' \in [Procs -> {"connecting", "reading", "opening", "applying",
                              "starting", "serving", "done", "failed", "unstarted"}]
        /\ tx' \in [Procs -> {"none", "create", "wait", "repeat"}]
    BY <1>1 DEF Set, IInv, TypeOK
  <2> QED
    BY <1>2, <1>3, <2>1 DEF IInv, TypeOK
<1>6. SchemaIsPrefix'
  <2>1. \A w \in schema : 0 .. w \subseteq schema'
    BY <1>2 DEF IInv, SchemaIsPrefix
  <2>2. 0 .. v \subseteq schema'
    BY <1>2, <1>3 DEF IInv, TypeOK, SchemaIsPrefix, Versions, NoTable
  <2> QED
    BY <1>2, <2>1, <2>2 DEF SchemaIsPrefix
<1>7. Reads'
  BY <1>2, <1>4 DEF IInv, Reads
<1>8. ServesFullSchema'
  BY <1>2, <1>4 DEF IInv, ServesFullSchema
<1>9. Winner'
  <2>1. Healthy(p)'
    BY <1>4 DEF Healthy
  <2>2. (0 \in schema => last # NoTable)'
    BY <1>2, <1>3 DEF Versions, NoTable
  <2> QED
    BY <1>2, <2>1, <2>2 DEF IInv, Winner
<1> QED
  BY <1>5, <1>6, <1>7, <1>8, <1>9 DEF IInv

LEMMA StepKeeps == IInv /\ [Next]_vars => IInv'
<1> SUFFICES ASSUME IInv, [Next]_vars PROVE IInv'
  OBVIOUS
<1>1. CASE UNCHANGED vars
  BY <1>1 DEF vars, IInv, TypeOK, SchemaIsPrefix, Reads, ServesFullSchema, Winner,
              Healthy, NextVersion
<1>2. ASSUME NEW p \in Procs, Run(p) PROVE IInv'
  <2>1. CASE \/ Ping(p) \/ ReadVersion(p) \/ OpenNew(p) \/ OpenAgain(p) \/ TakeOver(p)
             \/ Serve(p) \/ RiverFails(p)
    BY <2>1, RunKeeps
  <2>2. CASE Commit(p)
    BY <2>2, CommitKeeps
  <2>3. CASE PingFails(p)
    <3>1. CASE pings[p] + 1 < Pings
      <4>1. TypeOK'
        BY <2>3, <3>1, StartupAssumption DEF PingFails, IInv, TypeOK
      <4>2. SchemaIsPrefix' /\ Reads' /\ ServesFullSchema' /\ Winner'
        BY <2>3, <3>1 DEF PingFails, IInv, SchemaIsPrefix, Reads, ServesFullSchema, Winner,
                          Healthy, NextVersion
      <4> QED
        BY <4>1, <4>2 DEF IInv
    <3>2. CASE ~(pings[p] + 1 < Pings)
      <4>1. /\ Exit({p}) /\ UNCHANGED <<schema, last, river>>
            /\ up' = up /\ faults' = faults /\ ~up
        BY <2>3, <3>2 DEF PingFails
      <4>2. faults \in 0 .. MaxFaults /\ faults > 0 /\ up \in BOOLEAN
        BY <4>1 DEF IInv, TypeOK, Winner
      <4> HIDE DEF IInv
      <4> QED
        BY <4>1, <4>2, ExitStep
    <3> QED
      BY <3>1, <3>2
  <2>4. CASE TableExists(p) \/ LoseRace(p)
    <3>1. /\ Exit({p}) /\ UNCHANGED <<schema, last, river>>
          /\ up' = up /\ faults' = faults
          /\ ~Healthy(p)
      BY <2>4 DEF TableExists, LoseRace, Healthy, NextVersion, NoTable, IInv, TypeOK, Versions
    <3>2. up \in BOOLEAN /\ faults \in 0 .. MaxFaults /\ (~up => faults > 0)
      BY DEF IInv, TypeOK, Winner
    <3> QED
      BY <3>1, <3>2, ExitStep
  <2>5. CASE StatementFails(p)
    <3>1. /\ Exit({p}) /\ UNCHANGED <<schema, last, river>>
          /\ up' = up /\ faults' = faults /\ ~up
      BY <2>5 DEF StatementFails
    <3>2. faults \in 0 .. MaxFaults /\ faults > 0 /\ up \in BOOLEAN
      BY <3>1 DEF IInv, TypeOK, Winner
    <3> QED
      BY <3>1, <3>2, ExitStep
  <2> QED
    BY <1>2, <2>1, <2>2, <2>3, <2>4, <2>5 DEF Run
<1>3. ASSUME NEW p \in Procs, Dies(p) PROVE IInv'
  <2>1. /\ Exit({p}) /\ UNCHANGED <<schema, last, river>>
        /\ up' = up /\ faults' = faults + 1 /\ faults < MaxFaults
    BY <1>3 DEF Dies
  <2>2. up \in BOOLEAN /\ faults' \in 0 .. MaxFaults /\ faults' > 0
    BY <2>1, StartupAssumption DEF IInv, TypeOK
  <2> QED
    BY <2>1, <2>2, ExitStep
<1>4. ASSUME NEW d \in Daemons, Restart(d) PROVE IInv'
  <2>1. d \in Procs
    BY DEF Procs
  <2>2. TypeOK'
    BY <1>4 DEF Restart, IInv, TypeOK
  <2>3. SchemaIsPrefix' /\ Reads' /\ ServesFullSchema'
    BY <1>4, <2>1 DEF Restart, IInv, TypeOK, SchemaIsPrefix, Reads, ServesFullSchema
  <2>4. \A q \in Procs : Healthy(q) => Healthy(q)'
    <3>1. tx[d] = "none"
      BY <1>4, <2>1 DEF Restart, IInv, TypeOK, Reads
    <3> QED
      BY <1>4, <2>1, <3>1 DEF Restart, IInv, TypeOK, Healthy, NextVersion
  <2>5. Winner'
    BY <1>4, <2>4 DEF Restart, IInv, Winner
  <2> QED
    BY <2>2, <2>3, <2>5 DEF IInv
<1>5. CASE DatabaseStops
  <2> DEFINE S == {p \in Procs : tx[p] # "none"}
  <2>1. /\ Exit(S) /\ UNCHANGED <<schema, last, river>> /\ S \in SUBSET Procs
    BY <1>5 DEF DatabaseStops
  <2>2. up' = FALSE /\ faults' = faults + 1 /\ faults < MaxFaults
    BY <1>5 DEF DatabaseStops
  <2>3. faults \in 0 .. MaxFaults /\ MaxFaults \in Nat
    BY StartupAssumption DEF IInv, TypeOK
  <2>4. faults' = faults + 1 /\ faults < MaxFaults => faults' \in 0 .. MaxFaults /\ faults' > 0
    BY <2>3
  <2>5. up' \in BOOLEAN
    BY <2>2
  <2> HIDE DEF S
  <2> QED
    BY <2>1, <2>2, <2>4, <2>5, ExitStep
<1>6. CASE DatabaseReturns
  <2>1. TypeOK'
    BY <1>6 DEF DatabaseReturns, IInv, TypeOK
  <2>2. SchemaIsPrefix' /\ Reads' /\ ServesFullSchema' /\ Winner'
    BY <1>6 DEF DatabaseReturns, IInv, SchemaIsPrefix, Reads, ServesFullSchema, Winner,
                Healthy, NextVersion
  <2> QED
    BY <2>1, <2>2 DEF IInv
<1> QED
  BY <1>1, <1>2, <1>3, <1>4, <1>5, <1>6 DEF Next

\* What MigrateUp leaves in the database is a prefix of the migrations, however
\* many processes run it at once and wherever they are stopped.
THEOREM SchemaIsPrefixHolds == Spec => []SchemaIsPrefix
<1>1. IInv => SchemaIsPrefix
  BY DEF IInv
<1> QED
  BY <1>1, InitEstablishes, StepKeeps, PTL DEF Spec

\* No daemon serves and no `migrate up` succeeds on less than its binary's schema.
THEOREM ServesFullSchemaHolds == Spec => []ServesFullSchema
<1>1. IInv => ServesFullSchema
  BY DEF IInv
<1> QED
  BY <1>1, InitEstablishes, StepKeeps, PTL DEF Spec

\* Processes that race to migrate never all fail by the race alone.
THEOREM RaceHasWinnerHolds == Spec => []RaceHasWinner
<1>1. IInv => RaceHasWinner
  BY DEF IInv, Winner, Healthy, RaceHasWinner
<1> QED
  BY <1>1, InitEstablishes, StepKeeps, PTL DEF Spec

\* The variables have their types, for any processes, releases and migrations.
THEOREM TypeCorrect == Spec => []TypeOK
<1>1. IInv => TypeOK
  BY DEF IInv
<1> QED
  BY <1>1, InitEstablishes, StepKeeps, PTL DEF Spec
=============================================================================
