------------------------------ MODULE Startup ------------------------------
(***************************************************************************)
(* The start of the programs against one database.  cmd/api and            *)
(* cmd/worker connect (database.NewPool), run the embedded migrations      *)
(* (database.MigrateUp) and only then serve; `clericot migrate up` does    *)
(* the same and ends.  Nothing orders the programs: each reads the version *)
(* of the database, runs the next migration in a transaction that also     *)
(* records it, and reads again.  A program that meets an error exits.      *)
(* cmd/worker then starts its River client, which uses tables of River's   *)
(* own; the migrations make only one of them (0003, river_job).            *)
(*                                                                         *)
(* Goose and PostgreSQL are external.  Goose: UpContext takes no lock, the *)
(* version is that of the row recorded last, and the version table is      *)
(* created, as version 0, when reading it fails.  PostgreSQL: a statement  *)
(* that creates what an open transaction has created waits for it, fails   *)
(* if that commits and goes on if it does not; IF NOT EXISTS passes over   *)
(* what is committed when the statement starts.                            *)
(***************************************************************************)
EXTENDS Integers, FiniteSets

CONSTANTS
    Daemons,    \* processes of cmd/api and cmd/worker
    Workers,    \* those of cmd/worker
    Commands,   \* runs of `clericot migrate up`
    Newest,     \* the version of the newest migration of any binary
    Knows,      \* Knows[p]: the newest migration embedded in p's binary
    Pings,      \* attempts of NewPool (10 in the code)
    MaxFaults   \* bound on outages and deaths

Procs == Daemons \cup Commands
Versions == 0 .. Newest     \* 0 is the version table
NoTable == -1

ASSUME StartupAssumption ==
    /\ Procs # {} /\ Workers \subseteq Daemons
    /\ Newest \in Nat
    /\ Knows \in [Procs -> Versions]
    /\ Pings \in Nat \ {0}
    /\ MaxFaults \in Nat

VARIABLES
    up,       \* PostgreSQL answers
    schema,   \* the versions whose migration is committed
    last,     \* the version of the row recorded last
    pc,       \* where each process is
    pings,    \* failed pings of this start
    at,       \* the version the process has read
    tx,       \* its transaction: it creates, waits to create, or repeats
    faults,
    river     \* somebody has run River's own migrations; no program here does

vars == <<up, schema, last, pc, pings, at, tx, faults, river>>

TypeOK ==
    /\ up \in BOOLEAN
    /\ schema \subseteq Versions
    /\ last \in Versions \cup {NoTable}
    /\ pc \in [Procs -> {"connecting", "reading", "opening", "applying",
                         "starting", "serving", "done", "failed", "unstarted"}]
    /\ pings \in [Procs -> 0 .. Pings - 1]
    /\ at \in [Procs -> Versions \cup {NoTable}]
    /\ tx \in [Procs -> {"none", "create", "wait", "repeat"}]
    /\ faults \in 0 .. MaxFaults
    /\ river \in BOOLEAN

\* A new database, one that an earlier release has migrated, or this one.
Init ==
    /\ up = TRUE
    /\ last \in Versions \cup {NoTable}
    /\ schema = 0 .. last
    /\ pc = [p \in Procs |-> "connecting"]
    /\ pings = [p \in Procs |-> 0]
    /\ at = [p \in Procs |-> NoTable]
    /\ tx = [p \in Procs |-> "none"]
    /\ faults = 0
    /\ river \in BOOLEAN

NextVersion(p) == at[p] + 1
Creating(v) == \E q \in Procs : tx[q] = "create" /\ NextVersion(q) = v

Set(f, S, value) == [p \in Procs |-> IF p \in S THEN value ELSE f[p]]

\* os.Exit(1), or the error `migrate up` returns to cobra; an open transaction is
\* rolled back.
Exit(S) ==
    /\ pc' = Set(pc, S, "failed")
    /\ tx' = Set(tx, S, "none")
    /\ pings' = Set(pings, S, 0)
    /\ UNCHANGED at

---------------------------------------------------------------------------
(* NewPool *)

Ping(p) ==
    /\ pc[p] = "connecting"
    /\ up
    /\ pc' = [pc EXCEPT ![p] = "reading"]
    /\ pings' = [pings EXCEPT ![p] = 0]
    /\ UNCHANGED <<up, schema, last, at, tx, faults, river>>

\* Mutant: one attempt too many.
PingFailsLate(p) ==
    /\ pc[p] = "connecting"
    /\ ~up
    /\ IF pings[p] < Pings
       THEN /\ pings' = [pings EXCEPT ![p] = @ + 1]
            /\ UNCHANGED <<pc, tx, at>>
       ELSE Exit({p})
    /\ UNCHANGED <<up, schema, last, faults, river>>

PingFails(p) ==
    /\ pc[p] = "connecting"
    /\ ~up
    /\ IF pings[p] + 1 < Pings
       THEN /\ pings' = [pings EXCEPT ![p] = @ + 1]
            /\ UNCHANGED <<pc, tx, at>>
       ELSE Exit({p})
    /\ UNCHANGED <<up, schema, last, faults, river>>

---------------------------------------------------------------------------
(* MigrateUp *)

\* The loop of UpContext reads the version and looks for the next migration.
ReadVersion(p) ==
    /\ pc[p] = "reading"
    /\ up
    /\ at' = [at EXCEPT ![p] = last]
    /\ pc' = [pc EXCEPT ![p] =
                IF last < Knows[p] THEN "opening"
                ELSE IF p \in Daemons THEN "starting" ELSE "done"]
    /\ UNCHANGED <<up, schema, last, pings, tx, faults, river>>

\* The first statement of the migration that creates something new.
OpenNew(p) ==
    /\ pc[p] = "opening"
    /\ up
    /\ NextVersion(p) \notin schema
    /\ pc' = [pc EXCEPT ![p] = "applying"]
    /\ tx' = [tx EXCEPT ![p] = IF Creating(NextVersion(p)) THEN "wait" ELSE "create"]
    /\ UNCHANGED <<up, schema, last, pings, at, faults, river>>

\* Every statement of the migrations can be executed again: IF NOT EXISTS,
\* DROP POLICY IF EXISTS, the test of pg_roles.
OpenAgain(p) ==
    /\ pc[p] = "opening"
    /\ up
    /\ NextVersion(p) \in schema \ {0}
    /\ pc' = [pc EXCEPT ![p] = "applying"]
    /\ tx' = [tx EXCEPT ![p] = "repeat"]
    /\ UNCHANGED <<up, schema, last, pings, at, faults, river>>

\* Goose creates its version table without IF NOT EXISTS.
TableExists(p) ==
    /\ pc[p] = "opening"
    /\ up
    /\ NextVersion(p) = 0
    /\ 0 \in schema
    /\ Exit({p})
    /\ UNCHANGED <<up, schema, last, faults, river>>

\* Mutant: the wait does not end when the other transaction is rolled back.
TakeOverLost(p) == tx[p] = "wait" /\ NextVersion(p) \in schema /\ UNCHANGED vars

\* The transaction it waited for was rolled back.
TakeOver(p) ==
    /\ tx[p] = "wait"
    /\ NextVersion(p) \notin schema
    /\ ~Creating(NextVersion(p))
    /\ tx' = [tx EXCEPT ![p] = "create"]
    /\ UNCHANGED <<up, schema, last, pc, pings, at, faults, river>>

\* The transaction it waited for was committed: a duplicate key in the catalog.
LoseRace(p) ==
    /\ tx[p] = "wait"
    /\ NextVersion(p) \in schema
    /\ Exit({p})
    /\ UNCHANGED <<up, schema, last, faults, river>>

\* Mutant: the recorded version is counted up, not the migration's own.
CommitCounts(p) ==
    /\ tx[p] \in {"create", "repeat"}
    /\ schema' = schema \cup {NextVersion(p)}
    /\ last' = IF last < Newest THEN last + 1 ELSE last
    /\ pc' = [pc EXCEPT ![p] = "reading"]
    /\ tx' = [tx EXCEPT ![p] = "none"]
    /\ UNCHANGED <<up, pings, at, faults, river>>

\* Mutant: the version table is created without its first row.
CommitNoFirstRow(p) ==
    /\ tx[p] \in {"create", "repeat"}
    /\ schema' = schema \cup {NextVersion(p)}
    /\ last' = IF NextVersion(p) = 0 THEN last ELSE NextVersion(p)
    /\ pc' = [pc EXCEPT ![p] = "reading"]
    /\ tx' = [tx EXCEPT ![p] = "none"]
    /\ UNCHANGED <<up, pings, at, faults, river>>

\* The version is recorded and the transaction committed.  A transaction that
\* repeats a migration grants and alters again what this one may have granted
\* or altered: PostgreSQL then fails it (tuple concurrently updated, deadlock).
Commit(p) ==
    /\ tx[p] \in {"create", "repeat"}
    /\ schema' = schema \cup {NextVersion(p)}
    /\ last' = NextVersion(p)
    /\ \E losers \in SUBSET {q \in Procs \ {p} : tx[q] = "repeat"} :
         /\ pc' = [Set(pc, losers, "failed") EXCEPT ![p] = "reading"]
         /\ tx' = Set(tx, losers \cup {p}, "none")
    /\ UNCHANGED <<up, pings, at, faults, river>>

---------------------------------------------------------------------------

\* The API listens, the worker's River client and Asynq server are started.
Serve(p) ==
    /\ pc[p] = "starting"
    /\ p \in Workers => up /\ river
    /\ pc' = [pc EXCEPT ![p] = "serving"]
    /\ UNCHANGED <<up, schema, last, pings, at, tx, faults, river>>

\* riverClient.Start fails, and the worker exits.
RiverFails(p) ==
    /\ pc[p] = "starting"
    /\ p \in Workers /\ ~(up /\ river)
    /\ pc' = [pc EXCEPT ![p] = "unstarted"]
    /\ UNCHANGED <<up, schema, last, pings, at, tx, faults, river>>

\* A statement is sent while the database is away.
StatementFails(p) ==
    /\ ~up
    /\ pc[p] \in {"reading", "opening"}
    /\ Exit({p})
    /\ UNCHANGED <<up, schema, last, faults, river>>

\* A failed statement or listener; a kill; a signal, which ends
\* the process at once as long as main has not called signal.Notify.
Dies(p) ==
    /\ faults < MaxFaults
    /\ pc[p] \notin {"done", "failed", "unstarted"}
    /\ Exit({p})
    /\ faults' = faults + 1
    /\ UNCHANGED <<up, schema, last, river>>

DatabaseStops ==
    /\ faults < MaxFaults
    /\ up
    /\ up' = FALSE
    /\ Exit({p \in Procs : tx[p] # "none"})
    /\ faults' = faults + 1
    /\ UNCHANGED <<schema, last, river>>

DatabaseReturns ==
    /\ ~up
    /\ up' = TRUE
    /\ UNCHANGED <<schema, last, pc, pings, at, tx, faults, river>>

\* Whatever runs the daemons starts one that has exited.
Restart(d) ==
    /\ pc[d] \in {"failed", "unstarted"}
    /\ pc' = [pc EXCEPT ![d] = "connecting"]
    /\ UNCHANGED <<up, schema, last, pings, at, tx, faults, river>>

Run(p) ==
    \/ Ping(p) \/ PingFails(p) \/ ReadVersion(p) \/ OpenNew(p) \/ OpenAgain(p)
    \/ TableExists(p) \/ TakeOver(p) \/ LoseRace(p) \/ Commit(p) \/ Serve(p)
    \/ RiverFails(p) \/ StatementFails(p)

Next ==
    \/ \E p \in Procs : Run(p) \/ Dies(p)
    \/ \E d \in Daemons : Restart(d)
    \/ DatabaseStops
    \/ DatabaseReturns

Fairness ==
    /\ \A p \in Procs : WF_vars(Run(p))
    /\ \A d \in Daemons : WF_vars(Restart(d))
    /\ WF_vars(DatabaseReturns)

Spec == Init /\ [][Next]_vars /\ Fairness

---------------------------------------------------------------------------

\* The version recorded last is that of a committed migration, and no
\* migration is committed without those before it, whoever ran them and
\* however often the version went back (MigrateUp, called by both daemons).
SchemaIsPrefix ==
    /\ last = NoTable \/ last \in schema
    /\ \A v \in schema : 0 .. v \subseteq schema

\* A daemon serves, and `migrate up` reports success, only when every
\* migration its binary holds is committed (cmd/api/main.go, cmd/worker/main.go).
ServesFullSchema ==
    \A p \in Procs :
        pc[p] \in {"starting", "serving", "done"} => 0 .. Knows[p] \subseteq schema

\* Races alone never make every process fail: as long as there was no fault,
\* one of them gets through its migrations.
RaceHasWinner ==
    faults = 0 /\ up => \E p \in Procs : pc[p] # "failed"

\* When outages and deaths end, every daemon that exits and is started again
\* ends up serving, whatever races made it fail before; but a worker on a
\* database without River's tables gets through its migrations and exits,
\* again and again.
EventuallyServes ==
    \A d \in Daemons :
        /\ (d \in Workers => river) => <>[](pc[d] = "serving")
        /\ d \in Workers /\ ~river => []<>(pc[d] = "unstarted")

=============================================================================
