----------------------------- MODULE UnitOfWork -----------------------------
(***************************************************************************)
(* What database.TxManager promises its callers: a call of RunInTx is a    *)
(* unit of work.  Calls nest; a nested call either becomes part of the     *)
(* call around it or disappears.  The outermost call puts everything it    *)
(* still holds into the database in one step, or nothing.  The caller of a *)
(* commit that failed is not told which of the two happened.               *)
(***************************************************************************)
EXTENDS Naturals, Sequences, SequencesExt

CONSTANTS
  Proc, \* goroutines that call RunInTx
  Stmt  \* Stmt[p]: the statements process p can execute

VARIABLES
  db,     \* the statements whose effects are committed
  work,   \* work[p]: what each open call of p holds, outermost first
  result  \* result[p]: what the outermost call of p returned, or "none"

vars == <<db, work, result>>

Init ==
  /\ db = {}
  /\ work = [p \in Proc |-> <<>>]
  /\ result = [p \in Proc |-> "none"]

\* The innermost entry of s joins the one around it.
Merge(s) == [Front(s) EXCEPT ![Len(s) - 1] = @ \cup Last(s)]

Running(p) == result[p] = "none" /\ Len(work[p]) > 0

\* The outermost call starts, or a nested one.
Open(p) ==
  /\ result[p] = "none"
  /\ work' = [work EXCEPT ![p] = Append(@, {})]
  /\ UNCHANGED <<db, result>>

Record(p) ==
  /\ Running(p)
  /\ \E s \in Stmt[p] : work' = [work EXCEPT ![p][Len(work[p])] = @ \cup {s}]
  /\ UNCHANGED <<db, result>>

\* A nested call returns nil: its caller now holds what it did.
Keep(p) ==
  /\ Running(p) /\ Len(work[p]) > 1
  /\ work' = [work EXCEPT ![p] = Merge(@)]
  /\ UNCHANGED <<db, result>>

\* A nested call fails: what it did is gone.
Discard(p) ==
  /\ Running(p) /\ Len(work[p]) > 1
  /\ work' = [work EXCEPT ![p] = Front(@)]
  /\ UNCHANGED <<db, result>>

Commit(p) ==
  /\ Running(p) /\ Len(work[p]) = 1
  /\ db' = db \cup work[p][1]
  /\ result' = [result EXCEPT ![p] = "ok"]
  /\ UNCHANGED work

\* The commit failed: all of the work is in the database, or none of it.
CommitFails(p) ==
  /\ Running(p) /\ Len(work[p]) = 1
  /\ db' \in {db, db \cup work[p][1]}
  /\ result' = [result EXCEPT ![p] = "commitErr"]
  /\ UNCHANGED work

\* The outermost call fails before its commit: nothing reaches the database.
Fail(p) ==
  /\ result[p] = "none" /\ Len(work[p]) <= 1
  /\ result' \in {[result EXCEPT ![p] = r] : r \in {"err", "panic"}}
  /\ UNCHANGED <<db, work>>

Next ==
  \E p \in Proc :
    \/ Open(p) \/ Record(p) \/ Keep(p) \/ Discard(p)
    \/ Commit(p) \/ CommitFails(p) \/ Fail(p)

Spec == Init /\ [][Next]_vars
=============================================================================
