------------------------ MODULE TenantLifecycleProofs ------------------------
(***************************************************************************)
(* Theorems about TenantLifecycle for any registrations, purge tasks,      *)
(* objects and attempts, and roles that the row policy binds or not.       *)
(***************************************************************************)
EXTENDS TenantLifecycle, TLAPS

\* A registration makes its user at its commit, and knows who refused it.
RegisterInv ==
  \A r \in Registration :
    /\ pc[r] # "done" => users[r] = "none" /\ result[r] = "none"
    /\ result[r] = "ok" => users[r] # "none"
    /\ result[r] \in {"exists", "duplicate"} =>
         users[r] = "none" /\ SameEmail(r) \cap Registered # {}

\* An address in use, or in a transaction that has passed the unique index.
Holds(u) == users[u] = "plain" \/ pc[u] = "commit"
AddressInv ==
  \A u, v \in Registration : Holds(u) /\ Holds(v) /\ Email[u] = Email[v] => u = v

\* The snapshot of a purge that ends an active tenant is of all its users.
PurgeInv ==
  \A k \in Purge :
    /\ scope[k] \subseteq Registered
    /\ status = "active" /\ pc[k] \in {"rows", "mark", "commit"} => scope[k] = known[k]
    /\ pc[k] \in {"list", "delete"} \/ result[k] = "ok" => status = "deleted"

IInv == TypeOK /\ RegisterInv /\ AddressInv /\ PurgeInv /\ ScrubComplete

\* What a task has still to delete is among what it has listed.
StorageInv ==
  /\ blobs \subseteq uploaded /\ stored \subseteq uploaded
  /\ \A k \in Purge : pc[k] = "delete" => stored \cap blobs \subseteq listed[k]
  /\ StoragePurged

LEMMA InitEstablishes == Init => IInv /\ StorageInv
<1> SUFFICES ASSUME Init PROVE IInv /\ StorageInv
  OBVIOUS
<1> USE DEF Init, Call, Registered
<1>1. TypeOK
  BY AttemptsPositive DEF TypeOK
<1>2. RegisterInv
  BY DEF RegisterInv
<1>3. AddressInv
  BY DEF AddressInv, Holds
<1>4. PurgeInv
  BY DEF PurgeInv
<1>5. ScrubComplete
  BY DEF ScrubComplete
<1>6. StorageInv
  BY DEF StorageInv, StoragePurged
<1> QED
  BY <1>1, <1>2, <1>3, <1>4, <1>5, <1>6 DEF IInv

-----------------------------------------------------------------------------
\* Types.
LEMMA TypeStep == TypeOK /\ [Next]_vars => TypeOK'
<1> SUFFICES ASSUME TypeOK, [Next]_vars PROVE TypeOK'
  OBVIOUS
<1> USE DEF TypeOK, Call, GoTo, Return, tenantVars, history
<1>1. ASSUME NEW r \in Registration, Register(r) \/ RegisterFails(r) PROVE TypeOK'
  <2>1. CASE CheckEmail(r)
    BY <2>1 DEF CheckEmail
  <2>2. CASE InsertStarts(r)
    BY <2>2 DEF InsertStarts
  <2>3. CASE InsertUser(r)
    BY <2>3 DEF InsertUser
  <2>4. CASE RegisterCommits(r)
    BY <2>4 DEF RegisterCommits
  <2>5. CASE RegisterFails(r)
    BY <2>5 DEF RegisterFails
  <2> QED
    BY <1>1, <2>1, <2>2, <2>3, <2>4, <2>5 DEF Register
<1>2. ASSUME NEW k \in Purge, ProcessTask(k) PROVE TypeOK'
  <2>0. Registered \subseteq Registration /\ Visible \subseteq Registration
    BY DEF Registered, Visible
  <2>1. CASE ScrubStarts(k)
    BY <2>0, <2>1 DEF ScrubStarts
  <2>2. CASE ScrubApplies(k)
    BY <2>2 DEF ScrubApplies
  <2>3. CASE MarkDeleted(k)
    BY <2>3 DEF MarkDeleted
  <2>4. CASE PurgeCommits(k)
    BY <2>0, <2>4 DEF PurgeCommits, EndStatus
  <2>5. CASE ListBlobs(k)
    BY <2>5 DEF ListBlobs
  <2>6. CASE DeleteBlob(k)
    BY <2>6 DEF DeleteBlob
  <2>7. CASE PurgeReturns(k)
    BY <2>7 DEF PurgeReturns
  <2> QED
    BY <1>2, <2>1, <2>2, <2>3, <2>4, <2>5, <2>6, <2>7 DEF ProcessTask
<1>3. ASSUME NEW k \in Purge, PurgeFails(k) PROVE TypeOK'
  BY <1>3, AttemptsPositive DEF PurgeFails
<1>4. ASSUME NEW b \in Blob, Upload(b) PROVE TypeOK'
  BY <1>4 DEF Upload
<1>5. CASE UNCHANGED vars
  BY <1>5 DEF vars
<1> QED
  BY <1>1, <1>2, <1>3, <1>4, <1>5 DEF Next

LEMMA CallsApart == \A r \in Registration : r \notin Purge
  BY CallsDistinct

-----------------------------------------------------------------------------
\* Registrations.

\* A step of a registration before its commit, or one that gives it up.
LEMMA RegisterWaits ==
  ASSUME IInv, TypeOK', NEW r \in Registration, pc[r] # "done",
         UNCHANGED <<users, status, scope, known, late>>,
         \A c \in Call \ {r} : pc'[c] = pc[c] /\ result'[c] = result[c],
         \/ pc'[r] \in {"insert", "index", "commit"} /\ result'[r] = result[r]
         \/ pc'[r] = "done" /\ result'[r] = "err"
         \/ /\ pc'[r] = "done" /\ result'[r] \in {"exists", "duplicate"}
            /\ SameEmail(r) \cap Registered # {},
         pc'[r] = "commit" => \A u \in SameEmail(r) : ~Holds(u)
  PROVE  IInv'
<1>1. Registered' = Registered /\ \A u : SameEmail(u)' = SameEmail(u)
  BY DEF Registered, SameEmail
<1>2. RegisterInv'
  BY <1>1 DEF IInv, RegisterInv, Call
<1>3. AddressInv'
  <2>1. \A u \in Registration \ {r} : Holds(u)' => Holds(u)
    BY DEF Holds, Call
  <2>2. \A u \in Registration \ {r} : Holds(u)' /\ Holds(r)' => Email[u] # Email[r]
    <3>1. users[r] = "none"
      BY DEF IInv, RegisterInv
    <3>2. Holds(r)' => pc'[r] = "commit"
      BY <3>1 DEF Holds
    <3> QED
      BY <2>1, <3>2 DEF SameEmail
  <2> QED
    BY <2>1, <2>2 DEF IInv, AddressInv
<1>4. PurgeInv'
  BY <1>1, CallsApart DEF IInv, PurgeInv, Call
<1>5. ScrubComplete'
  BY <1>1 DEF IInv, ScrubComplete
<1> QED
  BY <1>2, <1>3, <1>4, <1>5 DEF IInv

LEMMA RegisterCommitsStep ==
  ASSUME IInv, TypeOK', NEW r \in Registration, RegisterCommits(r)
  PROVE  IInv'
<1> USE DEF RegisterCommits, Return, GoTo, tenantVars
<1>1. /\ pc[r] = "commit" /\ users[r] = "none"
      /\ users' = [users EXCEPT ![r] = "plain"]
      /\ UNCHANGED <<status, scope, known>>
      /\ late' = IF status = "deleted" THEN late \cup {r} ELSE late
  BY DEF IInv, RegisterInv, EndStatus
<1>2. PICK answer \in {"ok", "err"} :
        /\ pc' = [pc EXCEPT ![r] = "done"]
        /\ result' = [result EXCEPT ![r] = answer]
  OBVIOUS
<1>3. /\ Registered' = Registered \cup {r} /\ users'[r] = "plain"
      /\ \A u \in Registration \ {r} : users'[u] = users[u]
      /\ \A u : SameEmail(u)' = SameEmail(u)
  BY <1>1 DEF Registered, SameEmail, IInv, TypeOK
<1>4. \A c \in Call \ {r} : pc'[c] = pc[c] /\ result'[c] = result[c]
  BY <1>2 DEF IInv, TypeOK
<1>5. pc'[r] = "done" /\ result'[r] \in {"ok", "err"}
  BY <1>2 DEF IInv, TypeOK, Call
<1>6. RegisterInv'
  BY <1>3, <1>4, <1>5 DEF IInv, RegisterInv, Call
<1>7. AddressInv'
  <2>1. \A u \in Registration : Holds(u)' => Holds(u)
    BY <1>1, <1>3, <1>4, <1>5 DEF Holds, Call
  <2> QED
    BY <2>1 DEF IInv, AddressInv
<1>8. PurgeInv'
  BY <1>1, <1>3, <1>4, CallsApart DEF IInv, PurgeInv, Call
<1>9. ScrubComplete'
  BY <1>1, <1>3 DEF IInv, ScrubComplete
<1> QED
  BY <1>6, <1>7, <1>8, <1>9 DEF IInv

LEMMA RegisterStep ==
  ASSUME IInv, TypeOK', NEW r \in Registration, Register(r) \/ RegisterFails(r)
  PROVE  IInv'
<1> USE DEF Return, GoTo, tenantVars, history
<1>0. r \in Call /\ pc = [c \in Call |-> pc[c]] /\ result = [c \in Call |-> result[c]]
  BY DEF IInv, TypeOK, Call
<1>1. CASE CheckEmail(r)
  <2>1. Taken(r) \cap Visible # {} => SameEmail(r) \cap Registered # {}
    BY DEF Visible, Taken
  <2>2. /\ pc[r] # "done" /\ UNCHANGED <<users, status, scope, known, late>>
        /\ \A c \in Call \ {r} : pc'[c] = pc[c] /\ result'[c] = result[c]
        /\ \/ pc'[r] = "insert" /\ result'[r] = result[r]
           \/ /\ pc'[r] = "done" /\ result'[r] = "exists"
              /\ SameEmail(r) \cap Registered # {}
    BY <1>0, <1>1, <2>1 DEF CheckEmail
  <2> QED
    BY <2>2, RegisterWaits
<1>2. CASE InsertStarts(r)
  BY <1>0, <1>2, RegisterWaits DEF InsertStarts
<1>3. CASE InsertUser(r)
  <2>1. CASE Taken(r) # {}
    <3>1. SameEmail(r) \cap Registered # {}
      BY <2>1 DEF Taken, SameEmail, Registered
    <3> QED
      BY <1>0, <1>3, <2>1, <3>1, RegisterWaits DEF InsertUser
  <2>2. CASE Taken(r) = {}
    <3>1. \A u \in SameEmail(r) : ~Holds(u)
      BY <1>3, <2>2 DEF InsertUser, Inserted, Holds, Taken
    <3> QED
      BY <1>0, <1>3, <2>2, <3>1, RegisterWaits DEF InsertUser
  <2> QED
    BY <2>1, <2>2
<1>4. CASE RegisterCommits(r)
  BY <1>4, RegisterCommitsStep
<1>5. CASE RegisterFails(r)
  <2>1. /\ pc[r] # "done" /\ UNCHANGED <<users, status, scope, known, late>>
        /\ pc'[r] = "done" /\ result'[r] = "err"
        /\ \A c \in Call \ {r} : pc'[c] = pc[c] /\ result'[c] = result[c]
    BY <1>0, <1>5 DEF RegisterFails
  <2> QED
    BY <2>1, RegisterWaits
<1> QED
  BY <1>1, <1>2, <1>3, <1>4, <1>5 DEF Register

-----------------------------------------------------------------------------
\* Purge tasks.

\* A step of a task that commits nothing.
LEMMA PurgeWaits ==
  ASSUME IInv, TypeOK', NEW k \in Purge, UNCHANGED <<users, status, late>>,
         \A c \in Call \ {k} : pc'[c] = pc[c] /\ result'[c] = result[c],
         \A j \in Purge \ {k} : scope'[j] = scope[j] /\ known'[j] = known[j],
         scope'[k] \subseteq Registered,
         status = "active" /\ pc'[k] \in {"rows", "mark", "commit"} => scope'[k] = known'[k],
         pc'[k] \in {"list", "delete"} \/ result'[k] = "ok" => status = "deleted"
  PROVE  IInv'
<1>1. Registered' = Registered /\ \A u : SameEmail(u)' = SameEmail(u)
  BY DEF Registered, SameEmail
<1>2. \A r \in Registration : r \in Call /\ r # k
  BY CallsApart DEF Call
<1>3. RegisterInv'
  BY <1>1, <1>2 DEF IInv, RegisterInv
<1>4. AddressInv'
  BY <1>2 DEF IInv, AddressInv, Holds
<1>5. PurgeInv'
  BY <1>1 DEF IInv, PurgeInv, Call
<1>6. ScrubComplete'
  BY <1>1 DEF IInv, ScrubComplete
<1> QED
  BY <1>3, <1>4, <1>5, <1>6 DEF IInv

LEMMA PurgeCommitsStep ==
  ASSUME IInv, TypeOK', NEW k \in Purge, PurgeCommits(k)
  PROVE  IInv'
<1> USE DEF PurgeCommits, GoTo
<1>0. k \in Call /\ pc[k] = "commit"
  BY DEF Call
<1>1. /\ users' = [u \in Registration |-> IF u \in scope[k] THEN "scrubbed" ELSE users[u]]
      /\ status' = "deleted" /\ result' = result
      /\ late' = IF status = "active" THEN Registered \ known[k] ELSE late
      /\ scope' = [scope EXCEPT ![k] = {}]
      /\ scope[k] \subseteq Registered
  BY DEF EndStatus, IInv, PurgeInv
<1>2. Registered' = Registered /\ \A u : SameEmail(u)' = SameEmail(u)
  BY <1>1 DEF Registered, SameEmail
<1>3. \A c \in Call \ {k} : pc'[c] = pc[c]
  BY DEF IInv, TypeOK
<1>4. \A r \in Registration : r \in Call /\ r # k
  BY CallsApart DEF Call
<1>5. RegisterInv'
  <2>1. \A r \in Registration : users'[r] = "none" <=> users[r] = "none"
    BY <1>1 DEF Registered
  <2> QED
    BY <1>1, <1>2, <1>3, <1>4, <2>1 DEF IInv, RegisterInv
<1>6. AddressInv'
  <2>1. \A u \in Registration : Holds(u)' => Holds(u)
    BY <1>1, <1>3, <1>4 DEF Holds
  <2> QED
    BY <2>1 DEF IInv, AddressInv
<1>7. PurgeInv'
  <2>1. \A j \in Purge : scope'[j] \subseteq Registered
    BY <1>1 DEF IInv, PurgeInv, TypeOK
  <2> QED
    BY <1>1, <1>2, <2>1 DEF PurgeInv
<1>8. ScrubComplete'
  <2> SUFFICES ASSUME NEW u \in Registered \ late' PROVE users'[u] = "scrubbed"
    BY <1>2 DEF ScrubComplete
  <2>1. u \in Registration
    BY DEF Registered
  <2>2. CASE status = "active"
    <3>1. u \in known[k] /\ scope[k] = known[k]
      BY <1>0, <1>1, <2>2 DEF IInv, PurgeInv
    <3> QED
      BY <1>1, <2>1, <3>1
  <2>3. CASE status # "active"
    <3>1. status = "deleted" /\ users[u] = "scrubbed"
      BY <1>1, <2>3 DEF IInv, TypeOK, ScrubComplete
    <3> QED
      BY <1>1, <2>1, <3>1
  <2> QED
    BY <2>2, <2>3
<1> QED
  BY <1>5, <1>6, <1>7, <1>8 DEF IInv

LEMMA ProcessTaskStep ==
  ASSUME IInv, TypeOK', NEW k \in Purge, ProcessTask(k) \/ PurgeFails(k)
  PROVE  IInv'
<1> USE DEF Return, GoTo, tenantVars, history
<1>0. /\ k \in Call /\ pc = [c \in Call |-> pc[c]] /\ result = [c \in Call |-> result[c]]
      /\ scope \in [Purge -> SUBSET Registration] /\ known \in [Purge -> SUBSET Registration]
      /\ scope[k] \subseteq Registered
      /\ status = "active" /\ pc[k] \in {"rows", "mark", "commit"} => scope[k] = known[k]
      /\ pc[k] \in {"list", "delete"} \/ result[k] = "ok" => status = "deleted"
  BY DEF IInv, TypeOK, Call, PurgeInv
<1>1. CASE ScrubStarts(k)
  <2>1. /\ UNCHANGED <<users, status, late>>
        /\ \A c \in Call \ {k} : pc'[c] = pc[c] /\ result'[c] = result[c]
        /\ \A j \in Purge \ {k} : scope'[j] = scope[j] /\ known'[j] = known[j]
        /\ scope'[k] = Visible /\ known'[k] = Registered
        /\ pc'[k] = "rows" /\ result'[k] = result[k]
    BY <1>0, <1>1 DEF ScrubStarts
  <2>2. /\ scope'[k] \subseteq Registered
        /\ status = "active" => scope'[k] = known'[k]
    BY <2>1 DEF Visible, Open
  <2> QED
    BY <1>0, <2>1, <2>2, PurgeWaits
<1>2. CASE ScrubApplies(k)
  BY <1>0, <1>2, PurgeWaits DEF ScrubApplies
<1>3. CASE MarkDeleted(k)
  BY <1>0, <1>3, PurgeWaits DEF MarkDeleted
<1>4. CASE PurgeCommits(k)
  BY <1>4, PurgeCommitsStep
<1>5. CASE ListBlobs(k)
  BY <1>0, <1>5, PurgeWaits DEF ListBlobs
<1>6. CASE DeleteBlob(k)
  BY <1>0, <1>6, PurgeWaits DEF DeleteBlob
<1>7. CASE PurgeReturns(k)
  BY <1>0, <1>7, PurgeWaits DEF PurgeReturns
<1>8. CASE PurgeFails(k)
  BY <1>0, <1>8, PurgeWaits DEF PurgeFails
<1> QED
  BY <1>1, <1>2, <1>3, <1>4, <1>5, <1>6, <1>7, <1>8 DEF ProcessTask

-----------------------------------------------------------------------------
\* Storage.

\* With a storage engine a task has listed what it has still to delete; and an
\* object that comes later was not among those of the tenant's end.
LEMMA StorageStep ==
  ASSUME StorageConfigured, IInv, StorageInv, [Next]_vars
  PROVE  StorageInv'
<1> USE DEF StorageInv, StoragePurged, Return, GoTo, tenantVars, history
<1>0. /\ pc = [c \in Call |-> pc[c]] /\ result = [c \in Call |-> result[c]]
      /\ listed \in [Purge -> SUBSET Blob] /\ Purge \subseteq Call
  BY DEF IInv, TypeOK, Call
<1>1. ASSUME UNCHANGED <<blobs, uploaded, listed, stored>>,
             \A k \in Purge : pc'[k] = pc[k] /\ result'[k] = result[k]
      PROVE  StorageInv'
  BY <1>1
<1>2. ASSUME NEW r \in Registration, Register(r) \/ RegisterFails(r) PROVE StorageInv'
  <2>1. UNCHANGED <<blobs, uploaded, listed, stored>>
    BY <1>2 DEF Register, CheckEmail, InsertStarts, InsertUser, RegisterCommits, RegisterFails
  <2>2. \A c \in Call \ {r} : pc'[c] = pc[c] /\ result'[c] = result[c]
    BY <1>0, <1>2
    DEF Register, CheckEmail, InsertStarts, InsertUser, RegisterCommits, RegisterFails
  <2> QED
    BY <1>0, <1>1, <2>1, <2>2, CallsApart
<1>3. ASSUME NEW k \in Purge, ProcessTask(k) \/ PurgeFails(k) PROVE StorageInv'
  <2>1. CASE ScrubStarts(k)
    BY <1>0, <2>1 DEF ScrubStarts
  <2>2. CASE ScrubApplies(k)
    BY <1>0, <2>2 DEF ScrubApplies
  <2>3. CASE MarkDeleted(k)
    BY <1>0, <2>3 DEF MarkDeleted
  <2>4. CASE PurgeCommits(k)
    <3>1. /\ UNCHANGED <<blobs, uploaded, result>> /\ pc' = [pc EXCEPT ![k] = "list"]
          /\ UNCHANGED listed
          /\ IF status = "active" THEN stored' = blobs ELSE stored' = stored
      BY <2>4 DEF PurgeCommits
    <3>2. status = "active" => \A j \in Purge : pc[j] # "delete" /\ result[j] # "ok"
      BY DEF IInv, PurgeInv
    <3> QED
      BY <1>0, <3>1, <3>2
  <2>5. CASE ListBlobs(k)
    BY <1>0, <2>5 DEF ListBlobs
  <2>6. CASE DeleteBlob(k)
    BY <1>0, <2>6 DEF DeleteBlob
  <2>7. CASE PurgeReturns(k)
    BY <1>0, <2>7 DEF PurgeReturns
  <2>8. CASE PurgeFails(k)
    BY <1>0, <2>8 DEF PurgeFails
  <2> QED
    BY <1>3, <2>1, <2>2, <2>3, <2>4, <2>5, <2>6, <2>7, <2>8 DEF ProcessTask
<1>4. ASSUME NEW b \in Blob, Upload(b) PROVE StorageInv'
  BY <1>4 DEF Upload
<1>5. CASE UNCHANGED vars
  BY <1>1, <1>5 DEF vars
<1> QED
  BY <1>2, <1>3, <1>4, <1>5 DEF Next

-----------------------------------------------------------------------------
LEMMA NextPreserves == IInv /\ [Next]_vars => IInv'
<1> SUFFICES ASSUME IInv, [Next]_vars PROVE IInv'
  OBVIOUS
<1>0. TypeOK'
  BY TypeStep DEF IInv
<1>1. ASSUME UNCHANGED <<users, status, scope, known, late>>,
             \A c \in Call : pc'[c] = pc[c] /\ result'[c] = result[c]
      PROVE  IInv'
  <2>1. Registered' = Registered /\ \A u : SameEmail(u)' = SameEmail(u)
    BY <1>1 DEF Registered, SameEmail
  <2>2. RegisterInv'
    BY <1>1, <2>1 DEF IInv, RegisterInv, Call
  <2>3. AddressInv'
    BY <1>1 DEF IInv, AddressInv, Holds, Call
  <2>4. PurgeInv'
    BY <1>1, <2>1 DEF IInv, PurgeInv, Call
  <2>5. ScrubComplete'
    BY <1>1, <2>1 DEF IInv, ScrubComplete
  <2> QED
    BY <1>0, <2>2, <2>3, <2>4, <2>5 DEF IInv
<1>2. ASSUME NEW b \in Blob, Upload(b) PROVE IInv'
  BY <1>1, <1>2 DEF Upload, history
<1>3. CASE UNCHANGED vars
  BY <1>1, <1>3 DEF vars
<1> QED
  BY <1>0, <1>2, <1>3, RegisterStep, ProcessTaskStep DEF Next

THEOREM Inductive == Spec => []IInv
<1>1. Init => IInv
  BY InitEstablishes
<1> QED
  BY <1>1, NextPreserves, PTL DEF Spec

\* The variables have their types, for any calls, objects and attempts.
THEOREM TypeCorrect == Spec => []TypeOK
<1>1. IInv => TypeOK
  BY DEF IInv
<1> QED
  BY <1>1, Inductive, PTL

\* Two users of the tenant never have the same address: whoever has passed the
\* unique index holds the address until its transaction ends.
THEOREM EmailUniqueHolds == Spec => []EmailUnique
<1>1. IInv => EmailUnique
  BY DEF IInv, AddressInv, Holds, EmailUnique
<1> QED
  BY <1>1, Inductive, PTL

\* Register reports success only for a user that is there, and a conflict only
\* when another call has made a user with that address.
THEOREM RegisterTruthfulHolds == Spec => []RegisterTruthful
<1>1. IInv => RegisterTruthful
  BY DEF IInv, RegisterInv, RegisterTruthful
<1> QED
  BY <1>1, Inductive, PTL

\* The transaction that ends the tenant has scrubbed every user that was
\* registered before it began, whatever crashed and however many tasks ran.
THEOREM ScrubCompleteHolds == Spec => []ScrubComplete
<1>1. IInv => ScrubComplete
  BY DEF IInv
<1> QED
  BY <1>1, Inductive, PTL

\* A task that reports success leaves none of the tenant's objects, provided
\* that the worker has a storage engine.
THEOREM StoragePurgedHolds == StorageConfigured => (Spec => []StoragePurged)
<1> SUFFICES ASSUME StorageConfigured PROVE Spec => []StoragePurged
  OBVIOUS
<1>1. Init => StorageInv
  BY InitEstablishes
<1>2. IInv /\ StorageInv /\ [Next]_vars => StorageInv'
  BY StorageStep
<1>3. StorageInv => StoragePurged
  BY DEF StorageInv
<1> QED
  BY <1>1, <1>2, <1>3, Inductive, PTL DEF Spec
=============================================================================
