--------------------------- MODULE TenantLifecycle ---------------------------
(***************************************************************************)
(* The accounts of one tenant and the end of it: registrations by the API, *)
(* and the purge tasks of the worker, which scrub the users and mark the   *)
(* tenant deleted in one transaction and then delete the tenant's objects  *)
(* from blob storage.                                                      *)
(*                                                                         *)
(* PostgreSQL is external, as in Orders.  The row policy shows and accepts *)
(* users of active tenants only, to a role it binds, and decides by the    *)
(* snapshot of the statement; the unique index makes an INSERT wait for    *)
(* the transactions that hold its key.  So is Asynq: a task that returns   *)
(* an error, or whose worker dies, is run again from its beginning until   *)
(* it is archived.                                                         *)
(***************************************************************************)
EXTENDS Naturals, FiniteSets

CONSTANTS
  Registration,     \* calls of Register, each named for the user it makes
  Purge,            \* purge tasks; nothing keeps two of them from running
  Blob,             \* objects under the tenant's prefix, each uploaded once
  Email,            \* Email[r]: the address a registration asks for
  StorageConfigured,\* the worker was given a storage engine
  RowSecurity,      \* the policy binds the role of DATABASE_URL; not a superuser
  MaxAttempts       \* bound: runs of a purge task

ASSUME CallsDistinct == Registration \cap Purge = {}
ASSUME EmailTotal == DOMAIN Email = Registration
ASSUME StorageBoolean == StorageConfigured \in BOOLEAN
ASSUME RowSecurityBoolean == RowSecurity \in BOOLEAN
ASSUME AttemptsPositive == MaxAttempts \in Nat \ {0}

VARIABLES
  pc,       \* pc[c]: where the call or task is
  users,    \* users[u]: the committed row: "none", "plain" or "scrubbed"
  status,   \* the tenant's committed status
  scope,    \* scope[k]: users that task k's UPDATE is about
  attempt,  \* attempt[k]: the run that k is in
  blobs,    \* objects in the bucket
  uploaded, \* objects that have been uploaded
  listed,   \* listed[k]: objects that DeletePrefix has listed and not deleted
  result,   \* result[c]: what the call or task returned
  known,    \* history. known[k]: users committed when k's transaction began
  late,     \* history: users who registered after the tenant's end had begun
  stored    \* history: objects in the bucket when the tenant was deleted

vars == <<pc, users, status, scope, attempt, blobs, uploaded, listed, result,
          known, late, stored>>
history == <<known, late, stored>>
tenantVars == <<status, scope, attempt, blobs, uploaded, listed>>

Call == Registration \cup Purge
Registered == {u \in Registration : users[u] # "none"}
\* Mutant: a status that no policy and no query knows.
EndStatusUnknown == "purged"
\* What the purge sets the tenant's status to.
EndStatus == "deleted"

\* The row policy lets a statement that starts now read and write users, and
\* the users it then shows.
Open == RowSecurity => status = "active"
Visible == IF Open THEN Registered ELSE {}

Init ==
  /\ pc = [c \in Call |-> "start"]
  /\ users = [u \in Registration |-> "none"]
  /\ status = "active"
  /\ scope = [k \in Purge |-> {}]
  /\ attempt = [k \in Purge |-> 1]
  /\ blobs = {} /\ uploaded = {}
  /\ listed = [k \in Purge |-> {}]
  /\ result = [c \in Call |-> "none"]
  /\ known = [k \in Purge |-> {}]
  /\ late = {} /\ stored = {}

GoTo(c, next) == pc' = [pc EXCEPT ![c] = next]
Return(c, r) == GoTo(c, "done") /\ result' = [result EXCEPT ![c] = r]

-----------------------------------------------------------------------------
SameEmail(r) == {u \in Registration \ {r} : Email[u] = Email[r]}
\* Committed users who have the address; scrubbing has replaced it.
Taken(r) == {u \in SameEmail(r) : users[u] = "plain"}

\* Register: GetUserByEmail, in the transaction that will insert.
CheckEmail(r) ==
  /\ pc[r] = "start"
  /\ IF Taken(r) \cap Visible # {}
     THEN Return(r, "exists") ELSE GoTo(r, "insert") /\ UNCHANGED result
  /\ UNCHANGED <<users, tenantVars, history>>

\* The INSERT starts: its snapshot decides whether the row policy accepts it.
InsertStarts(r) ==
  /\ pc[r] = "insert"
  /\ IF Open THEN GoTo(r, "index") /\ UNCHANGED result ELSE Return(r, "err")
  /\ UNCHANGED <<users, tenantVars, history>>

\* Transactions that have written users, or the tenant, and not ended.
Scrubbed(k) == IF pc[k] \in {"mark", "commit"} THEN scope[k] ELSE {}
Inserted(r) == pc[r] = "commit"

\* Mutant: no unique index on (tenant_id, email).
InsertUserUnchecked(r) ==
  /\ pc[r] = "index"
  /\ GoTo(r, "commit")
  /\ UNCHANGED <<users, tenantVars, result, history>>

\* It reaches the unique index and waits for those who hold the address.
InsertUser(r) ==
  /\ pc[r] = "index"
  /\ \A u \in SameEmail(r) : ~Inserted(u) /\ \A k \in Purge : u \notin Scrubbed(k)
  /\ IF Taken(r) # {}
     THEN Return(r, "duplicate") ELSE GoTo(r, "commit") /\ UNCHANGED result
  /\ UNCHANGED <<users, tenantVars, history>>

\* Mutant: success is reported without waiting for the commit.
RegisterCommitsUnheard(r) ==
  /\ pc[r] = "commit"
  /\ Return(r, "ok")
  /\ UNCHANGED <<users, tenantVars, history>>

\* After the commit GenerateToken fails, or the answer is lost: an error too.
RegisterCommits(r) ==
  /\ pc[r] = "commit"
  /\ users' = [users EXCEPT ![r] = "plain"]
  /\ late' = IF status = EndStatus THEN late \cup {r} ELSE late
  /\ \E answer \in {"ok", "err"} : Return(r, answer)
  /\ UNCHANGED <<tenantVars, known, stored>>

\* An error before the commit: nothing is kept.
RegisterFails(r) ==
  /\ pc[r] # "done"
  /\ Return(r, "err")
  /\ UNCHANGED <<users, tenantVars, history>>

-----------------------------------------------------------------------------
\* Mutant: the tenant is marked first, and the policy hides its users from
\* the transaction that did.
ScrubStartsAfterMark(k) ==
  /\ pc[k] = "start"
  /\ scope' = [scope EXCEPT ![k] = {}]
  /\ known' = [known EXCEPT ![k] = Registered]
  /\ GoTo(k, "rows")
  /\ UNCHANGED <<users, status, attempt, blobs, uploaded, listed, result, late, stored>>

\* ProcessTask, phase 1: the transaction begins with UPDATE users, whose
\* snapshot decides which rows it is about ...
ScrubStarts(k) ==
  /\ pc[k] = "start"
  /\ scope' = [scope EXCEPT ![k] = Visible]
  /\ known' = [known EXCEPT ![k] = Registered]
  /\ GoTo(k, "rows")
  /\ UNCHANGED <<users, status, attempt, blobs, uploaded, listed, result, late, stored>>

\* ... and it waits for another task that has updated them.
ScrubApplies(k) ==
  /\ pc[k] = "rows"
  /\ \A j \in Purge \ {k} : Scrubbed(j) \cap scope[k] = {}
  /\ GoTo(k, "mark")
  /\ UNCHANGED <<users, tenantVars, result, history>>

\* UPDATE tenants, which waits for another task that has updated the row.
MarkDeleted(k) ==
  /\ pc[k] = "mark"
  /\ \A j \in Purge \ {k} : pc[j] # "commit"
  /\ GoTo(k, "commit")
  /\ UNCHANGED <<users, tenantVars, result, history>>

PurgeCommits(k) ==
  /\ pc[k] = "commit"
  /\ users' = [u \in Registration |-> IF u \in scope[k] THEN "scrubbed" ELSE users[u]]
  /\ status' = EndStatus
  /\ IF status = "active" THEN late' = Registered \ known[k] /\ stored' = blobs
     ELSE UNCHANGED <<late, stored>>
  /\ scope' = [scope EXCEPT ![k] = {}]
  /\ known' = [known EXCEPT ![k] = {}]
  /\ GoTo(k, "list")
  /\ UNCHANGED <<attempt, blobs, uploaded, listed, result>>

\* Phase 2, DeletePrefix; skipped without a storage engine.
ListBlobs(k) ==
  /\ pc[k] = "list"
  /\ listed' = [listed EXCEPT ![k] = IF StorageConfigured THEN blobs ELSE {}]
  /\ GoTo(k, "delete")
  /\ UNCHANGED <<users, status, scope, attempt, blobs, uploaded, result, history>>

\* Mutant: an error of the bucket is passed over like a missing object.
DeleteBlobOrNot(k) ==
  /\ pc[k] = "delete"
  /\ \E b \in listed[k] :
       /\ blobs' \in {blobs, blobs \ {b}}
       /\ listed' = [listed EXCEPT ![k] = @ \ {b}]
  /\ UNCHANGED <<pc, users, status, scope, attempt, uploaded, result, history>>
\* Mutant: an object that is not found is tried again.
DeleteBlobStrict(k) ==
  /\ pc[k] = "delete"
  /\ \E b \in listed[k] \cap blobs :
       /\ blobs' = blobs \ {b}
       /\ listed' = [listed EXCEPT ![k] = @ \ {b}]
  /\ UNCHANGED <<pc, users, status, scope, attempt, uploaded, result, history>>

\* An object that another task has deleted meanwhile is passed over.
DeleteBlob(k) ==
  /\ pc[k] = "delete"
  /\ \E b \in listed[k] :
       /\ blobs' = blobs \ {b}
       /\ listed' = [listed EXCEPT ![k] = @ \ {b}]
  /\ UNCHANGED <<pc, users, status, scope, attempt, uploaded, result, history>>

PurgeReturns(k) ==
  /\ pc[k] = "delete" /\ listed[k] = {}
  /\ Return(k, "ok")
  /\ UNCHANGED <<users, tenantVars, history>>

\* Any step fails, or the worker dies: what is not committed is rolled back,
\* and Asynq runs the task again or gives it up.
PurgeFails(k) ==
  /\ pc[k] # "done"
  /\ IF attempt[k] < MaxAttempts
     THEN /\ attempt' = [attempt EXCEPT ![k] = @ + 1]
          /\ GoTo(k, "start") /\ UNCHANGED result
     ELSE Return(k, "archived") /\ UNCHANGED attempt
  /\ scope' = [scope EXCEPT ![k] = {}]
  /\ listed' = [listed EXCEPT ![k] = {}]
  /\ known' = [known EXCEPT ![k] = {}]
  /\ UNCHANGED <<users, status, blobs, uploaded, late, stored>>

\* A client uses a presigned URL, before or after the tenant's end.
Upload(b) ==
  /\ b \notin uploaded
  /\ blobs' = blobs \cup {b} /\ uploaded' = uploaded \cup {b}
  /\ UNCHANGED <<pc, users, status, scope, attempt, listed, result, history>>

Register(r) ==
  \/ CheckEmail(r) \/ InsertStarts(r) \/ InsertUser(r)
  \/ RegisterCommits(r)

ProcessTask(k) ==
  \/ ScrubStarts(k) \/ ScrubApplies(k) \/ MarkDeleted(k)
  \/ PurgeCommits(k) \/ ListBlobs(k) \/ DeleteBlob(k) \/ PurgeReturns(k)

Next ==
  \/ \E r \in Registration : Register(r) \/ RegisterFails(r)
  \/ \E k \in Purge : ProcessTask(k) \/ PurgeFails(k)
  \/ \E b \in Blob : Upload(b)

Spec == Init /\ [][Next]_vars

\* A call that can go on does, and a task is run while a worker is up; nothing
\* is assumed of failures.
FairSpec ==
  /\ Spec
  /\ \A r \in Registration : WF_vars(Register(r))
  /\ \A k \in Purge : WF_vars(ProcessTask(k))

-----------------------------------------------------------------------------
TypeOK ==
  /\ pc \in [Call -> {"start", "insert", "index", "commit", "rows",
                      "mark", "list", "delete", "done"}]
  /\ users \in [Registration -> {"none", "plain", "scrubbed"}]
  /\ status \in {"active", "deleted"}
  /\ scope \in [Purge -> SUBSET Registration]
  /\ attempt \in [Purge -> 1 .. MaxAttempts]
  /\ blobs \in SUBSET Blob /\ uploaded \in SUBSET Blob
  /\ listed \in [Purge -> SUBSET Blob]
  /\ result \in [Call -> {"none", "ok", "exists", "duplicate", "err", "archived"}]
  /\ known \in [Purge -> SUBSET Registration]
  /\ late \in SUBSET Registration /\ stored \in SUBSET Blob

\* However the check of Register and its INSERT fall between those of another
\* call, no two users of the tenant have the same address.
EmailUnique ==
  \A u, v \in Registration :
    users[u] = "plain" /\ users[v] = "plain" /\ Email[u] = Email[v] => u = v

\* Register reports success only for a user that is there, and reports a
\* conflict only when another call did make a user with that address.
RegisterTruthful ==
  \A r \in Registration :
    /\ result[r] = "ok" => users[r] # "none"
    /\ result[r] \in {"exists", "duplicate"} =>
         users[r] = "none" /\ SameEmail(r) \cap Registered # {}

\* Through crashes, retries and two tasks for one tenant, the transaction that
\* deletes the tenant has scrubbed every user registered before it began.
ScrubComplete ==
  status = "deleted" => \A u \in Registered \ late : users[u] = "scrubbed"

\* A task that reports success leaves none of the objects in storage that the
\* tenant had when it was deleted, however often and wherever it failed before.
StoragePurged ==
  \A k \in Purge : result[k] = "ok" => stored \cap blobs = {}

\* Registrations that wait for the unique index, tasks that wait for each
\* other's rows and delete the same objects: each comes to its end.
EveryCallEnds == \A c \in Call : <>(pc[c] = "done")

\* Phase 1 anonymizes the user records of the tenant (worker.go): after a
\* purge has succeeded none is left as it was.
NoPiiLeft ==
  (\E k \in Purge : result[k] = "ok") => \A u \in Registered : users[u] = "scrubbed"
=============================================================================
