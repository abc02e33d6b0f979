---------------------------- MODULE HybridErasure ----------------------------
(***************************************************************************)
(* Writing to and erasing from the two stores of the hybrid RAG index       *)
(* (services/rag_index.py HybridRagIndexBackend, services/rag_lifecycle.py, *)
(* services/data_lifecycle.py): the execution that IngestionQueue takes in  *)
(* one step, opened up.                                                     *)
(*                                                                          *)
(* A writer holds the tenant's lifecycle advisory lock on a session of its  *)
(* own while it checks the tombstones, bulk-writes OpenSearch, drops the    *)
(* other revisions there and commits to pgvector.  An executor (one run of  *)
(* a retention or a tenant deletion) leases the journal entry of its scope, *)
(* takes the same locks inside its final transaction, deletes from          *)
(* OpenSearch, verifies, and commits PostgreSQL.  Failures leave each store *)
(* where it was when they struck.                                           *)
(*                                                                          *)
(* A document is stored in chunks, and the evidence id of a chunk is made   *)
(* from its index, not from the revision: a revision overwrites the chunks  *)
(* it has in common with an earlier one, and a longer one adds to them.     *)
(* Retention deletes from OpenSearch the ids it finds in PostgreSQL, no     *)
(* others; a tenant deletion deletes whatever the tenant has.               *)
(***************************************************************************)
EXTENDS Integers, FiniteSets

CONSTANTS
  Docs, Revisions, Writers, Executors,
  Chunks,         \* chunk indices: with the document they make an evidence id
  ChunksOf,       \* [Revisions -> SUBSET Chunks], the chunks a revision is cut into
  Tenants,        \* numbers, so that locks have the order tenant_id ASC gives them
  TenantOf,       \* [Docs -> Tenants]
  Everyone,       \* the scope of a retention operation
  None,           \* the holder of a free lock, the document of an idle writer
  RetentionDays,  \* the evidence_indexes retention the deployed policies have used
  LateBulks,      \* may OpenSearch apply a bulk after its client has given up?
  SessionLoss,    \* may PostgreSQL drop a session that holds an advisory lock?
  MaxTime, MaxLeases, MaxFaults  \* bounds

ASSUME ErasureAssumption ==
  /\ Tenants \subseteq Nat
  /\ TenantOf \in [Docs -> Tenants]
  /\ Everyone \notin Tenants
  /\ ChunksOf \in [Revisions -> SUBSET Chunks \ {{}}]
  /\ None \notin Writers \cup Executors \cup Docs \cup Revisions
  /\ Writers \cap Executors = {}
  /\ RetentionDays \subseteq Nat /\ RetentionDays # {}
  /\ LateBulks \in BOOLEAN /\ SessionLoss \in BOOLEAN
  /\ MaxTime \in Nat /\ MaxLeases \in Nat /\ MaxFaults \in Nat

Scopes == Tenants \cup {Everyone}

VARIABLES
  os,          \* [Docs -> Copies], what OpenSearch holds
  pg,          \* [Docs -> Copies], what rag_evidence_chunks holds
  updatedAt,   \* [Docs -> Nat], updated_at of the pgvector rows
  late,        \* items of bulk requests whose client has given up
  tombstones,  \* tenants in rag_tenant_deletion_tombstones
  lock,        \* [Tenants -> holder], the lifecycle advisory locks
  wpc, doc, rev,   \* each writer and the revision it is writing
  journal,     \* [Scopes -> the latest row of rag_lifecycle_operations]
  epc, op,     \* each executor and the operation it runs
  now,
  operations, successes,  \* [Scopes -> Nat], rows inserted, success audits committed
  suspect,     \* <<d, "write">>, <<d, "erase">>: reported as failed, not made good since
  faults

storeVars == <<os, pg, updatedAt, late>>
writerVars == <<wpc, doc, rev>>
executorVars == <<journal, epc, op, operations, successes>>
vars == <<storeVars, tombstones, lock, writerVars, executorVars, now, suspect, faults>>

WriterPCs == {"idle", "fence", "bulk", "reconcile", "pgvector", "commit"}
ExecutorPCs == {"idle", "targets", "locks", "delete", "verify", "commit"}
JournalStatuses == {"none", "pending", "processing", "completed"}
Rows == [status : JournalStatuses, token : Nat, live : BOOLEAN, executedAt : Nat, cutoff : Int]
Operations == [scope : Scopes, token : Nat, cutoff : Int, pgCutoff : Int,
               want : SUBSET Tenants, doomed : SUBSET (Docs \X Chunks)]

\* what a store holds of a document: chunks, each of some revision
Copies == SUBSET (Chunks \X Revisions)
Contents(r) == ChunksOf[r] \X {r}
Ids(copy) == {c[1] : c \in copy}

\* each item replaces what was stored under its id
Overwrite(copy, items) == items \cup {c \in copy : c[1] \notin Ids(items)}

DocsOf(t) == {d \in Docs : TenantOf[d] = t}
NoOperation == [scope |-> Everyone, token |-> 0, cutoff |-> 0, pgCutoff |-> 0,
                want |-> {}, doomed |-> {}]

Init ==
  /\ os = [d \in Docs |-> {}]
  /\ pg = [d \in Docs |-> {}]
  /\ updatedAt = [d \in Docs |-> 0]
  /\ late = {}
  /\ tombstones = {}
  /\ lock = [t \in Tenants |-> None]
  /\ wpc = [w \in Writers |-> "idle"]
  /\ doc = [w \in Writers |-> None]
  /\ rev = [w \in Writers |-> None]
  /\ journal = [s \in Scopes |-> [status |-> "none", token |-> 0, live |-> FALSE,
                                  executedAt |-> 0, cutoff |-> 0]]
  /\ epc = [e \in Executors |-> "idle"]
  /\ op = [e \in Executors |-> NoOperation]
  /\ now = 0
  /\ operations = [s \in Scopes |-> 0]
  /\ successes = [s \in Scopes |-> 0]
  /\ suspect = {}
  /\ faults = 0

SpendFault == faults < MaxFaults /\ faults' = faults + 1

\* the end of the sessions of p: every advisory lock it held is free
Release(p) == lock' = [t \in Tenants |-> IF lock[t] = p THEN None ELSE lock[t]]

Goto(w, label) == wpc' = [wpc EXCEPT ![w] = label]
EGoto(e, label) == epc' = [epc EXCEPT ![e] = label]

\* index_chunks returns or raises
EndWrite(w) ==
  /\ Goto(w, "idle")
  /\ doc' = [doc EXCEPT ![w] = None]
  /\ rev' = [rev EXCEPT ![w] = None]
  /\ Release(w)

\* execute_retention or delete_tenant_data returns or raises
EndOperation(e) ==
  /\ EGoto(e, "idle")
  /\ op' = [op EXCEPT ![e] = NoOperation]
  /\ Release(e)

-----------------------------------------------------------------------------
(* HybridRagIndexBackend.index_chunks                                       *)

\* mutant: the writer locks its revision key but not the tenant's lifecycle key
BeginWriteUnlocked(w, d, r) ==
  /\ wpc[w] = "idle"
  /\ doc' = [doc EXCEPT ![w] = d]
  /\ rev' = [rev EXCEPT ![w] = r]
  /\ Goto(w, "fence")
  /\ UNCHANGED <<storeVars, tombstones, lock, executorVars, now, suspect, faults>>

\* pg_advisory_lock on a session of the writer's own; a wait that times out
\* leaves nothing behind
BeginWrite(w, d, r) ==
  /\ wpc[w] = "idle"
  /\ lock[TenantOf[d]] = None
  /\ lock' = [lock EXCEPT ![TenantOf[d]] = w]
  /\ doc' = [doc EXCEPT ![w] = d]
  /\ rev' = [rev EXCEPT ![w] = r]
  /\ Goto(w, "fence")
  /\ UNCHANGED <<storeVars, tombstones, executorVars, now, suspect, faults>>

\* mutant: the writer relies on the triggers of migration 012 alone
CheckFenceNever(w) ==
  /\ wpc[w] = "fence"
  /\ Goto(w, "bulk")
  /\ UNCHANGED <<storeVars, tombstones, lock, doc, rev, executorVars, now, suspect, faults>>

\* assert_writable, under the lock
CheckFence(w) ==
  /\ wpc[w] = "fence"
  /\ IF TenantOf[doc[w]] \in tombstones
       THEN EndWrite(w)
       ELSE Goto(w, "bulk") /\ UNCHANGED <<lock, doc, rev>>
  /\ UNCHANGED <<storeVars, tombstones, executorVars, now, suspect, faults>>

BulkIndex(w) ==
  /\ wpc[w] = "bulk"
  /\ os' = [os EXCEPT ![doc[w]] = Overwrite(@, Contents(rev[w]))]
  /\ Goto(w, "reconcile")
  /\ UNCHANGED <<pg, updatedAt, late, tombstones, lock, doc, rev, executorVars,
                 now, suspect, faults>>

\* _delete_by_query of whatever is of the document and not of the revision
ReconcileRevisions(w) ==
  /\ wpc[w] = "reconcile"
  /\ os' = [os EXCEPT ![doc[w]] = @ \cap Contents(rev[w])]
  /\ Goto(w, "pgvector")
  /\ UNCHANGED <<pg, updatedAt, late, tombstones, lock, doc, rev, executorVars,
                 now, suspect, faults>>

\* the upsert: the trigger of migration 012 refuses a tenant whose tombstone has
\* been committed; nobody sees the rows yet
UpsertPgvector(w) ==
  /\ wpc[w] = "pgvector"
  /\ IF TenantOf[doc[w]] \in tombstones
       THEN EndWrite(w) /\ suspect' = suspect \cup {<<doc[w], "write">>}
       ELSE Goto(w, "commit") /\ UNCHANGED <<lock, doc, rev, suspect>>
  /\ UNCHANGED <<storeVars, tombstones, executorVars, now, faults>>

\* mutant: the answers of pg_advisory_unlock are not looked at
CommitPgvectorTrusting(w) ==
  /\ wpc[w] = "commit"
  /\ pg' = [pg EXCEPT ![doc[w]] = Contents(rev[w])]
  /\ updatedAt' = [updatedAt EXCEPT ![doc[w]] = now]
  /\ suspect' = suspect \ ({doc[w]} \X {"write", "erase"})
  /\ EndWrite(w)
  /\ UNCHANGED <<os, late, tombstones, executorVars, now, faults>>

\* the transaction of upsert and reconciliation commits, then hold unlocks; an
\* unlock that finds the session or its lock gone makes index_chunks raise
CommitPgvector(w) ==
  /\ wpc[w] = "commit"
  /\ pg' = [pg EXCEPT ![doc[w]] = Contents(rev[w])]
  /\ updatedAt' = [updatedAt EXCEPT ![doc[w]] = now]
  /\ suspect' = IF lock[TenantOf[doc[w]]] = w
                   THEN suspect \ ({doc[w]} \X {"write", "erase"})
                   ELSE suspect \cup {<<doc[w], "write">>}
  /\ EndWrite(w)
  /\ UNCHANGED <<os, late, tombstones, executorVars, now, faults>>

\* an HTTP or SQL call fails or times out, or the process dies: OpenSearch may
\* have done any part of it, and may yet apply a bulk nobody waits for
WriteInterrupted(w) ==
  /\ wpc[w] # "idle"
  /\ SpendFault
  /\ CASE wpc[w] = "bulk" ->
            /\ \E done \in SUBSET Contents(rev[w]) :
                 /\ os' = [os EXCEPT ![doc[w]] = Overwrite(@, done)]
                 /\ \/ UNCHANGED late
                    \/ LateBulks /\ late' = late \cup ({doc[w]} \X (Contents(rev[w]) \ done))
            /\ UNCHANGED <<pg, updatedAt>>
       [] wpc[w] = "reconcile" ->
            /\ \E gone \in SUBSET (os[doc[w]] \ Contents(rev[w])) :
                 os' = [os EXCEPT ![doc[w]] = @ \ gone]
            /\ UNCHANGED <<pg, updatedAt, late>>
       [] wpc[w] = "commit" ->
            /\ \/ UNCHANGED <<pg, updatedAt>>
               \/ /\ pg' = [pg EXCEPT ![doc[w]] = Contents(rev[w])]
                  /\ updatedAt' = [updatedAt EXCEPT ![doc[w]] = now]
            /\ UNCHANGED <<os, late>>
       [] OTHER -> UNCHANGED storeVars
  /\ suspect' = IF wpc[w] = "fence" THEN suspect ELSE suspect \cup {<<doc[w], "write">>}
  /\ EndWrite(w)
  /\ UNCHANGED <<tombstones, executorVars, now>>

\* OpenSearch gets round to an item of a request whose client has given up
ApplyLateBulk ==
  /\ \E b \in late : /\ os' = [os EXCEPT ![b[1]] = Overwrite(@, {b[2]})]
                     /\ late' = late \ {b}
  /\ UNCHANGED <<pg, updatedAt, tombstones, lock, writerVars, executorVars,
                 now, suspect, faults>>

\* the server ends the session that holds the lock; the writer only learns of
\* it when it unlocks
LoseSession(w) ==
  /\ SessionLoss
  /\ wpc[w] # "idle"
  /\ SpendFault
  /\ Release(w)
  /\ UNCHANGED <<storeVars, tombstones, writerVars, executorVars, now, suspect>>

-----------------------------------------------------------------------------
(* RagLifecycleCoordinator, driven by DataLifecycleService                  *)

\* only retention has a cutoff
Cutoff(s, at, days) == IF s = Everyone THEN at - days ELSE 0

\* an operation of the scope is incomplete
Open(s) == journal[s].status \in {"pending", "processing"}

\* _begin: reclaim the incomplete operation of the scope with the cutoff it was
\* journaled with, or insert a new one; refused while another lease is live.
\* _execute_retention derives the PostgreSQL cutoff from the policy in force.
BeginOperation(e, s, days) ==
  LET row == [status |-> "processing", token |-> journal[s].token + 1, live |-> TRUE,
              executedAt |-> IF Open(s) THEN journal[s].executedAt ELSE now,
              cutoff |-> IF Open(s) THEN journal[s].cutoff ELSE Cutoff(s, now, days)]
  IN /\ epc[e] = "idle"
     /\ ~(journal[s].status = "processing" /\ journal[s].live)
     /\ journal[s].token < MaxLeases
     /\ journal' = [journal EXCEPT ![s] = row]
     /\ operations' = [operations EXCEPT ![s] = IF Open(s) THEN @ ELSE @ + 1]
     /\ op' = [op EXCEPT ![e] = [scope |-> s, token |-> row.token, cutoff |-> row.cutoff,
                                 pgCutoff |-> Cutoff(s, row.executedAt, days),
                                 want |-> {}, doomed |-> {}]]
     /\ EGoto(e, "targets")
     /\ UNCHANGED <<storeVars, tombstones, lock, writerVars, successes, now, suspect, faults>>

\* lease_seconds have passed since locked_at
LeaseExpires(s) ==
  /\ journal[s].status = "processing" /\ journal[s].live
  /\ journal' = [journal EXCEPT ![s].live = FALSE]
  /\ UNCHANGED <<storeVars, tombstones, lock, writerVars, epc, op, operations,
                 successes, now, suspect, faults>>

Expired(cutoff) == {d \in Docs : pg[d] # {} /\ updatedAt[d] < cutoff}

\* _target_tenant_ids
ReadTargets(e) ==
  /\ epc[e] = "targets"
  /\ op' = [op EXCEPT ![e].want = IF op[e].scope = Everyone
                                   THEN {TenantOf[d] : d \in Expired(op[e].cutoff)}
                                   ELSE {op[e].scope}]
  /\ EGoto(e, "locks")
  /\ UNCHANGED <<storeVars, tombstones, lock, writerVars, journal, operations,
                 successes, now, suspect, faults>>

Missing(e) == {t \in op[e].want : lock[t] # e}

\* pg_advisory_xact_lock, in tenant order
TakeLock(e) ==
  /\ epc[e] = "locks"
  /\ \E t \in Missing(e) :
       /\ \A u \in Missing(e) : t <= u
       /\ lock[t] = None
       /\ lock' = [lock EXCEPT ![t] = e]
  /\ UNCHANGED <<storeVars, tombstones, writerVars, executorVars, now, suspect, faults>>

\* the evidence ids rag_evidence_chunks lists as expired
ExpiredIds(cutoff) == {x \in Expired(cutoff) \X Chunks : x[2] \in Ids(pg[x[1]])}

\* what the operation will ask OpenSearch to delete: these, or all a tenant has,
\* listed or not
Listed(e) ==
  IF op[e].scope = Everyone THEN ExpiredIds(op[e].cutoff) ELSE DocsOf(op[e].scope) \X Chunks

\* mutant: the target list is read before the locks are taken
EnumerateUnlocked(e) ==
  /\ epc[e] = "locks"
  /\ op' = [op EXCEPT ![e].doomed = Listed(e)]
  /\ EGoto(e, "delete")
  /\ UNCHANGED <<storeVars, tombstones, lock, writerVars, journal, operations,
                 successes, now, suspect, faults>>

\* _target_batches, or the tenant itself
Enumerate(e) ==
  /\ epc[e] = "locks" /\ Missing(e) = {}
  /\ op' = [op EXCEPT ![e].doomed = Listed(e)]
  /\ EGoto(e, "delete")
  /\ UNCHANGED <<storeVars, tombstones, lock, writerVars, journal, operations,
                 successes, now, suspect, faults>>

\* the chunks of a document that the operation's query finds
Found(e, d) == {c \in os[d] : <<d, c[1]>> \in op[e].doomed}

\* delete_evidence_ids, delete_tenant: _delete_by_query?conflicts=proceed
DeleteExternal(e) ==
  /\ epc[e] = "delete"
  /\ os' = [d \in Docs |-> os[d] \ Found(e, d)]
  /\ EGoto(e, "verify")
  /\ UNCHANGED <<pg, updatedAt, late, tombstones, lock, writerVars, journal, op,
                 operations, successes, now, suspect, faults>>

\* mutant: the completing UPDATEs compare neither the lease nor the status
HoldsAnyLease(e) == TRUE

HoldsLease(e) ==
  LET s == op[e].scope IN journal[s].status = "processing" /\ journal[s].token = op[e].token

\* mutant: a status the journal does not know
AbandonAsFailed(e) ==
  /\ journal' = [journal EXCEPT ![op[e].scope].status = "failed"]
  /\ EndOperation(e)

\* the transaction rolls back and the lease is given up, if the journal answers
Abandon(e) ==
  /\ \/ journal' = [journal EXCEPT ![op[e].scope] =
                      IF @.token = op[e].token /\ @.status = "processing"
                        THEN [@ EXCEPT !.status = "pending", !.live = FALSE] ELSE @]
     \/ UNCHANGED journal
  /\ EndOperation(e)

\* the documents it has touched, or may have
Victims(e) == {x[1] : x \in op[e].doomed}

\* the _count query is that of the deletion: it sees nothing else
Verify(e) ==
  /\ epc[e] = "verify"
  /\ IF \A d \in Docs : Found(e, d) = {}
       THEN EGoto(e, "commit") /\ UNCHANGED <<journal, op, lock, suspect>>
       ELSE Abandon(e) /\ suspect' = suspect \cup (Victims(e) \X {"erase"})
  /\ UNCHANGED <<storeVars, tombstones, writerVars, operations, successes, now, faults>>

\* the rows the final transaction deletes
Swept(e) ==
  IF op[e].scope = Everyone THEN Expired(op[e].pgCutoff) ELSE DocsOf(op[e].scope)

\* what has failed and is good again once the operation commits: an interrupted
\* retention, but not a failed write of chunks that PostgreSQL never listed
MadeGood(e) ==
  IF op[e].scope = Everyone THEN (Victims(e) \cap Swept(e)) \X {"erase"}
                            ELSE DocsOf(op[e].scope) \X {"write", "erase"}

\* external_deleted, tombstone, sweep of the tables, success audit, completed:
\* one transaction, refused as a whole when the lease is no longer its own
Commit(e) ==
  /\ epc[e] = "commit"
  /\ IF HoldsLease(e)
       THEN LET s == op[e].scope IN
            /\ journal' = [journal EXCEPT ![s].status = "completed", ![s].live = FALSE]
            /\ tombstones' = tombstones \cup ({s} \cap Tenants)
            /\ pg' = [d \in Docs |-> IF d \in Swept(e) THEN {} ELSE pg[d]]
            /\ successes' = [successes EXCEPT ![s] = @ + 1]
            /\ suspect' = suspect \ MadeGood(e)
            /\ EndOperation(e)
       ELSE /\ Abandon(e)
            /\ suspect' = suspect \cup (Victims(e) \X {"erase"})
            /\ UNCHANGED <<tombstones, pg, successes>>
  /\ UNCHANGED <<os, updatedAt, late, writerVars, operations, now, faults>>

\* a call fails or times out, or the process dies
OperationInterrupted(e) ==
  /\ epc[e] # "idle"
  /\ SpendFault
  /\ IF epc[e] = "delete"
       THEN \E gone \in SUBSET {x \in Docs \X (Chunks \X Revisions) : x[2] \in Found(e, x[1])} :
              os' = [d \in Docs |-> {c \in os[d] : <<d, c>> \notin gone}]
       ELSE UNCHANGED os
  /\ suspect' = suspect \cup (Victims(e) \X {"erase"})
  /\ Abandon(e)
  /\ UNCHANGED <<pg, updatedAt, late, tombstones, writerVars, operations, successes, now>>

\* days pass; a pgvector transaction is not open for one of them
Tick ==
  /\ now < MaxTime
  /\ \A w \in Writers : wpc[w] # "commit"
  /\ now' = now + 1
  /\ UNCHANGED <<storeVars, tombstones, lock, writerVars, executorVars, suspect, faults>>

Next ==
  \/ \E w \in Writers :
       \/ \E d \in Docs, r \in Revisions : BeginWrite(w, d, r)
       \/ CheckFence(w) \/ BulkIndex(w) \/ ReconcileRevisions(w)
       \/ UpsertPgvector(w) \/ CommitPgvector(w) \/ WriteInterrupted(w) \/ LoseSession(w)
  \/ \E e \in Executors :
       \/ \E s \in Scopes, days \in RetentionDays : BeginOperation(e, s, days)
       \/ ReadTargets(e) \/ TakeLock(e) \/ Enumerate(e) \/ DeleteExternal(e)
       \/ Verify(e) \/ Commit(e) \/ OperationInterrupted(e)
  \/ \E s \in Scopes : LeaseExpires(s)
  \/ ApplyLateBulk
  \/ Tick

Spec == Init /\ [][Next]_vars

-----------------------------------------------------------------------------
(* Properties                                                               *)

(* Every variable stays within its type.                                    *)
TypeOK ==
  /\ os \in [Docs -> Copies] /\ pg \in [Docs -> Copies]
  /\ updatedAt \in [Docs -> Nat] /\ late \subseteq Docs \X (Chunks \X Revisions)
  /\ tombstones \subseteq Tenants
  /\ lock \in [Tenants -> Writers \cup Executors \cup {None}]
  /\ wpc \in [Writers -> WriterPCs]
  /\ doc \in [Writers -> Docs \cup {None}] /\ rev \in [Writers -> Revisions \cup {None}]
  /\ journal \in [Scopes -> Rows]
  /\ epc \in [Executors -> ExecutorPCs] /\ op \in [Executors -> Operations]
  /\ now \in Nat /\ faults \in Nat
  /\ operations \in [Scopes -> Nat] /\ successes \in [Scopes -> Nat]
  /\ suspect \subseteq Docs \X {"write", "erase"}

(* What the migration notes promise of the tombstone: "This prevents queued   *)
(* or in-flight work from recreating deleted tenant evidence after a          *)
(* successful privacy operation."                                             *)
NoEvidenceAfterErasure ==
  \A d \in Docs : TenantOf[d] \in tombstones => os[d] = {} /\ pg[d] = {}

(* No write of an erased tenant is ever reported as a success.  When PostgreSQL *)
(* drops the session that holds a writer's lock, the trigger cannot see the    *)
(* uncommitted tombstone of a deletion and lets its rows through; the writer   *)
(* must then find the lock gone and raise.                                     *)
NoSuccessAfterErasure ==
  \A d \in Docs : TenantOf[d] \in tombstones /\ pg[d] # {} => <<d, "write">> \in suspect

(* The stores hold the same chunks of a document nobody is working on, but    *)
(* for two reasons, each reported as a failure and not made good since.       *)
(* After a failed retention OpenSearch may lack chunks, and holds none that   *)
(* PostgreSQL does not: the replay of the run brings the stores together.     *)
(* Whatever else differs goes back to a failed write of the document, and no  *)
(* retention after it ends that: it deletes the listed ids, and the chunks    *)
(* of the write that are not listed stay until the write is repeated or the   *)
(* tenant deleted.                                                            *)
ParityOrRetry ==
  \A d \in Docs : os[d] # pg[d] =>
    \/ lock[TenantOf[d]] # None
    \/ <<d, "write">> \in suspect
    \/ <<d, "erase">> \in suspect /\ os[d] \subseteq pg[d]

(* An operation commits its success audit once, however often its lease       *)
(* expires and however many executors replay it.                              *)
OneSuccessPerOperation ==
  \A s \in Scopes : operations[s] = successes[s] + (IF Open(s) THEN 1 ELSE 0)

(* PostgreSQL is the parity catalog: the row of an evidence id leaves it only *)
(* after OpenSearch holds nothing under that id ("deletes ... from OpenSearch, *)
(* performs an immediate zero-result parity verification, and only then       *)
(* commits the matching PostgreSQL deletes"), and a shorter revision commits  *)
(* only after OpenSearch has lost the chunks it no longer has.                *)
CatalogOutlivesEvidence ==
  [][\A d \in Docs, i \in Chunks :
       i \in Ids(pg[d]) /\ i \notin Ids(pg'[d]) => i \notin Ids(os'[d])]_vars

(* Retention takes out of OpenSearch only what is still past its cutoff, even *)
(* when a writer refreshes a document while the run enumerates its targets.   *)
(* Otherwise an id leaves OpenSearch with the deletion of its tenant, or when *)
(* a writer reconciles the document with a revision that no longer has it.    *)
FreshEvidenceIsKept ==
  [][\A d \in Docs, i \in Chunks : i \in Ids(os[d]) /\ i \notin Ids(os'[d]) =>
       \/ \E e \in Executors : \/ op[e].scope = TenantOf[d]
                               \/ op[e].scope = Everyone /\ d \in Expired(op[e].cutoff)
       \/ \E w \in Writers : /\ wpc[w] = "reconcile" /\ doc[w] = d
                             /\ i \notin ChunksOf[rev[w]]]_vars
=============================================================================
