---------------------------- MODULE IngestionQueue ----------------------------
(***************************************************************************)
(* The PostgreSQL ingestion outbox (services/ingestion_jobs.py) and the     *)
(* worker processes that drain it (worker.py): claim under a fresh lease    *)
(* token, heartbeat thread, execution against the RAG stores, guarded       *)
(* settlement, stale-lease recovery, crashes, and the tenant deletion that  *)
(* removes rows under the workers' feet.                                    *)
(*                                                                          *)
(* Every SQL statement is one atomic step; everything a worker does between *)
(* two statements is local, so a worker's pc names the statement it is      *)
(* about to issue.  Time is relative: due[j] is the time left before        *)
(* available_at, lockAge[j] the time since locked_at, both moved by Tick.   *)
(* The execution of a job is one step here, with every residue it can leave *)
(* in the stores; HybridErasure opens it up.                                *)
(***************************************************************************)
EXTENDS Integers, FiniteSets

CONSTANTS
  Jobs, Workers, Tenants, WorkerIds,
  TenantOf,            \* [Jobs -> Tenants]
  WorkerIdOf,          \* [Workers -> WorkerIds]; two processes may share an id
  PoisonJobs,          \* jobs whose payload is rejected before any write
  Hybrid,              \* preserve_hybrid_write_intents: rag_index_backend = hybrid
  UnclassifiedErrors,  \* may an HTTP failure surface as something else than
                       \* RagIndexTransportError?
  MaxAttempts, BatchSize, BackoffBase, MaxReconciliationBackoff, LockTimeout,
  MaxFailBackoff,      \* bound: above every dead-letter backoff of MaxAttempts tries
  MaxFaults,           \* bound: crashes, failed calls and stalls of a behaviour
  NoJob, NoWorkerId

ASSUME QueueAssumption ==
  /\ TenantOf \in [Jobs -> Tenants]
  /\ WorkerIdOf \in [Workers -> WorkerIds]
  /\ PoisonJobs \subseteq Jobs
  /\ Hybrid \in BOOLEAN /\ UnclassifiedErrors \in BOOLEAN
  /\ MaxAttempts \in Nat \ {0} /\ BatchSize \in Nat \ {0}
  /\ BackoffBase \in Nat \ {0} /\ MaxReconciliationBackoff \in Nat
  /\ MaxFailBackoff \in Nat
  /\ LockTimeout \in Nat \ {0} /\ MaxFaults \in Nat
  /\ NoJob \notin Jobs /\ NoWorkerId \notin WorkerIds

VARIABLES
  \* the row of each job in rag_ingestion_jobs
  status, attempts, due, lockedBy, lockAge, lease,
  claims,        \* [Jobs -> Nat], leases handed out; the uuid4 of each is its number
  \* each worker process
  pc, cur, tok, beat, reconcile, taken, requeued,
  \* what the rest of the platform sees
  store,         \* [Jobs -> StoreStates], the job's evidence in the RAG stores
  tombstones,    \* tenants in rag_tenant_deletion_tombstones
  auditRows,     \* jobs with worker events in audit_events, under their tenant
  successEvents, \* [Jobs -> Nat], ingestion_job_succeeded events ever appended
  faults

rowVars == <<status, attempts, due, lockedBy, lockAge, lease, claims>>
workerVars == <<pc, cur, tok, beat, reconcile, taken, requeued>>
worldVars == <<store, tombstones, auditRows, successEvents>>
vars == <<rowVars, workerVars, worldVars, faults>>

\* "new" has not been enqueued yet, "erased" was removed by tenant deletion
Statuses == {"new", "queued", "running", "succeeded", "failed", "dead", "erased"}
Terminal == {"succeeded", "dead"}
\* "partial": OpenSearch holds the evidence, pgvector does not
StoreStates == {"none", "partial", "both"}
PCs == {"poll", "audit_requeued", "claim", "audit_claimed", "execute", "complete",
        "fail", "audit_succeeded", "audit_failed", "down"}
\* where a worker has claimed a job and not yet seen it settled
Busy == {"audit_claimed", "execute", "complete", "fail"}

Init ==
  /\ status = [j \in Jobs |-> "new"]
  /\ attempts = [j \in Jobs |-> 0]
  /\ due = [j \in Jobs |-> 0]
  /\ lockedBy = [j \in Jobs |-> NoWorkerId]
  /\ lockAge = [j \in Jobs |-> 0]
  /\ lease = [j \in Jobs |-> 0]
  /\ claims = [j \in Jobs |-> 0]
  /\ pc = [w \in Workers |-> "poll"]
  /\ cur = [w \in Workers |-> NoJob]
  /\ tok = [w \in Workers |-> 0]
  /\ beat = [w \in Workers |-> "off"]
  /\ reconcile = [w \in Workers |-> FALSE]
  /\ taken = [w \in Workers |-> 0]
  /\ requeued = [w \in Workers |-> {}]
  /\ store = [j \in Jobs |-> "none"]
  /\ tombstones = {}
  /\ auditRows = {}
  /\ successEvents = [j \in Jobs |-> 0]
  /\ faults = 0

-----------------------------------------------------------------------------
(* Shared pieces of the statements                                          *)

SpendFault == faults < MaxFaults /\ faults' = faults + 1

AtMost(x, cap) == IF x \in 0..cap THEN x ELSE cap

FailDelay(j) == AtMost(BackoffBase * 2 ^ attempts[j], MaxFailBackoff)
RetryDelay(j) ==
  AtMost(BackoffBase * 2 ^ AtMost(attempts[j], 16), MaxReconciliationBackoff)

\* mutant: one attempt too early
ExhaustedEarly(j) == attempts[j] + 2 >= MaxAttempts

Exhausted(j) == attempts[j] + 1 >= MaxAttempts

\* mutant: the fencing token of migration 007 is not compared
HoldsRowByNameOnly(w) ==
  cur[w] \in Jobs /\ status[cur[w]] = "running" /\ lockedBy[cur[w]] = WorkerIdOf[w]

\* the WHERE clause every settlement and heartbeat carries
HoldsRow(w) ==
  /\ cur[w] \in Jobs
  /\ status[cur[w]] = "running"
  /\ lockedBy[cur[w]] = WorkerIdOf[w]
  /\ lease[cur[w]] = tok[w]

\* locked_by = NULL, locked_at = NULL, lease_token = NULL on the rows of S
Unlock(S) ==
  /\ lockedBy' = [j \in Jobs |-> IF j \in S THEN NoWorkerId ELSE lockedBy[j]]
  /\ lockAge' = [j \in Jobs |-> IF j \in S THEN 0 ELSE lockAge[j]]
  /\ lease' = [j \in Jobs |-> IF j \in S THEN 0 ELSE lease[j]]

\* attempts + 1, then dead when the budget is spent, else failed after delay(j)
Bury(S, delay(_)) ==
  /\ attempts' = [j \in Jobs |-> attempts[j] + (IF j \in S THEN 1 ELSE 0)]
  /\ status' = [j \in Jobs |-> IF j \notin S THEN status[j]
                               ELSE IF Exhausted(j) THEN "dead" ELSE "failed"]
  /\ due' = [j \in Jobs |-> IF j \in S /\ ~Exhausted(j) THEN delay(j) ELSE due[j]]
  /\ Unlock(S)

\* mutant: the retry is not charged
PreserveUncharged(S) ==
  /\ status' = [j \in Jobs |-> IF j \in S THEN "failed" ELSE status[j]]
  /\ due' = [j \in Jobs |-> IF j \in S THEN RetryDelay(j) ELSE due[j]]
  /\ Unlock(S) /\ UNCHANGED attempts

\* mutant: a status no claim ever looks for
PreserveAsRetrying(S) ==
  /\ attempts' = [j \in Jobs |-> attempts[j] + (IF j \in S THEN 1 ELSE 0)]
  /\ status' = [j \in Jobs |-> IF j \in S THEN "retrying" ELSE status[j]]
  /\ due' = [j \in Jobs |-> IF j \in S THEN RetryDelay(j) ELSE due[j]]
  /\ Unlock(S)

\* attempts + 1 and always failed: the intent survives every attempt
Preserve(S) ==
  /\ attempts' = [j \in Jobs |-> attempts[j] + (IF j \in S THEN 1 ELSE 0)]
  /\ status' = [j \in Jobs |-> IF j \in S THEN "failed" ELSE status[j]]
  /\ due' = [j \in Jobs |-> IF j \in S THEN RetryDelay(j) ELSE due[j]]
  /\ Unlock(S)

Immediately(j) == 0

Stale == {j \in Jobs : status[j] = "running" /\ lockAge[j] >= LockTimeout}
\* mutant: failed rows are never picked up again
ClaimableFresh == {j \in Jobs : status[j] = "queued" /\ due[j] = 0}

Claimable == {j \in Jobs : status[j] \in {"queued", "failed"} /\ due[j] = 0}

Goto(w, label) == pc' = [pc EXCEPT ![w] = label]

\* the worker forgets the job and its lease
Forget(w) ==
  /\ cur' = [cur EXCEPT ![w] = NoJob]
  /\ tok' = [tok EXCEPT ![w] = 0]
  /\ beat' = [beat EXCEPT ![w] = "off"]
  /\ reconcile' = [reconcile EXCEPT ![w] = FALSE]

\* processed += 1 at the end of _process_job
NextClaim(w) ==
  /\ Goto(w, "claim")
  /\ taken' = [taken EXCEPT ![w] = @ + 1]
  /\ Forget(w)
  /\ UNCHANGED requeued

\* an exception leaves run_once, run_forever and the process
Die(w) ==
  /\ Goto(w, "down")
  /\ Forget(w)
  /\ taken' = [taken EXCEPT ![w] = 0]
  /\ requeued' = [requeued EXCEPT ![w] = {}]

-----------------------------------------------------------------------------
(* The API: enqueue under the tenant lifecycle lock                         *)

Enqueue(j) ==
  /\ status[j] = "new"
  /\ TenantOf[j] \notin tombstones
  /\ status' = [status EXCEPT ![j] = "queued"]
  /\ UNCHANGED <<attempts, due, lockedBy, lockAge, lease, claims>>
  /\ UNCHANGED <<workerVars, worldVars, faults>>

-----------------------------------------------------------------------------
(* run_once                                                                 *)

\* mutant: a hybrid intent is dead-lettered like any other stale row
RequeueStaleDeadLetters(w) ==
  /\ pc[w] = "poll"
  /\ \E S \in SUBSET Stale :
       /\ Cardinality(S) <= BatchSize
       /\ Bury(S, Immediately)
       /\ requeued' = [requeued EXCEPT ![w] = S]
       /\ Goto(w, IF S = {} THEN "claim" ELSE "audit_requeued")
  /\ UNCHANGED <<claims, cur, tok, beat, reconcile, taken, worldVars, faults>>

\* mutant: a worker leaves the rows under its own worker id alone
RequeueStaleOfOthers(w) ==
  /\ pc[w] = "poll"
  /\ LET S == {j \in Stale : lockedBy[j] # WorkerIdOf[w]} IN
       /\ IF Hybrid THEN Preserve(S) ELSE Bury(S, Immediately)
       /\ requeued' = [requeued EXCEPT ![w] = S]
       /\ Goto(w, IF S = {} THEN "claim" ELSE "audit_requeued")
  /\ UNCHANGED <<claims, cur, tok, beat, reconcile, taken, worldVars, faults>>

RequeueStale(w) ==
  /\ pc[w] = "poll"
  /\ \E S \in SUBSET Stale :
       /\ Cardinality(S) <= BatchSize
       /\ Cardinality(S) < BatchSize => S = Stale
       /\ IF Hybrid THEN Preserve(S) ELSE Bury(S, Immediately)
       /\ requeued' = [requeued EXCEPT ![w] = S]
       /\ Goto(w, IF S = {} THEN "claim" ELSE "audit_requeued")
  /\ UNCHANGED <<claims, cur, tok, beat, reconcile, taken, worldVars, faults>>

AuditRequeued(w) ==
  /\ pc[w] = "audit_requeued"
  /\ auditRows' = auditRows \cup requeued[w]
  /\ requeued' = [requeued EXCEPT ![w] = {}]
  /\ Goto(w, "claim")
  /\ UNCHANGED <<cur, tok, beat, reconcile, taken>>
  /\ UNCHANGED <<rowVars, store, tombstones, successEvents, faults>>

Claim(w) ==
  /\ pc[w] = "claim"
  /\ taken[w] < BatchSize
  /\ \E j \in Claimable :
       /\ status' = [status EXCEPT ![j] = "running"]
       /\ lockedBy' = [lockedBy EXCEPT ![j] = WorkerIdOf[w]]
       /\ lockAge' = [lockAge EXCEPT ![j] = 0]
       /\ claims' = [claims EXCEPT ![j] = @ + 1]
       /\ lease' = [lease EXCEPT ![j] = claims[j] + 1]
       /\ cur' = [cur EXCEPT ![w] = j]
       /\ tok' = [tok EXCEPT ![w] = claims[j] + 1]
  /\ Goto(w, "audit_claimed")
  /\ UNCHANGED <<attempts, due, beat, reconcile, taken, requeued, worldVars, faults>>

EndBatch(w) ==
  /\ pc[w] = "claim"
  /\ taken[w] >= BatchSize \/ Claimable = {}
  /\ Goto(w, "poll")
  /\ taken' = [taken EXCEPT ![w] = 0]
  /\ UNCHANGED <<cur, tok, beat, reconcile, requeued, rowVars, worldVars, faults>>

AuditClaimed(w) ==
  /\ pc[w] = "audit_claimed"
  /\ auditRows' = auditRows \cup {cur[w]}
  /\ beat' = [beat EXCEPT ![w] = "beating"]
  /\ Goto(w, "execute")
  /\ UNCHANGED <<cur, tok, reconcile, taken, requeued>>
  /\ UNCHANGED <<rowVars, store, tombstones, successEvents, faults>>

-----------------------------------------------------------------------------
(* The heartbeat thread                                                     *)

Heartbeat(w) ==
  /\ pc[w] = "execute" /\ beat[w] = "beating"
  /\ IF HoldsRow(w)
       THEN lockAge' = [lockAge EXCEPT ![cur[w]] = 0] /\ UNCHANGED beat
       ELSE beat' = [beat EXCEPT ![w] = "failed"] /\ UNCHANGED lockAge
  /\ UNCHANGED <<status, attempts, due, lockedBy, lease, claims>>
  /\ UNCHANGED <<pc, cur, tok, reconcile, taken, requeued, worldVars, faults>>

HeartbeatError(w) ==
  /\ pc[w] = "execute" /\ beat[w] = "beating"
  /\ SpendFault
  /\ beat' = [beat EXCEPT ![w] = "failed"]
  /\ UNCHANGED <<rowVars, pc, cur, tok, reconcile, taken, requeued, worldVars>>

-----------------------------------------------------------------------------
(* _process_job: the execution and the decision taken on its outcome        *)

\* mutant: the hybrid writer does not look at the tombstones
NeverFenced(j) == FALSE

\* the hybrid writer's assert_writable finds the tombstone
Fenced(j) == Hybrid /\ TenantOf[j] \in tombstones

\* what an interrupted index_chunks call can leave behind
Residues(j) ==
  {store[j]} \cup (IF Fenced(j) \/ j \in PoisonJobs THEN {}
                  ELSE IF Hybrid /\ store[j] # "both" THEN {"partial", "both"}
                  ELSE {"both"})

\* mutant: only a failed heartbeat forbids terminal success
StopHeartbeatOnly(w, raised, transport) ==
  /\ beat' = [beat EXCEPT ![w] = "off"]
  /\ reconcile' = [reconcile EXCEPT ![w] = Hybrid /\ (transport \/ beat[w] = "failed")]
  /\ Goto(w, IF beat[w] = "failed" THEN "fail" ELSE "complete")
  /\ UNCHANGED <<cur, tok, taken, requeued>>

\* heartbeat.stop(), then complete, or fail with or without reconciliation
StopHeartbeat(w, raised, transport) ==
  /\ beat' = [beat EXCEPT ![w] = "off"]
  /\ reconcile' = [reconcile EXCEPT ![w] = Hybrid /\ (transport \/ beat[w] = "failed")]
  /\ Goto(w, IF raised \/ beat[w] = "failed" THEN "fail" ELSE "complete")
  /\ UNCHANGED <<cur, tok, taken, requeued>>

Executed(w) ==
  /\ pc[w] = "execute"
  /\ cur[w] \notin PoisonJobs /\ ~Fenced(cur[w])
  /\ store' = [store EXCEPT ![cur[w]] = "both"]
  /\ StopHeartbeat(w, FALSE, FALSE)
  /\ UNCHANGED <<rowVars, tombstones, auditRows, successEvents, faults>>

ExecutionRejected(w) ==
  /\ pc[w] = "execute"
  /\ cur[w] \in PoisonJobs
  /\ StopHeartbeat(w, TRUE, FALSE)
  /\ UNCHANGED <<rowVars, worldVars, faults>>

\* RagIndexTenantDeletedError: the job is dropped without another write
ExecutionFenced(w) ==
  /\ pc[w] = "execute"
  /\ cur[w] \notin PoisonJobs /\ Fenced(cur[w])
  /\ NextClaim(w)
  /\ UNCHANGED <<rowVars, worldVars, faults>>

ExecutionFailed(w) ==
  /\ pc[w] = "execute"
  /\ cur[w] \notin PoisonJobs
  /\ SpendFault
  /\ \E s \in Residues(cur[w]) : store' = [store EXCEPT ![cur[w]] = s]
  /\ \E transport \in (IF UnclassifiedErrors THEN BOOLEAN ELSE {TRUE}) :
       StopHeartbeat(w, TRUE, transport)
  /\ UNCHANGED <<rowVars, tombstones, auditRows, successEvents>>

-----------------------------------------------------------------------------
(* Settlement                                                               *)

MarkSucceeded(j) ==
  /\ status' = [status EXCEPT ![j] = "succeeded"]
  /\ Unlock({j})
  /\ UNCHANGED <<attempts, due>>

ToFail(w) ==
  /\ Goto(w, "fail")
  /\ reconcile' = [reconcile EXCEPT ![w] = Hybrid]

\* mutant: UPDATE ... WHERE job_id = %s alone
CompleteUnguarded(w) ==
  /\ pc[w] = "complete"
  /\ MarkSucceeded(cur[w]) /\ Goto(w, "audit_succeeded")
  /\ UNCHANGED <<reconcile, claims, cur, tok, beat, taken, requeued, worldVars, faults>>

Complete(w) ==
  /\ pc[w] = "complete"
  /\ IF HoldsRow(w)
       THEN MarkSucceeded(cur[w]) /\ Goto(w, "audit_succeeded") /\ UNCHANGED reconcile
       ELSE ToFail(w) /\ UNCHANGED <<status, attempts, due, lockedBy, lockAge, lease>>
  /\ UNCHANGED <<claims, cur, tok, beat, taken, requeued, worldVars, faults>>

\* the UPDATE raises on the way back, committed or not
CompleteError(w) ==
  /\ pc[w] = "complete"
  /\ SpendFault
  /\ \/ HoldsRow(w) /\ MarkSucceeded(cur[w])
     \/ UNCHANGED <<status, attempts, due, lockedBy, lockAge, lease>>
  /\ ToFail(w)
  /\ UNCHANGED <<claims, cur, tok, beat, taken, requeued, worldVars>>

AuditSucceeded(w) ==
  /\ pc[w] = "audit_succeeded"
  /\ successEvents' = [successEvents EXCEPT ![cur[w]] = @ + 1]
  /\ auditRows' = auditRows \cup {cur[w]}
  /\ NextClaim(w)
  /\ UNCHANGED <<rowVars, store, tombstones, faults>>

\* _record_success_telemetry swallows a failing append
AuditSuccessLost(w) ==
  /\ pc[w] = "audit_succeeded"
  /\ SpendFault
  /\ NextClaim(w)
  /\ UNCHANGED <<rowVars, worldVars>>

\* _fail_job: a lost lease raises IngestionJobTransitionError out of the worker
Fail(w) ==
  /\ pc[w] = "fail"
  /\ IF HoldsRow(w)
       THEN /\ IF reconcile[w] THEN Preserve({cur[w]}) ELSE Bury({cur[w]}, FailDelay)
            /\ Goto(w, "audit_failed")
            /\ UNCHANGED <<cur, tok, beat, reconcile, taken, requeued>>
       ELSE /\ Die(w)
            /\ UNCHANGED <<status, attempts, due, lockedBy, lockAge, lease>>
  /\ UNCHANGED <<claims, worldVars, faults>>

AuditFailed(w) ==
  /\ pc[w] = "audit_failed"
  /\ auditRows' = auditRows \cup {cur[w]}
  /\ NextClaim(w)
  /\ UNCHANGED <<rowVars, store, tombstones, successEvents, faults>>

-----------------------------------------------------------------------------
(* Crashes, time and tenant deletion                                        *)

\* a kill, or an audit append or a statement that raises; in the middle of an
\* execution it leaves what the writer had reached
Crash(w) ==
  /\ pc[w] # "down"
  /\ SpendFault
  /\ IF pc[w] = "execute"
       THEN \E s \in Residues(cur[w]) : store' = [store EXCEPT ![cur[w]] = s]
       ELSE UNCHANGED store
  /\ Die(w)
  /\ UNCHANGED <<rowVars, tombstones, auditRows, successEvents>>

Restart(w) ==
  /\ pc[w] = "down"
  /\ Goto(w, "poll")
  /\ UNCHANGED <<cur, tok, beat, reconcile, taken, requeued, rowVars, worldVars, faults>>

\* a live worker whose heartbeat has not failed loses its lease to this tick
Stalls == \E w \in Workers :
  pc[w] \in Busy /\ beat[w] # "failed" /\ HoldsRow(w) /\ lockAge[cur[w]] = LockTimeout - 1

Tick ==
  /\ \E j \in Jobs : due[j] > 0 \/ (status[j] = "running" /\ lockAge[j] < LockTimeout)
  /\ IF Stalls THEN SpendFault ELSE UNCHANGED faults
  /\ due' = [j \in Jobs |-> IF due[j] > 0 THEN due[j] - 1 ELSE 0]
  /\ lockAge' = [j \in Jobs |-> IF status[j] = "running" /\ lockAge[j] < LockTimeout
                                  THEN lockAge[j] + 1 ELSE lockAge[j]]
  /\ UNCHANGED <<status, attempts, lockedBy, lease, claims, workerVars, worldVars>>

\* the final transaction of delete_tenant_data; only the coordinated (hybrid)
\* path records a tombstone
DeleteTenant(t) ==
  LET rows == {j \in Jobs : TenantOf[j] = t /\ status[j] # "new"} IN
  /\ status' = [j \in Jobs |-> IF j \in rows THEN "erased" ELSE status[j]]
  /\ due' = [j \in Jobs |-> IF j \in rows THEN 0 ELSE due[j]]
  /\ Unlock(rows)
  /\ store' = [j \in Jobs |-> IF TenantOf[j] = t THEN "none" ELSE store[j]]
  /\ auditRows' = {j \in auditRows : TenantOf[j] # t}
  /\ tombstones' = IF Hybrid THEN tombstones \cup {t} ELSE tombstones
  /\ UNCHANGED <<attempts, claims, successEvents, workerVars, faults>>

RunOnce(w) ==
  \/ RequeueStale(w) \/ AuditRequeued(w) \/ Claim(w) \/ EndBatch(w)
  \/ AuditClaimed(w) \/ Executed(w) \/ ExecutionRejected(w) \/ ExecutionFenced(w)
  \/ Complete(w) \/ AuditSucceeded(w) \/ Fail(w) \/ AuditFailed(w)

Misfortune(w) ==
  \/ HeartbeatError(w) \/ ExecutionFailed(w) \/ CompleteError(w)
  \/ AuditSuccessLost(w) \/ Crash(w)

Next ==
  \/ \E j \in Jobs : Enqueue(j)
  \/ \E w \in Workers : RunOnce(w) \/ Heartbeat(w) \/ Misfortune(w) \/ Restart(w)
  \/ \E t \in Tenants : DeleteTenant(t)
  \/ Tick

Spec == Init /\ [][Next]_vars

(* run_forever loops without end, the supervisor restarts a dead process    *)
(* and clocks advance.  Nothing is assumed of enqueueing, of deletions, of  *)
(* heartbeats or of faults.                                                 *)
Fairness ==
  /\ \A w \in Workers : WF_vars(RunOnce(w)) /\ WF_vars(Restart(w))
  /\ WF_vars(Tick)

FairSpec == Spec /\ Fairness

-----------------------------------------------------------------------------
(* Properties                                                               *)

(* Every variable stays within its type.                                    *)
TypeOK ==
  /\ status \in [Jobs -> Statuses]
  /\ attempts \in [Jobs -> Nat] /\ claims \in [Jobs -> Nat] /\ lease \in [Jobs -> Nat]
  /\ due \in [Jobs -> Nat] /\ lockAge \in [Jobs -> Nat]
  /\ lockedBy \in [Jobs -> WorkerIds \cup {NoWorkerId}]
  /\ pc \in [Workers -> PCs]
  /\ cur \in [Workers -> Jobs \cup {NoJob}] /\ tok \in [Workers -> Nat]
  /\ beat \in [Workers -> {"off", "beating", "failed"}]
  /\ reconcile \in [Workers -> BOOLEAN]
  /\ taken \in [Workers -> Nat] /\ requeued \in [Workers -> SUBSET Jobs]
  /\ store \in [Jobs -> StoreStates]
  /\ tombstones \subseteq Tenants /\ auditRows \subseteq Jobs
  /\ successEvents \in [Jobs -> Nat]
  /\ faults \in Nat

(* Two workers, even under one worker id, never both believe a job is theirs *)
(* with the row agreeing: claim_batch cannot be raced or double-claimed.     *)
AtMostOneLeaseHolder ==
  \A v, w \in Workers :
    (pc[v] \in Busy /\ pc[w] \in Busy /\ cur[v] = cur[w] /\ HoldsRow(v) /\ HoldsRow(w))
      => v = w

(* A row says succeeded only when the evidence of its job is in both stores: *)
(* neither a failed heartbeat, a lost lease nor a half-failed write can be   *)
(* turned into a terminal success.                                           *)
SuccessIsIndexed == \A j \in Jobs : status[j] = "succeeded" => store[j] = "both"

(* In hybrid mode a write that reached OpenSearch only always has a live row *)
(* that will be retried: it is never behind a dead, a succeeded or a deleted *)
(* row (worker.py _fail_job, the two retry statements and the fence).        *)
NoOrphanedPartialWrite ==
  Hybrid => \A j \in Jobs : store[j] = "partial" => status[j] \in {"running", "failed"}

(* Dead letters are deserved: the attempts are used up and, in hybrid mode,  *)
(* the job failed deterministically; crashes, expired leases and transport   *)
(* failures never bury a job there.                                          *)
DeadLettersAreDeserved ==
  \A j \in Jobs : status[j] = "dead" =>
    attempts[j] >= MaxAttempts /\ (Hybrid => j \in PoisonJobs)

(* Retries never report a job twice: at most one ingestion_job_succeeded     *)
(* event per job, and only for a row that did succeed.                       *)
SuccessReportedOnce ==
  \A j \in Jobs : successEvents[j] > 0 =>
    successEvents[j] = 1 /\ status[j] \in {"succeeded", "erased"}

(* After a coordinated deletion neither a row nor evidence of the tenant     *)
(* comes back, whatever a worker had claimed or half written before.         *)
ErasureIsFinal ==
  \A j \in Jobs : TenantOf[j] \in tombstones =>
    status[j] \in {"new", "erased"} /\ store[j] = "none"

(* What the data-lifecycle documentation concludes: "a worker claimed before *)
(* deletion cannot recreate tenant data after the success audit commits".    *)
(* audit_events is one of the tables a tenant deletion sweeps.               *)
NoTenantDataAfterErasure ==
  \A j \in Jobs : TenantOf[j] \in tombstones => j \notin auditRows

(* A settled row never moves again, except to be deleted with its tenant: a  *)
(* stale worker cannot resurrect or overwrite it.                            *)
SettledIsFinal ==
  [][\A j \in Jobs : status[j] \in Terminal => status'[j] \in {status[j], "erased"}]_vars

(* Every queued job is eventually settled or deleted, whatever crashes.      *)
EveryJobSettles ==
  \A j \in Jobs : status[j] = "queued" ~> status[j] \in Terminal \cup {"erased"}

(* In hybrid mode a job that is not rejected outright ends up indexed in both *)
(* stores, however its attempts were interrupted.                             *)
TransientFailuresConverge ==
  Hybrid => \A j \in Jobs \ PoisonJobs :
    status[j] = "queued" ~> status[j] \in {"succeeded", "erased"}

-----------------------------------------------------------------------------
(* The outbox implements the life cycle of a job                            *)

PhaseOf(s) ==
  CASE s \in {"queued", "failed"} -> "waiting"
    [] s = "running" -> "leased"
    [] OTHER -> s

Lifecycle == INSTANCE IngestionJobLifecycle
  WITH phase <- [j \in Jobs |-> PhaseOf(status[j])], epoch <- claims

(* Every step of workers, clock and deletion is a step of the life cycle of  *)
(* a job or leaves it alone.                                                 *)
ImplementsLifecycle == Lifecycle!LifecycleSpec
=============================================================================
