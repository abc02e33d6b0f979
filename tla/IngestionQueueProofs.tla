------------------------ MODULE IngestionQueueProofs ------------------------
(***************************************************************************)
(* Proofs about IngestionQueue, for any number of jobs, workers, tenants,   *)
(* attempts, faults and any length of a lease.                              *)
(*                                                                          *)
(* The safety invariants of IngestionQueue are not inductive.  Four         *)
(* strengthenings carry them: Leases (what tokens the working processes     *)
(* hold), Written (what a worker about to settle knows about the stores),   *)
(* Judged (what one about to fail a job knows of it) and Reports (what is   *)
(* known of a success not yet audited).                                     *)
(***************************************************************************)
EXTENDS IngestionQueue, TLAPS

-----------------------------------------------------------------------------
(* Type correctness                                                         *)

\* where a worker still remembers the job it claimed
Owning == Busy \cup {"audit_succeeded", "audit_failed"}

Held == \A w \in Workers : pc[w] \in Owning => cur[w] \in Jobs

Typed == TypeOK /\ Held

(* Every backoff the statements compute is a number of seconds.             *)
LEMMA DelaysAreNat ==
  ASSUME NEW j \in Jobs
  PROVE  FailDelay(j) \in Nat /\ RetryDelay(j) \in Nat /\ Immediately(j) \in Nat
<1>1. ASSUME NEW x, NEW cap \in Nat PROVE AtMost(x, cap) \in Nat
  BY DEF AtMost
<1> QED
  BY <1>1, QueueAssumption DEF FailDelay, RetryDelay, Immediately

RowsTyped ==
  /\ status \in [Jobs -> Statuses] /\ attempts \in [Jobs -> Nat]
  /\ due \in [Jobs -> Nat] /\ lockAge \in [Jobs -> Nat] /\ lease \in [Jobs -> Nat]
  /\ lockedBy \in [Jobs -> WorkerIds \cup {NoWorkerId}]

(* The statements that give leases up keep the rows well typed.             *)
LEMMA ReleaseTyped ==
  ASSUME RowsTyped, NEW S \in SUBSET Jobs,
         Preserve(S) \/ Bury(S, Immediately) \/ Bury(S, FailDelay)
  PROVE  RowsTyped'
<1>1. CASE Preserve(S)
  BY <1>1, DelaysAreNat DEF RowsTyped, Preserve, Unlock, Statuses
<1>2. CASE Bury(S, Immediately)
  BY <1>2, DelaysAreNat DEF RowsTyped, Bury, Unlock, Statuses
<1>3. CASE Bury(S, FailDelay)
  BY <1>3, DelaysAreNat DEF RowsTyped, Bury, Unlock, Statuses
<1> QED
  BY <1>1, <1>2, <1>3

(* So does the one that marks a row succeeded.                              *)
LEMMA SettlingTyped ==
  ASSUME RowsTyped, NEW j \in Jobs, MarkSucceeded(j)
  PROVE  RowsTyped'
<1>1. status' \in [Jobs -> Statuses]
  BY DEF RowsTyped, MarkSucceeded, Statuses
<1> QED
  BY <1>1 DEF RowsTyped, MarkSucceeded, Unlock

(* Every step of the workers, the API, the clock and deletion keeps types.  *)
LEMMA TypedStep == Typed /\ [Next]_vars => Typed'
<1> SUFFICES ASSUME Typed, [Next]_vars PROVE Typed'
  OBVIOUS
<1> USE QueueAssumption DEF Typed, TypeOK, Held, Owning, Busy, PCs, Statuses, StoreStates, rowVars, workerVars, worldVars
<1>1. ASSUME NEW w \in Workers, RequeueStale(w) PROVE Typed'
  <2>1. PICK S \in SUBSET Jobs : /\ Preserve(S) \/ Bury(S, Immediately)
                               /\ requeued' = [requeued EXCEPT ![w] = S]
                               /\ Goto(w, IF S = {} THEN "claim" ELSE "audit_requeued")
    BY <1>1 DEF RequeueStale, Stale
  <2>2. RowsTyped'
    BY <2>1, ReleaseTyped DEF RowsTyped
  <2> QED
    BY <1>1, <2>1, <2>2 DEF RequeueStale, RowsTyped, Goto
<1>2. ASSUME NEW w \in Workers, AuditRequeued(w) PROVE Typed'
  BY <1>2 DEF AuditRequeued, Goto
<1>3. ASSUME NEW w \in Workers, Claim(w) PROVE Typed'
  BY <1>3 DEF Claim, Goto, Claimable
<1>4. ASSUME NEW w \in Workers, EndBatch(w) PROVE Typed'
  BY <1>4 DEF EndBatch, Goto
<1>5. ASSUME NEW w \in Workers, AuditClaimed(w) PROVE Typed'
  BY <1>5 DEF AuditClaimed, Goto
<1>6. ASSUME NEW w \in Workers, Executed(w) PROVE Typed'
  BY <1>6 DEF Executed, StopHeartbeat, Goto
<1>7. ASSUME NEW w \in Workers, ExecutionRejected(w) PROVE Typed'
  BY <1>7 DEF ExecutionRejected, StopHeartbeat, Goto
<1>8. ASSUME NEW w \in Workers, ExecutionFenced(w) PROVE Typed'
  BY <1>8 DEF ExecutionFenced, NextClaim, Forget, Goto
<1>9. ASSUME NEW w \in Workers, Complete(w) PROVE Typed'
  <2>1. CASE HoldsRow(w)
    <3>1. cur[w] \in Jobs
      BY <1>9 DEF Complete
    <3>2. RowsTyped'
      BY <1>9, <2>1, <3>1, SettlingTyped DEF Complete, RowsTyped
    <3> QED
      BY <1>9, <2>1, <3>1, <3>2 DEF Complete, RowsTyped, Goto
  <2>2. CASE ~HoldsRow(w)
    BY <1>9, <2>2 DEF Complete, ToFail, Goto
  <2> QED
    BY <2>1, <2>2
<1>10. ASSUME NEW w \in Workers, AuditSucceeded(w) PROVE Typed'
  BY <1>10 DEF AuditSucceeded, NextClaim, Forget, Goto
<1>11. ASSUME NEW w \in Workers, Fail(w) PROVE Typed'
  <2>1. CASE HoldsRow(w)
    <3>1. RowsTyped'
      BY <1>11, <2>1, ReleaseTyped DEF Fail, HoldsRow, RowsTyped
    <3> QED
      BY <1>11, <2>1, <3>1 DEF Fail, RowsTyped, Goto
  <2>2. CASE ~HoldsRow(w)
    <3>1. Die(w) /\ UNCHANGED <<status, attempts, due, lockedBy, lockAge, lease, claims, worldVars, faults>>
      BY <1>11, <2>2 DEF Fail
    <3> QED
      BY <3>1 DEF Goto, Die, Forget
  <2> QED
    BY <2>1, <2>2
<1>12. ASSUME NEW w \in Workers, AuditFailed(w) PROVE Typed'
  BY <1>12 DEF AuditFailed, NextClaim, Forget, Goto
<1>13. ASSUME NEW w \in Workers, Heartbeat(w) PROVE Typed'
  BY <1>13 DEF Heartbeat, HoldsRow
<1>14. ASSUME NEW w \in Workers, HeartbeatError(w) PROVE Typed'
  BY <1>14 DEF HeartbeatError, SpendFault
<1>15. ASSUME NEW w \in Workers, ExecutionFailed(w) PROVE Typed'
  BY <1>15 DEF ExecutionFailed, SpendFault, StopHeartbeat, Goto, Residues
<1>16. ASSUME NEW w \in Workers, CompleteError(w) PROVE Typed'
  BY <1>16 DEF CompleteError, SpendFault, MarkSucceeded, Unlock, ToFail, Goto, HoldsRow
<1>17. ASSUME NEW w \in Workers, AuditSuccessLost(w) PROVE Typed'
  BY <1>17 DEF AuditSuccessLost, SpendFault, NextClaim, Forget, Goto
<1>18. ASSUME NEW w \in Workers, Crash(w) PROVE Typed'
  BY <1>18 DEF Crash, SpendFault, Die, Forget, Goto, Residues
<1>19. ASSUME NEW w \in Workers, Restart(w) PROVE Typed'
  BY <1>19 DEF Restart, Goto
<1>20. ASSUME NEW j \in Jobs, Enqueue(j) PROVE Typed'
  BY <1>20 DEF Enqueue
<1>21. ASSUME NEW t \in Tenants, DeleteTenant(t) PROVE Typed'
  BY <1>21 DEF DeleteTenant, Unlock
<1>22. CASE Tick
  BY <1>22 DEF Tick, SpendFault
<1>23. CASE UNCHANGED vars
  BY <1>23 DEF vars
<1> QED
  BY <1>1, <1>2, <1>3, <1>4, <1>5, <1>6, <1>7, <1>8, <1>9, <1>10, <1>11, <1>12, <1>13, <1>14, <1>15, <1>16, <1>17, <1>18, <1>19, <1>20, <1>21, <1>22, <1>23 DEF Next, RunOnce, Misfortune

(* Everything the outbox, the workers and the stores hold stays within its   *)
(* type, and a worker past its claim names an existing job.                  *)
THEOREM TypeCorrect == Spec => []TypeOK
<1>1. Init => Typed
  BY QueueAssumption DEF Init, Typed, TypeOK, Held, Owning, Busy, PCs, Statuses, StoreStates
<1>2. Typed => TypeOK
  BY DEF Typed
<1> QED
  BY <1>1, <1>2, TypedStep, PTL DEF Spec

-----------------------------------------------------------------------------
(* Leases                                                                   *)

(* A token is handed out once: no two working processes hold the same one.   *)
Leases ==
  /\ \A w \in Workers : pc[w] \in Busy => tok[w] \in 1..claims[cur[w]]
  /\ \A v, w \in Workers :
       (v # w /\ pc[v] \in Busy /\ pc[w] \in Busy /\ cur[v] = cur[w]) => tok[v] # tok[w]

(* A claim hands out the next token of its job; nothing else hands one out.  *)
LEMMA LeasesStep == Typed /\ Leases /\ [Next]_vars => Leases'
<1> SUFFICES ASSUME Typed, Leases, [Next]_vars PROVE Leases'
  OBVIOUS
<1> USE DEF Typed, TypeOK, Held, Owning, Busy, PCs, Leases
<1>1. ASSUME NEW w \in Workers, Claim(w) PROVE Leases'
  BY <1>1 DEF Claim, Goto, Claimable
<1>2. ASSUME NEW w \in Workers, UNCHANGED claims,
             \/ UNCHANGED <<cur, tok>>
             \/ /\ cur' = [cur EXCEPT ![w] = NoJob]
                /\ tok' = [tok EXCEPT ![w] = 0],
             \E label \in PCs : /\ pc' = [pc EXCEPT ![w] = label]
                                /\ label \in Busy => pc[w] \in Busy /\ UNCHANGED <<cur, tok>>
      PROVE  Leases'
  BY <1>2
<1>3. ASSUME UNCHANGED <<claims, cur, tok, pc>> PROVE Leases'
  BY <1>3
<1>4. ASSUME NEW w \in Workers, RunOnce(w), ~Claim(w) PROVE Leases'
  <2> USE DEF rowVars, worldVars
  <2>1. CASE RequeueStale(w)
    BY <2>1, <1>2 DEF RequeueStale, Goto
  <2>2. CASE AuditRequeued(w) \/ EndBatch(w)
    BY <2>2, <1>2 DEF AuditRequeued, EndBatch, Goto
  <2>3. CASE AuditClaimed(w)
    BY <2>3, <1>2 DEF AuditClaimed, Goto
  <2>4. CASE Executed(w) \/ ExecutionRejected(w)
    BY <2>4, <1>2 DEF Executed, ExecutionRejected, StopHeartbeat, Goto
  <2>5. CASE ExecutionFenced(w)
    BY <2>5, <1>2 DEF ExecutionFenced, NextClaim, Forget, Goto
  <2>6. CASE Complete(w)
    BY <2>6, <1>2 DEF Complete, ToFail, Goto
  <2>7. CASE AuditSucceeded(w) \/ AuditFailed(w)
    BY <2>7, <1>2 DEF AuditSucceeded, AuditFailed, NextClaim, Forget, Goto
  <2>8. CASE Fail(w)
    BY <2>8, <1>2 DEF Fail, Die, Forget, Goto
  <2> QED
    BY <1>4, <2>1, <2>2, <2>3, <2>4, <2>5, <2>6, <2>7, <2>8 DEF RunOnce
<1>5. ASSUME NEW w \in Workers, Misfortune(w) PROVE Leases'
  <2> USE DEF rowVars, worldVars
  <2>1. CASE HeartbeatError(w)
    BY <2>1, <1>3 DEF HeartbeatError
  <2>2. CASE ExecutionFailed(w)
    BY <2>2, <1>2 DEF ExecutionFailed, StopHeartbeat, Goto
  <2>3. CASE CompleteError(w)
    BY <2>3, <1>2 DEF CompleteError, ToFail, Goto
  <2>4. CASE AuditSuccessLost(w)
    BY <2>4, <1>2 DEF AuditSuccessLost, NextClaim, Forget, Goto
  <2>5. CASE Crash(w)
    BY <2>5, <1>2 DEF Crash, Die, Forget, Goto
  <2> QED
    BY <1>5, <2>1, <2>2, <2>3, <2>4, <2>5 DEF Misfortune
<1>6. ASSUME NEW w \in Workers, Restart(w) PROVE Leases'
  BY <1>6, <1>2 DEF Restart, Goto, rowVars
<1>7. ASSUME NEW w \in Workers, Heartbeat(w) PROVE Leases'
  BY <1>7, <1>3 DEF Heartbeat
<1>8. ASSUME NEW j \in Jobs, Enqueue(j) PROVE Leases'
  BY <1>8, <1>3 DEF Enqueue, workerVars
<1>9. ASSUME NEW t \in Tenants, DeleteTenant(t) PROVE Leases'
  BY <1>9, <1>3 DEF DeleteTenant, workerVars
<1>10. CASE Tick
  BY <1>10, <1>3 DEF Tick, workerVars
<1>11. CASE UNCHANGED vars
  BY <1>11, <1>3 DEF vars, rowVars, workerVars
<1> QED
  BY <1>1, <1>4, <1>5, <1>6, <1>7, <1>8, <1>9, <1>10, <1>11 DEF Next

(* claim_batch is never double-claimed: of all the processes that believe    *)
(* they run a job, whatever worker id they share, at most one still matches  *)
(* the WHERE clause of the settlement statements.                            *)
THEOREM LeaseIsExclusive == Spec => []AtMostOneLeaseHolder
<1>1. Init => Typed /\ Leases
  BY QueueAssumption DEF Init, Typed, TypeOK, Held, Owning, Busy, PCs, Statuses, StoreStates, Leases
<1>2. Leases => AtMostOneLeaseHolder
  BY DEF Leases, AtMostOneLeaseHolder, HoldsRow
<1> QED
  BY <1>1, <1>2, TypedStep, LeasesStep, PTL DEF Spec

-----------------------------------------------------------------------------
(* Evidence                                                                 *)

(* What must be true of the stores before a worker settles, for the row it    *)
(* settles to be right: success follows a complete write, a rejected document  *)
(* leaves no trace, and an erased row is fenced.                               *)
Written ==
  /\ \A w \in Workers : pc[w] \in Owning => status[cur[w]] \notin {"new", "queued"}
  /\ \A w \in Workers : pc[w] = "complete" =>
       store[cur[w]] = "both" \/ status[cur[w]] = "erased"
  /\ \A j \in PoisonJobs : store[j] = "none"
  /\ \A j \in Jobs : (Hybrid /\ status[j] = "erased") => TenantOf[j] \in tombstones
  /\ ~Hybrid => tombstones = {}

Evidence == SuccessIsIndexed /\ ErasureIsFinal /\ Written

\* a hybrid worker that fails a job for good has a document that is refused
Judged == \A w \in Workers : (Hybrid /\ pc[w] = "fail" /\ ~reconcile[w]) => cur[w] \in PoisonJobs

Verdicts == DeadLettersAreDeserved /\ NoOrphanedPartialWrite /\ Judged

(* An execution, finished or interrupted, never takes evidence of a tenant    *)
(* that is not deleted out of a store, and a rejected job writes none.        *)
LEMMA ResiduesAreKept ==
  ASSUME Typed, NEW j \in Jobs, NEW s \in Residues(j)
  PROVE  /\ s \in StoreStates
         /\ s # store[j] => j \notin PoisonJobs /\ ~Fenced(j) /\ s # "none"
         /\ s = "partial" => (Hybrid \/ store[j] = "partial")
         /\ store[j] = "both" => s = "both"
  BY DEF Residues, Typed, TypeOK, StoreStates

(* No job has been enqueued, written or deleted at first.                      *)
LEMMA EvidenceInit == Init => Typed /\ Evidence
BY QueueAssumption
DEF Init, Typed, TypeOK, Held, Owning, Busy, PCs, Statuses, StoreStates, Evidence, Written,
    SuccessIsIndexed, ErasureIsFinal

(* Every step preserves the evidence behind the rows, whatever becomes of the  *)
(* HTTP calls.                                                                *)
LEMMA EvidenceStep ==
  ASSUME Typed, Evidence, [Next]_vars
  PROVE  Evidence'
<1> USE QueueAssumption DEF Typed, TypeOK, Held, Owning, Busy, PCs, Statuses, StoreStates,
      Evidence, Written, SuccessIsIndexed, ErasureIsFinal
<1>1. ASSUME NEW w \in Workers, RequeueStale(w) PROVE Evidence'
  <2>1. PICK S \in SUBSET Jobs : /\ \A j \in S : status[j] = "running"
                                 /\ Preserve(S) \/ Bury(S, Immediately)
                                 /\ Goto(w, IF S = {} THEN "claim" ELSE "audit_requeued")
    BY <1>1 DEF RequeueStale, Stale
  <2>2. \A j \in Jobs : \/ status'[j] = status[j]
                        \/ j \in S /\ status'[j] \in {"failed", "dead"}
    BY <2>1 DEF Preserve, Bury
  <2>3. UNCHANGED <<store, tombstones, cur>>
    BY <1>1 DEF RequeueStale, worldVars
  <2>4. SuccessIsIndexed' /\ ErasureIsFinal'
    BY <2>1, <2>2, <2>3
  <2>5. Written'
    BY <2>1, <2>2, <2>3 DEF Goto
  <2> QED
    BY <2>4, <2>5
<1>2. ASSUME NEW w \in Workers, AuditRequeued(w) PROVE Evidence'
  BY <1>2 DEF AuditRequeued, Goto, rowVars
<1>3. ASSUME NEW w \in Workers, Claim(w) PROVE Evidence'
  BY <1>3 DEF Claim, Goto, Claimable, worldVars
<1>4. ASSUME NEW w \in Workers, EndBatch(w) PROVE Evidence'
  BY <1>4 DEF EndBatch, Goto, rowVars, worldVars
<1>5. ASSUME NEW w \in Workers, AuditClaimed(w) PROVE Evidence'
  BY <1>5 DEF AuditClaimed, Goto, rowVars
<1>6. ASSUME NEW w \in Workers, Executed(w) PROVE Evidence'
  BY <1>6 DEF Executed, StopHeartbeat, Goto, rowVars, Fenced
<1>7. ASSUME NEW w \in Workers, ExecutionRejected(w) PROVE Evidence'
  BY <1>7 DEF ExecutionRejected, StopHeartbeat, Goto, rowVars, worldVars
<1>8. ASSUME NEW w \in Workers, ExecutionFenced(w) PROVE Evidence'
  BY <1>8 DEF ExecutionFenced, NextClaim, Forget, Goto, rowVars, worldVars
<1>9. ASSUME NEW w \in Workers, Complete(w) PROVE Evidence'
  <2>1. CASE HoldsRow(w)
    BY <1>9, <2>1 DEF Complete, MarkSucceeded, HoldsRow, Goto, worldVars
  <2>2. CASE ~HoldsRow(w)
    BY <1>9, <2>2 DEF Complete, ToFail, Goto, worldVars
  <2> QED
    BY <2>1, <2>2
<1>10. ASSUME NEW w \in Workers, AuditSucceeded(w) PROVE Evidence'
  BY <1>10 DEF AuditSucceeded, NextClaim, Forget, Goto, rowVars
<1>11. ASSUME NEW w \in Workers, Fail(w) PROVE Evidence'
  <2>1. CASE HoldsRow(w)
    <3>1. \A j \in Jobs : \/ status'[j] = status[j]
                          \/ j = cur[w] /\ status'[j] \in {"failed", "dead"}
      BY <1>11, <2>1 DEF Fail, Preserve, Bury
    <3>2. /\ pc[w] = "fail" /\ pc' = [pc EXCEPT ![w] = "audit_failed"]
          /\ status[cur[w]] = "running" /\ UNCHANGED <<store, tombstones, cur>>
      BY <1>11, <2>1 DEF Fail, HoldsRow, Goto, worldVars
    <3>3. SuccessIsIndexed' /\ ErasureIsFinal'
      BY <3>1, <3>2
    <3>4. Written'
      BY <3>1, <3>2
    <3> QED
      BY <3>3, <3>4
  <2>2. CASE ~HoldsRow(w)
    BY <1>11, <2>2 DEF Fail, Goto, Die, Forget, worldVars
  <2> QED
    BY <2>1, <2>2
<1>12. ASSUME NEW w \in Workers, AuditFailed(w) PROVE Evidence'
  BY <1>12 DEF AuditFailed, NextClaim, Forget, Goto, rowVars
<1>13. ASSUME NEW w \in Workers, Heartbeat(w) PROVE Evidence'
  BY <1>13 DEF Heartbeat, worldVars
<1>14. ASSUME NEW w \in Workers, HeartbeatError(w) PROVE Evidence'
  BY <1>14 DEF HeartbeatError, rowVars, worldVars
<1>15. ASSUME NEW w \in Workers, ExecutionFailed(w) PROVE Evidence'
  <2>1. PICK s \in Residues(cur[w]) : store' = [store EXCEPT ![cur[w]] = s]
    BY <1>15 DEF ExecutionFailed
  <2>2. PICK transport \in BOOLEAN : StopHeartbeat(w, TRUE, transport)
    BY <1>15 DEF ExecutionFailed
  <2>3. /\ cur[w] \in Jobs /\ cur[w] \notin PoisonJobs /\ pc' = [pc EXCEPT ![w] = "fail"]
        /\ pc[w] = "execute" /\ UNCHANGED <<status, tombstones, cur>>
    BY <1>15, <2>2 DEF ExecutionFailed, StopHeartbeat, Goto, rowVars
  <2>4. /\ s \in StoreStates
        /\ s # store[cur[w]] => ~Fenced(cur[w])
        /\ store[cur[w]] = "both" => s = "both"
    BY <2>3, ResiduesAreKept
  <2>5. SuccessIsIndexed' /\ ErasureIsFinal'
    BY <2>1, <2>3, <2>4 DEF Fenced
  <2>6. Written'
    BY <2>1, <2>3, <2>4
  <2> QED
    BY <2>5, <2>6
<1>16. ASSUME NEW w \in Workers, CompleteError(w) PROVE Evidence'
  <2>1. CASE HoldsRow(w) /\ MarkSucceeded(cur[w])
    BY <1>16, <2>1 DEF CompleteError, MarkSucceeded, HoldsRow, ToFail, Goto, worldVars
  <2>2. CASE UNCHANGED <<status, attempts, due, lockedBy, lockAge, lease>>
    BY <1>16, <2>2 DEF CompleteError, ToFail, Goto, worldVars
  <2> QED
    BY <1>16, <2>1, <2>2 DEF CompleteError
<1>17. ASSUME NEW w \in Workers, AuditSuccessLost(w) PROVE Evidence'
  BY <1>17 DEF AuditSuccessLost, NextClaim, Forget, Goto, rowVars, worldVars
<1>18. ASSUME NEW w \in Workers, Crash(w) PROVE Evidence'
  <2>1. CASE pc[w] = "execute"
    <3>1. PICK s \in Residues(cur[w]) : store' = [store EXCEPT ![cur[w]] = s]
      BY <1>18, <2>1 DEF Crash
    <3> QED
      BY <1>18, <2>1, <3>1, ResiduesAreKept DEF Crash, Die, Forget, Goto, rowVars, Fenced
  <2>2. CASE pc[w] # "execute"
    BY <1>18, <2>2 DEF Crash, Die, Forget, Goto, rowVars
  <2> QED
    BY <2>1, <2>2
<1>19. ASSUME NEW w \in Workers, Restart(w) PROVE Evidence'
  BY <1>19 DEF Restart, Goto, rowVars, worldVars
<1>20. ASSUME NEW j \in Jobs, Enqueue(j) PROVE Evidence'
  BY <1>20 DEF Enqueue, workerVars, worldVars
<1>21. ASSUME NEW t \in Tenants, DeleteTenant(t) PROVE Evidence'
  BY <1>21 DEF DeleteTenant, workerVars
<1>22. CASE Tick
  BY <1>22 DEF Tick, workerVars, worldVars
<1>23. CASE UNCHANGED vars
  BY <1>23 DEF vars, rowVars, workerVars, worldVars
<1> QED
  BY <1>1, <1>2, <1>3, <1>4, <1>5, <1>6, <1>7, <1>8, <1>9, <1>10, <1>11, <1>12,
     <1>13, <1>14, <1>15, <1>16, <1>17, <1>18, <1>19, <1>20, <1>21, <1>22, <1>23
  DEF Next, RunOnce, Misfortune

(* A step that buries no row, leaves no new half-written document and sends no *)
(* worker to fail a job for good keeps the verdicts.                           *)
LEMMA VerdictsStay ==
  ASSUME Typed, Verdicts,
         \A j \in Jobs : status'[j] = "dead" => status[j] = "dead" /\ attempts'[j] = attempts[j],
         \A j \in Jobs : Hybrid /\ store'[j] = "partial" =>
           \/ store[j] = "partial" /\ status'[j] = status[j]
           \/ status'[j] \in {"running", "failed"},
         \A w \in Workers : Hybrid /\ pc'[w] = "fail" =>
           \/ pc[w] = "fail" /\ UNCHANGED <<cur[w], reconcile[w]>>
           \/ reconcile'[w] \/ cur'[w] \in PoisonJobs
  PROVE  Verdicts'
BY DEF Verdicts, DeadLettersAreDeserved, NoOrphanedPartialWrite, Judged

(* Every step preserves the verdicts, provided a failed HTTP call is always    *)
(* recognised as a transport failure.                                         *)
LEMMA VerdictsStep ==
  ASSUME UnclassifiedErrors = FALSE, Typed, Evidence, Verdicts, [Next]_vars
  PROVE  Verdicts'
<1> USE QueueAssumption DEF Typed, TypeOK, Held, Owning, Busy, PCs, Statuses, StoreStates
<1>1. ASSUME NEW w \in Workers, RequeueStale(w) PROVE Verdicts'
  <2>1. PICK S \in SUBSET Jobs : /\ \A j \in S : status[j] = "running"
                                 /\ IF Hybrid THEN Preserve(S) ELSE Bury(S, Immediately)
                                 /\ Goto(w, IF S = {} THEN "claim" ELSE "audit_requeued")
    BY <1>1 DEF RequeueStale, Stale
  <2>2. UNCHANGED <<store, cur, reconcile>> /\ \A v \in Workers : pc'[v] = "fail" => pc[v] = "fail"
    BY <1>1, <2>1 DEF RequeueStale, Goto, worldVars
  <2>3. CASE Hybrid
    <3>1. /\ \A j \in Jobs : status'[j] = IF j \in S THEN "failed" ELSE status[j]
          /\ \A j \in Jobs \ S : attempts'[j] = attempts[j]
      BY <2>1, <2>3 DEF Preserve
    <3> QED
      BY <2>1, <2>2, <3>1, VerdictsStay
  <2>4. CASE ~Hybrid
    <3>1. /\ \A j \in S : attempts'[j] = attempts[j] + 1 /\ (status'[j] = "dead" => Exhausted(j))
          /\ \A j \in Jobs \ S : status'[j] = status[j] /\ attempts'[j] = attempts[j]
      BY <2>1, <2>4 DEF Bury
    <3> QED
      BY <2>4, <3>1
      DEF Verdicts, DeadLettersAreDeserved, NoOrphanedPartialWrite, Judged, Exhausted
  <2> QED
    BY <2>3, <2>4
<1>2. ASSUME NEW w \in Workers, Fail(w) PROVE Verdicts'
  <2>1. CASE HoldsRow(w) /\ reconcile[w]
    <3>1. /\ \A j \in Jobs : status'[j] = IF j = cur[w] THEN "failed" ELSE status[j]
          /\ \A j \in Jobs : j # cur[w] => attempts'[j] = attempts[j]
      BY <1>2, <2>1 DEF Fail, Preserve
    <3>2. pc' = [pc EXCEPT ![w] = "audit_failed"] /\ UNCHANGED <<store, cur, reconcile>>
      BY <1>2, <2>1 DEF Fail, Goto, worldVars
    <3> QED
      BY <3>1, <3>2, VerdictsStay
  <2>2. CASE HoldsRow(w) /\ ~reconcile[w]
    <3>1. /\ \A j \in Jobs : status'[j] = IF j # cur[w] THEN status[j]
                                          ELSE IF Exhausted(j) THEN "dead" ELSE "failed"
          /\ \A j \in Jobs : attempts'[j] = IF j = cur[w] THEN attempts[j] + 1 ELSE attempts[j]
      BY <1>2, <2>2 DEF Fail, Bury
    <3>2. /\ pc[w] = "fail" /\ pc' = [pc EXCEPT ![w] = "audit_failed"]
          /\ UNCHANGED <<store, cur, reconcile>>
      BY <1>2, <2>2 DEF Fail, Goto, worldVars
    <3>3. Hybrid => cur[w] \in PoisonJobs /\ store[cur[w]] = "none"
      BY <2>2, <3>2 DEF Verdicts, Judged, Evidence, Written
    <3>4. DeadLettersAreDeserved'
      BY <3>1, <3>3 DEF Verdicts, DeadLettersAreDeserved, Exhausted
    <3>5. NoOrphanedPartialWrite'
      BY <3>1, <3>2, <3>3 DEF Verdicts, NoOrphanedPartialWrite
    <3>6. Judged'
      BY <3>2 DEF Verdicts, Judged
    <3> QED
      BY <3>4, <3>5, <3>6 DEF Verdicts
  <2>3. CASE ~HoldsRow(w)
    BY <1>2, <2>3, VerdictsStay DEF Fail, Goto, Die, Forget, worldVars
  <2> QED
    BY <2>1, <2>2, <2>3
<1>3. ASSUME NEW w \in Workers, NEW s \in Residues(cur[w]), pc[w] = "execute",
             store' = [store EXCEPT ![cur[w]] = s], Hybrid, s = "partial"
      PROVE  status[cur[w]] \in {"running", "failed"}
  <2>1. cur[w] \in Jobs /\ status[cur[w]] \notin {"new", "queued"}
    BY <1>3 DEF Evidence, Written
  <2>2. CASE s = store[cur[w]]
    BY <1>3, <2>1, <2>2 DEF Verdicts, NoOrphanedPartialWrite
  <2>3. CASE s # store[cur[w]]
    <3>1. cur[w] \notin PoisonJobs /\ ~Fenced(cur[w]) /\ store[cur[w]] # "both"
      BY <1>3, <2>1, <2>3, ResiduesAreKept
    <3> QED
      BY <1>3, <2>1, <3>1
      DEF Evidence, Written, SuccessIsIndexed, Verdicts, DeadLettersAreDeserved, Fenced
  <2> QED
    BY <2>2, <2>3
<1>4. ASSUME NEW w \in Workers, ExecutionFailed(w) PROVE Verdicts'
  <2>1. PICK s \in Residues(cur[w]) : store' = [store EXCEPT ![cur[w]] = s]
    BY <1>4 DEF ExecutionFailed
  <2>2. StopHeartbeat(w, TRUE, TRUE)
    BY <1>4 DEF ExecutionFailed
  <2>3. /\ pc' = [pc EXCEPT ![w] = "fail"] /\ reconcile' = [reconcile EXCEPT ![w] = Hybrid]
        /\ pc[w] = "execute" /\ UNCHANGED <<status, attempts, cur>>
    BY <1>4, <2>2 DEF ExecutionFailed, StopHeartbeat, Goto, rowVars
  <2> QED
    BY <1>3, <2>1, <2>3, VerdictsStay
<1>5. ASSUME NEW w \in Workers, Crash(w) PROVE Verdicts'
  <2>1. /\ pc' = [pc EXCEPT ![w] = "down"] /\ UNCHANGED <<status, attempts>>
        /\ \A v \in Workers \ {w} : UNCHANGED <<cur[v], reconcile[v]>>
    BY <1>5 DEF Crash, Die, Forget, Goto, rowVars
  <2>2. CASE pc[w] = "execute"
    <3>1. PICK s \in Residues(cur[w]) : store' = [store EXCEPT ![cur[w]] = s]
      BY <1>5, <2>2 DEF Crash
    <3> QED
      BY <1>3, <2>1, <2>2, <3>1, VerdictsStay
  <2>3. CASE pc[w] # "execute"
    BY <1>5, <2>1, <2>3, VerdictsStay DEF Crash
  <2> QED
    BY <2>2, <2>3
<1>6. ASSUME NEW w \in Workers, Executed(w) \/ ExecutionRejected(w) PROVE Verdicts'
  BY <1>6, VerdictsStay
  DEF Executed, ExecutionRejected, StopHeartbeat, Goto, rowVars, worldVars
<1>7. ASSUME NEW w \in Workers, Complete(w) \/ CompleteError(w) PROVE Verdicts'
  <2>1. /\ pc[w] = "complete" /\ UNCHANGED <<store, cur>>
        /\ \/ UNCHANGED <<status, attempts>>
           \/ MarkSucceeded(cur[w]) /\ status[cur[w]] = "running"
    BY <1>7 DEF Complete, CompleteError, ToFail, worldVars, HoldsRow
  <2>2. \A v \in Workers : pc'[v] = "fail" =>
          \/ pc[v] = "fail" /\ UNCHANGED <<cur[v], reconcile[v]>>
          \/ reconcile'[v] = Hybrid
    BY <1>7 DEF Complete, CompleteError, ToFail, Goto
  <2>3. \A j \in Jobs : Hybrid /\ store'[j] = "partial" => status'[j] = status[j]
    BY <2>1 DEF MarkSucceeded, Evidence, Written
  <2>4. \A j \in Jobs : status'[j] = "dead" => status[j] = "dead" /\ attempts'[j] = attempts[j]
    BY <2>1 DEF MarkSucceeded
  <2> QED
    BY <2>1, <2>2, <2>3, <2>4, VerdictsStay
<1>8. ASSUME NEW w \in Workers, Claim(w) PROVE Verdicts'
  BY <1>8, VerdictsStay DEF Claim, Goto, Claimable, worldVars
<1>9. ASSUME UNCHANGED <<status, attempts, store>>, NEW w \in Workers,
             NEW label \in PCs \ {"fail"}, pc' = [pc EXCEPT ![w] = label],
             \A v \in Workers \ {w} : UNCHANGED <<cur[v], reconcile[v]>>
      PROVE  Verdicts'
  BY <1>9, VerdictsStay
<1>10. ASSUME NEW w \in Workers,
              \/ AuditRequeued(w) \/ EndBatch(w) \/ AuditClaimed(w) \/ ExecutionFenced(w)
              \/ AuditSucceeded(w) \/ AuditFailed(w) \/ AuditSuccessLost(w) \/ Restart(w)
       PROVE  Verdicts'
  BY <1>10, <1>9
  DEF AuditRequeued, EndBatch, AuditClaimed, ExecutionFenced, AuditSucceeded, AuditFailed,
      AuditSuccessLost, Restart, NextClaim, Forget, Goto, rowVars, worldVars
<1>11. ASSUME UNCHANGED <<status, attempts, store, pc, cur, reconcile>> PROVE Verdicts'
  BY <1>11, VerdictsStay
<1>12. ASSUME NEW w \in Workers, Heartbeat(w) \/ HeartbeatError(w) PROVE Verdicts'
  BY <1>12, <1>11 DEF Heartbeat, HeartbeatError, rowVars, worldVars
<1>13. ASSUME NEW j \in Jobs, Enqueue(j) PROVE Verdicts'
  BY <1>13, VerdictsStay DEF Enqueue, workerVars, worldVars, Evidence, Written, Verdicts,
     NoOrphanedPartialWrite
<1>14. ASSUME NEW t \in Tenants, DeleteTenant(t) PROVE Verdicts'
  BY <1>14, VerdictsStay DEF DeleteTenant, workerVars
<1>15. CASE Tick \/ UNCHANGED vars
  BY <1>15, <1>11 DEF Tick, vars, rowVars, workerVars, worldVars
<1> QED
  BY <1>1, <1>2, <1>4, <1>5, <1>6, <1>7, <1>8, <1>10, <1>12, <1>13, <1>14, <1>15
  DEF Next, RunOnce, Misfortune

(* No crash, stall, lost lease, deletion or failure of any kind makes a row     *)
(* claim success without its evidence (execute before complete).               *)
THEOREM SuccessHasItsEvidence == Spec => []SuccessIsIndexed
<1>1. Init => Typed /\ Evidence
  BY EvidenceInit
<1>2. Typed /\ Evidence /\ [Next]_vars => Evidence'
  BY EvidenceStep
<1>3. Evidence => SuccessIsIndexed
  BY DEF Evidence
<1> QED
  BY <1>1, <1>2, <1>3, TypedStep, PTL DEF Spec

(* No job of an erased tenant keeps a row or evidence, whoever held it at the   *)
(* time and however its execution fails (the fence, delete_all_for_tenant).     *)
THEOREM ErasuresAreFinal == Spec => []ErasureIsFinal
<1>1. Init => Typed /\ Evidence
  BY EvidenceInit
<1>2. Typed /\ Evidence /\ [Next]_vars => Evidence'
  BY EvidenceStep
<1>3. Evidence => ErasureIsFinal
  BY DEF Evidence
<1> QED
  BY <1>1, <1>2, <1>3, TypedStep, PTL DEF Spec

(* When the client library surfaces every failed call as a transport error,   *)
(* no crash, stall, lost lease or deletion buries a transient failure or        *)
(* strands a write that reached one store only.                                *)
LEMMA VerdictsAreJust ==
  ASSUME UnclassifiedErrors = FALSE
  PROVE  Spec => [](DeadLettersAreDeserved /\ NoOrphanedPartialWrite)
<1>1. Init => Typed /\ Evidence /\ Verdicts
  BY EvidenceInit, QueueAssumption
  DEF Init, Verdicts, DeadLettersAreDeserved, NoOrphanedPartialWrite, Judged
<1>2. Typed /\ Evidence /\ Verdicts /\ [Next]_vars => Typed' /\ Evidence' /\ Verdicts'
  BY TypedStep, EvidenceStep, VerdictsStep
<1>3. Verdicts => DeadLettersAreDeserved /\ NoOrphanedPartialWrite
  BY DEF Verdicts
<1> QED
  BY <1>1, <1>2, <1>3, PTL DEF Spec

(* An evidence write that got half way always has a row that will be worked on  *)
(* again (retry_for_reconciliation, the hybrid recovery of stale leases).        *)
THEOREM PartialWritesHaveARow ==
  ASSUME UnclassifiedErrors = FALSE
  PROVE  Spec => []NoOrphanedPartialWrite
BY VerdictsAreJust, PTL

(* A hybrid job is dead only because its document is refused (fail).            *)
THEOREM DeadLettersDeserveIt ==
  ASSUME UnclassifiedErrors = FALSE
  PROVE  Spec => []DeadLettersAreDeserved
BY VerdictsAreJust, PTL

-----------------------------------------------------------------------------
(* Reports                                                                  *)

(* Until its event is appended a success is known to one worker only.         *)
Reports ==
  /\ \A w \in Workers : pc[w] = "audit_succeeded" =>
       status[cur[w]] \in {"succeeded", "erased"} /\ successEvents[cur[w]] = 0
  /\ \A v, w \in Workers :
       (v # w /\ pc[v] = "audit_succeeded" /\ pc[w] = "audit_succeeded") => cur[v] # cur[w]

Reported == SuccessReportedOnce /\ Reports

(* A row that is settled is left alone by every step, deletion excepted.      *)
LEMMA SettledStep ==
  ASSUME Typed, [Next]_vars, NEW j \in Jobs, status[j] \in Terminal \cup {"erased"}
  PROVE  status'[j] \in {status[j], "erased"}
<1> USE DEF Typed, TypeOK, Held, Owning, Busy, PCs, Terminal
<1>0. status[j] # "running"
  OBVIOUS
<1>1. CASE UNCHANGED status
  BY <1>1
<1>2. ASSUME NEW w \in Workers, RequeueStale(w) PROVE status'[j] = status[j]
  <2>1. j \notin Stale
    BY <1>0 DEF Stale
  <2>2. PICK S \in SUBSET Stale : IF Hybrid THEN Preserve(S) ELSE Bury(S, Immediately)
    BY <1>2 DEF RequeueStale
  <2>3. status' = [i \in Jobs |-> IF i \notin S THEN status[i] ELSE status'[i]]
    BY <2>2 DEF Preserve, Bury
  <2> QED
    BY <2>1, <2>3
<1>3. ASSUME NEW w \in Workers, Claim(w) PROVE status'[j] = status[j]
  BY <1>3 DEF Claim, Claimable
<1>4. ASSUME NEW w \in Workers, Complete(w) \/ CompleteError(w) PROVE status'[j] = status[j]
  BY <1>4 DEF Complete, CompleteError, MarkSucceeded, HoldsRow
<1>5. ASSUME NEW w \in Workers, Fail(w) PROVE status'[j] = status[j]
  <2>1. CASE HoldsRow(w)
    <3>1. status[cur[w]] = "running"
      BY <2>1 DEF HoldsRow
    <3> QED
      BY <1>5, <2>1, <3>1 DEF Fail, Preserve, Bury
  <2>2. CASE ~HoldsRow(w)
    BY <1>5, <2>2 DEF Fail
  <2> QED
    BY <2>1, <2>2
<1>6. ASSUME NEW i \in Jobs, Enqueue(i) PROVE status'[j] = status[j]
  BY <1>6 DEF Enqueue
<1>7. ASSUME NEW t \in Tenants, DeleteTenant(t) PROVE status'[j] \in {status[j], "erased"}
  BY <1>7 DEF DeleteTenant
<1> QED
  BY <1>1, <1>2, <1>3, <1>4, <1>5, <1>6, <1>7
  DEF Next, RunOnce, Misfortune, AuditRequeued, EndBatch, AuditClaimed, Executed,
      ExecutionRejected, ExecutionFenced, AuditSucceeded, AuditFailed, Heartbeat,
      HeartbeatError, ExecutionFailed, AuditSuccessLost, Crash, Restart, Tick, vars, rowVars

(* A stale worker cannot resurrect, repeat or overwrite a settled row.        *)
THEOREM SettledStays == Spec => SettledIsFinal
<1>1. Init => Typed
  BY QueueAssumption DEF Init, Typed, TypeOK, Held, Owning, Busy, PCs, Statuses, StoreStates
<1>2. Typed /\ [Next]_vars =>
        [\A j \in Jobs : status[j] \in Terminal => status'[j] \in {status[j], "erased"}]_vars
  BY SettledStep
<1> QED
  BY <1>1, <1>2, TypedStep, PTL DEF Spec, SettledIsFinal

(* Only the audit of a success appends its event, and only a completion that  *)
(* held the lease comes to that audit.                                        *)
LEMMA ReportedStep == ASSUME Typed, Reported, [Next]_vars PROVE Reported'
<1> USE DEF Typed, TypeOK, Held, Owning, Busy, PCs, Terminal, Reported, Reports,
      SuccessReportedOnce
<1>1. \A j \in Jobs : status[j] \in {"succeeded", "erased"} => status'[j] \in {"succeeded", "erased"}
  BY SettledStep
<1>2. ASSUME UNCHANGED successEvents,
             \A v \in Workers : pc'[v] = "audit_succeeded" =>
               pc[v] = "audit_succeeded" /\ cur'[v] = cur[v]
      PROVE  Reported'
  BY <1>1, <1>2
<1>3. ASSUME NEW w \in Workers, AuditSucceeded(w) PROVE Reported'
  BY <1>3 DEF AuditSucceeded, NextClaim, Forget, Goto, rowVars
<1>4. ASSUME NEW w \in Workers, Complete(w), HoldsRow(w) PROVE Reported'
  <2>1. /\ pc' = [pc EXCEPT ![w] = "audit_succeeded"] /\ UNCHANGED <<cur, successEvents>>
        /\ status[cur[w]] = "running" /\ status'[cur[w]] = "succeeded" /\ cur[w] \in Jobs
    BY <1>4 DEF Complete, MarkSucceeded, HoldsRow, Goto, worldVars
  <2> QED
    BY <1>1, <2>1
<1>5. ASSUME NEW w \in Workers, UNCHANGED successEvents,
             UNCHANGED cur \/ cur' = [cur EXCEPT ![w] = NoJob]
                           \/ \E j \in Jobs : cur' = [cur EXCEPT ![w] = j],
             \E label \in PCs \ {"audit_succeeded"} : pc' = [pc EXCEPT ![w] = label]
      PROVE  Reported'
  BY <1>5, <1>2
<1> USE DEF rowVars, worldVars
<1>6. ASSUME NEW w \in Workers, RunOnce(w) PROVE Reported'
  <2>1. CASE RequeueStale(w) \/ AuditRequeued(w) \/ EndBatch(w)
    BY <2>1, <1>5 DEF RequeueStale, AuditRequeued, EndBatch, Goto
  <2>2. CASE Claim(w) \/ AuditClaimed(w)
    BY <2>2, <1>5 DEF Claim, Claimable, AuditClaimed, Goto
  <2>3. CASE Executed(w) \/ ExecutionRejected(w)
    BY <2>3, <1>5 DEF Executed, ExecutionRejected, StopHeartbeat, Goto
  <2>4. CASE ExecutionFenced(w) \/ AuditFailed(w)
    BY <2>4, <1>5 DEF ExecutionFenced, AuditFailed, NextClaim, Forget, Goto
  <2>5. CASE Complete(w) /\ ~HoldsRow(w)
    BY <2>5, <1>5 DEF Complete, ToFail, Goto
  <2>6. CASE Fail(w)
    BY <2>6, <1>5 DEF Fail, Die, Forget, Goto
  <2> QED
    BY <1>6, <1>3, <1>4, <2>1, <2>2, <2>3, <2>4, <2>5, <2>6 DEF RunOnce
<1>7. ASSUME NEW w \in Workers, Misfortune(w) \/ Restart(w) PROVE Reported'
  <2>1. CASE HeartbeatError(w)
    BY <2>1, <1>2 DEF HeartbeatError
  <2>2. CASE ExecutionFailed(w)
    BY <2>2, <1>5 DEF ExecutionFailed, StopHeartbeat, Goto
  <2>3. CASE CompleteError(w)
    BY <2>3, <1>5 DEF CompleteError, ToFail, Goto
  <2>4. CASE AuditSuccessLost(w)
    BY <2>4, <1>5 DEF AuditSuccessLost, NextClaim, Forget, Goto
  <2>5. CASE Crash(w) \/ Restart(w)
    BY <2>5, <1>5 DEF Crash, Restart, Die, Forget, Goto
  <2> QED
    BY <1>7, <2>1, <2>2, <2>3, <2>4, <2>5 DEF Misfortune
<1>8. ASSUME NEW w \in Workers, Heartbeat(w) PROVE Reported'
  BY <1>8, <1>2 DEF Heartbeat
<1>9. CASE (\E j \in Jobs : Enqueue(j)) \/ (\E t \in Tenants : DeleteTenant(t)) \/ Tick
            \/ UNCHANGED vars
  BY <1>9, <1>2 DEF Enqueue, DeleteTenant, Tick, vars, workerVars
<1> QED
  BY <1>6, <1>7, <1>8, <1>9 DEF Next

(* However often a job is claimed, retried or interrupted, its success is     *)
(* reported at most once, and never for a row that did not succeed.           *)
THEOREM SuccessIsReportedOnce == Spec => []SuccessReportedOnce
<1>1. Init => Typed /\ Reported
  BY QueueAssumption DEF Init, Typed, TypeOK, Held, Owning, Busy, PCs, Statuses, StoreStates,
     Reported, Reports, SuccessReportedOnce
<1>2. Typed /\ Reported /\ [Next]_vars => Reported'
  BY ReportedStep
<1>3. Reported => SuccessReportedOnce
  BY DEF Reported
<1> QED
  BY <1>1, <1>2, <1>3, TypedStep, PTL DEF Spec

-----------------------------------------------------------------------------
(* Refinement                                                               *)

(* A statement that gives up the leases of S, burying those of D, is one       *)
(* Release of the life cycle.                                                  *)
LEMMA GivingUpReleases ==
  ASSUME Typed, NEW S \in SUBSET Jobs, NEW D \in SUBSET S, UNCHANGED claims,
         \A j \in S : status[j] = "running",
         \A j \in D : Exhausted(j),
         attempts' = [j \in Jobs |-> attempts[j] + (IF j \in S THEN 1 ELSE 0)],
         status' = [j \in Jobs |-> IF j \notin S THEN status[j]
                                   ELSE IF j \in D THEN "dead" ELSE "failed"]
  PROVE  [Lifecycle!LifecycleNext]_(Lifecycle!jobVars)
<1> DEFINE ph == [j \in Jobs |-> PhaseOf(status[j])]
<1> USE DEF Typed, TypeOK
<1>1. CASE S = {}
  <2>1. attempts' = attempts /\ status' = status
    BY <1>1
  <2> QED
    BY <2>1 DEF Lifecycle!jobVars
<1>2. CASE S # {}
  <2>1. \A j \in S : ph[j] = "leased"
    BY DEF PhaseOf
  <2>2. \A j \in D : attempts[j] + 1 >= MaxAttempts
    BY DEF Exhausted
  <2>3. ph' = [j \in Jobs |-> IF j \in D THEN "dead" ELSE IF j \in S THEN "waiting" ELSE ph[j]]
    BY DEF PhaseOf
  <2>4. Lifecycle!Release(S)
    BY <1>2, <2>1, <2>2, <2>3 DEF Lifecycle!Release
  <2> QED
    BY <2>4 DEF Lifecycle!LifecycleNext
<1> QED
  BY <1>1, <1>2

(* A statement that settles a held row is one Succeed of the life cycle.       *)
LEMMA SettlingSucceeds ==
  ASSUME Typed, NEW j \in Jobs, status[j] = "running", MarkSucceeded(j), UNCHANGED claims
  PROVE  Lifecycle!LifecycleNext
<1> DEFINE ph == [i \in Jobs |-> PhaseOf(status[i])]
<1>1. ph[j] = "leased" /\ ph' = [ph EXCEPT ![j] = "succeeded"]
  BY DEF MarkSucceeded, PhaseOf, Typed, TypeOK
<1>2. Lifecycle!Succeed(j)
  BY <1>1 DEF Lifecycle!Succeed, MarkSucceeded
<1> QED
  BY <1>2 DEF Lifecycle!LifecycleNext

(* Every step of the outbox is a step of the life cycle or leaves it alone.    *)
LEMMA RefinementStep ==
  ASSUME Typed, [Next]_vars
  PROVE  [Lifecycle!LifecycleNext]_(Lifecycle!jobVars)
<1> DEFINE ph == [j \in Jobs |-> PhaseOf(status[j])]
<1> USE DEF Typed, TypeOK
<1>1. CASE UNCHANGED <<status, attempts, claims>>
  BY <1>1 DEF Lifecycle!jobVars
<1>2. ASSUME NEW w \in Workers, RequeueStale(w)
      PROVE  [Lifecycle!LifecycleNext]_(Lifecycle!jobVars)
  <2>1. PICK S \in SUBSET Stale : IF Hybrid THEN Preserve(S) ELSE Bury(S, Immediately)
    BY <1>2 DEF RequeueStale
  <2>2. S \in SUBSET Jobs /\ \A j \in S : status[j] = "running"
    BY DEF Stale
  <2> DEFINE D == IF Hybrid THEN {} ELSE {j \in S : Exhausted(j)}
  <2>3. UNCHANGED claims
    BY <1>2 DEF RequeueStale
  <2>4. attempts' = [j \in Jobs |-> attempts[j] + (IF j \in S THEN 1 ELSE 0)]
    BY <2>1 DEF Preserve, Bury
  <2>5. status' = [j \in Jobs |-> IF j \notin S THEN status[j]
                                  ELSE IF j \in D THEN "dead" ELSE "failed"]
    BY <2>1, <2>2 DEF Preserve, Bury
  <2>6. D \in SUBSET S /\ \A j \in D : Exhausted(j)
    OBVIOUS
  <2> HIDE DEF D
  <2> QED
    BY <2>2, <2>3, <2>4, <2>5, <2>6, GivingUpReleases
<1>3. ASSUME NEW w \in Workers, Claim(w) PROVE Lifecycle!LifecycleNext
  <2>1. PICK j \in Jobs : /\ status[j] \in {"queued", "failed"}
                          /\ status' = [status EXCEPT ![j] = "running"]
                          /\ claims' = [claims EXCEPT ![j] = @ + 1]
    BY <1>3 DEF Claim, Claimable
  <2>2. ph[j] = "waiting" /\ ph' = [ph EXCEPT ![j] = "leased"]
    BY <2>1 DEF PhaseOf
  <2>3. Lifecycle!Lease(j)
    BY <1>3, <2>1, <2>2 DEF Claim, Lifecycle!Lease
  <2> QED
    BY <2>3 DEF Lifecycle!LifecycleNext
<1>4. ASSUME NEW w \in Workers, Complete(w) \/ CompleteError(w)
      PROVE  [Lifecycle!LifecycleNext]_(Lifecycle!jobVars)
  <2>1. CASE HoldsRow(w) /\ MarkSucceeded(cur[w])
    BY <1>4, <2>1, SettlingSucceeds DEF HoldsRow, Complete, CompleteError
  <2>2. CASE UNCHANGED <<status, attempts>>
    BY <1>4, <2>2, <1>1 DEF Complete, CompleteError
  <2> QED
    BY <1>4, <2>1, <2>2 DEF Complete, CompleteError
<1>5. ASSUME NEW w \in Workers, Fail(w)
      PROVE  [Lifecycle!LifecycleNext]_(Lifecycle!jobVars)
  <2>1. CASE HoldsRow(w)
    <3> DEFINE S == {cur[w]}
               D == IF reconcile[w] THEN {} ELSE {j \in S : Exhausted(j)}
    <3>1. S \in SUBSET Jobs /\ \A j \in S : status[j] = "running"
      BY <2>1 DEF HoldsRow
    <3>2. UNCHANGED claims
      BY <1>5 DEF Fail
    <3>3. attempts' = [j \in Jobs |-> attempts[j] + (IF j \in S THEN 1 ELSE 0)]
      BY <1>5, <2>1 DEF Fail, Preserve, Bury
    <3>4. status' = [j \in Jobs |-> IF j \notin S THEN status[j]
                                    ELSE IF j \in D THEN "dead" ELSE "failed"]
      BY <1>5, <2>1, <3>1 DEF Fail, Preserve, Bury
    <3>5. D \in SUBSET S /\ \A j \in D : Exhausted(j)
      OBVIOUS
    <3> HIDE DEF D, S
    <3> QED
      BY <3>1, <3>2, <3>3, <3>4, <3>5, GivingUpReleases
  <2>2. CASE ~HoldsRow(w)
    BY <1>5, <2>2, <1>1 DEF Fail
  <2> QED
    BY <2>1, <2>2
<1>6. ASSUME NEW j \in Jobs, Enqueue(j) PROVE Lifecycle!LifecycleNext
  <2>1. ph[j] = "new" /\ ph' = [ph EXCEPT ![j] = "waiting"]
    BY <1>6 DEF Enqueue, PhaseOf
  <2>2. Lifecycle!Insert(j)
    BY <1>6, <2>1 DEF Enqueue, Lifecycle!Insert
  <2> QED
    BY <2>2 DEF Lifecycle!LifecycleNext
<1>7. ASSUME NEW t \in Tenants, DeleteTenant(t)
      PROVE  [Lifecycle!LifecycleNext]_(Lifecycle!jobVars)
  <2> DEFINE S == {j \in Jobs : TenantOf[j] = t /\ status[j] # "new"}
  <2>1. UNCHANGED <<attempts, claims>>
        /\ status' = [j \in Jobs |-> IF j \in S THEN "erased" ELSE status[j]]
    BY <1>7 DEF DeleteTenant
  <2>2. CASE S = {}
    <3>1. status' = status
      BY <2>1, <2>2
    <3> QED
      BY <2>1, <3>1, <1>1
  <2>3. CASE S # {}
    <3>1. \A j \in S : ph[j] # "new"
      BY DEF PhaseOf
    <3>2. ph' = [j \in Jobs |-> IF j \in S THEN "erased" ELSE ph[j]]
      BY <2>1 DEF PhaseOf
    <3>3. Lifecycle!Erase(S)
      BY <2>1, <2>3, <3>1, <3>2 DEF Lifecycle!Erase
    <3> QED
      BY <3>3 DEF Lifecycle!LifecycleNext
  <2> QED
    BY <2>2, <2>3
<1> QED
  BY <1>1, <1>2, <1>3, <1>4, <1>5, <1>6, <1>7
  DEF Next, RunOnce, Misfortune, AuditRequeued, EndBatch, AuditClaimed, Executed,
      ExecutionRejected, ExecutionFenced, AuditSucceeded, AuditFailed, Heartbeat,
      HeartbeatError, ExecutionFailed, AuditSuccessLost, Crash, Restart, Tick, vars, rowVars

(* The outbox with its workers, crashes, clock and deletions implements the     *)
(* life cycle of a job: fresh epochs, one attempt charged per release, dead     *)
(* only with the budget spent, settled for good.                                *)
THEOREM QueueImplementsLifecycle == Spec => ImplementsLifecycle
<1>1. Init => Typed /\ Lifecycle!LifecycleInit
  BY QueueAssumption DEF Init, Typed, TypeOK, Held, Owning, Busy, PCs, Statuses, StoreStates,
     Lifecycle!LifecycleInit, PhaseOf
<1>2. Typed /\ [Next]_vars => [Lifecycle!LifecycleNext]_(Lifecycle!jobVars)
  BY RefinementStep
<1> QED
  BY <1>1, <1>2, TypedStep, PTL DEF Spec, ImplementsLifecycle, Lifecycle!LifecycleSpec

=============================================================================
