------------------------ MODULE IngestionJobLifecycle ------------------------
(***************************************************************************)
(* What the ingestion outbox promises of one job, whatever the workers, the *)
(* heartbeats, the clock and the crashes do: a row waits, is leased under a *)
(* fresh epoch, is released back or settled, and a settled row never moves  *)
(* again.  Every release charges exactly one attempt, and a row is dead-    *)
(* lettered only when the attempts are used up.  IngestionQueue implements  *)
(* this specification.                                                      *)
(***************************************************************************)
EXTENDS Naturals

CONSTANTS
  Jobs,         \* identities of the rows of rag_ingestion_jobs
  MaxAttempts   \* ingestion_worker_max_attempts

VARIABLES
  phase,        \* [Jobs -> Phases]
  attempts,     \* [Jobs -> Nat]
  epoch         \* [Jobs -> Nat], how often the row has been leased

jobVars == <<phase, attempts, epoch>>

Phases == {"new", "waiting", "leased", "succeeded", "dead", "erased"}

LifecycleInit ==
  /\ phase = [j \in Jobs |-> "new"]
  /\ attempts = [j \in Jobs |-> 0]
  /\ epoch = [j \in Jobs |-> 0]

Insert(j) ==
  /\ phase[j] = "new"
  /\ phase' = [phase EXCEPT ![j] = "waiting"]
  /\ UNCHANGED <<attempts, epoch>>

Lease(j) ==
  /\ phase[j] = "waiting"
  /\ phase' = [phase EXCEPT ![j] = "leased"]
  /\ epoch' = [epoch EXCEPT ![j] = @ + 1]
  /\ UNCHANGED attempts

Succeed(j) ==
  /\ phase[j] = "leased"
  /\ phase' = [phase EXCEPT ![j] = "succeeded"]
  /\ UNCHANGED <<attempts, epoch>>

(* One or several leases are given up by one statement: each is charged one *)
(* attempt and goes back to waiting, or is buried with its budget spent.    *)
Release(S) ==
  /\ S # {}
  /\ \A j \in S : phase[j] = "leased"
  /\ attempts' = [j \in Jobs |-> attempts[j] + (IF j \in S THEN 1 ELSE 0)]
  /\ \E buried \in SUBSET S :
       /\ \A j \in buried : attempts[j] + 1 >= MaxAttempts
       /\ phase' = [j \in Jobs |-> IF j \in buried THEN "dead"
                                   ELSE IF j \in S THEN "waiting" ELSE phase[j]]
  /\ UNCHANGED epoch

(* Tenant deletion removes every row of the tenant that exists.             *)
Erase(S) ==
  /\ S # {}
  /\ \A j \in S : phase[j] # "new"
  /\ phase' = [j \in Jobs |-> IF j \in S THEN "erased" ELSE phase[j]]
  /\ UNCHANGED <<attempts, epoch>>

LifecycleNext ==
  \/ \E j \in Jobs : Insert(j) \/ Lease(j) \/ Succeed(j)
  \/ \E S \in SUBSET Jobs : Release(S) \/ Erase(S)

LifecycleSpec == LifecycleInit /\ [][LifecycleNext]_jobVars

=============================================================================
