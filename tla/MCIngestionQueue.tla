-------------------------- MODULE MCIngestionQueue --------------------------
(* Instances of IngestionQueue for TLC.                                     *)
EXTENDS IngestionQueue

CONSTANTS j1, j2, w1, w2, t1, t2, host

MCTenantOf == [j \in Jobs |-> IF j = j1 THEN t1 ELSE t2]
\* both processes carry the configured ingestion_worker_id, as after a restart
\* or with two replicas of one deployment
MCSharedWorkerId == [w \in Workers |-> host]

=============================================================================
