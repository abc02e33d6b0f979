SPECIFICATION FairSpec
CONSTANTS
  j1 = j1
  j2 = j2
  w1 = w1
  w2 = w2
  t1 = t1
  t2 = t2
  host = host
  Jobs = {j1, j2}
  Workers = {w1, w2}
  Tenants = {t1, t2}
  WorkerIds = {host}
  TenantOf <- MCTenantOf
  WorkerIdOf <- MCSharedWorkerId
  PoisonJobs = {j2}
  Hybrid = FALSE
  UnclassifiedErrors = FALSE
  MaxAttempts = 2
  BatchSize = 2
  BackoffBase = 1
  MaxReconciliationBackoff = 2
  MaxFailBackoff = 4
  LockTimeout = 2
  MaxFaults = 1
  NoJob = NoJob
  NoWorkerId = NoWorkerId
PROPERTIES
  EveryJobSettles
