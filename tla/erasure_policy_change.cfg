SPECIFICATION Spec
CONSTANTS
  r1 = r1
  r2 = r2
  w1 = w1
  w2 = w2
  e1 = e1
  e2 = e2
  d1 = d1
  d2 = d2
  Docs = {d1}
  Revisions = {r1, r2}
  Chunks = {1, 2}
  ChunksOf <- MCChunksOf
  Writers = {w1, w2}
  Executors = {e1, e2}
  Tenants = {1}
  Everyone = 0
  RetentionDays = {1, 2}
  LateBulks = FALSE
  SessionLoss = FALSE
  MaxTime = 3
  MaxLeases = 2
  MaxFaults = 1
  TenantOf <- MCTenantOf
  None = None
SYMMETRY MCSymmetry
PROPERTIES
  CatalogOutlivesEvidence
