SPECIFICATION PlatformSpec
CONSTANTS
  p1 = p1
  p2 = p2
  t1 = t1
  t2 = t2
  d1 = d1
  d2 = d2
  f1 = f1
  f2 = f2
  c1 = c1
  LedgerWorkers = {p1, p2}
  Traces = {t1, t2}
  Decisions = {d1, d2}
  NoSource = NoSource
  RunDays = 0
  EventDays = 1
  ExportCap = 3
  PageLimit = 1
  MaxRequests = 3
  MaxReadRequests = 2
  MaxDay = 2
  Corpora = {c1}
  Admins = {p1, p2}
  GrantDays = 0
  MaxVersion = 3
  MaxGrantDay = 2
  MaxDeletions = 1
  Handlers = {p1, p2}
  Payloads = {d1, d2}
  MaxSubmissions = 4
  MaxGivenUp = 2
  MaxLogins = 3
  MaxSessions = 3
  TransactionCapacity = 2
  SessionCapacity = 2
  MaxProbes = 1
  NFiles = 2
  Contents = {f1, f2}
  MaxWrites = 3
  Verifiers = {p1, p2}
  Kids = {c1}
  NoKeys = NoKeys
  Ttl = 3
  Cooldown = 1
  InstantSteps = TRUE
  MaxClock = 3
  MaxRotations = 1
  Activities = {p1, p2}
  Tenants = {1, 2}
  Documents = {f1, f2}
  TextRank <- MCTextRank
  GroupRank <- MCGroupRank
  MaxRank = 2
SYMMETRY Interchangeable
CHECK_DEADLOCK FALSE
INVARIANTS
  UntruncatedKeySetsMatch
