SPECIFICATION Spec
CONSTANTS
  c1 = c1
  c2 = c2
  Approvals = {a1}
  Calls = {c1, c2}
  Definitions = {d1, d2}
  Keys = {k1, k2}
  Workers = {w1, w2}
  Solo = w1
  Backends = {"postgres", "jsonl"}
  NoKey = NoKey
  NoCall = NoCall
  GrantTtl = 2
  Deadline = 2
  MaxTime = 2
  MaxRestarts = 2
  MaxFaults = 1
SYMMETRY MCSymmetry
INVARIANTS
  TypeOK
  SpentOnce
  AnswersStand
  GrantsOutliveNoKey
  RestartForgetsNothing
PROPERTIES
  ImplementsApproval
CHECK_DEADLOCK FALSE
