\* A restart between the last result and the budget stop.
CONSTANTS
  t1 = t1
  Threads = {t1}
  Nobody = Nobody
  NSteps = 1
  GateOf <- OneGate
  Severities = {"none"}
  Usages = {1, 2}
  Budgeted = TRUE
  TokenLimit = 2
  Deadline = FALSE
  RevisionsLimited = FALSE
  MaxRevisions = 0
  MaxCalls = 2
  MaxBoots = 2
  MaxTrackFailures = 0
SPECIFICATION Spec
INVARIANTS
  CompletedWithinBudget
