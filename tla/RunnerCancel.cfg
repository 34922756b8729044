\* Cancels racing a driver, a submission and each other, with a restart.
CONSTANTS
  t1 = t1
  t2 = t2
  t3 = t3
  Threads = {t1, t2, t3}
  Nobody = Nobody
  NSteps = 1
  GateOf <- OneGate
  Severities = {"none", "error"}
  Usages = {}
  Budgeted = FALSE
  TokenLimit = 0
  Deadline = FALSE
  RevisionsLimited = FALSE
  MaxRevisions = 0
  MaxCalls = 3
  MaxBoots = 2
  MaxTrackFailures = 0
SPECIFICATION Spec
SYMMETRY ThreadSymmetry
INVARIANTS
  NoOrphanWorker
  TokenDiscipline
