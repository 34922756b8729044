\* Two steps, the first always signed off, two threads, a restart and a failing write.
CONSTANTS
  t1 = t1
  t2 = t2
  Threads = {t1, t2}
  Nobody = Nobody
  NSteps = 2
  GateOf <- TwoGates
  Severities = {"none"}
  Usages = {}
  Budgeted = FALSE
  TokenLimit = 0
  Deadline = FALSE
  RevisionsLimited = FALSE
  MaxRevisions = 0
  MaxCalls = 3
  MaxBoots = 2
  MaxTrackFailures = 1
SPECIFICATION Spec
SYMMETRY ThreadSymmetry
INVARIANTS
  SnapshotCurrent
  MachinesObeyed
PROPERTIES
  CancelWins
  ImplementsLifecycle
