\* Calls return and cancels are honoured, under fair threads.
CONSTANTS
  t1 = t1
  t2 = t2
  Threads = {t1, t2}
  Nobody = Nobody
  NSteps = 1
  GateOf <- OneGate
  Severities = {"none"}
  Usages = {}
  Budgeted = FALSE
  TokenLimit = 0
  Deadline = FALSE
  RevisionsLimited = FALSE
  MaxRevisions = 0
  MaxCalls = 3
  MaxBoots = 1
  MaxTrackFailures = 0
SPECIFICATION FairSpec
PROPERTIES
  CallsReturn
  CancelHonoured
