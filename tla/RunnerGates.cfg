\* Decisions, revisions, retries and restarts over two steps, with a token limit and a deadline.
CONSTANTS
  t1 = t1
  Threads = {t1}
  Nobody = Nobody
  NSteps = 2
  GateOf <- TwoGates
  Severities = {"none"}
  Usages = {1, 2}
  Budgeted = TRUE
  TokenLimit = 3
  Deadline = TRUE
  RevisionsLimited = TRUE
  MaxRevisions = 1
  MaxCalls = 5
  MaxBoots = 2
  MaxTrackFailures = 0
SPECIFICATION Spec
INVARIANTS
  GatesHonoured
  AttemptsCounted
  BudgetGuard
