SPECIFICATION ExecutionSpec
CONSTANTS
  Focus = {"track", "controller", "local", "kubernetes", "bridge", "sweeps"}
  Runs = {"run 1", "run 2"}
  Locks = {"run 1", "run 2"}
  LockOf <- OwnLocks
  Writers = {w1, w2}
  Readers = {c1}
  Nobody = Nobody
  MaxSequence = 4
  MaxTurns = 2
  MaxBoots = 2
  MaxFailures = 1
  Sweeps = {"s1", "s2", "s3"}
  Replicas = {"a", "b"}
  Home <- Homes
  NoSweep = "no sweep"
  Workers = {"w1", "w2"}
  Ports = {"p1", "p2"}
  MaxKilled = 1
  None = "no one"
  Isolated = TRUE
  Attempts = 2
  MaxCrashes = 1
  MaxMaterializations = 2
  MaxCalls = 2
  Requests = {"r1", "r2"}
  AcpSessions = {"s1"}
  MaxPolls = 1
  MaxCancels = 1
INVARIANTS CursorNeverSkips RunningIsDriven StatementsUnderLock HeldByItsOwner
PROPERTIES ImplementsLog TurnsInOrder EverythingEnds
CHECK_DEADLOCK FALSE
