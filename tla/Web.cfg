SPECIFICATION AccountsSpec
CONSTANTS
  Focus = {"jwks", "sign in", "gate", "startup", "cli"}
  Actors = {x, y}
  Callers = {c1, c2}
  Emails = {e1, e2}
  Keys = {k1}
  FoldedKey <- OneKey
  Invitations = {i1, i2}
  Accounts = {acc1, acc2}
  NoAccount = NoAccount
  People = {"p1", "p2", "p3"}
  Issuers = {"i1", "i2"}
  KeySets = {"k1", "k2"}
  Strings = {"s1", "s2"}
  Deployments <- MCDeployments
  IssuerOf <- MCIssuerOf
  SubjectOf <- MCSubjectOf
  Requests = {"r"}
  Unset = Unset
  Staff = {"a", "b"}
  NoTarget = NoTarget
  Bootstrapped = {"a"}
  Subjects = {"b"}
  Connectors = {"github"}
  PanelSlots = {x, y}
  Actions = {"a1", "a2"}
  MaxOps = 5
  MaxDepth = 2
  None = None
  Logins = {"u"}
  Declared = "declared"
  Elsewhere = "elsewhere"
  Gates = {"g"}
  SteadyKids = {"old"}
  RotatingKids = {"new"}
  Verifiers = {x, y}
  ForcedInterval = 1
  Lifespan = 2
  FetchTimeout = 1
  Replicas = {x, y}
  Releases <- Builds
  Legacy <- MCLegacy
  NoChecksum = "no checksum"
  NoReplica = "nobody"
  Persons = {"p", "q"}
  Anyone = "anyone"
  Browsers = {x, y}
  Servers = {"ahead", "behind"}
  Drift <- Drifts
  MaxSignIns = 2
  Horizon = 4
  ClockSkew = 1
  ClaimMaxAge = 1
  SessionLifetime = 2
  FlowLifetime = 2
  Commands = {x, y}
  Hubs = {h1, h2}
  ShortLived = FALSE
  Rotates = TRUE
  EndsSessions = TRUE
  MaxSessions = 2
  MaxTokens = 2
  MaxCommands = 3
  Threads = {x, y}
  Retrying = TRUE
  Groups <- RealmGroups
  Configured = "/x"
  GivenId = 0
  RealmUsers = {1}
  PageSize = 1
  Lifetime = 1
  MaxMinted = 2
  MaxTime = 1
  MaxRevocations = 1
  MaxChanges = 1
SYMMETRY ActorSymmetry
INVARIANTS KeysAreCurrent SessionsAreOwn ServedAsDeclared
PROPERTY MembershipStays
CHECK_DEADLOCK FALSE
