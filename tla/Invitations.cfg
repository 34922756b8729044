SPECIFICATION Spec
CONSTANTS
  NoUser = NoUser
  Users = {ann, bob}
  Founders = {}
  Strangers = {}
  Shouting = {ann, bob}
  Unverified = {}
  RequireVerified = TRUE
  NGroups = 1
  MaxInvitations = 2
  MaxOrgs = 1
  Attempts = 1
  Requests = {r1, r2}
SYMMETRY ActorSymmetry
INVARIANTS AuditAgrees AcceptedRightly NothingForgotten PageIssuedLiveUnique
PROPERTIES TerminalIsFinal
CHECK_DEADLOCK FALSE
