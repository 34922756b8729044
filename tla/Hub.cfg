SPECIFICATION HubSpec
CONSTANTS
  Focus = {"frames", "frames longer", "groups", "tasks", "activity", "best effort", "migration", "run views",
           "page", "invitations"}
  Actors = {x, y}
  Trio = {p, q, r}
  Nothing = Nothing
  RunUnreadable = RunUnreadable
  InvalidTransition = InvalidTransition
  TypeError = TypeError
SYMMETRY Alike
INVARIANTS FramesAreSound RecordsAreKept AcceptanceIsTrue
PROPERTY NothingGoesBack
CHECK_DEADLOCK FALSE
