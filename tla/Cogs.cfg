SPECIFICATION HubSpec
CONSTANTS
  Focus = {"oci", "oci alone", "listing", "card", "catalog", "calls", "calendar", "walk", "board",
           "realm"}
  Actors = {x, y}
  Trio = {p, q, r}
  Nothing = Nothing
  RunUnreadable = RunUnreadable
  InvalidTransition = InvalidTransition
  TypeError = TypeError
SYMMETRY Alike
INVARIANTS CallsAreSafe ListingsAreExact
CHECK_DEADLOCK FALSE
