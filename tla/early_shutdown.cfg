SPECIFICATION Spec
CONSTANTS
  Clients = {c1}
  Stoppers = {s1}
  Locked = FALSE
  Routes = {"status"}
  Wrapped = {}
INVARIANTS
  ShutdownStops
CHECK_DEADLOCK FALSE
