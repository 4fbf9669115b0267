SPECIFICATION FairSpec
CONSTANTS
  Clients = {c1, c2}
  Stoppers = {s1, s2}
  Locked = TRUE
  Routes = {"preflight", "health", "unknown", "status", "update"}
  Wrapped = {"ErrConflict", "ErrResourceNotFound"}
INVARIANTS
  TypeOK
  AnswersTruthfully
  ShutDownForGood
PROPERTIES
  ShutdownReturns
  NothingDropped
CHECK_DEADLOCK FALSE
