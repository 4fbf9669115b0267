SPECIFICATION Spec
CONSTANTS
  NoCreds = NoCreds
  Names = {backup}
  Creds = {k1}
  BackoffLimit = 0
  Propagation = {"orphan"}
  Expiring = TRUE
  Refusals = {}
  LostAnswers = {}
  Callers = {c1}
  Ops = {"run"}
  Exclusive = TRUE
  MaxJobs = 2
INVARIANTS
  CredentialsPresent
CHECK_DEADLOCK FALSE
