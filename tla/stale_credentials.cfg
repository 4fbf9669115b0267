SPECIFICATION Spec
CONSTANTS
  NoCreds = NoCreds
  Names = {backup}
  Creds = {k1, k2}
  BackoffLimit = 0
  Propagation = {"orphan", "cascade"}
  Expiring = FALSE
  Refusals = {"Invalid", "Timeout"}
  LostAnswers = {"Timeout"}
  Callers = {c1}
  Ops = {"run"}
  Exclusive = TRUE
  MaxJobs = 2
INVARIANTS
  CredentialsCurrent
CHECK_DEADLOCK FALSE
