SPECIFICATION RetrySpec
CONSTANTS
  NoCreds = NoCreds
  Names = {backup}
  Creds = {k1}
  BackoffLimit = 1
  Propagation = {"orphan", "cascade"}
  Expiring = TRUE
  Refusals = {}
  LostAnswers = {}
  Callers = {c1}
  Ops = {"run", "replace"}
  Exclusive = TRUE
  MaxJobs = 2
  Pollers = {q1}
  Silent = FALSE
  RetryOn = {"failed", "not_found"}
PROPERTIES
  FailureIsRetried
  NewestFailureExplains
