SPECIFICATION PollSpec
CONSTANTS
  NoCreds = NoCreds
  Names = {backup}
  Creds = {k1}
  BackoffLimit = 0
  Propagation = {"orphan"}
  Expiring = TRUE
  Refusals = {}
  LostAnswers = {}
  Callers = {c1}
  Ops = {"replace"}
  Exclusive = TRUE
  MaxJobs = 2
  Pollers = {q1}
  Silent = FALSE
  RetryOn = {}
INVARIANTS
  LogsBelongToJob
CHECK_DEADLOCK FALSE
