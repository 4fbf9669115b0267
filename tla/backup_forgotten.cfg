SPECIFICATION PollSpec
CONSTANTS
  NoCreds = NoCreds
  Names = {backup}
  Creds = {k1}
  BackoffLimit = 0
  Propagation = {"orphan", "cascade"}
  Expiring = TRUE
  Refusals = {}
  LostAnswers = {}
  Callers = {c1}
  Ops = {"run"}
  Exclusive = TRUE
  MaxJobs = 2
  Pollers = {q1}
  Silent = FALSE
  RetryOn = {}
PROPERTIES
  BackupStaysReported
CHECK_DEADLOCK FALSE
