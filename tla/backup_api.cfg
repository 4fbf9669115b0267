SPECIFICATION BackupSpec
CONSTANTS
  BackupIDs <- ModelBackupIDs
  Names <- ModelNames
  MaxLosses = 2
  NoCreds = NoCreds
  Creds = {k1}
  BackoffLimit = 1
  Propagation = {"orphan", "cascade"}
  Expiring = FALSE
  Refusals = {"Invalid", "Timeout"}
  LostAnswers = {"Timeout"}
  Callers = {c1, c2}
  Ops = {"run"}
  Exclusive = FALSE
  MaxJobs = 2
  Pollers = {q1}
  Silent = TRUE
INVARIANTS
  PollTypeOK
  CredentialsPresent
  OneAttemptAtATime
  ToldTruth
  TakenOnce
PROPERTIES
  RunDispatched
  OutcomeStays
  KeepsPromise
  BackupConcludes
CHECK_DEADLOCK FALSE
