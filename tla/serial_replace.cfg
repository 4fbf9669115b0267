SPECIFICATION Spec
CONSTANTS
  NoCreds = NoCreds
  Names = {backup}
  Creds = {k1, k2}
  BackoffLimit = 1
  Propagation = {"orphan", "cascade"}
  Expiring = TRUE
  Refusals = {"Invalid", "Timeout"}
  LostAnswers = {"Timeout"}
  Callers = {c1}
  Ops = {"delete", "replace"}
  Exclusive = TRUE
  MaxJobs = 2
INVARIANTS
  TypeOK
  CredentialsCurrent
  EnvironmentCurrent
  OwnerIsCurrent
  SerialInv
PROPERTIES
  ReplaceRestarts
  DeleteCleans
