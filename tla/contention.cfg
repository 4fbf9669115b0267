SPECIFICATION FairSpec
CONSTANTS
  NoCreds = NoCreds
  Names = {backup}
  Creds = {k1}
  BackoffLimit = 0
  Propagation = {"orphan", "cascade"}
  Expiring = TRUE
  Refusals = {"Timeout"}
  LostAnswers = {"Timeout"}
  Callers = {c1, c2}
  Ops = {"run", "delete", "replace"}
  Exclusive = FALSE
  MaxJobs = 1
PROPERTIES
  ImplementsOneShot
  AdoptedCollected
  WorkEnds
