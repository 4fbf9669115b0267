SPECIFICATION Spec
CONSTANTS
  NoCreds = NoCreds
  Names = {backup}
  Creds = {k1}
  BackoffLimit = 0
  Propagation = {"orphan"}
  Expiring = FALSE
  Refusals = {}
  LostAnswers = {}
  Callers = {c1, c2}
  Ops = {"replace"}
  Exclusive = FALSE
  MaxJobs = 2
SYMMETRY CallerSymmetry
INVARIANTS
  OwnerIsCurrent
CHECK_DEADLOCK FALSE
