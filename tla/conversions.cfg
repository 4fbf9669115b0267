SPECIFICATION Spec
CONSTANTS
  Operations <- ModelOperations
  Parts = {"backup", "delete", "x"}
  MsIDs = {"s1", "s2"}
  Providers = {"t", "u"}
  Namespaces = {"rg-1", "rg-2"}
  Variables = {1, 2, 3}
  Texts <- ModelTexts
  DefaultJobTTL = 6
  DefaultJobTimeout = 36
  Second = 3
  Int32Half = 8
  MaxLen = 2
  MaxListed = 2
  Chars = {"a", "~", "/", "0", "1"}
INVARIANTS
  JobIdentity
  LimitsKept
  SecretsPrevail
  FailureIsTold
  OutcomeIsDated
  PointerReadsBack
  ListedIsFound
  HealthShown
  OneSource
  EnvDeterministic
  TelemetryFlushed
