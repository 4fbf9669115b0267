------------------------- MODULE ConversionsProofs -------------------------
(***************************************************************************)
(* What the conversions promise, for every set of operations, services,    *)
(* texts and variables and every width of an int32.                        *)
(***************************************************************************)
EXTENDS Conversions, WellOrder, FiniteSetTheorems, SequenceTheorems

\* Joined names that are equal begin alike.
LEMMA SameBeginning ==
  ASSUME NEW S, NEW o \in Seq(S), NEW p \in Seq(S), NEW k \in Seq(S), NEW l \in Seq(S),
         o \o k = p \o l, Len(o) <= Len(p)
  PROVE  \A i \in 1..Len(o) : o[i] = p[i]
<1> SUFFICES ASSUME NEW i \in 1..Len(o) PROVE o[i] = p[i]
  OBVIOUS
<1>1. (o \o k)[i] = o[i]
  OBVIOUS
<1>2. i \in 1..Len(p)
  OBVIOUS
<1>3. (p \o l)[i] = p[i]
  BY <1>2
<1> QED
  BY <1>1, <1>3

\* Names with the same operation are the same only if the keys are.
LEMMA SameEnd ==
  ASSUME NEW S, NEW o \in Seq(S), NEW k \in Seq(S), NEW l \in Seq(S), o \o k = o \o l
  PROVE  k = l
<1>1. Len(o \o k) = Len(o) + Len(k) /\ Len(o \o l) = Len(o) + Len(l)
  OBVIOUS
<1>2. Len(k) = Len(l)
  BY <1>1
<1>3. ASSUME NEW i \in 1..Len(k) PROVE k[i] = l[i]
  <2>1. (o \o k)[Len(o) + i] = k[i]
    OBVIOUS
  <2>2. (o \o l)[Len(o) + i] = l[i]
    BY <1>2
  <2> QED
    BY <2>1, <2>2
<1> QED
  BY <1>2, <1>3

\* Where no operation begins with another one, Jobs of different operations or
\* different keys have different names (ServiceJobName), whatever the keys are.
THEOREM PrefixFreeNamesApart ==
  ASSUME NEW S, NEW operations \in SUBSET Seq(S), NEW keys \in SUBSET Seq(S),
         PrefixFree(operations)
  PROVE  NamesApart(operations, keys)
<1> SUFFICES ASSUME NEW o \in operations, NEW p \in operations, NEW k \in keys,
                    NEW l \in keys, o \o k = p \o l
             PROVE  o = p /\ k = l
  BY DEF NamesApart, ServiceJobName
<1>1. o \in Seq(S) /\ p \in Seq(S) /\ k \in Seq(S) /\ l \in Seq(S)
  OBVIOUS
<1>2. o = p
  <2>1. CASE Len(o) <= Len(p)
    BY <1>1, <2>1, SameBeginning DEF PrefixFree
  <2>2. CASE Len(p) <= Len(o)
    BY <1>1, <2>2, SameBeginning DEF PrefixFree
  <2> QED
    BY <1>1, <2>1, <2>2
<1> QED
  BY <1>1, <1>2, SameEnd

\* The operations of the library are apart ("delete-backup" does not begin with
\* "backup" or "restore", nor the other way round), so their Jobs are.
THEOREM LibraryNamesApart ==
  ASSUME NEW S, {"backup", "delete", "restore"} \subseteq S, NEW keys \in SUBSET Seq(S)
  PROVE  NamesApart(JobOps, keys)
<1>1. JobOps \in SUBSET Seq(S)
  BY DEF JobOps, JobOpBackup, JobOpDeleteBackup, JobOpRestore
<1>2. PrefixFree(JobOps)
  <2> SUFFICES ASSUME NEW o \in JobOps, NEW p \in JobOps, Len(o) <= Len(p),
                      \A i \in 1..Len(o) : o[i] = p[i]
               PROVE  o = p
    BY DEF PrefixFree
  <2>1. 1 \in 1..Len(o)
    BY DEF JobOps, JobOpBackup, JobOpDeleteBackup, JobOpRestore
  <2>2. o[1] = p[1]
    BY <2>1
  <2> QED
    BY <2>2 DEF JobOps, JobOpBackup, JobOpDeleteBackup, JobOpRestore
<1> QED
  BY <1>1, <1>2, PrefixFreeNamesApart

\* The labels that name the service and the backup are those of the ServiceJob,
\* and every other label of the caller is kept (ServiceJobSpec).
LEMMA LabelsAuthoritative ==
  ASSUME NEW j, NEW L \in SUBSET {"id", "team", "backupID"}, DOMAIN j.labels = L
  PROVE  /\ LabelsOf(j)["id"] = j.msID
         /\ j.operation \in {JobOpBackup, JobOpDeleteBackup} => LabelsOf(j)["backupID"] = j.key
         /\ \A l \in L \ {"id", "backupID"} : LabelsOf(j)[l] = j.labels[l]
<1> DEFINE own == IdentityLabels(j)
<1>1. CASE j.operation \in {JobOpBackup, JobOpDeleteBackup}
  <2>1. own = [id |-> j.msID, backupID |-> j.key]
    BY <1>1 DEF IdentityLabels
  <2>2. DOMAIN own = {"id", "backupID"} /\ own["id"] = j.msID /\ own["backupID"] = j.key
    BY <2>1
  <2> HIDE DEF own
  <2>3. LabelsOf(j) = [l \in {"id", "backupID"} \cup L |->
                         IF l \in {"id", "backupID"} THEN own[l] ELSE j.labels[l]]
    BY <2>2 DEF LabelsOf, Over, own
  <2> QED
    BY <2>2, <2>3
<1>2. CASE j.operation \notin {JobOpBackup, JobOpDeleteBackup}
  <2>1. own = [id |-> j.msID]
    BY <1>2 DEF IdentityLabels
  <2>2. DOMAIN own = {"id"} /\ own["id"] = j.msID
    BY <2>1
  <2> HIDE DEF own
  <2>3. LabelsOf(j) = [l \in {"id"} \cup L |-> IF l = "id" THEN own[l] ELSE j.labels[l]]
    BY <2>2 DEF LabelsOf, Over, own
  <2> QED
    BY <1>2, <2>2, <2>3
<1> QED
  BY <1>1, <1>2

\* Whatever kinds of Jobs the providers add, as long as none begins with another
\* one, a Job has its own name and the labels that it is found by.
THEOREM JobsIdentified ==
  ASSUME NEW S, Parts \in SUBSET S, Operations \in SUBSET Seq(S), PrefixFree(Operations)
  PROVE  Spec => []JobIdentity
<1>1. Init => JobIdentity
  BY DEF Init, NoCall, JobIdentity
<1>2. JobIdentity /\ [Next]_last => JobIdentity'
  <2> SUFFICES ASSUME Next, last'.helper = "ServiceJobSpec" PROVE JobIdentity'
    BY DEF JobIdentity
  <2>1. CallServiceJobSpec
    BY DEF Next, NoCall, Called, CallLimits, CallBuildEnv, CallState, CallEscape,
       CallFindServiceNamespace, CallNewServiceStatus, CallRecoverFrom, CallSetup
  <2> DEFINE Labels == {<<>>} \cup [{"id", "team"} -> MsIDs] \cup [{"backupID"} -> Keys]
  <2>2. PICK j \in [operation : Operations, key : Keys, msID : MsIDs, labels : Labels] :
          Called("ServiceJobSpec", j, ServiceJobSpec(j))
    BY <2>1 DEF CallServiceJobSpec
  <2>3. last'.given = j /\ last'.got = ServiceJobSpec(j)
    BY <2>2 DEF Called
  <2>4. /\ j.operation \in Operations /\ j.key \in Keys /\ j.labels \in Labels
    BY <2>2
  <2> DEFINE L == DOMAIN j.labels
  <2>5. L \in SUBSET {"id", "team", "backupID"}
    BY <2>4
  <2> DEFINE got == ServiceJobSpec(j)
  <2>6. got.name = ServiceJobName(j.operation, j.key) /\ got.labels = LabelsOf(j)
    BY DEF ServiceJobSpec
  <2>7. /\ got.labels["id"] = j.msID
        /\ j.operation \in {JobOpBackup, JobOpDeleteBackup} => got.labels["backupID"] = j.key
        /\ \A l \in L \ {"id", "backupID"} : got.labels[l] = j.labels[l]
    BY <2>5, <2>6, LabelsAuthoritative
  <2>8. NamesApart(Operations, Keys)
    <3>1. Keys \in SUBSET Seq(S)
      <4> SUFFICES ASSUME NEW k \in Keys PROVE k \in Seq(S)
        OBVIOUS
      <4>1. (\E a \in Parts : k = <<a>>) \/ (\E a \in Parts, b \in Parts : k = <<a, b>>)
        BY DEF Keys
      <4>2. \A a \in Parts, b \in Parts : <<a>> \in Seq(S) /\ <<a, b>> \in Seq(S)
        OBVIOUS
      <4> QED
        BY <4>1, <4>2
    <3> QED
      BY <3>1, PrefixFreeNamesApart
  <2>9. \A o \in Operations, k \in Keys :
          ServiceJobName(o, k) = got.name => o = j.operation /\ k = j.key
    BY <2>4, <2>6, <2>8 DEF NamesApart
  <2> HIDE DEF L, got
  <2> QED
    BY <2>3, <2>7, <2>9 DEF JobIdentity, L, got
<1> QED
  BY <1>1, <1>2, PTL DEF Spec

(***************************************************************************)
(* Limits, statuses, lookups and Setup.                                    *)
(***************************************************************************)

\* A step that calls a helper is the action of that helper.
LEMMA HelperOf ==
  ASSUME Next
  PROVE  /\ last'.helper = "Limits" => CallLimits
         /\ last'.helper = "buildEnv" => CallBuildEnv
         /\ last'.helper = "State" => CallState
         /\ last'.helper = "EscapeJSONPointer" => CallEscape
         /\ last'.helper = "FindServiceNamespace" => CallFindServiceNamespace
         /\ last'.helper = "NewServiceStatus" => CallNewServiceStatus
         /\ last'.helper = "RecoverFrom" => CallRecoverFrom
         /\ last'.helper = "Setup" => CallSetup
<1>1. \A helper, given, got : Called(helper, given, got) => last'.helper = helper
  BY DEF Called
<1>2. CallServiceJobSpec => last'.helper = "ServiceJobSpec"
  BY <1>1 DEF CallServiceJobSpec
<1>3. CallLimits => last'.helper = "Limits"
  BY <1>1 DEF CallLimits
<1>4. CallBuildEnv => last'.helper = "buildEnv"
  BY <1>1 DEF CallBuildEnv
<1>5. CallState => last'.helper = "State"
  BY <1>1 DEF CallState
<1>6. CallEscape => last'.helper = "EscapeJSONPointer"
  BY <1>1 DEF CallEscape
<1>7. CallFindServiceNamespace => last'.helper = "FindServiceNamespace"
  BY <1>1 DEF CallFindServiceNamespace
<1>8. CallNewServiceStatus => last'.helper = "NewServiceStatus"
  BY <1>1 DEF CallNewServiceStatus
<1>9. CallRecoverFrom => last'.helper = "RecoverFrom"
  BY <1>1 DEF CallRecoverFrom
<1>10. CallSetup => last'.helper = "Setup"
  BY <1>1 DEF CallSetup
<1>11. NoCall.helper = "none"
  BY DEF NoCall
<1> QED
  BY <1>2, <1>3, <1>4, <1>5, <1>6, <1>7, <1>8, <1>9, <1>10, <1>11 DEF Next

\* A message of any length comes out as it was or cut to the longest one that
\* Codesphere accepts, and only while the service runs (NewServiceStatus).
THEOREM HealthIsShown == Spec => []HealthShown
<1>1. Init => HealthShown
  BY DEF Init, NoCall, HealthShown
<1>2. HealthShown /\ [Next]_last => HealthShown'
  <2> SUFFICES ASSUME Next, last'.helper = "NewServiceStatus" PROVE HealthShown'
    BY DEF HealthShown
  <2>1. PICK pause \in {"nil", "true", "false"},
             health \in {{}} \cup {{h} : h \in [status : {"healthy", "unhealthy"},
                                                message : 0..(MaxLen + 1)]} :
          Called("NewServiceStatus", [pause |-> pause, health |-> health],
                 NewServiceStatus(pause, health))
    BY HelperOf DEF CallNewServiceStatus
  <2>2. /\ last'.given.pause = pause /\ last'.given.health = health
        /\ last'.got = NewServiceStatus(pause, health)
    BY <2>1 DEF Called
  <2>3. \A h \in health : /\ h.message \in Nat
                          /\ CutMessage(h).status = h.status
                          /\ CutMessage(h).message =
                               IF h.message > MaxLen THEN MaxLen ELSE h.message
    BY BoundsAssumption DEF CutMessage
  <2>4. last'.got # {} <=> health # {} /\ pause # "true"
    BY <2>2 DEF NewServiceStatus
  <2>5. ASSUME NEW h \in last'.got
        PROVE  \E g \in health :
                 /\ h.status = g.status /\ h.message <= MaxLen
                 /\ h.message = g.message \/ (h.message = MaxLen /\ g.message > MaxLen)
    <3>1. PICK g \in health : h = CutMessage(g)
      BY <2>2, <2>5 DEF NewServiceStatus
    <3> QED
      BY <2>3, <3>1, BoundsAssumption
  <2> QED
    BY <2>2, <2>4, <2>5 DEF HealthShown
<1> QED
  BY <1>1, <1>2, PTL DEF Spec

\* The binding tags of RecoverFrom let exactly the two sources through.
THEOREM OneSourceOnly == Spec => []OneSource
<1>1. Init => OneSource
  BY DEF Init, NoCall, OneSource
<1>2. OneSource /\ [Next]_last => OneSource'
  <2> SUFFICES ASSUME Next, last'.helper = "RecoverFrom" PROVE OneSource'
    BY DEF OneSource
  <2>1. PICK r \in [id : BOOLEAN, msID : BOOLEAN, time : BOOLEAN] :
          Called("RecoverFrom", r, RecoverFromValid(r))
    BY HelperOf DEF CallRecoverFrom
  <2>2. last'.given = r /\ last'.got = RecoverFromValid(r)
    BY <2>1 DEF Called
  <2>3. r.id \in BOOLEAN /\ r.msID \in BOOLEAN /\ r.time \in BOOLEAN
    OBVIOUS
  <2>4. RecoverFromValid(r) => (r.id <=> ~r.msID) /\ (r.time <=> r.msID)
    BY <2>3 DEF RecoverFromValid, IDBound, MsIDBound, TimeBound
  <2> QED
    BY <2>2, <2>3, <2>4 DEF OneSource
<1> QED
  BY <1>1, <1>2, PTL DEF Spec

\* What Setup installed before a step failed is what its function flushes.
THEOREM TelemetryIsFlushed == Spec => []TelemetryFlushed
<1>1. Init => TelemetryFlushed
  BY DEF Init, NoCall, TelemetryFlushed
<1>2. TelemetryFlushed /\ [Next]_last => TelemetryFlushed'
  <2> SUFFICES ASSUME Next, last'.helper = "Setup" PROVE TelemetryFlushed'
    BY DEF TelemetryFlushed
  <2>1. PICK failing \in ToSet(SetupSteps), unreachable \in SUBSET {"meter", "tracer"} :
          Called("Setup", [failing |-> failing, unreachable |-> unreachable],
                 [setup |-> Setup(failing), exit |-> Stopped(Setup(failing).stops, unreachable)])
    BY HelperOf DEF CallSetup
  <2>2. /\ last'.given.unreachable = unreachable /\ last'.got.setup = Setup(failing)
        /\ last'.got.exit = Stopped(Setup(failing).stops, unreachable)
    BY <2>1 DEF Called
  <2>3. ToSet(Setup(failing).stops) = Setup(failing).installed
    <3>1. CASE Done("traceExporter", failing)
      <4>1. Setup(failing).stops = <<"tracer", "meter">>
        BY <3>1 DEF Setup, StoppedIfBuilt
      <4>2. Setup(failing).installed = {"meter", "tracer"}
        BY <3>1 DEF Setup
      <4>3. ToSet(<<"tracer", "meter">>) = {"meter", "tracer"}
        BY DEF ToSet
      <4> QED
        BY <4>1, <4>2, <4>3
    <3>2. CASE ~Done("traceExporter", failing)
      <4>1. Setup(failing).stops = <<>> /\ Setup(failing).installed = {}
        BY <3>2 DEF Setup, StoppedIfBuilt
      <4>2. ToSet(<<>>) = {}
        BY DEF ToSet
      <4> QED
        BY <4>1, <4>2
    <3> QED
      BY <3>1, <3>2
  <2> DEFINE stops == Setup(failing).stops
  <2>4. /\ Stopped(stops, unreachable).flushed = ToSet(stops) \ unreachable
        /\ Stopped(stops, unreachable).err <=> ToSet(stops) \cap unreachable # {}
    BY Zenon DEF Stopped
  <2> HIDE DEF stops
  <2> QED
    BY <2>2, <2>3, <2>4 DEF TelemetryFlushed, stops
<1> QED
  BY <1>1, <1>2, PTL DEF Spec

\* Whole seconds of a duration that fit the width are what is narrowed to them.
LEMMA NarrowedWhole ==
  ASSUME NEW d \in Nat, d >= Second, d < Int32Half * Second
  PROVE  Int32(d \div Second) = d \div Second
<1> DEFINE x == d \div Second
<1>1. x \in Nat /\ x * Second <= d
  BY SecondAssumption
<1>2. x < Int32Half
  BY <1>1, SecondAssumption, Int32Assumption
<1> HIDE DEF x
<1>3. (x + Int32Half) % (2 * Int32Half) = x + Int32Half
  BY <1>1, <1>2, Int32Assumption
<1> QED
  BY <1>1, <1>3, Int32Assumption DEF Int32, x

\* A duration is cut by less than a second, and not to nothing.
LEMMA WholeSeconds ==
  ASSUME NEW d \in Nat, d >= Second
  PROVE  LET x == d \div Second
         IN x \in Nat /\ x > 0 /\ x * Second <= d /\ d < (x + 1) * Second
<1> DEFINE x == d \div Second
<1>1. x \in Nat /\ x * Second <= d /\ d < (x + 1) * Second
  BY SecondAssumption
<1>2. x # 0
  BY <1>1, SecondAssumption
<1> QED
  BY <1>1, <1>2

\* Every limit that was asked for, or is a default, is the limit of the Job.
THEOREM LimitsAreKept == Spec => []LimitsKept
<1>1. Init => LimitsKept
  BY DEF Init, NoCall, LimitsKept
<1>2. LimitsKept /\ [Next]_last => LimitsKept'
  <2> SUFFICES ASSUME Next, last'.helper = "Limits" PROVE LimitsKept'
    BY DEF LimitsKept
  <2>1. PICK ttl \in -1..(2 * Int32Half * Second), timeout \in -1..(2 * Int32Half * Second) :
          Called("Limits", [ttl |-> ttl, timeout |-> timeout], Limits(ttl, timeout))
    BY HelperOf DEF CallLimits
  <2>2. /\ last'.given.ttl = ttl /\ last'.given.timeout = timeout
        /\ last'.got = Limits(ttl, timeout) /\ ttl \in Int /\ timeout \in Int
    BY <2>1 DEF Called
  <2> DEFINE Set(asked, default) == IF asked = 0 THEN default ELSE asked
             Kept(seconds, d) == seconds > 0 /\ seconds * Second <= d /\ d < (seconds + 1) * Second
  <2>3. ASSUME timeout = 0 \/ timeout >= Second
        PROVE  Kept(last'.got.deadline, Set(timeout, DefaultJobTimeout))
    <3> DEFINE d == Set(timeout, DefaultJobTimeout)
    <3>1. d \in Nat /\ d >= Second
      BY <2>2, <2>3, DefaultsAssumption, SecondAssumption
    <3>2. last'.got.deadline = d \div Second
      BY <2>2, <2>3, SecondAssumption DEF Limits, durationSeconds, DurationSecondsOr
    <3> HIDE DEF d
    <3> QED
      BY <3>1, <3>2, WholeSeconds DEF d
  <2>4. ASSUME ttl = 0 \/ ttl >= Second, ttl < Int32Half * Second
        PROVE  Kept(last'.got.ttl, Set(ttl, DefaultJobTTL))
    <3> DEFINE d == Set(ttl, DefaultJobTTL)
    <3>0. Int32Half * Second \in Nat
      BY SecondAssumption, Int32Assumption
    <3>1. d \in Nat /\ d >= Second /\ d < Int32Half * Second
      BY <2>2, <2>4, <3>0, DefaultsAssumption, SecondAssumption
    <3>2. last'.got.ttl = Int32(d \div Second)
      BY <2>2, <2>4, SecondAssumption DEF Limits, durationSeconds, DurationSecondsOr
    <3> HIDE DEF d
    <3> QED
      BY <3>1, <3>2, WholeSeconds, NarrowedWhole DEF d
  <2> QED
    BY <2>2, <2>3, <2>4 DEF LimitsKept
<1> QED
  BY <1>1, <1>2, PTL DEF Spec

\* The first position that a search of the code finds.
LEMMA FirstOf ==
  ASSUME NEW T \in SUBSET Nat, T # {} PROVE Min(T) \in T /\ \A x \in T : Min(T) <= x
BY LeastNat DEF Min

\* The status of a Job, by its parts.
LEMMA JobStatusParts ==
  ASSUME NEW job \in JobStatuses
  PROVE  /\ DOMAIN job.conditions \subseteq Nat
         /\ \A i \in DOMAIN job.conditions :
              /\ job.conditions[i].message \in Texts /\ job.conditions[i].reason \in Texts
              /\ job.conditions[i].time = TRUE /\ job.conditions[i].status \in BOOLEAN
         /\ job.completed \in BOOLEAN /\ job.logs \in Texts
         /\ ~(Holds(job.conditions, "Complete") /\ Holds(job.conditions, "Failed"))
         /\ job.completed <=> Holds(job.conditions, "Complete")
<1>0. /\ job \in [conditions : BoundedSeq(Condition, MaxListed), active : 0..1,
                  started : BOOLEAN, completed : BOOLEAN, logs : Texts]
      /\ ~(Holds(job.conditions, "Complete") /\ Holds(job.conditions, "Failed"))
      /\ job.completed <=> Holds(job.conditions, "Complete")
  BY Zenon DEF JobStatuses
<1>1. /\ job.conditions \in BoundedSeq(Condition, MaxListed)
      /\ job.completed \in BOOLEAN /\ job.logs \in Texts
  BY <1>0
<1>2. PICK m \in 0..MaxListed : job.conditions \in [1..m -> Condition]
  BY <1>1 DEF BoundedSeq, SeqOf
<1>3. \A i \in DOMAIN job.conditions : job.conditions[i] \in Condition
  BY <1>2
<1>4. \A i \in DOMAIN job.conditions :
        /\ job.conditions[i].message \in Texts /\ job.conditions[i].reason \in Texts
        /\ job.conditions[i].time = TRUE /\ job.conditions[i].status \in BOOLEAN
  BY <1>3 DEF Condition
<1>5. DOMAIN job.conditions \subseteq Nat
  BY <1>2, BoundsAssumption
<1> QED
  BY <1>0, <1>1, <1>4, <1>5, Zenon

\* As a Job has one condition of a type, the first one that jobConditionTrue meets
\* is the one that holds, if any does.
LEMMA FirstIsTheOne ==
  ASSUME NEW job \in JobStatuses, NEW t
  PROVE  jobConditionTrue(job, t) <=> Holds(job.conditions, t)
<1>1. \A i, j \in DOMAIN job.conditions :
        job.conditions[i].type = job.conditions[j].type => i = j
  BY Zenon DEF JobStatuses
<1>2. DOMAIN job.conditions \subseteq Nat
  BY JobStatusParts
<1>3. Conditions(job, t) # {} => Min(Conditions(job, t)) \in Conditions(job, t)
  BY <1>2, FirstOf DEF Conditions
<1>4. ASSUME NEW i \in Conditions(job, t) PROVE i = Min(Conditions(job, t))
  BY <1>1, <1>3, <1>4 DEF Conditions
<1>5. ASSUME Holds(job.conditions, t) PROVE jobConditionTrue(job, t)
  <2>1. PICK i \in DOMAIN job.conditions :
          job.conditions[i].type = t /\ job.conditions[i].status
    BY <1>5 DEF Holds
  <2>2. i \in Conditions(job, t)
    BY <2>1 DEF Conditions
  <2> QED
    BY <1>4, <2>1, <2>2 DEF jobConditionTrue
<1>6. ASSUME jobConditionTrue(job, t) PROVE Holds(job.conditions, t)
  <2>1. /\ Min(Conditions(job, t)) \in Conditions(job, t)
        /\ job.conditions[Min(Conditions(job, t))].status
    BY <1>3, <1>6 DEF jobConditionTrue
  <2>2. /\ Min(Conditions(job, t)) \in DOMAIN job.conditions
        /\ job.conditions[Min(Conditions(job, t))].type = t
    BY <2>1 DEF Conditions
  <2> QED
    BY <2>1, <2>2 DEF Holds
<1> QED
  BY <1>5, <1>6

\* A failed Job has a reason, whatever its conditions and its logs say.
LEMMA FailureHasReason ==
  ASSUME NEW job \in JobStatuses
  PROVE  failureReason(job) # NoText
<1> DEFINE told == {i \in Conditions(job, "Failed") : Told(job.conditions[i]) # NoText}
           Word == STRING \cup {"unknown", "reason", ":"}
           reason == conditionMessage(job, "Failed")
<1>0. Texts \subseteq Seq(Word)
  <2>1. \A text \in Seq(STRING) : text \in Seq(Word)
    OBVIOUS
  <2> QED
    BY <2>1, TextsAssumption
<1>1. told \in SUBSET Nat
  BY JobStatusParts DEF Conditions
<1>2. ASSUME told # {} PROVE reason \in Seq(Word) /\ reason # NoText
  <2>1. Min(told) \in told
    BY <1>1, <1>2, FirstOf
  <2>2. reason = Told(job.conditions[Min(told)])
    BY <1>2 DEF conditionMessage, ConditionMessageOr
  <2>3. Min(told) \in DOMAIN job.conditions /\ Told(job.conditions[Min(told)]) # NoText
    BY <2>1 DEF Conditions
  <2>4. Told(job.conditions[Min(told)]) \in Texts
    BY <2>3, JobStatusParts DEF Told
  <2> HIDE DEF reason, told
  <2> QED
    BY <2>2, <2>3, <2>4, <1>0
<1>3. ASSUME told = {} PROVE reason \in Seq(Word) /\ reason # NoText
  <2>1. reason = <<"unknown", "reason">>
    BY <1>3 DEF conditionMessage, ConditionMessageOr
  <2>2. <<"unknown", "reason">> \in Seq(Word)
    OBVIOUS
  <2>3. <<"unknown", "reason">> # <<>>
    OBVIOUS
  <2> HIDE DEF reason
  <2> QED
    BY <2>1, <2>2, <2>3 DEF NoText
<1>4. reason \in Seq(Word) /\ reason # NoText
  BY <1>2, <1>3
<1>5. job.logs \in Seq(Word)
  BY <1>0, JobStatusParts
<1> HIDE DEF reason
<1>6. reason \o <<":">> \o job.logs # NoText
  <2>1. Len(reason \o <<":">> \o job.logs) = Len(reason) + 1 + Len(job.logs)
    BY <1>4, <1>5
  <2> QED
    BY <1>4, <1>5, <2>1 DEF NoText
<1> QED
  BY <1>4, <1>6 DEF failureReason, reason

\* The state of a Job: which of its three forms is answered, and with what.
LEMMA JobStateParts ==
  ASSUME NEW job \in JobStatuses
  PROVE  /\ JobStateOf(job).phase = "succeeded" <=> Holds(job.conditions, "Complete")
         /\ JobStateOf(job).phase = "failed" <=> Holds(job.conditions, "Failed")
         /\ JobStateOf(job).phase = "failed" => JobStateOf(job).reason # NoText
         /\ JobStateOf(job).finished <=> JobStateOf(job).phase \in {"succeeded", "failed"}
<1> DEFINE s == JobStateOf(job)
<1>1. \A phase, finished, reason :
        /\ Snapshot(job, phase, finished, reason).phase = phase
        /\ Snapshot(job, phase, finished, reason).finished = finished
        /\ Snapshot(job, phase, finished, reason).reason = reason
  BY DEF Snapshot
<1>2. CASE Holds(job.conditions, "Complete")
  <2>1. s = Snapshot(job, "succeeded", job.completed, NoText)
    BY <1>2, FirstIsTheOne DEF JobStateOf
  <2> HIDE DEF s
  <2>2. s.phase = "succeeded" /\ s.finished = job.completed
    BY <1>1, <2>1
  <2> QED
    BY <1>2, <2>2, JobStatusParts DEF s
<1>3. CASE ~Holds(job.conditions, "Complete") /\ Holds(job.conditions, "Failed")
  <2>1. s = Snapshot(job, "failed", FinishedIfFailed(job), failureReason(job))
    BY <1>3, FirstIsTheOne DEF JobStateOf
  <2>2. PICK i \in DOMAIN job.conditions : job.conditions[i].type = "Failed"
    BY <1>3 DEF Holds
  <2>3. FinishedIfFailed(job)
    BY <2>2, JobStatusParts DEF FinishedIfFailed, conditionTime, Conditions
  <2> HIDE DEF s
  <2>4. s.phase = "failed" /\ s.finished = FinishedIfFailed(job) /\ s.reason = failureReason(job)
    BY <1>1, <2>1
  <2> QED
    BY <1>3, <2>3, <2>4, FailureHasReason DEF s
<1>4. CASE ~Holds(job.conditions, "Complete") /\ ~Holds(job.conditions, "Failed")
  <2>1. PICK phase \in {"running", "pending"} : s = Snapshot(job, phase, job.completed, NoText)
    BY <1>4, FirstIsTheOne DEF JobStateOf
  <2> HIDE DEF s
  <2>2. s.phase = phase /\ s.finished = job.completed
    BY <1>1, <2>1
  <2> QED
    BY <1>4, <2>2, JobStatusParts DEF s
<1> QED
  BY <1>2, <1>3, <1>4

\* A call of State is about a Job as the job controller leaves it.
LEMMA StateCalled ==
  ASSUME Next, last'.helper = "State"
  PROVE  \E job \in JobStatuses : last'.given = job /\ last'.got = JobStateOf(job)
BY HelperOf DEF CallState, Called

\* An operation and a backup that failed say so, with a reason that is never empty,
\* whatever the conditions and the logs of the Job say.
THEOREM FailureAlwaysTold == Spec => []FailureIsTold
<1>1. Init => FailureIsTold
  BY DEF Init, NoCall, FailureIsTold
<1>2. FailureIsTold /\ [Next]_last => FailureIsTold'
  <2> SUFFICES ASSUME Next, last'.helper = "State" PROVE FailureIsTold'
    BY DEF FailureIsTold
  <2>1. PICK job \in JobStatuses : last'.given = job /\ last'.got = JobStateOf(job)
    BY StateCalled
  <2> DEFINE s == JobStateOf(job)
             b == BackupStatusFromJob(s)
             o == OperationStatusFromJob(s)
  <2>2. /\ b.exists <=> s.phase = "succeeded"
        /\ b.error = IF s.phase = "failed" THEN s.reason ELSE NoText
    BY Zenon DEF BackupStatusFromJob
  <2>3. o.error = IF s.phase = "failed" THEN s.reason ELSE NoText
    BY DEF OperationStatusFromJob
  <2>4. o.phase = "completed" <=> s.phase = "succeeded"
    BY DEF OperationStatusFromJob
  <2>5. jobConditionTrue(job, "Failed") <=> s.phase = "failed"
    BY FirstIsTheOne, JobStateParts
  <2>6. s.phase = "failed" => s.reason # NoText
    BY JobStateParts
  <2> HIDE DEF s, b, o
  <2>7. /\ b.error # NoText <=> jobConditionTrue(job, "Failed")
        /\ o.error = b.error
        /\ b.exists <=> o.phase = "completed"
    BY <2>2, <2>3, <2>4, <2>5, <2>6
  <2> QED
    BY <2>1, <2>7 DEF FailureIsTold, s, b, o
<1> QED
  BY <1>1, <1>2, PTL DEF Spec

\* An operation gets its completion time when it is over and not before, also if it
\* failed, when the Job has no completion time of its own.
THEOREM OutcomeAlwaysDated == Spec => []OutcomeIsDated
<1>1. Init => OutcomeIsDated
  BY DEF Init, NoCall, OutcomeIsDated
<1>2. OutcomeIsDated /\ [Next]_last => OutcomeIsDated'
  <2> SUFFICES ASSUME Next, last'.helper = "State" PROVE OutcomeIsDated'
    BY DEF OutcomeIsDated
  <2>1. PICK job \in JobStatuses : last'.got = JobStateOf(job)
    BY StateCalled
  <2> DEFINE s == JobStateOf(job)
             o == OperationStatusFromJob(s)
  <2>2. o.completedAt = s.finished
    BY DEF OperationStatusFromJob
  <2>3. o.phase \in {"completed", "failed"} <=> s.phase \in {"succeeded", "failed"}
    BY DEF OperationStatusFromJob
  <2>4. s.finished <=> s.phase \in {"succeeded", "failed"}
    BY JobStateParts
  <2> HIDE DEF s, o
  <2> QED
    BY <2>1, <2>2, <2>3, <2>4 DEF OutcomeIsDated, s, o
<1> QED
  BY <1>1, <1>2, PTL DEF Spec

\* A service is found if and only if its provider lists it, and where the provider
\* has an object of it, however many objects carry its ID (FindServiceNamespace).
THEOREM ListedIffFound == Spec => []ListedIsFound
<1>1. Init => ListedIsFound
  BY DEF Init, NoCall, ListedIsFound
<1>2. ListedIsFound /\ [Next]_last => ListedIsFound'
  <2> SUFFICES ASSUME Next, last'.helper = "FindServiceNamespace" PROVE ListedIsFound'
    BY DEF ListedIsFound
  <2> DEFINE Object == [namespace : Namespaces, provider : Providers \cup {NoLabel},
                        id : MsIDs \cup {NoLabel}]
  <2>1. PICK objects \in BoundedSeq(Object, MaxListed), t \in Providers, id \in MsIDs :
          Called("FindServiceNamespace", [objects |-> objects, t |-> t, id |-> id],
                 FindServiceNamespace(objects, t, id))
    BY HelperOf DEF CallFindServiceNamespace
  <2>2. /\ last'.given.objects = objects /\ last'.given.t = t /\ last'.given.id = id
        /\ last'.got = FindServiceNamespace(objects, t, id)
    BY <2>1 DEF Called
  <2>3. PICK m \in 0..MaxListed : objects \in [1..m -> Object]
    BY DEF BoundedSeq, SeqOf
  <2> DEFINE found == WithProvider(objects, t) \cap WithID(objects, id)
  <2>4. found \in SUBSET Nat /\ found \subseteq DOMAIN objects
    BY <2>3, BoundsAssumption DEF WithProvider
  <2>5. found = {} <=> id \notin ListByLabel(objects, t)
    BY IDsAssumption DEF ListByLabel, WithProvider, WithID
  <2>6. ASSUME found # {}
        PROVE  \E o \in ToSet(objects) :
                 o.namespace = last'.got /\ o.provider = t /\ o.id = id
    <3>1. Min(found) \in found
      BY <2>4, <2>6, FirstOf
    <3>2. last'.got = objects[Min(found)].namespace
      BY <2>2, <2>6 DEF FindServiceNamespace, NamespaceOfFirst
    <3> HIDE DEF found
    <3>3. objects[Min(found)] \in ToSet(objects)
      BY <2>4, <3>1 DEF ToSet
    <3>4. objects[Min(found)].provider = t /\ objects[Min(found)].id = id
      BY <3>1 DEF found, WithProvider, WithID
    <3> QED
      BY <3>2, <3>3, <3>4
  <2>7. last'.got = "ErrServiceNotFound" <=> found = {}
    <3>1. CASE found = {}
      BY <2>2, <3>1 DEF FindServiceNamespace, NamespaceOfFirst
    <3>2. CASE found # {}
      <4>1. \A o \in ToSet(objects) : o.namespace # "ErrServiceNotFound"
        BY <2>3, NamespacesAssumption DEF ToSet
      <4> HIDE DEF found
      <4> QED
        BY <2>6, <3>2, <4>1
    <3> QED
      BY <3>1, <3>2
  <2> HIDE DEF found
  <2> QED
    BY <2>2, <2>5, <2>6, <2>7 DEF ListedIsFound
<1> QED
  BY <1>1, <1>2, PTL DEF Spec

(***************************************************************************)
(* The environment of a container.                                         *)
(***************************************************************************)
Sorting(p, s) == \A i, j \in DOMAIN s : i < j => s[p[i]] <= s[p[j]]

\* A list of keys is sorted by taking the least key first and sorting the others.
LEMMA SortStep ==
  ASSUME NEW n \in Nat, NEW s \in [1..(n + 1) -> Nat],
         \A t \in [1..n -> Nat] : \E p \in Bijection(1..n, 1..n) : Sorting(p, t)
  PROVE  \E p \in Bijection(1..(n + 1), 1..(n + 1)) : Sorting(p, s)
<1> DEFINE N == 1..(n + 1)
           V == {s[i] : i \in N}
<1>1. PICK v \in V : \A x \in V : v <= x
  <2>1. s[1] \in V /\ V \in SUBSET Nat
    OBVIOUS
  <2> QED
    BY <2>1, LeastNat
<1>2. PICK m \in N : s[m] = v
  BY <1>1
<1> DEFINE up == [k \in 1..n |-> IF k < m THEN k ELSE k + 1]
<1>3. /\ \A k \in 1..n : up[k] \in N \ {m}
      /\ \A k, l \in 1..n : up[k] = up[l] => k = l
  BY <1>2
<1>4. ASSUME NEW w \in N \ {m} PROVE \E k \in 1..n : up[k] = w
  <2>1. CASE w < m
    <3>1. w \in 1..n /\ up[w] = w
      BY <1>2, <2>1
    <3> QED
      BY <3>1
  <2>2. CASE w > m
    <3>1. w - 1 \in 1..n /\ up[w - 1] = w
      BY <1>2, <2>2
    <3> QED
      BY <3>1
  <2> QED
    BY <1>2, <2>1, <2>2
<1> DEFINE t == [k \in 1..n |-> s[up[k]]]
<1> HIDE DEF up
<1>5. t \in [1..n -> Nat]
  BY <1>3
<1>6. PICK q \in Bijection(1..n, 1..n) : Sorting(q, t)
  BY <1>5
<1>7. /\ q \in [1..n -> 1..n]
      /\ \A k, l \in 1..n : q[k] = q[l] => k = l
      /\ \A w \in 1..n : \E k \in 1..n : q[k] = w
  BY DEF Bijection, Injection, Surjection, IsInjective
<1> DEFINE p == [i \in N |-> IF i = 1 THEN m ELSE up[q[i - 1]]]
<1>8. /\ p[1] = m
      /\ \A i \in N \ {1} : i - 1 \in 1..n /\ p[i] = up[q[i - 1]]
  OBVIOUS
<1>9. p \in [N -> N] /\ \A i \in N \ {1} : p[i] # m
  <2>1. \A i \in N \ {1} : up[q[i - 1]] \in N \ {m}
    BY <1>3, <1>7, <1>8
  <2> HIDE DEF N
  <2>2. \A i \in N : (IF i = 1 THEN m ELSE up[q[i - 1]]) \in N
    BY <1>2, <2>1
  <2> QED
    BY <1>8, <2>1, <2>2
<1> HIDE DEF p
<1>10. ASSUME NEW i \in N, NEW j \in N, p[i] = p[j] PROVE i = j
  <2>1. CASE i = 1 \/ j = 1
    BY <1>8, <1>9, <1>10, <2>1
  <2>2. CASE i # 1 /\ j # 1
    <3>1. q[i - 1] = q[j - 1]
      <4>1. up[q[i - 1]] = up[q[j - 1]] /\ i - 1 \in 1..n /\ j - 1 \in 1..n
        BY <1>8, <1>10, <2>2
      <4>2. q[i - 1] \in 1..n /\ q[j - 1] \in 1..n
        BY <1>7, <4>1
      <4> QED
        BY <1>3, <4>1, <4>2
    <3>2. i - 1 = j - 1
      BY <1>7, <1>8, <2>2, <3>1
    <3> QED
      BY <3>2
  <2> QED
    BY <2>1, <2>2
<1>11. ASSUME NEW w \in N PROVE \E i \in N : p[i] = w
  <2>1. CASE w = m
    BY <1>8, <2>1
  <2>2. CASE w # m
    <3>1. PICK k \in 1..n : up[k] = w
      BY <1>4, <2>2
    <3>2. PICK i \in 1..n : q[i] = k
      BY <1>7
    <3>3. i + 1 \in N \ {1} /\ (i + 1) - 1 = i
      OBVIOUS
    <3>4. p[i + 1] = w
      BY <1>8, <3>1, <3>2, <3>3
    <3> QED
      BY <3>3, <3>4
  <2> QED
    BY <2>1, <2>2
<1>12. p \in Bijection(N, N)
  BY <1>9, <1>10, <1>11 DEF Bijection, Injection, Surjection, IsInjective
<1>13. ASSUME NEW i \in N, NEW j \in N, i < j PROVE s[p[i]] <= s[p[j]]
  <2>1. CASE i = 1
    BY <1>1, <1>2, <1>8, <1>9, <2>1
  <2>2. CASE i # 1
    <3>1. /\ i - 1 \in 1..n /\ j - 1 \in 1..n /\ i - 1 < j - 1
          /\ p[i] = up[q[i - 1]] /\ p[j] = up[q[j - 1]]
      BY <1>8, <1>13, <2>2
    <3>2. t[q[i - 1]] <= t[q[j - 1]]
      BY <1>6, <3>1 DEF Sorting
    <3>3. t[q[i - 1]] = s[p[i]] /\ t[q[j - 1]] = s[p[j]]
      BY <1>7, <3>1
    <3> QED
      BY <3>2, <3>3
  <2> QED
    BY <2>1, <2>2
<1> QED
  BY <1>12, <1>13 DEF Sorting

\* Every list of keys can be sorted.
LEMMA SortExists ==
  ASSUME NEW n \in Nat, NEW s \in [1..n -> Nat]
  PROVE  \E p \in Bijection(1..n, 1..n) : Sorting(p, s)
<1> DEFINE T == {m \in Nat : \A t \in [1..m -> Nat] :
                               \E p \in Bijection(1..m, 1..m) : Sorting(p, t)}
<1>1. 0 \in T
  <2> DEFINE p == [i \in 1..0 |-> i]
  <2>1. p \in Bijection(1..0, 1..0)
    BY DEF Bijection, Injection, Surjection, IsInjective
  <2>2. \A t \in [1..0 -> Nat] : Sorting(p, t)
    BY DEF Sorting
  <2> QED
    BY <2>1, <2>2
<1>2. ASSUME NEW m \in Nat, m \in T PROVE m + 1 \in T
  <2>1. \A t \in [1..m -> Nat] : \E p \in Bijection(1..m, 1..m) : Sorting(p, t)
    BY <1>2
  <2>2. \A t \in [1..(m + 1) -> Nat] :
          \E p \in Bijection(1..(m + 1), 1..(m + 1)) : Sorting(p, t)
    BY <2>1, SortStep
  <2>3. m + 1 \in Nat
    OBVIOUS
  <2> QED
    BY <2>2, <2>3
<1> HIDE DEF T
<1>3. Nat \subseteq T
  BY <1>1, <1>2, SetInduction
<1> QED
  BY <1>3 DEF T

\* sortedKeys returns the keys that it is given, in order.
LEMMA KeysSorted ==
  ASSUME NEW n \in Nat, NEW s \in [1..n -> Nat]
  PROVE  \E p \in Bijection(1..n, 1..n) :
           Sorting(p, s) /\ sortedKeys(s) = [i \in 1..n |-> s[p[i]]]
<1> DEFINE p == CHOOSE p \in Bijection(1..n, 1..n) :
                  \A i, j \in 1..n : i < j => s[p[i]] <= s[p[j]]
<1>1. p \in Bijection(1..n, 1..n) /\ \A i, j \in 1..n : i < j => s[p[i]] <= s[p[j]]
  BY SortExists DEF Sorting
<1>2. sortedKeys(s) = [i \in 1..n |-> s[p[i]]]
  BY DEF sortedKeys
<1> HIDE DEF p
<1> QED
  BY <1>1, <1>2 DEF Sorting

\* The order in which a map yields its keys is a list of them, each once.
LEMMA KeysEnumerated ==
  ASSUME NEW K \in SUBSET Variables, NEW keys \in SetToSeqs(K)
  PROVE  /\ Cardinality(K) \in Nat /\ keys \in [1..Cardinality(K) -> Nat]
         /\ \A i, j \in 1..Cardinality(K) : keys[i] = keys[j] => i = j
         /\ \A k : k \in K <=> \E i \in 1..Cardinality(K) : keys[i] = k
<1> DEFINE n == Cardinality(K)
<1>1. IsFiniteSet(K) /\ n \in Nat /\ K \subseteq Nat
  BY VariablesAssumption, FS_Subset, FS_CardinalityType
<1>2. keys \in [1..n -> K] /\ \A i, j \in 1..n : i # j => keys[i] # keys[j]
  BY DEF SetToSeqs
<1>3. Cardinality(1..n) = n
  <2> HIDE DEF n
  <2> QED
    BY <1>1, FS_Interval
<1> HIDE DEF n
<1>4. keys \in Injection(1..n, K)
  BY <1>2 DEF Injection, IsInjective
<1>5. keys \in Surjection(1..n, K)
  BY <1>1, <1>3, <1>4, FS_Injection DEF n
<1>6. \A k \in K : \E i \in 1..n : keys[i] = k
  BY <1>5 DEF Surjection
<1>7. keys \in [1..n -> Nat]
  BY <1>1, <1>2
<1>8. \A i, j \in 1..n : keys[i] = keys[j] => i = j
  BY <1>2
<1>9. \A k : k \in K <=> \E i \in 1..n : keys[i] = k
  BY <1>2, <1>6
<1> QED
  BY <1>1, <1>7, <1>8, <1>9 DEF n

\* Sorted keys are the keys of the map in ascending order, each once.
LEMMA KeysAscend ==
  ASSUME NEW K \in SUBSET Variables, NEW keys \in SetToSeqs(K)
  PROVE  /\ sortedKeys(keys) \in [1..Cardinality(K) -> Nat]
         /\ \A i, j \in 1..Cardinality(K) : i < j => sortedKeys(keys)[i] < sortedKeys(keys)[j]
         /\ \A k : k \in K <=> \E i \in 1..Cardinality(K) : sortedKeys(keys)[i] = k
<1> DEFINE n == Cardinality(K)
           r == sortedKeys(keys)
<1>1. /\ n \in Nat /\ keys \in [1..n -> Nat]
      /\ \A i, j \in 1..n : keys[i] = keys[j] => i = j
      /\ \A k : k \in K <=> \E i \in 1..n : keys[i] = k
  BY KeysEnumerated
<1> HIDE DEF n
<1>2. PICK p \in Bijection(1..n, 1..n) :
        Sorting(p, keys) /\ sortedKeys(keys) = [i \in 1..n |-> keys[p[i]]]
  BY <1>1, KeysSorted
<1>3. /\ p \in [1..n -> 1..n]
      /\ \A i, j \in 1..n : p[i] = p[j] => i = j
      /\ \A w \in 1..n : \E i \in 1..n : p[i] = w
  BY DEF Bijection, Injection, Surjection, IsInjective
<1>4. r \in [1..n -> Nat] /\ \A i \in 1..n : r[i] = keys[p[i]]
  BY <1>1, <1>2, <1>3
<1>5. ASSUME NEW i \in 1..n, NEW j \in 1..n, i < j PROVE r[i] < r[j]
  <2>1. keys[p[i]] <= keys[p[j]]
    BY <1>1, <1>2, <1>5 DEF Sorting
  <2>2. p[i] # p[j] /\ p[i] \in 1..n /\ p[j] \in 1..n
    <3>1. i # j
      BY <1>1, <1>5
    <3> QED
      BY <1>3, <3>1
  <2>3. keys[p[i]] # keys[p[j]] /\ keys[p[i]] \in Nat /\ keys[p[j]] \in Nat
    BY <1>1, <2>2
  <2> HIDE DEF r
  <2> QED
    BY <1>4, <2>1, <2>3
<1>6. ASSUME NEW k \in K PROVE \E i \in 1..n : r[i] = k
  <2>1. PICK w \in 1..n : keys[w] = k
    BY <1>1
  <2>2. PICK i \in 1..n : p[i] = w
    BY <1>3
  <2> QED
    BY <1>4, <2>1, <2>2
<1>7. ASSUME NEW i \in 1..n PROVE r[i] \in K
  BY <1>1, <1>3, <1>4
<1> QED
  BY <1>4, <1>5, <1>6, <1>7 DEF n

\* Of two ascending lists of the same keys, none is ahead of the other at the first
\* position where they differ.
LEMMA NeitherIsAhead ==
  ASSUME NEW n \in Nat, NEW a \in [1..n -> Nat], NEW b \in [1..n -> Nat],
         \A i, j \in 1..n : i < j => a[i] < a[j],
         \A i, j \in 1..n : i < j => b[i] < b[j],
         \A i \in 1..n : \E j \in 1..n : b[j] = a[i],
         NEW d \in 1..n, \A i \in 1..n : i < d => a[i] = b[i]
  PROVE  ~ (a[d] < b[d])
<1> SUFFICES ASSUME a[d] < b[d] PROVE FALSE
  OBVIOUS
<1>1. PICK j \in 1..n : b[j] = a[d]
  OBVIOUS
<1>2. CASE j < d
  <2>1. a[j] = b[j] /\ a[j] < a[d]
    BY <1>2
  <2> QED
    BY <1>1, <2>1
<1>3. CASE j = d
  BY <1>1, <1>3
<1>4. CASE j > d
  <2>1. b[d] < b[j]
    BY <1>4
  <2> QED
    BY <1>1, <2>1
<1> QED
  BY <1>2, <1>3, <1>4

\* Two orders of the same keys are sorted to the same list.
LEMMA SortedAlike ==
  ASSUME NEW K \in SUBSET Variables, NEW keys \in SetToSeqs(K), NEW others \in SetToSeqs(K)
  PROVE  sortedKeys(keys) = sortedKeys(others)
<1> DEFINE n == Cardinality(K)
           a == sortedKeys(keys)
           b == sortedKeys(others)
           Differ == {i \in 1..n : a[i] # b[i]}
<1>0. n \in Nat
  BY KeysEnumerated
<1>1. /\ a \in [1..n -> Nat] /\ \A i, j \in 1..n : i < j => a[i] < a[j]
      /\ \A k : k \in K <=> \E i \in 1..n : a[i] = k
  BY KeysAscend
<1>2. /\ b \in [1..n -> Nat] /\ \A i, j \in 1..n : i < j => b[i] < b[j]
      /\ \A k : k \in K <=> \E i \in 1..n : b[i] = k
  BY KeysAscend
<1> HIDE DEF n, a, b
<1>3. /\ \A i \in 1..n : \E j \in 1..n : b[j] = a[i]
      /\ \A i \in 1..n : \E j \in 1..n : a[j] = b[i]
  BY <1>1, <1>2
<1>4. Differ = {}
  <2> SUFFICES ASSUME Differ # {} PROVE FALSE
    OBVIOUS
  <2>1. PICK d \in Differ : \A i \in Differ : d <= i
    <3>1. Differ \in SUBSET Nat
      BY <1>0
    <3> QED
      BY <3>1, LeastNat
  <2>2. d \in 1..n /\ a[d] # b[d] /\ \A i \in 1..n : i < d => a[i] = b[i]
    BY <1>0, <2>1
  <2>3. ~ (a[d] < b[d])
    BY <1>0, <1>1, <1>2, <1>3, <2>2, NeitherIsAhead
  <2>4. ~ (b[d] < a[d])
    BY <1>0, <1>1, <1>2, <1>3, <2>2, NeitherIsAhead
  <2> QED
    BY <1>1, <1>2, <2>2, <2>3, <2>4
<1>5. \A i \in 1..n : a[i] = b[i]
  BY <1>4
<1>6. a = b
  <2>1. a = [i \in 1..n |-> a[i]] /\ b = [i \in 1..n |-> b[i]]
    BY <1>1, <1>2
  <2> QED
    BY <1>5, <2>1
<1> QED
  BY <1>6 DEF a, b

\* The positions of two lists of which one is appended to the other.
LEMMA Appended ==
  ASSUME NEW S, NEW s \in Seq(S), NEW t \in Seq(S)
  PROVE  /\ DOMAIN (s \o t) = 1..(Len(s) + Len(t))
         /\ \A i \in 1..Len(s) : (s \o t)[i] = s[i]
         /\ \A i \in 1..Len(t) : (s \o t)[Len(s) + i] = t[i]
<1>1. s \o t \in Seq(S) /\ Len(s \o t) = Len(s) + Len(t)
  OBVIOUS
<1>2. DOMAIN (s \o t) = 1..Len(s \o t)
  BY <1>1
<1>3. \A i \in 1..Len(s) : (s \o t)[i] = s[i]
  OBVIOUS
<1>4. \A i \in 1..Len(t) : (s \o t)[Len(s) + i] = t[i]
  OBVIOUS
<1> QED
  BY <1>1, <1>2, <1>3, <1>4

\* A call of buildEnv is about two maps of variables.
LEMMA EnvCalled ==
  ASSUME Next, last'.helper = "buildEnv"
  PROVE  \E plain, secret \in SUBSET Variables :
           \E env \in SetToSeqs(plain), secrets \in SetToSeqs(secret) :
             /\ last'.given.env = plain /\ last'.given.secrets = secret
             /\ last'.got = buildEnv(env, secrets)
<1>1. PICK plain \in SUBSET Variables, secret \in SUBSET Variables :
        \E env \in SetToSeqs(plain), secrets \in SetToSeqs(secret) :
          Called("buildEnv", [env |-> plain, secrets |-> secret], buildEnv(env, secrets))
  BY HelperOf DEF CallBuildEnv
<1>2. PICK env \in SetToSeqs(plain), secrets \in SetToSeqs(secret) :
        Called("buildEnv", [env |-> plain, secrets |-> secret], buildEnv(env, secrets))
  BY <1>1
<1>3. /\ last'.given.env = plain /\ last'.given.secrets = secret
      /\ last'.got = buildEnv(env, secrets)
  BY <1>2 DEF Called
<1> QED
  BY <1>3

\* The manifest of a spec does not depend on the order in which Go's maps yield
\* their keys (buildEnv, sortedKeys).
THEOREM ManifestDeterministic == Spec => []EnvDeterministic
<1>1. Init => EnvDeterministic
  BY DEF Init, NoCall, EnvDeterministic
<1>2. EnvDeterministic /\ [Next]_last => EnvDeterministic'
  <2> SUFFICES ASSUME Next, last'.helper = "buildEnv" PROVE EnvDeterministic'
    BY DEF EnvDeterministic
  <2>1. PICK plain \in SUBSET Variables, secret \in SUBSET Variables :
          \E env \in SetToSeqs(plain), secrets \in SetToSeqs(secret) :
            /\ last'.given.env = plain /\ last'.given.secrets = secret
            /\ last'.got = buildEnv(env, secrets)
    BY EnvCalled
  <2>2. PICK env \in SetToSeqs(plain), secrets \in SetToSeqs(secret) :
          /\ last'.given.env = plain /\ last'.given.secrets = secret
          /\ last'.got = buildEnv(env, secrets)
    BY <2>1
  <2>3. ASSUME NEW e \in SetToSeqs(plain), NEW s \in SetToSeqs(secret)
        PROVE  buildEnv(e, s) = last'.got
    <3>1. sortedKeys(e) = sortedKeys(env) /\ sortedKeys(s) = sortedKeys(secrets)
      BY SortedAlike
    <3> QED
      BY <2>2, <3>1 DEF buildEnv, Entries
  <2> QED
    BY <2>2, <2>3 DEF EnvDeterministic
<1> QED
  BY <1>1, <1>2, PTL DEF Spec

\* A variable that both maps have is read from the Secret, whatever other
\* variables there are (buildEnv appends the references last).
THEOREM SecretsAlwaysPrevail == Spec => []SecretsPrevail
<1>1. Init => SecretsPrevail
  BY DEF Init, NoCall, SecretsPrevail
<1>2. SecretsPrevail /\ [Next]_last => SecretsPrevail'
  <2> SUFFICES ASSUME Next, last'.helper = "buildEnv" PROVE SecretsPrevail'
    BY DEF SecretsPrevail
  <2>1. PICK plain \in SUBSET Variables, secret \in SUBSET Variables :
          \E env \in SetToSeqs(plain), secrets \in SetToSeqs(secret) :
            /\ last'.given.env = plain /\ last'.given.secrets = secret
            /\ last'.got = buildEnv(env, secrets)
    BY EnvCalled
  <2>2. PICK env \in SetToSeqs(plain), secrets \in SetToSeqs(secret) :
          /\ last'.given.env = plain /\ last'.given.secrets = secret
          /\ last'.got = buildEnv(env, secrets)
    BY <2>1
  <2> DEFINE n == Cardinality(plain)
             m == Cardinality(secret)
             a == sortedKeys(env)
             b == sortedKeys(secrets)
             first == Entries(env, "plain")
             second == Entries(secrets, "secret")
             got == last'.got
  <2>3. n \in Nat /\ a \in [1..n -> Nat] /\ \A k : k \in plain <=> \E i \in 1..n : a[i] = k
    BY KeysEnumerated, KeysAscend
  <2>4. m \in Nat /\ b \in [1..m -> Nat] /\ \A k : k \in secret <=> \E i \in 1..m : b[i] = k
    BY KeysEnumerated, KeysAscend
  <2>5. /\ first = [i \in 1..n |-> [name |-> a[i], from |-> "plain"]]
        /\ second = [i \in 1..m |-> [name |-> b[i], from |-> "secret"]]
    BY <2>3, <2>4 DEF Entries
  <2> HIDE DEF n, m, a, b
  <2>6. /\ DOMAIN got = 1..(n + m)
        /\ \A i \in 1..n : got[i] = first[i]
        /\ \A i \in 1..m : got[n + i] = second[i]
    <3> DEFINE Entry == [name : Nat, from : {"plain", "secret"}]
    <3>3. got = first \o second
      BY <2>2 DEF buildEnv, EnvOf
    <3> HIDE DEF first, second, got
    <3>1. first \in Seq(Entry) /\ Len(first) = n
      <4>1. \A i \in 1..n : [name |-> a[i], from |-> "plain"] \in Entry
        BY <2>3
      <4> HIDE DEF Entry
      <4>2. first \in [1..n -> Entry]
        BY <2>5, <4>1
      <4> QED
        BY <2>3, <4>2
    <3>2. second \in Seq(Entry) /\ Len(second) = m
      <4>1. \A i \in 1..m : [name |-> b[i], from |-> "secret"] \in Entry
        BY <2>4
      <4> HIDE DEF Entry
      <4>2. second \in [1..m -> Entry]
        BY <2>5, <4>1
      <4> QED
        BY <2>4, <4>2
    <3> HIDE DEF Entry
    <3>4. /\ DOMAIN (first \o second) = 1..(Len(first) + Len(second))
          /\ \A i \in 1..Len(first) : (first \o second)[i] = first[i]
          /\ \A i \in 1..Len(second) : (first \o second)[Len(first) + i] = second[i]
      <4>1. first \in Seq(Entry) /\ second \in Seq(Entry)
        BY <3>1, <3>2
      <4> QED
        BY <4>1, Appended, SMT
    <3> QED
      BY <3>1, <3>2, <3>3, <3>4
  <2> HIDE DEF first, second, got
  <2>7. /\ \A i \in 1..n : got[i].name = a[i] /\ got[i].from = "plain"
        /\ \A i \in 1..m : got[n + i].name = b[i] /\ got[n + i].from = "secret"
    BY <2>5, <2>6
  <2>8. ASSUME NEW k \in plain \cup secret
        PROVE  (got[Max({i \in DOMAIN got : got[i].name = k})].from = "secret") <=> k \in secret
    <3> DEFINE named == {i \in DOMAIN got : got[i].name = k}
    <3>1. named \in SUBSET Nat /\ \A i \in named : i <= n + m
      BY <2>3, <2>4, <2>6
    <3>2. ASSUME k \in secret PROVE \E i \in named : i > n
      <4>1. PICK i \in 1..m : b[i] = k
        BY <2>4, <3>2
      <4>2. n + i \in 1..(n + m) /\ n + i > n
        BY <2>3, <2>4
      <4> QED
        BY <2>6, <2>7, <4>1, <4>2
    <3>3. ASSUME k \in plain PROVE \E i \in named : TRUE
      <4>1. PICK i \in 1..n : a[i] = k
        BY <2>3, <3>3
      <4>2. i \in 1..(n + m)
        BY <2>3, <2>4
      <4> QED
        BY <2>6, <2>7, <4>1, <4>2
    <3>4. named # {} /\ n + m \in Nat
      BY <2>3, <2>4, <3>2, <3>3
    <3>5. Max(named) \in named /\ \A i \in named : Max(named) >= i
      <4> HIDE DEF named
      <4>1. \E x \in named : \A y \in named : y <= x
        BY <3>1, <3>4, GreatestNat
      <4>2. \E x \in named : \A y \in named : x >= y
        BY <3>1, <4>1
      <4> QED
        BY <4>2 DEF Max
    <3>6. ASSUME NEW i \in named, i > n PROVE got[i].from = "secret" /\ k \in secret
      <4>1. i - n \in 1..m /\ n + (i - n) = i
        BY <2>3, <2>4, <2>6, <3>6
      <4>2. got[i].name = b[i - n] /\ got[i].from = "secret"
        BY <2>7, <4>1
      <4> QED
        BY <2>4, <4>1, <4>2
    <3>7. ASSUME NEW i \in named, i <= n PROVE got[i].from = "plain"
      BY <2>3, <2>4, <2>6, <2>7, <3>7
    <3>8. \A i \in named : i \in Nat
      BY <3>1
    <3> HIDE DEF named
    <3>9. CASE k \in secret
      <4>1. Max(named) > n
        BY <2>3, <3>2, <3>5, <3>8, <3>9
      <4> QED
        BY <3>5, <3>6, <3>9, <4>1 DEF named
    <3>10. CASE k \notin secret
      <4>1. Max(named) <= n
        BY <2>3, <3>5, <3>6, <3>8, <3>10
      <4> QED
        BY <3>5, <3>7, <3>10, <4>1 DEF named
    <3> QED
      BY <3>9, <3>10
  <2> QED
    BY <2>2, <2>8 DEF SecretsPrevail, got
<1> QED
  BY <1>1, <1>2, PTL DEF Spec

(***************************************************************************)
(* The JSON pointer escape, read back.                                     *)
(***************************************************************************)
Lists(n, S) == [1..n -> Seq(S)]

Joins(f, ss) == \A i \in DOMAIN ss : f[i] = IF i = 1 THEN ss[1] ELSE f[i - 1] \o ss[i]

\* The beginnings of a list of texts can be joined one by one.
LEMMA JoinExists ==
  ASSUME NEW S, NEW n \in Nat, NEW ss \in Lists(n, S)
  PROVE  \E f \in Lists(n, S) : Joins(f, ss)
<1> USE DEF Lists
<1> DEFINE T == {m \in Nat : \A tt \in Lists(m, S) : \E f \in Lists(m, S) : Joins(f, tt)}
<1>1. 0 \in T
  <2>1. \A tt \in Lists(0, S) : tt \in Lists(0, S) /\ Joins(tt, tt)
    BY DEF Joins
  <2> QED
    BY <2>1
<1>2. ASSUME NEW m \in Nat, m \in T PROVE m + 1 \in T
  <2>1. ASSUME NEW tt \in Lists(m + 1, S)
        PROVE  \E f \in Lists(m + 1, S) : Joins(f, tt)
    <3> DEFINE front == [i \in 1..m |-> tt[i]]
    <3>1. front \in Lists(m, S)
      OBVIOUS
    <3>2. PICK g \in Lists(m, S) : Joins(g, front)
      BY <1>2, <3>1
    <3> DEFINE end == IF m = 0 THEN tt[1] ELSE g[m] \o tt[m + 1]
               f == [i \in 1..(m + 1) |-> IF i = m + 1 THEN end ELSE g[i]]
    <3>3. end \in Seq(S)
      <4>1. tt[1] \in Seq(S) /\ tt[m + 1] \in Seq(S)
        OBVIOUS
      <4>2. m # 0 => g[m] \in Seq(S)
        OBVIOUS
      <4> QED
        BY <4>1, <4>2
    <3>4. f \in Lists(m + 1, S)
      <4> HIDE DEF end
      <4> QED
        BY <3>3
    <3>5. /\ \A i \in 1..m : f[i] = g[i] /\ i \in 1..(m + 1)
          /\ f[m + 1] = end
      <4> HIDE DEF end, front
      <4>1. \A i \in 1..m : i \in 1..(m + 1) /\ i # m + 1
        OBVIOUS
      <4>2. m + 1 \in 1..(m + 1)
        OBVIOUS
      <4> QED
        BY <4>1, <4>2
    <3>6. \A i \in 1..m : g[i] = IF i = 1 THEN tt[1] ELSE g[i - 1] \o tt[i]
      BY <3>2 DEF Joins
    <3> HIDE DEF f, front
    <3>7. ASSUME NEW i \in 1..(m + 1)
          PROVE  f[i] = IF i = 1 THEN tt[1] ELSE f[i - 1] \o tt[i]
      <4>1. CASE i = m + 1
        <5>1. CASE m = 0
          BY <3>5, <4>1, <5>1
        <5>2. CASE m # 0
          <6>1. f[m] = g[m] /\ i # 1 /\ i - 1 = m
            BY <3>5, <4>1, <5>2
          <6> QED
            BY <3>5, <4>1, <5>2, <6>1
        <5> QED
          BY <5>1, <5>2
      <4>2. CASE i # m + 1
        <5>1. i \in 1..m /\ (i # 1 => i - 1 \in 1..m)
          BY <4>2
        <5> HIDE DEF end
        <5> QED
          BY <3>5, <3>6, <5>1
      <4> QED
        BY <4>1, <4>2
    <3>8. Joins(f, tt)
      BY <3>7 DEF Joins
    <3> QED
      BY <3>4, <3>8
  <2>2. m + 1 \in Nat
    OBVIOUS
  <2> QED
    BY <2>1, <2>2
<1> HIDE DEF T
<1>3. Nat \subseteq T
  BY <1>1, <1>2, SetInduction
<1> QED
  BY <1>3 DEF T

\* FlattenSeq is the last of the joined beginnings.
LEMMA FlattenIsJoin ==
  ASSUME NEW S, NEW n \in Nat \ {0}, NEW ss \in Lists(n, S)
  PROVE  \E f \in Lists(n, S) : Joins(f, ss) /\ FlattenSeq(ss) = f[n]
<1> DEFINE Rec(f) == f = [i \in 1..n |-> IF i = 1 THEN ss[i] ELSE f[i - 1] \o ss[i]]
           g == CHOOSE f : Rec(f)
<1>1. Len(ss) = n /\ ss \in Seq(Seq(S)) /\ DOMAIN ss = 1..n
  BY DEF Lists
<1>2. FlattenSeq(ss) = g[n]
  BY <1>1 DEF FlattenSeq
<1>3. PICK f \in Lists(n, S) : Joins(f, ss)
  BY JoinExists
<1>4. Rec(f)
  <2>1. f = [i \in 1..n |-> f[i]]
    BY <1>3 DEF Lists
  <2>2. \A i \in 1..n : f[i] = IF i = 1 THEN ss[i] ELSE f[i - 1] \o ss[i]
    BY <1>1, <1>3 DEF Joins
  <2> QED
    BY <2>1, <2>2
<1>5. Rec(g)
  BY <1>4
<1> HIDE DEF g
<1>6. Joins(g, ss)
  BY <1>1, <1>5 DEF Joins
<1> DEFINE T == {m \in Nat : m + 1 \in 1..n => g[m + 1] \in Seq(S)}
<1>7. 0 \in T
  BY <1>1, <1>6 DEF Joins
<1>8. ASSUME NEW m \in Nat, m \in T PROVE m + 1 \in T
  <2>1. SUFFICES ASSUME (m + 1) + 1 \in 1..n PROVE g[(m + 1) + 1] \in Seq(S)
    OBVIOUS
  <2>2. m + 1 \in 1..n /\ (m + 1) + 1 # 1 /\ ((m + 1) + 1) - 1 = m + 1
    BY <2>1
  <2>3. g[m + 1] \in Seq(S) /\ ss[(m + 1) + 1] \in Seq(S)
    <3>1. \A i \in 1..n : ss[i] \in Seq(S)
      BY DEF Lists
    <3> QED
      BY <1>8, <2>1, <2>2, <3>1
  <2>4. g[(m + 1) + 1] = g[m + 1] \o ss[(m + 1) + 1]
    BY <1>1, <1>6, <2>1, <2>2 DEF Joins
  <2> QED
    BY <2>3, <2>4
<1> HIDE DEF T
<1>9. Nat \subseteq T
  BY <1>7, <1>8, SetInduction
<1>10. \A i \in 1..n : g[i] \in Seq(S)
  <2> SUFFICES ASSUME NEW i \in 1..n PROVE g[i] \in Seq(S)
    OBVIOUS
  <2>1. i - 1 \in Nat /\ (i - 1) + 1 = i
    OBVIOUS
  <2> QED
    BY <1>9, <2>1 DEF T
<1>11. g \in Lists(n, S)
  BY <1>5, <1>10 DEF Lists
<1> QED
  BY <1>2, <1>6, <1>11

\* A list with one more text in front is joined to that text and the rest.
LEMMA FlattenCons ==
  ASSUME NEW S, NEW n \in Nat, NEW N, N = n + 1,
         NEW ss \in Lists(n, S), NEW x \in Seq(S), NEW xs \in Lists(N, S),
         xs[1] = x, \A i \in 1..n : xs[i + 1] = ss[i]
  PROVE  FlattenSeq(ss) \in Seq(S) /\ FlattenSeq(xs) = x \o FlattenSeq(ss)
<1>1. PICK g \in Lists(N, S) : Joins(g, xs) /\ FlattenSeq(xs) = g[N]
  <2>1. N \in Nat \ {0}
    OBVIOUS
  <2>2. \E g \in Lists(N, S) : Joins(g, xs) /\ FlattenSeq(xs) = g[N]
    BY <2>1, FlattenIsJoin
  <2> QED
    BY <2>2
<1>2. /\ g[1] = x
      /\ \A i \in 1..n : g[i + 1] = g[i] \o ss[i]
  <2>1. \A i \in 1..(n + 1) : g[i] = IF i = 1 THEN xs[1] ELSE g[i - 1] \o xs[i]
    BY <1>1 DEF Joins, Lists
  <2>2. \A i \in 1..n : i + 1 \in 1..(n + 1) /\ i + 1 # 1 /\ (i + 1) - 1 = i
    OBVIOUS
  <2>3. 1 \in 1..(n + 1)
    OBVIOUS
  <2> QED
    BY <2>1, <2>2, <2>3
<1>3. CASE n = 0
  <2>1. Len(ss) = 0 /\ ss = <<>>
    BY <1>3 DEF Lists
  <2>2. FlattenSeq(ss) = <<>>
    BY <2>1 DEF FlattenSeq
  <2>3. x \o <<>> = x /\ <<>> \in Seq(S)
    OBVIOUS
  <2> QED
    BY <1>1, <1>2, <1>3, <2>2, <2>3
<1>4. CASE n # 0
  <2>1. PICK f \in Lists(n, S) : Joins(f, ss) /\ FlattenSeq(ss) = f[n]
    BY <1>4, FlattenIsJoin
  <2>2. /\ \A i \in 1..n : f[i] = IF i = 1 THEN ss[1] ELSE f[i - 1] \o ss[i]
        /\ \A i \in 1..n : f[i] \in Seq(S) /\ ss[i] \in Seq(S)
    BY <2>1 DEF Joins, Lists
  <2> DEFINE T == {m \in Nat : m + 1 \in 1..n => g[(m + 1) + 1] = x \o f[m + 1]}
  <2>3. 0 \in T
    <3>1. 1 \in 1..n
      BY <1>4
    <3>2. f[1] = ss[1]
      BY <2>2, <3>1
    <3>3. g[1 + 1] = g[1] \o ss[1]
      BY <1>2, <3>1
    <3>4. g[1 + 1] = x \o f[1]
      BY <1>2, <3>2, <3>3
    <3> QED
      BY <3>4
  <2>4. ASSUME NEW m \in Nat, m \in T PROVE m + 1 \in T
    <3> DEFINE k == m + 1
    <3> SUFFICES ASSUME k + 1 \in 1..n PROVE g[(k + 1) + 1] = x \o f[k + 1]
      <4>1. k \in Nat
        OBVIOUS
      <4> QED
        BY <4>1
    <3>2. k \in 1..n /\ k + 1 # 1 /\ (k + 1) - 1 = k
      OBVIOUS
    <3>3. g[k + 1] = x \o f[k]
      BY <2>4, <3>2
    <3> HIDE DEF k, T
    <3>4. g[(k + 1) + 1] = g[k + 1] \o ss[k + 1] /\ f[k + 1] = f[k] \o ss[k + 1]
      BY <1>2, <2>2, <3>2
    <3>5. x \in Seq(S) /\ f[k] \in Seq(S) /\ ss[k + 1] \in Seq(S)
      BY <2>2, <3>2
    <3>6. (x \o f[k]) \o ss[k + 1] = x \o (f[k] \o ss[k + 1])
      <4> DEFINE a == f[k]
                 b == ss[k + 1]
      <4>1. a \in Seq(S) /\ b \in Seq(S)
        BY <3>5
      <4> HIDE DEF a, b
      <4>2. (x \o a) \o b = x \o (a \o b)
        BY <4>1, ConcatAssociative
      <4> QED
        BY <4>2 DEF a, b
    <3> QED
      BY <3>3, <3>4, <3>6
  <2> HIDE DEF T
  <2>5. Nat \subseteq T
    BY <2>3, <2>4, SetInduction
  <2>6. n - 1 \in T /\ (n - 1) + 1 = n
    BY <1>4, <2>5
  <2>7. g[N] = x \o f[n]
    BY <1>4, <2>6 DEF T
  <2>8. FlattenSeq(ss) \in Seq(S)
    BY <1>4, <2>1, <2>2
  <2> QED
    BY <1>1, <2>1, <2>7, <2>8
<1> QED
  BY <1>3, <1>4

Join(u, v) == u \o v
Piece(c, old, new) == IF c = old THEN new ELSE <<c>>

\* ReplaceChar works from character to character.
LEMMA ReplaceCons ==
  ASSUME NEW S, NEW c \in S, NEW s \in Seq(S), NEW old, NEW new \in Seq(S)
  PROVE  /\ ReplaceChar(s, old, new) \in Seq(S)
         /\ ReplaceChar(Cons(c, s), old, new) = Join(Piece(c, old, new), ReplaceChar(s, old, new))
<1> DEFINE n == Len(s)
           cs == Cons(c, s)
           ss == [i \in DOMAIN s |-> IF s[i] = old THEN new ELSE <<s[i]>>]
           xs == [i \in DOMAIN cs |-> IF cs[i] = old THEN new ELSE <<cs[i]>>]
           x == IF c = old THEN new ELSE <<c>>
<1>1. n \in Nat /\ DOMAIN s = 1..n /\ \A i \in 1..n : s[i] \in S
  OBVIOUS
<1>2. /\ DOMAIN cs = 1..(n + 1) /\ cs[1] = c
      /\ \A i \in 1..n : cs[i + 1] = s[i]
  <2>1. cs \in Seq(S) /\ Len(cs) = n + 1
    BY DEF Cons
  <2>2. DOMAIN cs = 1..Len(cs)
    BY <2>1
  <2>3. cs[1] = c
    BY DEF Cons
  <2>4. \A i \in 1..n : cs[i + 1] = s[i]
    BY DEF Cons
  <2> QED
    BY <2>1, <2>2, <2>3, <2>4
<1>3. ss \in Lists(n, S)
  <2>1. \A i \in 1..n : (IF s[i] = old THEN new ELSE <<s[i]>>) \in Seq(S)
    BY <1>1
  <2> HIDE DEF n
  <2> QED
    BY <1>1, <2>1 DEF Lists
<1> HIDE DEF cs, n
<1>4. \A i \in 1..(n + 1) : cs[i] \in S
  <2> SUFFICES ASSUME NEW i \in 1..(n + 1) PROVE cs[i] \in S
    OBVIOUS
  <2>1. i = 1 \/ (i - 1 \in 1..n /\ (i - 1) + 1 = i)
    BY <1>1
  <2> QED
    BY <1>1, <1>2, <2>1
<1>5. xs \in Lists(n + 1, S)
  <2>1. \A i \in 1..(n + 1) : (IF cs[i] = old THEN new ELSE <<cs[i]>>) \in Seq(S)
    BY <1>4
  <2> QED
    BY <1>2, <2>1 DEF Lists
<1>6. x \in Seq(S)
  OBVIOUS
<1>7. xs[1] = x /\ \A i \in 1..n : xs[i + 1] = ss[i]
  <2>1. 1 \in DOMAIN cs /\ \A i \in 1..n : i + 1 \in DOMAIN cs /\ i \in DOMAIN s
    BY <1>1, <1>2
  <2> QED
    BY <1>2, <2>1
<1> HIDE DEF ss, xs, x
<1>8. FlattenSeq(ss) \in Seq(S) /\ FlattenSeq(xs) = x \o FlattenSeq(ss)
  <2>1. n \in Nat
    BY <1>1
  <2>2. xs[1] = x
    BY <1>7
  <2>3. \A i \in 1..n : xs[i + 1] = ss[i]
    BY <1>7
  <2> DEFINE N == n + 1
  <2>4. N = n + 1 /\ xs \in Lists(N, S)
    BY <1>5
  <2> HIDE DEF N
  <2> QED
    BY <1>3, <1>6, <2>1, <2>2, <2>3, <2>4, FlattenCons
<1> QED
  BY <1>8 DEF ReplaceChar, Piece, Join, ss, xs, x, cs

Code(c) == IF c = "~" THEN <<"~", "0">> ELSE IF c = "/" THEN <<"~", "1">> ELSE <<c>>

\* EscapeJSONPointer works from character to character: "~" becomes "~0" and the
\* "/" that follows becomes "~1", whatever comes after.
LEMMA EscapeCons ==
  ASSUME NEW S, {"~", "/", "0", "1"} \subseteq S, NEW c \in S, NEW s \in Seq(S)
  PROVE  /\ EscapeJSONPointer(s) \in Seq(S)
         /\ EscapeJSONPointer(Cons(c, s)) = Join(Code(c), EscapeJSONPointer(s))
<1> DEFINE tilde == <<"~", "0">>
           slash == <<"~", "1">>
           r == ReplaceChar(s, "~", tilde)
           e == ReplaceChar(r, "/", slash)
<1>1. tilde \in Seq(S) /\ slash \in Seq(S) /\ "~" \in S /\ "0" \in S
  OBVIOUS
<1>2. EscapeJSONPointer(s) = e
  BY DEF EscapeJSONPointer
<1>3. EscapeJSONPointer(Cons(c, s)) = ReplaceChar(ReplaceChar(Cons(c, s), "~", tilde), "/", slash)
  BY DEF EscapeJSONPointer
<1> HIDE DEF tilde, slash
<1>4. /\ r \in Seq(S)
      /\ ReplaceChar(Cons(c, s), "~", tilde) = Join(Piece(c, "~", tilde), r)
  <2>1. ReplaceChar(s, "~", tilde) \in Seq(S)
    BY <1>1, ReplaceCons
  <2>2. ReplaceChar(Cons(c, s), "~", tilde)
          = Join(Piece(c, "~", tilde), ReplaceChar(s, "~", tilde))
    BY <1>1, ReplaceCons
  <2> QED
    BY <2>1, <2>2
<1> HIDE DEF r
<1>5. \A x \in S : /\ e \in Seq(S)
                   /\ ReplaceChar(Cons(x, r), "/", slash) = Join(Piece(x, "/", slash), e)
  <2> SUFFICES ASSUME NEW x \in S
               PROVE  /\ e \in Seq(S)
                      /\ ReplaceChar(Cons(x, r), "/", slash)
                           = Join(Piece(x, "/", slash), e)
    OBVIOUS
  <2>1. r \in Seq(S) /\ slash \in Seq(S)
    BY <1>1, <1>4
  <2>2. ReplaceChar(r, "/", slash) \in Seq(S)
    BY <2>1, ReplaceCons
  <2>3. ReplaceChar(Cons(x, r), "/", slash)
          = Join(Piece(x, "/", slash), ReplaceChar(r, "/", slash))
    BY <2>1, ReplaceCons
  <2> QED
    BY <2>2, <2>3
<1> HIDE DEF e
<1>6. e \in Seq(S)
  BY <1>5
<1>7. CASE c # "~"
  <2>1. EscapeJSONPointer(Cons(c, s)) = Piece(c, "/", slash) \o e
    BY <1>3, <1>4, <1>5, <1>7 DEF Piece, Join, Cons
  <2> QED
    BY <1>2, <1>6, <1>7, <2>1 DEF Code, Piece, Join, slash
<1>8. CASE c = "~"
  <2> DEFINE r1 == <<"0">> \o r
  <2>1. tilde \o r = <<"~">> \o r1
    BY <1>4 DEF tilde
  <2>2. r1 \in Seq(S)
    BY <1>1, <1>4
  <2>3. ReplaceChar(r1, "/", slash) = <<"0">> \o e
    BY <1>1, <1>5 DEF Piece, Join, Cons
  <2> HIDE DEF r1
  <2>4. ReplaceChar(Cons("~", r1), "/", slash) = <<"~">> \o ReplaceChar(r1, "/", slash)
    <3>1. ReplaceChar(Cons("~", r1), "/", slash)
            = Join(Piece("~", "/", slash), ReplaceChar(r1, "/", slash))
      BY <1>1, <2>2, ReplaceCons
    <3> QED
      BY <3>1 DEF Piece, Join
  <2>5. <<"~">> \o (<<"0">> \o e) = tilde \o e
    BY <1>6 DEF tilde
  <2>6. EscapeJSONPointer(Cons(c, s)) = tilde \o e
    BY <1>3, <1>4, <1>8, <2>1, <2>3, <2>4, <2>5 DEF Piece, Join, Cons
  <2> QED
    BY <1>2, <1>6, <1>8, <2>6 DEF Code, Join, tilde
<1> QED
  BY <1>7, <1>8

\* What Unescaped's recursion says of position i.
Reads(t, f, i) ==
  IF i > Len(t) THEN <<>>
  ELSE IF i < Len(t) /\ t[i] = "~" /\ t[i + 1] \in {"0", "1"}
       THEN <<IF t[i + 1] = "1" THEN "/" ELSE "~">> \o f[i + 2]
  ELSE <<t[i]>> \o f[i + 1]

ReadAs(t, f) == f = [i \in 1..(Len(t) + 1) |-> Reads(t, f, i)]

\* A text is read in one way only.
LEMMA ReadOnce ==
  ASSUME NEW S, NEW t \in Seq(S), NEW f, NEW g, ReadAs(t, f), ReadAs(t, g)
  PROVE  f = g
<1> DEFINE n == Len(t)
<1>1. n \in Nat
  OBVIOUS
<1>2. \A i \in 1..(n + 1) : f[i] = Reads(t, f, i) /\ g[i] = Reads(t, g, i)
  BY DEF ReadAs
<1>3. f = [i \in 1..(n + 1) |-> f[i]] /\ g = [i \in 1..(n + 1) |-> g[i]]
  BY DEF ReadAs
<1> HIDE DEF n
<1> DEFINE Same(i) == i \in 1..(n + 1) => f[i] = g[i]
           T == {d \in Nat : Same(n + 1 - d) /\ Same(n + 2 - d)}
<1>4. 0 \in T
  <2>1. Reads(t, f, n + 1) = <<>> /\ Reads(t, g, n + 1) = <<>>
    BY <1>1 DEF Reads, n
  <2>2. n + 1 \in 1..(n + 1) /\ n + 2 \notin 1..(n + 1) /\ n + 1 - 0 = n + 1 /\ n + 2 - 0 = n + 2
    BY <1>1
  <2> QED
    BY <1>2, <2>1, <2>2
<1>5. ASSUME NEW d \in Nat, d \in T PROVE d + 1 \in T
  <2> DEFINE i == n + 1 - (d + 1)
  <2>1. i \in Int /\ n + 1 - d = i + 1 /\ n + 2 - d = i + 2 /\ n + 2 - (d + 1) = i + 1
    BY <1>1
  <2> HIDE DEF i
  <2>2. Same(i + 1) /\ Same(i + 2)
    BY <1>5, <2>1
  <2>3. ASSUME i \in 1..(n + 1) PROVE f[i] = g[i]
    <3>1. f[i] = Reads(t, f, i) /\ g[i] = Reads(t, g, i)
      BY <1>2, <2>3
    <3>2. CASE i > n
      BY <3>1, <3>2 DEF Reads, n
    <3>3. CASE i <= n
      <4>1. i + 1 \in 1..(n + 1) /\ (i < n => i + 2 \in 1..(n + 1))
        BY <1>1, <2>1, <2>3, <3>3
      <4>2. f[i + 1] = g[i + 1] /\ (i < n => f[i + 2] = g[i + 2])
        BY <2>2, <4>1
      <4> QED
        BY <3>1, <3>3, <4>2 DEF Reads, n
    <3> QED
      BY <1>1, <2>1, <3>2, <3>3
  <2>4. Same(i)
    BY <2>3
  <2> HIDE DEF Same
  <2> QED
    BY <2>1, <2>2, <2>4 DEF i
<1> HIDE DEF T
<1>6. Nat \subseteq T
  BY <1>4, <1>5, SetInduction
<1>7. ASSUME NEW i \in 1..(n + 1) PROVE f[i] = g[i]
  <2>1. n + 1 - i \in T /\ n + 1 - (n + 1 - i) = i
    BY <1>1, <1>6
  <2> QED
    BY <2>1 DEF T
<1> QED
  BY <1>3, <1>7

\* Whether a text that is put before t is read as an escape.
Opens(x, t) == 1 <= Len(t) /\ x = "~" /\ t[1] \in {"0", "1"}

\* A text with one more character in front is read as that character and the rest,
\* unless the two begin with an escape.
LEMMA ReadCons ==
  ASSUME NEW S, NEW t \in Seq(S), NEW x \in S, NEW f, ReadAs(t, f)
  PROVE  \E g : /\ ReadAs(Cons(x, t), g)
                /\ g[2] = f[1]
                /\ Opens(x, t) => g[1] = Cons(IF t[1] = "1" THEN "/" ELSE "~", f[2])
                /\ ~Opens(x, t) => g[1] = Cons(x, f[1])
<1> DEFINE n == Len(t)
           u == Cons(x, t)
           one == IF Opens(x, t) THEN Cons(IF t[1] = "1" THEN "/" ELSE "~", f[2])
                  ELSE Cons(x, f[1])
           g == [i \in 1..(n + 2) |-> IF i = 1 THEN one ELSE f[i - 1]]
<1>1. n \in Nat
  OBVIOUS
<1>2. Len(u) = n + 1 /\ u[1] = x /\ \A i \in 1..n : u[i + 1] = t[i]
  <2>1. Len(u) = n + 1
    BY DEF Cons
  <2>2. u[1] = x
    BY DEF Cons
  <2>3. \A i \in 1..n : u[i + 1] = t[i]
    BY DEF Cons
  <2> QED
    BY <2>1, <2>2, <2>3
<1>3. \A i \in 1..(n + 1) : f[i] = Reads(t, f, i)
  BY DEF ReadAs
<1> HIDE DEF n, u, one
<1>4. g[1] = one /\ \A i \in 1..(n + 1) : g[i + 1] = f[i]
  <2>1. 1 \in 1..(n + 2)
    BY <1>1
  <2>2. \A i \in 1..(n + 1) : i + 1 \in 1..(n + 2) /\ i + 1 # 1 /\ (i + 1) - 1 = i
    BY <1>1
  <2> QED
    BY <2>1, <2>2
<1>5. g = [i \in 1..(n + 2) |-> g[i]]
  OBVIOUS
<1> HIDE DEF g
<1>6. g[1] = Reads(u, g, 1)
  <2>1. 1 < Len(u) <=> 1 <= Len(t)
    BY <1>1, <1>2 DEF n
  <2>2. 1 <= Len(t) => u[1 + 1] = t[1]
    BY <1>1, <1>2 DEF n
  <2>3. Opens(x, t) <=> 1 < Len(u) /\ u[1] = "~" /\ u[1 + 1] \in {"0", "1"}
    BY <1>2, <2>1, <2>2 DEF Opens
  <2>4. ~(1 > Len(u))
    BY <1>1, <1>2
  <2>5. CASE Opens(x, t)
    <3>1. Reads(u, g, 1) = <<IF u[1 + 1] = "1" THEN "/" ELSE "~">> \o g[1 + 2]
      BY <2>3, <2>4, <2>5 DEF Reads
    <3>2. g[1 + 2] = f[2] /\ u[1 + 1] = t[1]
      <4>1. 2 \in 1..(n + 1)
        BY <1>1, <2>5 DEF Opens, n
      <4> QED
        BY <1>4, <2>2, <2>5, <4>1 DEF Opens
    <3>3. g[1] = <<IF t[1] = "1" THEN "/" ELSE "~">> \o f[2]
      BY <1>4, <2>5 DEF one, Cons
    <3> QED
      BY <3>1, <3>2, <3>3
  <2>6. CASE ~Opens(x, t)
    <3>1. Reads(u, g, 1) = <<u[1]>> \o g[1 + 1]
      BY <2>3, <2>4, <2>6 DEF Reads
    <3>2. g[1 + 1] = f[1]
      <4>1. 1 \in 1..(n + 1)
        BY <1>1
      <4> QED
        BY <1>4, <4>1
    <3>3. g[1] = <<x>> \o f[1]
      BY <1>4, <2>6 DEF one, Cons
    <3> QED
      BY <1>2, <3>1, <3>2, <3>3
  <2> QED
    BY <2>5, <2>6
<1>7. ASSUME NEW i \in 1..(n + 1) PROVE g[i + 1] = Reads(u, g, i + 1)
  <2>1. f[i] = Reads(t, f, i) /\ g[i + 1] = f[i]
    BY <1>3, <1>4
  <2>2. CASE i = n + 1
    <3>1. Reads(t, f, i) = <<>> /\ Reads(u, g, i + 1) = <<>>
      BY <1>1, <1>2, <2>2 DEF Reads, n
    <3> QED
      BY <2>1, <3>1
  <2>3. CASE i # n + 1
    <3>1. /\ i \in 1..n /\ i + 1 \in 1..(n + 1) /\ (i < n => i + 2 \in 1..(n + 1) /\ i + 1 \in 1..n)
          /\ (i + 1) + 1 = i + 2 /\ (i + 1) + 2 = (i + 2) + 1
      BY <1>1, <2>3
    <3>2. u[i + 1] = t[i] /\ (i < n => u[(i + 1) + 1] = t[i + 1])
      BY <1>2, <3>1
    <3>3. g[(i + 1) + 1] = f[i + 1] /\ (i < n => g[(i + 1) + 2] = f[i + 2])
      BY <1>4, <3>1
    <3>4. (i + 1 > Len(u) <=> i > Len(t)) /\ (i + 1 < Len(u) <=> i < Len(t))
      BY <1>1, <1>2 DEF n
    <3>5. i < n <=> i < Len(t)
      BY DEF n
    <3>6. Reads(u, g, i + 1) = Reads(t, f, i)
      BY <3>2, <3>3, <3>4, <3>5 DEF Reads
    <3> QED
      BY <2>1, <3>6
  <2> QED
    BY <2>2, <2>3
<1>8. ReadAs(u, g)
  <2>1. ASSUME NEW i \in 1..(n + 2) PROVE g[i] = Reads(u, g, i)
    <3>1. CASE i = 1
      BY <1>6, <3>1
    <3>2. CASE i # 1
      <4>1. i - 1 \in 1..(n + 1) /\ (i - 1) + 1 = i
        BY <1>1, <3>2
      <4>2. g[(i - 1) + 1] = Reads(u, g, (i - 1) + 1)
        BY <1>7, <4>1
      <4> QED
        BY <4>1, <4>2
    <3> QED
      BY <3>1, <3>2
  <2>2. Len(u) + 1 = n + 2
    BY <1>1, <1>2
  <2>3. g = [i \in 1..(n + 2) |-> Reads(u, g, i)]
    BY <1>5, <2>1
  <2> QED
    BY <2>2, <2>3 DEF ReadAs
<1>9. g[2] = f[1]
  <2>1. 1 \in 1..(n + 1) /\ 1 + 1 = 2
    BY <1>1
  <2> QED
    BY <1>4, <2>1
<1> QED
  BY <1>4, <1>8, <1>9 DEF u, one

\* Unescaped is the way in which a text is read.
LEMMA UnescapedAs ==
  ASSUME NEW S, NEW t \in Seq(S), NEW f, ReadAs(t, f)
  PROVE  Unescaped(t) = f[1]
<1> DEFINE Rec(h) == h = [i \in 1..(Len(t) + 1) |->
                            IF i > Len(t) THEN <<>>
                            ELSE IF i < Len(t) /\ t[i] = "~" /\ t[i + 1] \in {"0", "1"}
                                 THEN <<IF t[i + 1] = "1" THEN "/" ELSE "~">> \o h[i + 2]
                            ELSE <<t[i]>> \o h[i + 1]]
           g == CHOOSE h : Rec(h)
<1>1. Unescaped(t) = g[1]
  BY DEF Unescaped
<1>2. \A h : Rec(h) <=> ReadAs(t, h)
  BY Zenon DEF ReadAs, Reads
<1> HIDE DEF Rec
<1>3. ReadAs(t, g)
  BY <1>2
<1>4. g = f
  BY <1>3, ReadOnce
<1> QED
  BY <1>1, <1>4

\* An escaped token has no "/" and is read as the token.
ReadBack(s) ==
  LET e == EscapeJSONPointer(s)
  IN ~Contains(e, "/") /\ \E f : ReadAs(e, f) /\ f[1] = s

\* One more character in front of a token is read back too.
LEMMA ReadBackCons ==
  ASSUME NEW S, {"~", "/", "0", "1"} \subseteq S, NEW c \in S, NEW s \in Seq(S), ReadBack(s)
  PROVE  ReadBack(Cons(c, s))
<1> DEFINE e == EscapeJSONPointer(s)
<1>1. e \in Seq(S) /\ EscapeJSONPointer(Cons(c, s)) = Join(Code(c), e)
  BY EscapeCons
<1>2. ~Contains(e, "/")
  BY DEF ReadBack
<1>3. PICK f : ReadAs(e, f) /\ f[1] = s
  BY DEF ReadBack
<1> HIDE DEF e
<1>4. ASSUME NEW x \in S, NEW t \in Seq(S), ~Contains(t, "/"), x # "/"
      PROVE  Cons(x, t) \in Seq(S) /\ ~Contains(Cons(x, t), "/") /\ Cons(x, t)[1] = x
  <2> DEFINE u == Cons(x, t)
  <2>1. u \in Seq(S) /\ Len(u) = Len(t) + 1
    BY DEF Cons
  <2>2. u[1] = x
    BY DEF Cons
  <2>3. \A i \in 1..Len(t) : u[i + 1] = t[i]
    BY DEF Cons
  <2> HIDE DEF u
  <2>4. ASSUME NEW i \in 1..Len(u) PROVE u[i] # "/"
    <3>1. CASE i = 1
      BY <1>4, <2>2, <3>1
    <3>2. CASE i # 1
      <4>1. i - 1 \in 1..Len(t) /\ (i - 1) + 1 = i
        BY <2>1, <3>2
      <4>2. u[i] = t[i - 1]
        BY <2>3, <4>1
      <4> QED
        BY <1>4, <4>1, <4>2 DEF Contains
    <3> QED
      BY <3>1, <3>2
  <2> QED
    BY <2>1, <2>2, <2>4 DEF u, Contains
<1>5. CASE c \notin {"~", "/"}
  <2>1. Join(Code(c), e) = Cons(c, e)
    BY <1>5 DEF Join, Code, Cons
  <2>2. ~Contains(Cons(c, e), "/")
    BY <1>1, <1>2, <1>4, <1>5
  <2>3. ~Opens(c, e)
    BY <1>5 DEF Opens
  <2>4. \E g : ReadAs(Cons(c, e), g) /\ g[1] = Cons(c, s)
    BY <1>1, <1>3, <2>3, ReadCons
  <2> QED
    BY <1>1, <2>1, <2>2, <2>4 DEF ReadBack
<1>6. CASE c \in {"~", "/"}
  <2> DEFINE d == IF c = "/" THEN "1" ELSE "0"
             t == Cons(d, e)
             u == Cons("~", t)
  <2>1. d \in S /\ "~" \in S /\ d \notin {"~", "/"} /\ d \in {"0", "1"}
    OBVIOUS
  <2>2. d = "1" <=> c = "/"
    OBVIOUS
  <2> HIDE DEF d
  <2>3. t \in Seq(S) /\ ~Contains(t, "/") /\ t[1] = d
    BY <1>1, <1>2, <1>4, <2>1
  <2>4. 1 <= Len(t)
    BY <1>1 DEF Cons
  <2>5. Join(Code(c), e) = u
    <3>1. Code(c) = <<"~", d>>
      BY <1>6 DEF Code, d
    <3>2. <<"~", d>> \o e = <<"~">> \o (<<d>> \o e)
      BY <1>1
    <3> QED
      BY <3>1, <3>2 DEF Join, Cons
  <2>6. PICK g : ReadAs(t, g) /\ g[2] = f[1]
    BY <1>1, <1>3, <2>1, ReadCons
  <2> HIDE DEF t
  <2>7. ~Contains(u, "/")
    BY <1>4, <2>1, <2>3
  <2>8. Opens("~", t)
    BY <2>1, <2>3, <2>4 DEF Opens
  <2>9. PICK h : ReadAs(u, h) /\ h[1] = Cons(IF t[1] = "1" THEN "/" ELSE "~", g[2])
    BY <2>1, <2>3, <2>6, <2>8, ReadCons
  <2>10. h[1] = Cons(c, s)
    BY <1>3, <1>6, <2>2, <2>3, <2>6, <2>9
  <2> QED
    BY <1>1, <2>5, <2>7, <2>9, <2>10 DEF ReadBack
<1> QED
  BY <1>5, <1>6

\* Every token, of any characters and of any length, is read back (EscapeJSONPointer,
\* provider/base.go).
THEOREM EveryReadBack ==
  ASSUME NEW S, {"~", "/", "0", "1"} \subseteq S, NEW s \in Seq(S)
  PROVE  EscapeJSONPointer(s) \in Seq(S) /\ ReadBack(s)
<1> DEFINE T == {n \in Nat : \A t \in Seq(S) : Len(t) = n => ReadBack(t)}
<1>1. 0 \in T
  <2>1. ASSUME NEW t \in Seq(S), Len(t) = 0 PROVE ReadBack(t)
    <3>1. t = <<>> /\ DOMAIN t = {}
      BY <2>1
    <3>2. \A old, new : ReplaceChar(t, old, new) = <<>>
      <4> SUFFICES ASSUME NEW old, NEW new PROVE ReplaceChar(t, old, new) = <<>>
        OBVIOUS
      <4> DEFINE ss == [i \in DOMAIN t |-> IF t[i] = old THEN new ELSE <<t[i]>>]
      <4>1. ss = <<>>
        BY <3>1
      <4> HIDE DEF ss
      <4>2. FlattenSeq(ss) = <<>>
        BY <4>1 DEF FlattenSeq
      <4> QED
        BY <4>2 DEF ReplaceChar, ss
    <3>3. EscapeJSONPointer(t) = <<>>
      BY <3>1, <3>2 DEF EscapeJSONPointer
    <3> DEFINE f == [i \in 1..1 |-> <<>>]
    <3>4. f = [i \in 1..(Len(<<>>) + 1) |-> Reads(<<>>, f, i)]
      <4>1. Len(<<>>) = 0 /\ \A i \in 1..1 : i > Len(<<>>)
        OBVIOUS
      <4>2. \A i \in 1..1 : Reads(<<>>, f, i) = <<>>
        BY <4>1 DEF Reads
      <4> QED
        BY <4>1, <4>2
    <3>5. f[1] = <<>>
      OBVIOUS
    <3> HIDE DEF f
    <3>6. ReadAs(<<>>, f) /\ f[1] = t
      BY <3>1, <3>4, <3>5 DEF ReadAs
    <3>7. ~Contains(<<>>, "/")
      BY DEF Contains
    <3> QED
      BY <3>3, <3>6, <3>7 DEF ReadBack
  <2> QED
    BY <2>1
<1>2. ASSUME NEW n \in Nat, n \in T PROVE n + 1 \in T
  <2>1. ASSUME NEW t \in Seq(S), Len(t) = n + 1 PROVE ReadBack(t)
    <3>1. Head(t) \in S /\ Tail(t) \in Seq(S) /\ Len(Tail(t)) = n
      BY <2>1
    <3>2. t = Cons(Head(t), Tail(t))
      BY <2>1 DEF Cons
    <3>3. ReadBack(Tail(t))
      BY <1>2, <3>1
    <3>4. ReadBack(Cons(Head(t), Tail(t)))
      BY <3>1, <3>3, ReadBackCons
    <3> QED
      BY <3>2, <3>4
  <2> QED
    BY <2>1
<1> HIDE DEF T
<1>3. Nat \subseteq T
  BY <1>1, <1>2, SetInduction
<1>4. ReadBack(s)
  BY <1>3 DEF T
<1>5. EscapeJSONPointer(s) \in Seq(S)
  BY EscapeCons
<1> QED
  BY <1>4, <1>5

\* A patch whose path has the escaped token changes the key that was meant, for
\* every token of any length (EscapeJSONPointer, provider/base.go).
THEOREM PointerAlwaysReadsBack == Spec => []PointerReadsBack
<1>1. Init => PointerReadsBack
  BY DEF Init, NoCall, PointerReadsBack
<1>2. PointerReadsBack /\ [Next]_last => PointerReadsBack'
  <2> SUFFICES ASSUME Next, last'.helper = "EscapeJSONPointer" PROVE PointerReadsBack'
    BY DEF PointerReadsBack
  <2> DEFINE S == Chars \cup {"~", "/", "0", "1"}
  <2>1. PICK s \in BoundedSeq(Chars, 4) : Called("EscapeJSONPointer", s, EscapeJSONPointer(s))
    BY HelperOf DEF CallEscape
  <2>2. last'.given = s /\ last'.got = EscapeJSONPointer(s)
    BY <2>1 DEF Called
  <2>3. s \in Seq(S)
    <3>1. PICK n \in 0..4 : s \in [1..n -> Chars]
      BY <2>1 DEF BoundedSeq, SeqOf
    <3>2. s \in [1..n -> S]
      BY <3>1
    <3> HIDE DEF S
    <3> QED
      BY <3>2
  <2>4. {"~", "/", "0", "1"} \subseteq S
    OBVIOUS
  <2> HIDE DEF S
  <2>5. EscapeJSONPointer(s) \in Seq(S) /\ ReadBack(s)
    BY <2>3, <2>4, EveryReadBack
  <2> DEFINE e == EscapeJSONPointer(s)
  <2>6. PICK f : ReadAs(e, f) /\ f[1] = s
    BY <2>5 DEF ReadBack
  <2> HIDE DEF e
  <2>7. Unescaped(e) = s
    BY <2>5, <2>6, UnescapedAs DEF e
  <2>8. ~Contains(e, "/")
    BY <2>5 DEF ReadBack, e
  <2> QED
    BY <2>2, <2>7, <2>8 DEF PointerReadsBack, e
<1> QED
  BY <1>1, <1>2, PTL DEF Spec
=============================================================================
