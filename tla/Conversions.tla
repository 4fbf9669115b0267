----------------------------- MODULE Conversions -----------------------------
(***************************************************************************)
(* The conversions at both ends of a detached Job and of a request: what   *)
(* becomes the manifest (client/jobrunner.go: buildJob, buildEnv), what a  *)
(* Job's status becomes for a polling caller (State, OperationStatus,      *)
(* BackupStatus), the JSON pointer escape of provider/base.go, the status  *)
(* envelope of provider/interface.go, the validation of RecoverFrom in     *)
(* model/common.go, and what telemetry.Setup has done by the time that one *)
(* of its steps fails.  A step is one call of one of them.                 *)
(***************************************************************************)
EXTENDS ServiceJobs, Integers, FiniteSets, SequencesExt, FiniteSetsExt

CONSTANTS
  Operations,         \* job kinds of the providers, the library's among them
  Parts,              \* what lies between the dashes of a key
  MsIDs,              \* services
  Providers,          \* service types, the values of the provider label
  Namespaces,         \* namespaces of labelled objects
  Variables,          \* names of environment variables, ordered as strings are
  Texts,              \* what a condition or a log says, a sequence of words
  DefaultJobTTL,      \* the limits of a JobSpec that sets none
  DefaultJobTimeout,
  Second,             \* bound: time.Second in ticks of a Duration
  Int32Half,          \* bound: 2^31, where an int32 turns negative
  MaxLen,             \* bound: model.HealthMessageMaxLen
  MaxListed,          \* bound: objects of a list, conditions of a Job
  Chars               \* characters of a JSON pointer token, "~" and "/" among them

NoLabel == "no label"
NoText == <<>>

ASSUME IDsAssumption == NoLabel \notin MsIDs
ASSUME NamespacesAssumption == "ErrServiceNotFound" \notin Namespaces
ASSUME VariablesAssumption == Variables \subseteq Nat /\ IsFiniteSet(Variables)
ASSUME TextsAssumption == Texts \subseteq Seq(STRING)
ASSUME SecondAssumption == Second \in Nat \ {0}
ASSUME Int32Assumption == Int32Half \in Nat \ {0}
ASSUME DefaultsAssumption ==
  /\ DefaultJobTTL \in Second..(Int32Half * Second - 1)
  /\ DefaultJobTimeout \in Nat /\ DefaultJobTimeout >= Second
ASSUME BoundsAssumption == MaxLen \in Nat /\ MaxListed \in Nat

VARIABLE last  \* the helper that was called last, what it got and what it gave

Keys == {<<p>> : p \in Parts} \cup (Parts \X Parts)

-----------------------------------------------------------------------------
(***************************************************************************)
(* buildJob: limits and environment.                                       *)
(***************************************************************************)

DurationSecondsOr(d, unset, fallback) == (IF unset THEN fallback ELSE d) \div Second

\* Bug: only a negative duration counts as not set.
DurationSecondsOrZero(d, fallback) == DurationSecondsOr(d, d < 0, fallback)

\* Division truncates, as the conversion of d.Seconds() does.
durationSeconds(d, fallback) == DurationSecondsOr(d, d <= 0, fallback)

Int32(x) == ((x + Int32Half) % (2 * Int32Half)) - Int32Half

\* ttlSecondsAfterFinished is narrowed, activeDeadlineSeconds is not.
Limits(ttl, timeout) ==
  [ttl |-> Int32(durationSeconds(ttl, DefaultJobTTL)),
   deadline |-> durationSeconds(timeout, DefaultJobTimeout)]

\* Bug: the keys stay in the order in which the map yields them.
KeysAsTheyCome(keys) == keys

sortedKeys(keys) ==
  LET D == DOMAIN keys
      p == CHOOSE p \in Bijection(D, D) : \A i, j \in D : i < j => keys[p[i]] <= keys[p[j]]
  IN [i \in D |-> keys[p[i]]]

EnvOf(first, second) == first \o second

\* env and secrets are the keys of the two maps in the order they are met.
Entries(keys, from) == LET s == sortedKeys(keys)
                       IN [i \in DOMAIN s |-> [name |-> s[i], from |-> from]]

\* Bug: the plain variables come last.
buildEnvPlainLast(env, secrets) == EnvOf(Entries(secrets, "secret"), Entries(env, "plain"))

buildEnv(env, secrets) == EnvOf(Entries(env, "plain"), Entries(secrets, "secret"))

-----------------------------------------------------------------------------
(***************************************************************************)
(* A Job's status on its way to a BackupStatus or an OperationStatus.      *)
(* Times are TRUE where they are set; a text is the sequence of its words. *)
(***************************************************************************)

Conditions(job, t) == {i \in DOMAIN job.conditions : job.conditions[i].type = t}

jobConditionTrue(job, t) ==
  Conditions(job, t) # {} /\ job.conditions[Min(Conditions(job, t))].status

Told(c) == IF c.message # NoText THEN c.message ELSE c.reason

ConditionMessageOr(job, t, fallback) ==
  LET told == {i \in Conditions(job, t) : Told(job.conditions[i]) # NoText}
  IN IF told = {} THEN fallback ELSE Told(job.conditions[Min(told)])

\* Bug: a condition that says nothing gives an empty reason.
conditionMessageOnly(job, t) == ConditionMessageOr(job, t, NoText)

conditionMessage(job, t) == ConditionMessageOr(job, t, <<"unknown", "reason">>)

conditionTime(job, t) == \E i \in Conditions(job, t) : job.conditions[i].time

failureReason(job) ==
  LET reason == conditionMessage(job, "Failed")
  IN IF job.logs = NoText THEN reason
     ELSE IF reason = NoText THEN job.logs ELSE reason \o <<":">> \o job.logs

Snapshot(job, phase, finished, reason) ==
  [phase |-> phase, started |-> job.started, finished |-> finished, reason |-> reason]

\* Bug: a failed Job, which has no completion time, is left without one.
FinishedIfComplete(job) == job.completed

FinishedIfFailed(job) == job.completed \/ conditionTime(job, "Failed")

JobStateOf(job) ==
  IF jobConditionTrue(job, "Complete") THEN Snapshot(job, "succeeded", job.completed, NoText)
  ELSE IF jobConditionTrue(job, "Failed")
       THEN Snapshot(job, "failed", FinishedIfFailed(job), failureReason(job))
  ELSE Snapshot(job, IF job.active > 0 THEN "running" ELSE "pending", job.completed, NoText)

OperationStatusFromJob(s) ==
  [phase |-> CASE s.phase = "running" -> "running"
               [] s.phase = "succeeded" -> "completed"
               [] s.phase = "failed" -> "failed"
               [] OTHER -> "pending",
   startedAt |-> s.started, completedAt |-> s.finished,
   error |-> IF s.phase = "failed" THEN s.reason ELSE NoText]

BackupStatusFromJob(s) ==
  [exists |-> s.phase = "succeeded", error |-> IF s.phase = "failed" THEN s.reason ELSE NoText]

\* What the job controller writes: a condition that holds has its time, the
\* completion time comes with Complete only, and nothing runs after the end.
Condition == [type : {"Suspended", "Complete", "Failed"}, status : BOOLEAN,
              message : Texts, reason : Texts, time : {TRUE}]

Holds(conditions, t) ==
  \E i \in DOMAIN conditions : conditions[i].type = t /\ conditions[i].status

JobStatuses ==
  {job \in [conditions : BoundedSeq(Condition, MaxListed), active : 0..1, started : BOOLEAN,
            completed : BOOLEAN, logs : Texts] :
     /\ \A i, j \in DOMAIN job.conditions :
          job.conditions[i].type = job.conditions[j].type => i = j
     /\ ~(Holds(job.conditions, "Complete") /\ Holds(job.conditions, "Failed"))
     /\ job.completed <=> Holds(job.conditions, "Complete")
     /\ job.active > 0 => /\ job.started
                          /\ \A t \in {"Complete", "Failed"} : ~Holds(job.conditions, t)}

-----------------------------------------------------------------------------
(***************************************************************************)
(* JSON pointers, lookups by label, the status envelope, RecoverFrom.      *)
(***************************************************************************)

ReplaceChar(s, old, new) ==
  FlattenSeq([i \in DOMAIN s |-> IF s[i] = old THEN new ELSE <<s[i]>>])

\* Bug: "~" is escaped after "/".
EscapeSlashFirst(s) == ReplaceChar(ReplaceChar(s, "/", <<"~", "1">>), "~", <<"~", "0">>)

EscapeJSONPointer(s) == ReplaceChar(ReplaceChar(s, "~", <<"~", "0">>), "/", <<"~", "1">>)

\* How a patch is read (RFC 6901): "~1" is "/", "~0" is "~".
Unescaped(t) ==
  LET from[i \in 1..(Len(t) + 1)] ==
        IF i > Len(t) THEN <<>>
        ELSE IF i < Len(t) /\ t[i] = "~" /\ t[i + 1] \in {"0", "1"}
             THEN <<IF t[i + 1] = "1" THEN "/" ELSE "~">> \o from[i + 2]
        ELSE <<t[i]>> \o from[i + 1]
  IN from[1]

\* List across all namespaces with the selector "provider=t" or
\* "provider=t,id=i"; an object may lack either label.
WithProvider(objects, t) == {i \in DOMAIN objects : objects[i].provider = t}
WithID(objects, id) == {i \in DOMAIN objects : objects[i].id = id}

\* The order of the list is left out.
ListByLabel(objects, t) == {objects[i].id : i \in WithProvider(objects, t)} \ {NoLabel}

NamespaceOfFirst(objects, found) ==
  IF found = {} THEN "ErrServiceNotFound" ELSE objects[Min(found)].namespace

\* Bug: the selector leaves the provider out.
FindAnyNamespace(objects, t, id) == NamespaceOfFirst(objects, WithID(objects, id))

FindServiceNamespace(objects, t, id) ==
  NamespaceOfFirst(objects, WithProvider(objects, t) \cap WithID(objects, id))

\* A health is a set of none or one, a message its length in characters.
CutMessage(h) == [h EXCEPT !.message = IF @ > MaxLen THEN MaxLen ELSE @]

\* Bug: health is reported whether the service runs or not.
NewServiceStatusPaused(pause, health) == {CutMessage(h) : h \in health}

\* pause is "nil", "true" or "false".
NewServiceStatus(pause, health) ==
  {CutMessage(h) : h \in IF pause = "true" THEN {} ELSE health}

IDBound(r) == (~r.msID => r.id) /\ ~(r.msID /\ r.id)
MsIDBound(r) == ~r.id => r.msID
TimeBound(r) == (r.msID => r.time) /\ ~(~r.msID /\ r.time)

\* Bug: the rule excluded_with of the backup ID is missing.
RecoverFromLoose(r) == (~r.msID => r.id) /\ MsIDBound(r) /\ TimeBound(r)

\* The binding tags; a field is TRUE if the body has a value for it.
RecoverFromValid(r) == IDBound(r) /\ MsIDBound(r) /\ TimeBound(r)

-----------------------------------------------------------------------------
(***************************************************************************)
(* telemetry.Setup, by the step that fails ("none": all succeed; without   *)
(* the endpoint it is not an error), and the function that it returns.     *)
(***************************************************************************)
SetupSteps == <<"endpoint", "resource", "metricExporter", "traceExporter", "runtime", "none">>

Done(step, failing) ==
  \E i, j \in DOMAIN SetupSteps : i < j /\ SetupSteps[i] = step /\ SetupSteps[j] = failing

\* Bug: a failure of the last step is treated like the ones before it.
StoppedIfNoError(failing) == Done("runtime", failing)

StoppedIfBuilt(failing) == Done("traceExporter", failing)

Setup(failing) ==
  [installed |-> IF Done("traceExporter", failing) THEN {"meter", "tracer"} ELSE {},
   stops |-> IF StoppedIfBuilt(failing) THEN <<"tracer", "meter">> ELSE <<>>,
   err |-> failing \notin {"none", "endpoint"}]

\* errors.Join evaluates both calls, whatever the first returns.
Stopped(shutdown, unreachable) ==
  [flushed |-> ToSet(shutdown) \ unreachable, err |-> ToSet(shutdown) \cap unreachable # {}]

-----------------------------------------------------------------------------
Called(helper, given, got) == last' = [helper |-> helper, given |-> given, got |-> got]

NoCall == [helper |-> "none", given |-> <<>>, got |-> <<>>]

Init == last = NoCall

CallServiceJobSpec ==
  \E j \in [operation : Operations, key : Keys, msID : MsIDs,
            labels : {<<>>} \cup [{"id", "team"} -> MsIDs] \cup [{"backupID"} -> Keys]] :
    Called("ServiceJobSpec", j, ServiceJobSpec(j))

CallLimits ==
  \E ttl, timeout \in -1..(2 * Int32Half * Second) :
    Called("Limits", [ttl |-> ttl, timeout |-> timeout], Limits(ttl, timeout))

CallBuildEnv ==
  \E plain, secret \in SUBSET Variables :
    \E env \in SetToSeqs(plain), secrets \in SetToSeqs(secret) :
      Called("buildEnv", [env |-> plain, secrets |-> secret], buildEnv(env, secrets))

CallState == \E job \in JobStatuses : Called("State", job, JobStateOf(job))

CallEscape ==
  \E s \in BoundedSeq(Chars, 4) : Called("EscapeJSONPointer", s, EscapeJSONPointer(s))

CallFindServiceNamespace ==
  \E objects \in BoundedSeq([namespace : Namespaces, provider : Providers \cup {NoLabel},
                             id : MsIDs \cup {NoLabel}], MaxListed),
     t \in Providers, id \in MsIDs :
    Called("FindServiceNamespace", [objects |-> objects, t |-> t, id |-> id],
           FindServiceNamespace(objects, t, id))

CallNewServiceStatus ==
  \E pause \in {"nil", "true", "false"},
     health \in {{}} \cup {{h} : h \in [status : {"healthy", "unhealthy"},
                                        message : 0..(MaxLen + 1)]} :
    Called("NewServiceStatus", [pause |-> pause, health |-> health],
           NewServiceStatus(pause, health))

CallRecoverFrom ==
  \E r \in [id : BOOLEAN, msID : BOOLEAN, time : BOOLEAN] :
    Called("RecoverFrom", r, RecoverFromValid(r))

CallSetup ==
  \E failing \in ToSet(SetupSteps), unreachable \in SUBSET {"meter", "tracer"} :
    Called("Setup", [failing |-> failing, unreachable |-> unreachable],
           [setup |-> Setup(failing), exit |-> Stopped(Setup(failing).stops, unreachable)])

\* A call knows nothing of the one before it.
Next ==
  \/ /\ last = NoCall
     /\ \/ CallServiceJobSpec \/ CallLimits \/ CallBuildEnv \/ CallState
        \/ CallEscape \/ CallFindServiceNamespace \/ CallNewServiceStatus \/ CallRecoverFrom
        \/ CallSetup
  \/ last # NoCall /\ last' = NoCall

Spec == Init /\ [][Next]_last

-----------------------------------------------------------------------------
\* A Job is found by the labels of the service it acts on and, if it is about a
\* backup, of that backup, whatever labels the caller adds, and another operation
\* or key never leads to it ("the caller cannot override"; "Key uniquely
\* identifies the job within its Operation").
JobIdentity ==
  last.helper = "ServiceJobSpec" =>
    LET j == last.given  spec == last.got
    IN /\ spec.labels["id"] = j.msID
       /\ j.operation \in {JobOpBackup, JobOpDeleteBackup} => spec.labels["backupID"] = j.key
       /\ \A l \in DOMAIN j.labels \ {"id", "backupID"} : spec.labels[l] = j.labels[l]
       /\ \A o \in Operations, k \in Keys :
            ServiceJobName(o, k) = spec.name => o = j.operation /\ k = j.key

\* Every Job is bounded: a deadline and a time to live that were asked for, or are
\* the defaults, come out less than a second shorter and never as "at once" or
\* as negative, if they are a second at least and fit the width of the field.
LimitsKept ==
  last.helper = "Limits" =>
    LET Kept(seconds, asked, default) ==
          LET d == IF asked = 0 THEN default ELSE asked
          IN seconds > 0 /\ seconds * Second <= d /\ d < (seconds + 1) * Second
        Fits(d) == d = 0 \/ d >= Second
    IN /\ Fits(last.given.timeout) =>
            Kept(last.got.deadline, last.given.timeout, DefaultJobTimeout)
       /\ Fits(last.given.ttl) /\ last.given.ttl < Int32Half * Second =>
            Kept(last.got.ttl, last.given.ttl, DefaultJobTTL)

\* A container reads every key of Secrets from the Secret, also one that Env has
\* too (of entries with one name the last one counts).
SecretsPrevail ==
  last.helper = "buildEnv" =>
    \A k \in last.given.env \cup last.given.secrets :
      LET named == {i \in DOMAIN last.got : last.got[i].name = k}
      IN (last.got[Max(named)].from = "secret") <=> k \in last.given.secrets

\* The same spec always gives the same manifest, in whatever order the maps
\* yield their keys.
EnvDeterministic ==
  last.helper = "buildEnv" =>
    \A env \in SetToSeqs(last.given.env), secrets \in SetToSeqs(last.given.secrets) :
      buildEnv(env, secrets) = last.got

\* A failed Job is told from one that is still to end: the error of its status is
\* never empty, although a condition may say nothing and a pod log nothing, and
\* no other Job has one (an empty error is left out of the response).
FailureIsTold ==
  last.helper = "State" =>
    LET b == BackupStatusFromJob(last.got)  o == OperationStatusFromJob(last.got)
    IN /\ b.error # NoText <=> jobConditionTrue(last.given, "Failed")
       /\ o.error = b.error
       /\ b.exists <=> o.phase = "completed"

\* An operation has a completion time exactly if it is over.
OutcomeIsDated ==
  last.helper = "State" =>
    LET o == OperationStatusFromJob(last.got)
    IN o.completedAt <=> o.phase \in {"completed", "failed"}

\* A patch whose path has the escaped token changes the key that was meant.
PointerReadsBack ==
  last.helper = "EscapeJSONPointer" =>
    ~Contains(last.got, "/") /\ Unescaped(last.got) = last.given

\* A service is found exactly if its provider lists it, and in a namespace where
\* that provider has an object of it: the objects that other providers label
\* with the same ID lead nowhere.
ListedIsFound ==
  last.helper = "FindServiceNamespace" =>
    LET g == last.given
    IN /\ last.got = "ErrServiceNotFound" <=> g.id \notin ListByLabel(g.objects, g.t)
       /\ last.got # "ErrServiceNotFound" =>
            \E o \in ToSet(g.objects) :
              o.namespace = last.got /\ o.provider = g.t /\ o.id = g.id

\* Health is shown exactly while the service runs, with a message that Codesphere
\* accepts and that is cut only if it has to be.
HealthShown ==
  last.helper = "NewServiceStatus" =>
    /\ last.got # {} <=> last.given.health # {} /\ last.given.pause # "true"
    /\ \A h \in last.got : \E g \in last.given.health :
         /\ h.status = g.status /\ h.message <= MaxLen
         /\ h.message = g.message \/ (h.message = MaxLen /\ g.message > MaxLen)

\* A provider restores from a backup or to a point in time, never from both and
\* never from neither ("either from the backup ID, or from service MsID's backups").
OneSource ==
  last.helper = "RecoverFrom" /\ last.got =>
    LET r == last.given IN r.id # r.msID /\ r.time = r.msID

\* Telemetry that is collected is flushed on exit, if its collector can be reached,
\* whichever step of Setup failed (the README defers the function before it looks
\* at the error) and whether the other collector can be reached or not.
TelemetryFlushed ==
  last.helper = "Setup" =>
    LET setup == last.got.setup  exit == last.got.exit
    IN /\ exit.flushed = setup.installed \ last.given.unreachable
       /\ exit.err <=> setup.installed \cap last.given.unreachable # {}
=============================================================================
