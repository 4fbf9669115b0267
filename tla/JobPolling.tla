----------------------------- MODULE JobPolling -----------------------------
(***************************************************************************)
(* JobRunner.State of client/jobrunner.go and the statuses that provider/  *)
(* derives from it.  One State call is up to three kinds of requests: the  *)
(* Job, then for a failed Job its pods, then their logs one by one, while  *)
(* the calls of module JobRunner and the controllers go on.                *)
(***************************************************************************)
EXTENDS JobRunner

CONSTANTS
  Pollers,  \* goroutines that call State
  Silent    \* whether a failed container may have logged nothing

ASSUME SilentAssumption == Silent \in BOOLEAN

VARIABLES
  at,     \* the request a poller makes next, "idle" outside State
  look,   \* what the running State call has read so far
  answer  \* the JobState that State returned last

pollVars == <<at, look, answer>>
allVars == <<vars, pollVars>>

\* job is the snapshot GetJob returned, rest the listed pods not tried yet.
Look == [name : Names, job : Job, rest : SUBSET Pod]

\* A log is named by the pod it is of; uid and attempt 0 stand for no log.
Log == [uid : Nat, attempt : Nat]
NoLog == [uid |-> 0, attempt |-> 0]

\* "error" is a State call that failed, "none" one that never was.
Phases == {"none", "error", "not_found", "pending", "running", "succeeded", "failed"}

\* uid and failures of the Job the phase is about are kept for the properties.
Answer == [name : Names, phase : Phases, uid : Nat, failures : Nat, log : Log]

PollTypeOK ==
  /\ TypeOK
  /\ at \in [Pollers -> {"idle", "getJob", "listPods", "podLogs"}]
  /\ look \in [Pollers -> Look]
  /\ answer \in [Pollers -> Answer]

Idle(n) == [name |-> n, job |-> NoJob, rest |-> {}]

NoAnswer(n) == [name |-> n, phase |-> "none", uid |-> 0, failures |-> 0, log |-> NoLog]

PollInit ==
  /\ Init
  /\ at = [q \in Pollers |-> "idle"]
  /\ \E n \in Names : /\ look = [q \in Pollers |-> Idle(n)]
                      /\ answer = [q \in Pollers |-> NoAnswer(n)]

-----------------------------------------------------------------------------
\* The switch of State: conditions before the count of active pods.
PhaseOr(job, initial) == CASE job.condition = "Complete" -> "succeeded"
                           [] job.condition = "Failed" -> "failed"
                           [] job.condition = "None" /\ job.active -> "running"
                           [] OTHER -> initial

\* Bug: State starts from the zero value of a JobState.
PhaseOfUnset(job) == PhaseOr(job, "")

PhaseOf(job) == PhaseOr(job, "pending")

\* BackupStatusFromJob and OperationStatusFromJob.
BackupStatusFromJob(a) == [exists |-> a.phase = "succeeded",
                           error |-> IF a.phase = "failed" THEN a.log ELSE NoLog]

OperationStatusFromJob(a) == CASE a.phase = "running" -> "running"
                               [] a.phase = "succeeded" -> "completed"
                               [] a.phase = "failed" -> "failed"
                               [] OTHER -> "pending"

AnswerWith(q, phase, job, log) ==
  /\ at' = [at EXCEPT ![q] = "idle"]
  /\ look' = [look EXCEPT ![q] = Idle(@.name)]
  /\ answer' = [answer EXCEPT ![q] =
       [name |-> look[q].name, phase |-> phase, uid |-> job.uid,
        failures |-> job.failures, log |-> log]]

Polled(n) == \E q \in Pollers : at[q] # "idle" /\ look[q].name = n

Poll(q) ==
  /\ at[q] = "idle"
  /\ \E n \in Names : /\ Exclusive => ~Busy(n) /\ ~Polled(n)
                      /\ look' = [look EXCEPT ![q] = Idle(n)]
  /\ at' = [at EXCEPT ![q] = "getJob"]
  /\ UNCHANGED <<vars, answer>>

GetJob(q) ==
  /\ at[q] = "getJob"
  /\ LET job == jobs[look[q].name] IN
       \/ /\ ~Exists(look[q].name)
          /\ AnswerWith(q, "not_found", NoJob, NoLog)
       \/ /\ Exists(look[q].name) /\ PhaseOf(job) # "failed"
          /\ AnswerWith(q, PhaseOf(job), job, NoLog)
       \/ /\ Exists(look[q].name) /\ PhaseOf(job) = "failed"
          /\ at' = [at EXCEPT ![q] = "listPods"]
          /\ look' = [look EXCEPT ![q].job = job]
          /\ UNCHANGED answer
       \/ /\ Refusals # {}
          /\ AnswerWith(q, "error", NoJob, NoLog)
  /\ UNCHANGED vars

ListPods(q) ==
  /\ at[q] = "listPods"
  /\ \/ /\ at' = [at EXCEPT ![q] = "podLogs"]
        /\ look' = [look EXCEPT ![q].rest = PodsNamed(look[q].name)]
        /\ UNCHANGED answer
     \/ Refusals # {} /\ AnswerWith(q, "failed", look[q].job, NoLog)
  /\ UNCHANGED vars

Newer(p, r) == p.created > r.created

\* Bug: the comparison of the sort is the wrong way round.
Oldest(ps) == {p \in ps : \A r \in ps : ~Newer(p, r)}

\* The pods that may come first: sort.Slice leaves the order of equals open.
Newest(ps) == {p \in ps : \A r \in ps : ~Newer(r, p)}

\* GetPodLogs: a container that never started and a pod that went have none.
LogsNow(p) == {r \in pods : r.uid = p.uid /\ r.attempt = p.attempt /\ r.phase # "Waiting"}
MayHaveLogs(p) == LogsNow(p) # {}
MayLackLogs(p) == \/ ~MayHaveLogs(p)
                  \/ Refusals # {}
                  \/ \E r \in LogsNow(p) : r.phase # "Failed" \/ Silent

\* The listed pods are tried newest first; the first logs are taken.
PodLogs(q) ==
  /\ at[q] = "podLogs"
  /\ LET rest == look[q].rest IN
       \/ \E p \in Newest(rest) :
            \/ /\ MayHaveLogs(p)
               /\ AnswerWith(q, "failed", look[q].job,
                             [uid |-> p.uid, attempt |-> p.attempt])
            \/ /\ MayLackLogs(p)
               /\ look' = [look EXCEPT ![q].rest = rest \ {p}]
               /\ UNCHANGED <<at, answer>>
       \/ rest = {} /\ AnswerWith(q, "failed", look[q].job, NoLog)
  /\ UNCHANGED vars

State(q) == GetJob(q) \/ ListPods(q) \/ PodLogs(q)

\* The calls of JobRunner; an exclusive caller waits for pollers as well.
Calls ==
  \/ \E c \in Callers :
       \/ Begin(c) /\ (Exclusive => ~Polled(req'[c].name))
       \/ Requests(c) \/ Crash(c)
  \/ Controllers /\ UNCHANGED callerVars

PollNext == \/ \E q \in Pollers : Poll(q) \/ State(q)
            \/ Calls /\ UNCHANGED pollVars

PollSpec == PollInit /\ [][PollNext]_allVars

-----------------------------------------------------------------------------
Answers(q) == at[q] # "idle" /\ at'[q] = "idle"

\* A backup that was reported to exist keeps being reported: no dispatch that
\* comes later, from whichever caller, undoes a finished Job.
BackupStaysReported ==
  [][\A q \in Pollers :
       /\ Answers(q) /\ answer'[q].phase # "error"
       /\ answer[q].name = answer'[q].name
       /\ BackupStatusFromJob(answer[q]).exists
       => BackupStatusFromJob(answer'[q]).exists]_allVars

\* An operation that was reported completed or failed keeps that outcome: calls of
\* Run that come later do not restart what is over, and a poll that overlaps them
\* does not report it as pending again.
OutcomeStays ==
  [][\A q \in Pollers :
       /\ Answers(q) /\ answer'[q].phase # "error"
       /\ answer[q].name = answer'[q].name
       /\ OperationStatusFromJob(answer[q]) \in {"completed", "failed"}
       => OperationStatusFromJob(answer'[q]) = OperationStatusFromJob(answer[q])]_allVars

\* A Job that failed after a retry is explained by its own last failure, not by an
\* earlier attempt and not by a pod that an earlier Job of the name left.  Without
\* a retry its only pod may be as old, in whole seconds, as one of the earlier Job.
NewestFailureExplains ==
  [][\A q \in Pollers :
       LET a == answer'[q] IN
       /\ Answers(q) /\ a.phase = "failed" /\ a.failures > 1
       /\ Live(a.name) /\ jobs[a.name].uid = a.uid
       => a.log.uid = a.uid /\ a.log.attempt >= a.failures]_allVars

\* The logs in a failure reason are those of a pod of the Job that failed.
LogsBelongToJob ==
  \A q \in Pollers : answer[q].log # NoLog => answer[q].log.uid = answer[q].uid
=============================================================================
