-------------------------- MODULE JobPollingProofs --------------------------
(***************************************************************************)
(* Theorems about JobPolling: what the pollers do does not disturb the     *)
(* calls, and what they answer does not go back on itself.                 *)
(***************************************************************************)
EXTENDS JobPolling, JobDispatchProofs

\* Pollers only read: with them the calls and the controllers behave as without,
\* so that every theorem about Spec holds beside any number of pollers.
THEOREM PollersOnlyRead == PollSpec => Spec
<1>1. PollInit => Init
  BY DEF PollInit
<1>2. ASSUME [PollNext]_allVars PROVE [Next]_vars
  <2>1. ASSUME NEW q \in Pollers, Poll(q) \/ State(q) PROVE UNCHANGED vars
    BY <2>1 DEF Poll, State, GetJob, ListPods, PodLogs
  <2>2. Calls => Next
    BY DEF Calls, Next
  <2>3. UNCHANGED allVars => UNCHANGED vars
    BY DEF allVars
  <2> QED
    BY <1>2, <2>1, <2>2, <2>3 DEF PollNext
<1> QED
  BY <1>1, <1>2, PTL DEF PollSpec, Spec

\* An answer of State is of its type if its parts are.
LEMMA AnswerTyped ==
  ASSUME PollTypeOK, NEW q \in Pollers, NEW phase \in Phases, NEW job \in Job, NEW log \in Log,
         AnswerWith(q, phase, job, log)
  PROVE  /\ at' \in [Pollers -> {"idle", "getJob", "listPods", "podLogs"}]
         /\ look' \in [Pollers -> Look] /\ answer' \in [Pollers -> Answer]
<1>1. look[q].name \in Names /\ job.uid \in Nat /\ job.failures \in Nat
  BY DEF PollTypeOK, Look, Job
<1>2. NoJob \in Job
  BY DEF NoJob, FreshJob, Job
<1>3. Idle(look[q].name) \in Look
  BY <1>1, <1>2 DEF Idle, Look
<1>4. [name |-> look[q].name, phase |-> phase, uid |-> job.uid,
       failures |-> job.failures, log |-> log] \in Answer
  BY <1>1 DEF Answer
<1> HIDE DEF Idle
<1> QED
  BY <1>3, <1>4 DEF AnswerWith, PollTypeOK

\* A step of pollers or callers keeps the types of what pollers hold.
LEMMA StepPollTypeOK == PollTypeOK /\ TypeOK' /\ [PollNext]_allVars => PollTypeOK'
<1> SUFFICES ASSUME PollTypeOK, TypeOK', [PollNext]_allVars PROVE PollTypeOK'
  OBVIOUS
<1> DEFINE OK == /\ at' \in [Pollers -> {"idle", "getJob", "listPods", "podLogs"}]
                 /\ look' \in [Pollers -> Look] /\ answer' \in [Pollers -> Answer]
<1>0. /\ NoJob \in Job /\ NoLog \in Log
      /\ \A n \in Names : Idle(n) \in Look
      /\ \A n \in Names : jobs[n] \in Job
      /\ \A q \in Pollers : look[q] \in Look /\ look[q].name \in Names /\ look[q].job \in Job
      /\ pods \subseteq Pod
  BY DEF NoJob, FreshJob, Job, NoLog, Log, Idle, Look, PollTypeOK, TypeOK, ClusterTypeOK
<1>1. ASSUME NEW q \in Pollers, Poll(q) PROVE OK
  BY <1>0, <1>1 DEF Poll, PollTypeOK
<1>2. ASSUME NEW q \in Pollers, GetJob(q) PROVE OK
  <2> DEFINE n == look[q].name
  <2>1. n \in Names /\ jobs[n] \in Job
    BY <1>0
  <2>2. PhaseOf(jobs[n]) \in Phases
    <3>1. jobs[n].condition \in {"None", "Complete", "Failed"}
      BY <2>1 DEF Job
    <3> QED
      BY <3>1 DEF PhaseOf, PhaseOr, Phases
  <2>3. CASE AnswerWith(q, "not_found", NoJob, NoLog) \/ AnswerWith(q, "error", NoJob, NoLog)
    BY <1>0, <2>3, AnswerTyped DEF Phases
  <2>4. CASE AnswerWith(q, PhaseOf(jobs[n]), jobs[n], NoLog)
    BY <1>0, <2>1, <2>2, <2>4, AnswerTyped
  <2>5. CASE /\ at' = [at EXCEPT ![q] = "listPods"]
             /\ look' = [look EXCEPT ![q].job = jobs[n]]
             /\ UNCHANGED answer
    <3>1. [look[q] EXCEPT !.job = jobs[n]] \in Look
      BY <1>0, <2>1 DEF Look
    <3> QED
      BY <2>5, <3>1 DEF PollTypeOK
  <2> QED
    BY <1>2, <2>3, <2>4, <2>5 DEF GetJob
<1>3. ASSUME NEW q \in Pollers, ListPods(q) PROVE OK
  <2>1. CASE AnswerWith(q, "failed", look[q].job, NoLog)
    BY <1>0, <2>1, AnswerTyped DEF Phases
  <2>2. CASE /\ at' = [at EXCEPT ![q] = "podLogs"]
             /\ look' = [look EXCEPT ![q].rest = PodsNamed(look[q].name)]
             /\ UNCHANGED answer
    <3>1. [look[q] EXCEPT !.rest = PodsNamed(look[q].name)] \in Look
      BY <1>0 DEF Look, PodsNamed
    <3> QED
      BY <2>2, <3>1 DEF PollTypeOK
  <2> QED
    BY <1>3, <2>1, <2>2 DEF ListPods
<1>4. ASSUME NEW q \in Pollers, PodLogs(q) PROVE OK
  <2>1. ASSUME NEW p, MayHaveLogs(p),
               AnswerWith(q, "failed", look[q].job, [uid |-> p.uid, attempt |-> p.attempt])
        PROVE  OK
    <3>1. PICK r \in pods : r.uid = p.uid /\ r.attempt = p.attempt
      BY <2>1 DEF MayHaveLogs, LogsNow
    <3>2. r \in Pod
      BY <1>0
    <3>3. r.uid \in Nat /\ r.attempt \in Nat
      BY <3>2 DEF Pod
    <3>4. [uid |-> p.uid, attempt |-> p.attempt] \in Log
      BY <3>1, <3>3 DEF Log
    <3> QED
      BY <1>0, <2>1, <3>4, AnswerTyped DEF Phases
  <2>2. ASSUME NEW p, look' = [look EXCEPT ![q].rest = look[q].rest \ {p}],
               UNCHANGED <<at, answer>>
        PROVE  OK
    <3>1. [look[q] EXCEPT !.rest = look[q].rest \ {p}] \in Look
      BY <1>0 DEF Look
    <3> QED
      BY <2>2, <3>1 DEF PollTypeOK
  <2>3. CASE AnswerWith(q, "failed", look[q].job, NoLog)
    BY <1>0, <2>3, AnswerTyped DEF Phases
  <2> QED
    BY <1>4, <2>1, <2>2, <2>3 DEF PodLogs
<1>5. CASE UNCHANGED pollVars
  BY <1>5 DEF pollVars, PollTypeOK
<1> QED
  BY <1>1, <1>2, <1>3, <1>4, <1>5 DEF PollNext, State, allVars, PollTypeOK

\* What a State call holds between its requests is a Job and its pods, and what
\* it answers is well formed, whatever happens to the cluster meanwhile.
THEOREM PollTypeCorrect == PollSpec => []PollTypeOK
<1>1. PollInit /\ TypeOK => PollTypeOK
  BY DEF PollInit, PollTypeOK, Idle, NoAnswer, Look, Answer, Log, NoLog, Phases, NoJob, FreshJob,
     Job
<1> QED
  BY <1>1, StepPollTypeOK, PollersOnlyRead, TypeCorrect, PTL DEF PollSpec

(***************************************************************************)
(* With Run only and no time to live that runs out, what is over is over.  *)
(***************************************************************************)
JobsStay == \A n \in Names : /\ jobs[n].deletion = "no"
                             /\ Finished(n) => Exists(n)

\* The Jobs of a step: one is new, or all those there were are still there.
OneIsNew == \E n \in Names : /\ uids' = uids + 1 /\ ~Exists(n) /\ Exists(n)'
                             /\ \A m \in Names \ {n} : jobs'[m] = jobs[m]
NoneIsNew == /\ uids' = uids
             /\ \A n \in Names : jobs'[n].uid = jobs[n].uid

\* One Job at most changes: it is dispatched, or goes on as long as it is not over.
OneJobMoves ==
  \/ UNCHANGED jobs
  \/ \E n \in Names :
       /\ \A m \in Names \ {n} : jobs'[m] = jobs[m]
       /\ \/ ~Exists(n) /\ jobs'[n].uid # 0 /\ jobs'[n].condition = "None"
          \/ Exists(n) /\ ~Finished(n) /\ jobs'[n].uid = jobs[n].uid

\* With Run only and no TTL a step adds a Job or none, and ends none twice.
LEMMA OutcomesKept ==
  ASSUME TypeOK, RunsOnly, AttemptInv, JobsStay, ~Expiring, [Next]_vars
  PROVE  /\ JobsStay' /\ (OneIsNew \/ NoneIsNew) /\ OneJobMoves
         /\ \A n \in Names : Finished(n) => jobs'[n].condition = jobs[n].condition
<1> USE DEF JobsStay, Finished, Exists, Live
<1> DEFINE OK == /\ JobsStay' /\ (OneIsNew \/ NoneIsNew) /\ OneJobMoves
                 /\ \A n \in Names : Finished(n) => jobs'[n].condition = jobs[n].condition
<1>0. /\ jobs \in [Names -> Job] /\ pods \subseteq Pod /\ \A n \in Names : jobs[n] \in Job
      /\ uids \in Nat
  BY DEF TypeOK, ClusterTypeOK
<1>1. CASE UNCHANGED <<jobs, uids>>
  BY <1>1 DEF NoneIsNew, OneJobMoves
\* One Job changed, which was not over.
<1>2. ASSUME NEW n \in Names, \A m \in Names \ {n} : jobs'[m] = jobs[m], ~Finished(n),
             jobs'[n].deletion = "no", Exists(n),
             jobs'[n].uid = jobs[n].uid, uids' = uids
      PROVE  OK
  BY <1>2 DEF NoneIsNew, OneJobMoves
<1>3. ASSUME NEW c \in Callers, CreateJob(c) PROVE OK
  <2>1. PICK n \in Names : n = req[c].name
    BY DEF TypeOK, Request
  <2>2. \/ UNCHANGED <<jobs, uids>>
        \/ /\ ~Exists(n) /\ uids' = uids + 1
           /\ jobs' = [jobs EXCEPT ![n] = FreshJob(uids + 1, req[c].creds)]
    BY <1>3, <2>1 DEF CreateJob, CreateJobTolerating, ApiCreateJob
  <2>3. CASE /\ ~Exists(n) /\ uids' = uids + 1
             /\ jobs' = [jobs EXCEPT ![n] = FreshJob(uids + 1, req[c].creds)]
    <3>1. /\ jobs'[n] = FreshJob(uids + 1, req[c].creds)
          /\ \A m \in Names \ {n} : jobs'[m] = jobs[m]
      BY <1>0, <2>3
    <3>2. jobs'[n].deletion = "no" /\ jobs'[n].condition = "None" /\ jobs'[n].uid = uids + 1
      BY <3>1 DEF FreshJob
    <3>3. OneIsNew
      BY <1>0, <2>3, <3>1, <3>2 DEF OneIsNew
    <3>4. OneJobMoves
      BY <1>0, <2>3, <3>1, <3>2 DEF OneJobMoves
    <3> QED
      BY <2>3, <3>1, <3>2, <3>3, <3>4
  <2> QED
    BY <1>1, <2>2, <2>3
<1>4. ASSUME NEW c \in Callers,
             Begin(c) \/ CreateSecret(c) \/ AdoptSecret(c) \/ DeleteSecret(c) \/ Crash(c)
      PROVE  OK
  BY <1>1, <1>4 DEF Begin, BeginWith, CreateSecret, CreateSecretTolerating, ApiCreateSecret,
     AdoptSecret, ApiPatchOwner, DeleteSecret, DeleteSecretTolerating, ApiDeleteSecret, Crash,
     clusterVars
<1>5. ASSUME NEW c \in Callers, DeleteJob(c) PROVE FALSE
  BY <1>5 DEF RunsOnly, DeleteJob, DeleteJobTolerating
<1>6. ASSUME NEW n \in Names, CreatePod(n) PROVE OK
  <2>1. /\ jobs'[n] = [jobs[n] EXCEPT !.active = TRUE] /\ ~Finished(n)
        /\ \A m \in Names \ {n} : jobs'[m] = jobs[m]
    BY <1>0, <1>6 DEF CreatePod
  <2>2. /\ jobs'[n].deletion = jobs[n].deletion /\ jobs'[n].condition = jobs[n].condition
        /\ jobs'[n].uid = jobs[n].uid
    BY <1>0, <2>1 DEF Job
  <2>3. Exists(n) /\ uids' = uids
    BY <1>6 DEF CreatePod
  <2> QED
    BY <1>2, <2>1, <2>2, <2>3
<1>7. ASSUME NEW n \in Names, MissDeadline(n) PROVE OK
  <2>1. jobs' = [jobs EXCEPT ![n] = [[jobs[n] EXCEPT !.condition = "Failed"] EXCEPT !.active = FALSE]]
    BY <1>0, <1>7 DEF MissDeadline, MissDeadlineIf
  <2>2. PICK j \in Job : j = [jobs[n] EXCEPT !.condition = "Failed"]
    BY <1>0 DEF Job
  <2>3. /\ jobs'[n] = [j EXCEPT !.active = FALSE]
        /\ \A m \in Names \ {n} : jobs'[m] = jobs[m]
    BY <1>0, <2>1, <2>2
  <2>4. jobs'[n].deletion = jobs[n].deletion /\ jobs'[n].uid = jobs[n].uid
    BY <1>0, <2>2, <2>3 DEF Job
  <2>5. Exists(n) /\ ~Finished(n) /\ uids' = uids
    BY <1>7 DEF MissDeadline, MissDeadlineIf
  <2> QED
    BY <1>2, <2>3, <2>4, <2>5
<1>8. ASSUME NEW n \in Names, Expire(n) \/ RemoveJob(n) PROVE FALSE
  BY <1>8 DEF Expire, ExpireIf, RemoveJob
<1>9. ASSUME NEW p \in pods, NEW o \in {"Succeeded", "Failed"}, EndContainer(p, o) PROVE OK
  <2>0. PICK n \in Names : n = p.name
    BY <1>0 DEF Pod
  <2> DEFINE f == IF o = "Failed" THEN jobs[n].failures + 1 ELSE jobs[n].failures
             k == IF o = "Succeeded" THEN "Complete"
                  ELSE IF jobs[n].failures + 1 > BackoffLimit THEN "Failed" ELSE "None"
  <2>1. Ended(jobs[n], o) = [jobs[n] EXCEPT !.active = FALSE, !.failures = f, !.condition = k]
    BY DEF Ended
  <2>2. CASE ~Finished(n) /\ p.uid = jobs[n].uid /\ jobs' = [jobs EXCEPT ![n] = Ended(jobs[n], o)]
    <3>1. jobs'[n] = Ended(jobs[n], o) /\ \A m \in Names \ {n} : jobs'[m] = jobs[m]
      BY <1>0, <2>2
    <3>2. jobs'[n].deletion = jobs[n].deletion /\ jobs'[n].uid = jobs[n].uid
      <4> HIDE DEF f, k
      <4> QED
        BY <1>0, <2>1, <3>1 DEF Job
    <3>3. Exists(n) /\ uids' = uids
      BY <1>9, <2>0 DEF EndContainer, AttemptInv, Unfinished
    <3> QED
      BY <1>2, <2>2, <3>1, <3>2, <3>3
  <2> QED
    BY <1>1, <1>9, <2>0, <2>2 DEF EndContainer
<1>10. ASSUME NEW n \in Names, CollectSecret(n) PROVE OK
  BY <1>1, <1>10 DEF CollectSecret
<1>11. ASSUME NEW p \in pods, StartContainer(p) \/ CollectPod(p) PROVE OK
  BY <1>1, <1>11 DEF StartContainer, CollectPod
<1>12. CASE UNCHANGED vars
  BY <1>1, <1>12 DEF vars
<1> QED
  BY <1>3, <1>4, <1>5, <1>6, <1>7, <1>8, <1>9, <1>10, <1>11, <1>12
     DEF Next, Requests, Controllers

\* What a poller answered last, and what it goes on to explain, is still so.
OutcomeInv ==
  \A q \in Pollers :
    /\ answer[q].phase = "succeeded" => jobs[answer[q].name].condition = "Complete"
    /\ answer[q].phase = "failed" => jobs[answer[q].name].condition = "Failed"
    /\ at[q] \in {"listPods", "podLogs"} => jobs[look[q].name].condition = "Failed"

Reported(q) == OperationStatusFromJob(answer[q])

\* An answer stays true of its Job, and so does the status made of it.
LEMMA StepOutcome ==
  ASSUME PollTypeOK, JobsStay, OutcomeInv, [PollNext]_allVars,
         \A n \in Names : Finished(n) => jobs'[n].condition = jobs[n].condition
  PROVE  /\ OutcomeInv'
         /\ \A q \in Pollers :
              /\ Answers(q) /\ answer'[q].phase # "error"
              /\ answer[q].name = answer'[q].name
              /\ Reported(q) \in {"completed", "failed"}
              => Reported(q)' = Reported(q)
<1> DEFINE Same(q) == /\ Answers(q) /\ answer'[q].phase # "error"
                      /\ answer[q].name = answer'[q].name
                      /\ Reported(q) \in {"completed", "failed"}
                      => Reported(q)' = Reported(q)
<1>0. /\ \A q \in Pollers : /\ answer[q].name \in Names /\ look[q].name \in Names
                            /\ answer[q].phase \in Phases
      /\ \A n \in Names : jobs[n].condition \in {"None", "Complete", "Failed"}
  BY DEF PollTypeOK, TypeOK, ClusterTypeOK, Answer, Look, Job
<1>1. CASE UNCHANGED pollVars
  <2>1. OutcomeInv'
    BY <1>0, <1>1 DEF pollVars, OutcomeInv, Finished
  <2>2. \A q \in Pollers : ~Answers(q)
    BY <1>1 DEF pollVars, Answers
  <2> QED
    BY <2>1, <2>2
<1>2. ASSUME NEW q \in Pollers, Poll(q) \/ State(q), UNCHANGED vars,
             \A d \in Pollers \ {q} : /\ at'[d] = at[d] /\ look'[d] = look[d]
                                      /\ answer'[d] = answer[d],
             \/ answer'[q] = answer[q] /\ at'[q] # "idle"
                /\ (at'[q] \in {"listPods", "podLogs"} => jobs[look'[q].name].condition = "Failed")
             \/ /\ at'[q] = "idle" /\ answer'[q].name = look[q].name
                /\ answer'[q].phase \in Phases \ {"none"}
                /\ answer'[q].phase = "succeeded" => jobs[look[q].name].condition = "Complete"
                /\ answer'[q].phase = "failed" => jobs[look[q].name].condition = "Failed"
                /\ answer'[q].phase \notin {"succeeded", "failed", "error"} =>
                     jobs[look[q].name].condition = "None"
      PROVE  OutcomeInv' /\ \A d \in Pollers : Same(d)
  <2>1. OutcomeInv'
    BY <1>2 DEF OutcomeInv, vars
  <2>2. \A d \in Pollers \ {q} : ~Answers(d)
    BY <1>2 DEF Answers
  <2>3. Reported(q) = "completed" => answer[q].phase = "succeeded"
    BY <1>0 DEF Reported, OperationStatusFromJob, Phases
  <2>4. Reported(q) = "failed" => answer[q].phase = "failed"
    BY <1>0 DEF Reported, OperationStatusFromJob, Phases
  <2>5. ASSUME Answers(q), answer'[q].phase # "error", answer[q].name = answer'[q].name,
               Reported(q) \in {"completed", "failed"}
        PROVE  answer'[q].phase = answer[q].phase
    BY <1>0, <1>2, <2>3, <2>4, <2>5 DEF OutcomeInv, Answers
  <2>6. Same(q)
    BY <2>5 DEF Reported, OperationStatusFromJob
  <2> QED
    BY <2>1, <2>2, <2>6
<1>3. ASSUME NEW q \in Pollers, NEW phase, NEW job, NEW log, AnswerWith(q, phase, job, log)
      PROVE  /\ at'[q] = "idle" /\ answer'[q].name = look[q].name /\ answer'[q].phase = phase
             /\ \A d \in Pollers \ {q} : /\ at'[d] = at[d] /\ look'[d] = look[d]
                                         /\ answer'[d] = answer[d]
  BY <1>3 DEF AnswerWith, PollTypeOK
<1>4. ASSUME NEW q \in Pollers, Poll(q) PROVE OutcomeInv' /\ \A d \in Pollers : Same(d)
  <2>1. /\ UNCHANGED <<vars, answer>> /\ at'[q] = "getJob"
        /\ \A d \in Pollers \ {q} : at'[d] = at[d] /\ look'[d] = look[d]
    BY <1>4 DEF Poll, PollTypeOK
  <2> QED
    BY <1>2, <1>4, <2>1
<1>5. ASSUME NEW q \in Pollers, GetJob(q) PROVE OutcomeInv' /\ \A d \in Pollers : Same(d)
  <2>1. PICK n \in Names : n = look[q].name
    BY <1>0
  <2>2. UNCHANGED vars
    BY <1>5 DEF GetJob
  <2>3. CASE ~Exists(n) /\ AnswerWith(q, "not_found", NoJob, NoLog)
    <3>1. jobs[n].condition = "None"
      BY <1>0, <2>3 DEF JobsStay, Finished
    <3> QED
      BY <1>2, <1>3, <1>5, <2>1, <2>2, <2>3, <3>1 DEF State, Phases
  <2>4. CASE PhaseOf(jobs[n]) # "failed" /\ AnswerWith(q, PhaseOf(jobs[n]), jobs[n], NoLog)
    <3>1. \/ jobs[n].condition = "Complete" /\ PhaseOf(jobs[n]) = "succeeded"
          \/ jobs[n].condition = "None" /\ PhaseOf(jobs[n]) \in {"running", "pending"}
      BY <1>0, <2>4 DEF PhaseOf, PhaseOr
    <3> QED
      BY <1>2, <1>3, <1>5, <2>1, <2>2, <2>4, <3>1 DEF State, Phases
  <2>5. CASE /\ PhaseOf(jobs[n]) = "failed"
             /\ at' = [at EXCEPT ![q] = "listPods"]
             /\ look' = [look EXCEPT ![q].job = jobs[n]]
             /\ UNCHANGED answer
    <3>1. jobs[n].condition = "Failed"
      BY <1>0, <2>5 DEF PhaseOf, PhaseOr
    <3>2. /\ at'[q] = "listPods" /\ look'[q] = [look[q] EXCEPT !.job = jobs[n]]
          /\ \A d \in Pollers \ {q} : at'[d] = at[d] /\ look'[d] = look[d]
      BY <2>5 DEF PollTypeOK
    <3>3. look'[q].name = n
      BY <2>1, <3>2 DEF PollTypeOK, Look
    <3> QED
      BY <1>2, <1>5, <2>2, <2>5, <3>1, <3>2, <3>3 DEF State
  <2>6. CASE AnswerWith(q, "error", NoJob, NoLog)
    BY <1>2, <1>3, <1>5, <2>2, <2>6 DEF State, Phases
  <2> QED
    BY <1>5, <2>1, <2>3, <2>4, <2>5, <2>6 DEF GetJob
<1>6. ASSUME NEW q \in Pollers, ListPods(q) PROVE OutcomeInv' /\ \A d \in Pollers : Same(d)
  <2>1. UNCHANGED vars /\ jobs[look[q].name].condition = "Failed"
    BY <1>6 DEF ListPods, OutcomeInv
  <2>2. CASE AnswerWith(q, "failed", look[q].job, NoLog)
    BY <1>2, <1>3, <1>6, <2>1, <2>2 DEF State, Phases
  <2>3. CASE /\ at' = [at EXCEPT ![q] = "podLogs"]
             /\ look' = [look EXCEPT ![q].rest = PodsNamed(look[q].name)]
             /\ UNCHANGED answer
    <3>1. /\ at'[q] = "podLogs" /\ look'[q].name = look[q].name
          /\ \A d \in Pollers \ {q} : at'[d] = at[d] /\ look'[d] = look[d]
      BY <2>3 DEF PollTypeOK, Look
    <3> QED
      BY <1>2, <1>6, <2>1, <2>3, <3>1 DEF State
  <2> QED
    BY <1>6, <2>2, <2>3 DEF ListPods
<1>7. ASSUME NEW q \in Pollers, PodLogs(q) PROVE OutcomeInv' /\ \A d \in Pollers : Same(d)
  <2>1. /\ UNCHANGED vars /\ jobs[look[q].name].condition = "Failed"
        /\ at[q] = "podLogs"
    BY <1>7 DEF PodLogs, OutcomeInv
  <2>2. ASSUME NEW log, AnswerWith(q, "failed", look[q].job, log)
        PROVE  OutcomeInv' /\ \A d \in Pollers : Same(d)
    BY <1>2, <1>3, <1>7, <2>1, <2>2 DEF State, Phases
  <2>3. ASSUME NEW p, look' = [look EXCEPT ![q].rest = look[q].rest \ {p}],
               UNCHANGED <<at, answer>>
        PROVE  OutcomeInv' /\ \A d \in Pollers : Same(d)
    <3>1. /\ look'[q].name = look[q].name
          /\ \A d \in Pollers \ {q} : look'[d] = look[d]
      BY <2>3 DEF PollTypeOK, Look
    <3> QED
      BY <1>2, <1>7, <2>1, <2>3, <3>1 DEF State
  <2> QED
    BY <1>7, <2>2, <2>3 DEF PodLogs
<1>8. CASE UNCHANGED allVars
  BY <1>1, <1>8 DEF allVars
<1> QED
  BY <1>1, <1>4, <1>5, <1>6, <1>7, <1>8 DEF PollNext, State

\* An operation that was reported completed or failed is reported so ever after,
\* however many callers dispatch it again, as long as no time to live runs out.
THEOREM OutcomesStay ==
  ASSUME Ops \subseteq {"run"}, ~Expiring PROVE PollSpec => OutcomeStays
<1>1. PollInit => JobsStay /\ OutcomeInv
  BY DEF PollInit, Init, ClusterInit, JobsStay, OutcomeInv, NoAnswer, NoJob, FreshJob, Finished,
     Exists
<1>2. TypeOK /\ RunsOnly /\ AttemptInv /\ JobsStay /\ [Next]_vars
        => JobsStay' /\ \A n \in Names : Finished(n) => jobs'[n].condition = jobs[n].condition
  BY OutcomesKept
<1>3. PollTypeOK /\ JobsStay /\ OutcomeInv /\ [PollNext]_allVars
        /\ (\A n \in Names : Finished(n) => jobs'[n].condition = jobs[n].condition)
        => /\ OutcomeInv'
           /\ [\A q \in Pollers :
                 /\ Answers(q) /\ answer'[q].phase # "error"
                 /\ answer[q].name = answer'[q].name
                 /\ OperationStatusFromJob(answer[q]) \in {"completed", "failed"}
                 => OperationStatusFromJob(answer'[q]) = OperationStatusFromJob(answer[q])]_allVars
  BY StepOutcome DEF Reported
<1> QED
  BY <1>1, <1>2, <1>3, PollTypeCorrect, PollersOnlyRead, RunsOnlyHeld, AttemptInvHeld, PTL
     DEF PollSpec, Spec, OutcomeStays
=============================================================================
