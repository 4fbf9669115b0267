--------------------------- MODULE BackupApiProofs ---------------------------
(***************************************************************************)
(* Theorems about BackupApi: what the clients of any number of backups are *)
(* told is true, no backup is taken twice, and the routes implement        *)
(* BackupService.                                                          *)
(***************************************************************************)
EXTENDS BackupApi, JobPollingProofs, FiniteSetTheorems

\* Any number of handlers and of status requests, that overlap; a Job stays.
Setting ==
  /\ Ops = {"run"} /\ ~Exclusive /\ ~Expiring /\ "Conflict" \notin Refusals
  /\ Callers \cap Pollers = {}

\* What the library's part of the system keeps while clients come and go.
LibraryInv == PollTypeOK /\ RunsOnly /\ AttemptInv /\ JobsStay /\ OutcomeInv

\* A step of the routes is one of the calls, of a poller, or an abort.
LEMMA ApiSteps ==
  ASSUME Setting, [BackupNext]_backupVars
  PROVE  [PollNext]_allVars \/ \E c \in Callers : Abort(c)
<1>1. ASSUME NEW c \in Callers, NEW b \in BackupIDs, Put(c, b) PROVE PollNext
  <2>1. BeginWith(c, {"run"}) /\ UNCHANGED pollVars
    BY <1>1 DEF Put, PutCalling
  <2> QED
    BY <2>1 DEF Setting, PollNext, Calls, Begin
<1>2. ASSUME NEW c \in Callers, NEW b \in BackupIDs, Die(c, b) PROVE PollNext
  BY <1>2 DEF Die, PollNext, Calls
<1>3. ASSUME NEW c \in Callers, NEW b \in BackupIDs, AnswerPut(c, b) \/ HangUp(c, b)
      PROVE  UNCHANGED allVars
  BY <1>3 DEF AnswerPut, HangUp
<1>4. ASSUME NEW q \in Pollers, NEW b \in BackupIDs, AskStatus(q, b) PROVE PollNext
  BY <1>4 DEF AskStatus, PollNext
<1>5. ASSUME NEW q \in Pollers, NEW b \in BackupIDs, AnswerStatus(q, b) \/ LoseStatus(q, b)
      PROVE  UNCHANGED allVars
  BY <1>5 DEF AnswerStatus, LoseStatus
<1>6. Working => PollNext
  BY DEF Working, PollNext, Calls, pollVars
<1>7. UNCHANGED backupVars => UNCHANGED allVars
  BY DEF backupVars
<1> QED
  BY <1>1, <1>2, <1>3, <1>4, <1>5, <1>6, <1>7 DEF BackupNext

\* What a step does to the Jobs, an abort included.
JobsKept ==
  /\ (OneIsNew \/ NoneIsNew) /\ OneJobMoves
  /\ \A n \in Names : Finished(n) => jobs'[n].condition = jobs[n].condition

\* What the clients do to the routes keeps the library's invariants, also an abort.
LEMMA StepLibrary ==
  ASSUME Setting, LibraryInv, [BackupNext]_backupVars
  PROVE  LibraryInv' /\ JobsKept
<1> USE DEF LibraryInv
<1>1. CASE [PollNext]_allVars
  <2>1. [Next]_vars
    <3>1. ASSUME NEW q \in Pollers, Poll(q) \/ State(q) PROVE UNCHANGED vars
      BY <3>1 DEF Poll, State, GetJob, ListPods, PodLogs
    <3>2. Calls => Next
      BY DEF Calls, Next
    <3>3. UNCHANGED allVars => UNCHANGED vars
      BY DEF allVars
    <3> QED
      BY <1>1, <3>1, <3>2, <3>3 DEF PollNext
  <2>2. TypeOK /\ TypeOK'
    BY <2>1, StepTypeOK DEF PollTypeOK
  <2>3. PollTypeOK'
    BY <1>1, <2>2, StepPollTypeOK
  <2>4. RunsOnly' /\ AttemptInv'
    BY <2>1, <2>2, StepRunsOnly, StepAttempt DEF Setting
  <2>5. JobsStay' /\ JobsKept
    BY <2>1, <2>2, OutcomesKept DEF Setting, JobsKept
  <2>6. OutcomeInv'
    BY <1>1, <2>5, StepOutcome DEF JobsKept
  <2> QED
    BY <2>3, <2>4, <2>5, <2>6
<1>2. ASSUME NEW c \in Callers, Abort(c) PROVE LibraryInv' /\ JobsKept
  <2>1. /\ UNCHANGED <<jobs, secrets, pods, uids, at, look, answer>>
        /\ Return(c, "nil") \/ Return(c, "error")
    BY <1>2 DEF Abort, clusterVars, pollVars
  <2>2. TypeOK' /\ RunsOnly'
    BY <2>1 DEF PollTypeOK, TypeOK, ClusterTypeOK, Return, RunsOnly
  <2>3. PollTypeOK' /\ OutcomeInv'
    BY <2>1, <2>2 DEF PollTypeOK, OutcomeInv
  <2>4. AttemptInv' /\ JobsStay' /\ JobsKept
    BY <2>1 DEF AttemptInv, JobsStay, JobsKept, NoneIsNew, OneJobMoves, Finished, Exists
  <2> QED
    BY <2>2, <2>3, <2>4
<1> QED
  BY <1>1, <1>2, ApiSteps

\* The library's invariants hold at first.
LEMMA InitLibrary == BackupInit => LibraryInv
<1> SUFFICES ASSUME PollInit PROVE LibraryInv
  BY DEF BackupInit
<1>1. TypeOK
  BY DEF PollInit, Init, TypeOK, ClusterInit, ClusterTypeOK, NoJob, NoSecret, FreshJob, Job,
     Secret, Request
<1>2. PollTypeOK
  BY <1>1 DEF PollInit, PollTypeOK, Idle, NoAnswer, Look, Answer, Log, NoLog, Phases, NoJob,
     FreshJob, Job
<1>3. RunsOnly /\ AttemptInv /\ JobsStay /\ OutcomeInv
  BY DEF PollInit, Init, ClusterInit, RunsOnly, AttemptInv, JobsStay, OutcomeInv, NoAnswer, NoJob,
     FreshJob, Finished, Exists
<1> QED
  BY <1>2, <1>3 DEF LibraryInv

-----------------------------------------------------------------------------
Taken == {b \in BackupIDs : Exists(BackupJobName(b))}

\* A dispatch is the first for the one backup its name stands for.
LEMMA StepTaken == ASSUME JobsKept, TakenOnce PROVE TakenOnce'
<1>1. \A b \in BackupIDs : BackupJobName(b) \in Names
  BY NamesAssumption
<1>2. IsFiniteSet(Taken) /\ uids = Cardinality(Taken)
  BY BackupIDsAssumption, FS_Subset DEF Taken, TakenOnce
<1>3. SUFFICES uids' = Cardinality(Taken')
  BY DEF Taken, TakenOnce
<1>4. CASE NoneIsNew
  <2>1. Taken' = Taken
    BY <1>1, <1>4 DEF NoneIsNew, Taken, Exists
  <2> QED
    BY <1>2, <1>4, <2>1 DEF NoneIsNew
<1>5. CASE OneIsNew
  <2>1. PICK n \in Names : /\ uids' = uids + 1 /\ ~Exists(n) /\ jobs'[n].uid # 0
                           /\ \A m \in Names \ {n} : jobs'[m] = jobs[m]
    BY <1>5 DEF OneIsNew, Exists
  <2>2. PICK b \in BackupIDs : n = BackupJobName(b)
    BY NamesAssumption
  <2>3. \A d \in BackupIDs : BackupJobName(d) = n => d = b
    BY <2>2, BackupIDsAssumption DEF NamesApart, BackupJobName
  <2>4. Taken' = Taken \cup {b} /\ b \notin Taken
    BY <1>1, <2>1, <2>2, <2>3 DEF Taken, Exists
  <2>5. Cardinality(Taken \cup {b}) = Cardinality(Taken) + 1
    BY <1>2, <2>4, FS_AddElement
  <2> QED
    BY <1>2, <2>1, <2>4, <2>5
<1> QED
  BY <1>4, <1>5 DEF JobsKept

\* However many requests are lost, repeated or overlap, and whatever fails, the
\* Jobs dispatched are exactly one for every backup that was dispatched at all.
THEOREM BackupsTakenOnce == ASSUME Setting PROVE BackupSpec => []TakenOnce
<1>1. BackupInit => TakenOnce
  <2> SUFFICES ASSUME BackupInit PROVE TakenOnce
    OBVIOUS
  <2>1. Taken = {} /\ uids = 0
    BY NamesAssumption DEF BackupInit, PollInit, Init, ClusterInit, Taken, Exists, NoJob, FreshJob
  <2> QED
    BY <2>1, FS_EmptySet DEF Taken, TakenOnce
<1>2. LibraryInv /\ [BackupNext]_backupVars => LibraryInv' /\ JobsKept
  BY StepLibrary
<1>3. JobsKept /\ TakenOnce => TakenOnce'
  BY StepTaken
<1> QED
  BY <1>1, <1>2, <1>3, InitLibrary, PTL DEF BackupSpec

-----------------------------------------------------------------------------
(***************************************************************************)
(* What makes ToldTruth hold: a call of Run that succeeded has dispatched, *)
(* and a poller that a client waits for looks at a Job that is there.      *)
(***************************************************************************)
CallsTold ==
  \A c \in Callers : ret[c] = "nil" \/ pc[c] = "adoptSecret" => Exists(req[c].name)

PollersTold ==
  \A q \in Pollers :
    /\ q \in waited => Exists(look[q].name)
    /\ at[q] = "idle" /\ answer[q].phase \in {"succeeded", "failed"}
         => answer[q].name = look[q].name

ToldInv ==
  /\ client \in [BackupIDs -> {"asking", "putting", "accepted", "polling", "exists", "failed"}]
  /\ CallsTold /\ PollersTold /\ ToldTruth

\* Nothing of a call changes but by a request of that call, its start or its end.
LEMMA OneCallMoves ==
  ASSUME TypeOK, NEW c \in Callers, Begin(c) \/ Requests(c) \/ Crash(c) \/ Abort(c)
  PROVE  \A d \in Callers \ {c} : pc'[d] = pc[d] /\ ret'[d] = ret[d] /\ req'[d] = req[d]
<1> USE DEF TypeOK
<1>1. CASE Begin(c)
  BY <1>1 DEF Begin, BeginWith
<1>2. CASE (\E l : Goto(c, l)) \/ (\E r : Return(c, r))
  BY <1>2 DEF Goto, Return
<1>3. CASE CreateJob(c)
  <2>1. PICK reason \in Reasons :
          CASE WrapK8sError(reason) = "nil" /\ req[c].creds # NoCreds ->
                    /\ pc' = [pc EXCEPT ![c] = "adoptSecret"]
                    /\ uid' = [uid EXCEPT ![c] = jobs'[req[c].name].uid]
                    /\ UNCHANGED <<req, ret>>
            [] WrapK8sError(reason) = "nil" /\ req[c].creds = NoCreds -> Return(c, "nil")
            [] WrapK8sError(reason) \in {"ErrResourceConflict"} -> Return(c, "nil")
            [] OTHER -> Return(c, "error")
    BY <1>3 DEF CreateJob, CreateJobTolerating
  <2>2. \/ pc' = [pc EXCEPT ![c] = "adoptSecret"] /\ UNCHANGED <<req, ret>>
        \/ Return(c, "nil") \/ Return(c, "error")
    BY <2>1, Zenon
  <2> QED
    BY <1>2, <2>2
<1>4. CASE CreateSecret(c) \/ AdoptSecret(c) \/ DeleteJob(c) \/ DeleteSecret(c)
  BY <1>2, <1>4 DEF CreateSecret, CreateSecretTolerating, AdoptSecret, DeleteJob,
     DeleteJobTolerating, DeleteSecret, DeleteSecretTolerating
<1> QED
  BY <1>1, <1>2, <1>3, <1>4 DEF Requests, Crash, Abort

\* A call of Run gets to its end, or to the adoption, only past a Job of its name.
LEMMA CallsDispatch ==
  ASSUME Setting, LibraryInv, LibraryInv', JobsKept, CallsTold, [BackupNext]_backupVars
  PROVE  CallsTold'
<1>0. /\ TypeOK /\ TypeOK' /\ \A c \in Callers : req[c].name \in Names
      /\ jobs \in [Names -> Job] /\ uids \in Nat
  BY DEF LibraryInv, PollTypeOK, TypeOK, ClusterTypeOK, Request
<1>1. \A n \in Names : Exists(n) => jobs'[n].uid # 0
  BY DEF JobsKept, OneIsNew, NoneIsNew, Exists
<1> DEFINE Told(c) == ret[c] = "nil" \/ pc[c] = "adoptSecret" => Exists(req[c].name)
<1>2. ASSUME NEW c \in Callers, pc'[c] = pc[c] /\ ret'[c] = ret[c] /\ req'[c] = req[c]
      PROVE  Told(c)'
  BY <1>0, <1>1, <1>2 DEF CallsTold, Exists
<1>3. ASSUME NEW c \in Callers, CreateJob(c) PROVE Told(c)'
  <2>1. PICK n \in Names : n = req[c].name
    BY <1>0
  <2>2. PICK reason \in Reasons :
          /\ ApiCreateJob(n, req[c].creds, reason)
          /\ CASE WrapK8sError(reason) = "nil" /\ req[c].creds # NoCreds ->
                    /\ pc' = [pc EXCEPT ![c] = "adoptSecret"]
                    /\ uid' = [uid EXCEPT ![c] = jobs'[n].uid]
                    /\ UNCHANGED <<req, ret>>
               [] WrapK8sError(reason) = "nil" /\ req[c].creds = NoCreds -> Return(c, "nil")
               [] WrapK8sError(reason) \in {"ErrResourceConflict"} -> Return(c, "nil")
               [] OTHER -> Return(c, "error")
    BY <1>3, <2>1 DEF CreateJob, CreateJobTolerating
  <2>3. CASE reason \in Refusals
    <3>1. reason \in {"Invalid", "Timeout"}
      BY <2>3, RefusalsAssumption DEF Setting
    <3>2. WrapK8sError(reason) \in {"ErrResourceInvalid", "ErrKubernetesRequestFailed"}
      BY <3>1 DEF WrapK8sError
    <3>3. WrapK8sError(reason) # "nil" /\ WrapK8sError(reason) # "ErrResourceConflict"
      BY <3>2
    <3>4. Return(c, "error")
      BY <2>2, <3>3, Zenon
    <3> QED
      BY <1>0, <3>4 DEF Return, TypeOK
  <2>4. req' = req
    BY <1>3 DEF CreateJob, CreateJobTolerating, Return
  <2> QED
    BY <1>0, <2>1, <2>2, <2>3, <2>4 DEF ApiCreateJob, Exists, FreshJob
<1>4. ASSUME NEW c \in Callers, AdoptSecret(c) \/ (Abort(c) /\ pc[c] = "adoptSecret")
      PROVE  Told(c)'
  <2>1. pc[c] = "adoptSecret" /\ req' = req
    BY <1>4 DEF AdoptSecret, Abort, Return
  <2> QED
    BY <1>0, <1>1, <2>1 DEF CallsTold, Exists
<1>5. ASSUME NEW c \in Callers, Return(c, "error") \/ Return(c, "none") PROVE Told(c)'
  BY <1>0, <1>5 DEF Return, TypeOK
<1>6. ASSUME NEW c \in Callers, CreateSecret(c) PROVE Told(c)'
  <2>1. pc[c] = "createSecret" /\ (Goto(c, "createJob") \/ Return(c, "error"))
    BY <1>6 DEF CreateSecret, CreateSecretTolerating
  <2>2. CASE Goto(c, "createJob")
    BY <1>0, <1>1, <2>2 DEF Goto, TypeOK, CallsTold, Exists
  <2> QED
    BY <1>5, <2>1, <2>2
<1>7. ASSUME NEW c \in Callers, Begin(c) PROVE Told(c)'
  BY <1>0, <1>7 DEF Setting, Begin, BeginWith, RunEntry, TypeOK
<1>8. ASSUME NEW c \in Callers, Begin(c) \/ Requests(c) \/ Crash(c) \/ Abort(c)
      PROVE  CallsTold'
  <2>1. Told(c)'
    <3>1. ~DeleteJob(c) /\ ~DeleteSecret(c)
      BY DEF LibraryInv, RunsOnly, DeleteJob, DeleteJobTolerating, DeleteSecret,
         DeleteSecretTolerating
    <3>2. Abort(c) /\ pc[c] # "adoptSecret" => Return(c, "error")
      BY DEF Abort
    <3>3. Crash(c) => Return(c, "none")
      BY DEF Crash
    <3> QED
      BY <1>3, <1>4, <1>5, <1>6, <1>7, <1>8, <3>1, <3>2, <3>3 DEF Requests
  <2>2. \A d \in Callers \ {c} : Told(d)'
    BY <1>0, <1>2, <1>8, OneCallMoves
  <2> QED
    BY <2>1, <2>2 DEF CallsTold
<1>9. ASSUME UNCHANGED callerVars PROVE CallsTold'
  BY <1>2, <1>9 DEF callerVars, CallsTold
<1>10. ASSUME NEW q \in Pollers, Poll(q) \/ State(q) PROVE UNCHANGED callerVars
  BY <1>10 DEF Poll, State, GetJob, ListPods, PodLogs, vars, callerVars
<1>11. UNCHANGED allVars => UNCHANGED callerVars
  BY DEF allVars, vars, callerVars
<1> QED
  BY <1>8, <1>9, <1>10, <1>11, ApiSteps DEF PollNext, Calls

\* What a poller holds of its Job and answers is about the name it was asked for.
LEMMA PollersMove ==
  ASSUME PollTypeOK, NEW q \in Pollers
  PROVE  /\ State(q) => \A d \in Pollers :
              /\ look'[d].name = look[d].name
              /\ \/ at'[d] # "idle" \/ answer'[d].name = look[d].name
                 \/ at'[d] = at[d] /\ answer'[d] = answer[d]
         /\ Poll(q) => /\ at'[q] # "idle"
                       /\ \A d \in Pollers \ {q} : at'[d] = at[d] /\ look'[d] = look[d]
<1> USE DEF PollTypeOK
<1>0. \A d \in Pollers : look[d] \in Look
  OBVIOUS
<1> DEFINE Moved == \A d \in Pollers :
              /\ look'[d].name = look[d].name
              /\ \/ at'[d] # "idle" \/ answer'[d].name = look[d].name
                 \/ at'[d] = at[d] /\ answer'[d] = answer[d]
<1>1. ASSUME NEW phase, NEW job, NEW log, AnswerWith(q, phase, job, log) PROVE Moved
  <2>1. /\ answer'[q].name = look[q].name /\ look'[q].name = look[q].name
        /\ \A d \in Pollers \ {q} : /\ at'[d] = at[d] /\ look'[d] = look[d]
                                    /\ answer'[d] = answer[d]
    BY <1>1 DEF AnswerWith, Idle
  <2> QED
    BY <2>1
<1>2. ASSUME NEW job, at' = [at EXCEPT ![q] = "listPods"],
             look' = [look EXCEPT ![q].job = job], UNCHANGED answer
      PROVE  Moved
  BY <1>0, <1>2 DEF Look
<1>3. ASSUME NEW l, l # "idle", at' = [at EXCEPT ![q] = l] \/ at' = at, NEW rest,
             look' = [look EXCEPT ![q].rest = rest], UNCHANGED answer
      PROVE  Moved
  BY <1>0, <1>3 DEF Look
<1>4. GetJob(q) => Moved
  BY <1>1, <1>2 DEF GetJob
<1>5. ListPods(q) => Moved
  BY <1>1, <1>3 DEF ListPods
<1>6. PodLogs(q) => Moved
  <2> SUFFICES ASSUME PodLogs(q) PROVE Moved
    OBVIOUS
  <2>1. \/ \E log : AnswerWith(q, "failed", look[q].job, log)
        \/ \E rest : look' = [look EXCEPT ![q].rest = rest] /\ UNCHANGED <<at, answer>>
    BY DEF PodLogs
  <2> QED
    BY <1>1, <1>3, <2>1
<1>7. State(q) => Moved
  BY <1>4, <1>5, <1>6 DEF State
<1>8. Poll(q) => /\ at'[q] # "idle"
                 /\ \A d \in Pollers \ {q} : at'[d] = at[d] /\ look'[d] = look[d]
  BY DEF Poll
<1> QED
  BY <1>7, <1>8

BackupTold(b) ==
  LET job == jobs[BackupJobName(b)]
  IN /\ client[b] \in {"accepted", "polling"} => job.uid # 0
     /\ client[b] = "exists" => job.uid # 0 /\ job.condition = "Complete"
     /\ client[b] = "failed" => job.uid # 0 /\ job.condition = "Failed"

\* What was true of a Job stays true; a client that asks was told nothing.
LEMMA ToldKept ==
  ASSUME JobsKept, NEW b \in BackupIDs, BackupTold(b),
         client'[b] \in {client[b], "asking", "putting"}
  PROVE  BackupTold(b)'
<1>1. BackupJobName(b) \in Names
  BY NamesAssumption
<1>2. \A n \in Names : Exists(n) => Exists(n)'
  BY DEF JobsKept, OneIsNew, NoneIsNew, Exists
<1>3. jobs[BackupJobName(b)].condition \in {"Complete", "Failed"} =>
        jobs'[BackupJobName(b)].condition = jobs[BackupJobName(b)].condition
  BY <1>1 DEF JobsKept, Finished
<1> QED
  BY <1>1, <1>2, <1>3 DEF BackupTold, Exists

\* Every step keeps what the clients were told true.
LEMMA StepTold ==
  ASSUME Setting, LibraryInv, LibraryInv', JobsKept, ToldInv, [BackupNext]_backupVars
  PROVE  ToldInv'
<1> USE DEF ToldInv
<1>0. /\ \A b \in BackupIDs : BackupJobName(b) \in Names /\ BackupTold(b)
      /\ PollTypeOK /\ \A q \in Pollers : look[q].name \in Names
      /\ \A n \in Names : Exists(n) => Exists(n)'
  BY NamesAssumption DEF ToldTruth, BackupTold, LibraryInv, PollTypeOK, Look, JobsKept, OneIsNew,
     NoneIsNew, Exists
<1>1. CallsTold'
  BY CallsDispatch
<1>2. ASSUME client' \in [BackupIDs -> {"asking", "putting", "accepted", "polling",
                                         "exists", "failed"}],
             PollersTold', \A b \in BackupIDs : BackupTold(b)'
      PROVE  ToldInv'
  BY <1>1, <1>2 DEF ToldTruth, BackupTold
<1>3. ASSUME NEW q \in Pollers, State(q), waited' \cap Pollers \subseteq waited PROVE PollersTold'
  <2>1. \A d \in Pollers : /\ look'[d].name = look[d].name
              /\ \/ at'[d] # "idle" \/ answer'[d].name = look[d].name
                 \/ at'[d] = at[d] /\ answer'[d] = answer[d]
    BY <1>0, <1>3, PollersMove
  <2> QED
    BY <1>0, <1>3, <2>1 DEF PollersTold, Exists
<1>4. ASSUME UNCHANGED pollVars, waited' \cap Pollers \subseteq waited PROVE PollersTold'
  BY <1>0, <1>4 DEF PollersTold, pollVars, Exists
\* A client that begins to ask again, or does nothing, was told nothing new.
<1>5. ASSUME NEW b \in BackupIDs, NEW s \in {"asking", "putting"}, ClientGets(b, s)
      PROVE  /\ client' \in [BackupIDs -> {"asking", "putting", "accepted", "polling",
                                           "exists", "failed"}]
             /\ \A d \in BackupIDs : BackupTold(d)'
  BY <1>0, <1>5, ToldKept DEF ClientGets
<1>6. ASSUME UNCHANGED client
      PROVE  /\ client' \in [BackupIDs -> {"asking", "putting", "accepted", "polling",
                                           "exists", "failed"}]
             /\ \A d \in BackupIDs : BackupTold(d)'
  BY <1>0, <1>6, ToldKept
<1>7. ASSUME NEW b \in BackupIDs,
             NEW s \in {"accepted", "polling", "exists", "failed"}, ClientGets(b, s),
             jobs'[BackupJobName(b)].uid # 0,
             s = "exists" => jobs'[BackupJobName(b)].condition = "Complete",
             s = "failed" => jobs'[BackupJobName(b)].condition = "Failed"
      PROVE  /\ client' \in [BackupIDs -> {"asking", "putting", "accepted", "polling",
                                           "exists", "failed"}]
             /\ \A d \in BackupIDs : BackupTold(d)'
  <2>1. /\ client'[b] = s /\ \A d \in BackupIDs \ {b} : client'[d] = client[d]
        /\ client' \in [BackupIDs -> {"asking", "putting", "accepted", "polling",
                                      "exists", "failed"}]
    BY <1>7 DEF ClientGets
  <2>2. BackupTold(b)'
    BY <1>7, <2>1 DEF BackupTold
  <2>3. \A d \in BackupIDs \ {b} : BackupTold(d)'
    BY <1>0, <2>1, ToldKept
  <2> QED
    BY <2>1, <2>2, <2>3
<1>8. ASSUME NEW c \in Callers, NEW b \in BackupIDs, Put(c, b) PROVE ToldInv'
  <2>1. /\ ClientGets(b, "putting") /\ UNCHANGED pollVars
        /\ waited' \cap Pollers \subseteq waited
    BY <1>8 DEF Put, PutCalling, Setting
  <2> QED
    BY <1>2, <1>4, <1>5, <2>1
<1>9. ASSUME NEW c \in Callers, NEW b \in BackupIDs, HangUp(c, b) \/ Die(c, b) PROVE ToldInv'
  <2>1. /\ ClientGets(b, "asking") /\ UNCHANGED pollVars
        /\ waited' \cap Pollers \subseteq waited
    BY <1>9 DEF HangUp, Die, Lose, allVars, pollVars
  <2> QED
    BY <1>2, <1>4, <1>5, <2>1
<1>10. ASSUME NEW c \in Callers, NEW b \in BackupIDs, AnswerPut(c, b) PROVE ToldInv'
  <2>1. /\ UNCHANGED pollVars /\ waited' \cap Pollers \subseteq waited
        /\ req[c].name = BackupJobName(b) /\ jobs' = jobs
        /\ ClientGets(b, IF Answered202(c) THEN "accepted" ELSE "asking")
    BY <1>10 DEF AnswerPut, allVars, pollVars, vars
  <2>2. CASE Answered202(c)
    <3>1. jobs'[BackupJobName(b)].uid # 0
      BY <2>1, <2>2 DEF Answered202, CallsTold, Exists
    <3> QED
      BY <1>2, <1>4, <1>7, <2>1, <2>2, <3>1
  <2>3. CASE ~Answered202(c)
    BY <1>2, <1>4, <1>5, <2>1, <2>3
  <2> QED
    BY <2>2, <2>3
<1>11. ASSUME NEW q \in Pollers, NEW b \in BackupIDs, AskStatus(q, b) PROVE ToldInv'
  <2>1. /\ client[b] = "accepted" /\ ClientGets(b, "polling") /\ Poll(q)
        /\ look'[q].name = BackupJobName(b) /\ waited' = waited \cup {q}
        /\ jobs' = jobs /\ answer' = answer
    BY <1>11 DEF AskStatus, Poll, vars
  <2>2. jobs'[BackupJobName(b)].uid # 0
    BY <1>0, <2>1 DEF BackupTold
  <2>3. PollersTold'
    <3>1. /\ at'[q] # "idle"
          /\ \A d \in Pollers \ {q} : at'[d] = at[d] /\ look'[d] = look[d]
      BY <1>0, <2>1, PollersMove
    <3> QED
      BY <1>0, <2>1, <2>2, <3>1 DEF PollersTold, Exists
  <2> QED
    BY <1>2, <1>7, <2>1, <2>2, <2>3
<1>12. ASSUME NEW q \in Pollers, NEW b \in BackupIDs, AnswerStatus(q, b) PROVE ToldInv'
  <2> DEFINE a == answer[q]
  <2>1. /\ q \in waited /\ at[q] = "idle" /\ look[q].name = BackupJobName(b)
        /\ ClientGets(b, OutcomeOf(a)) /\ waited' = waited \ {q}
        /\ UNCHANGED pollVars /\ jobs' = jobs
    BY <1>12 DEF AnswerStatus, allVars, pollVars, vars
  <2>2. jobs'[BackupJobName(b)].uid # 0
    BY <2>1 DEF PollersTold, Exists
  <2>3. /\ OutcomeOf(a) \in {"exists", "failed", "accepted"}
        /\ OutcomeOf(a) = "exists" => a.phase = "succeeded"
        /\ OutcomeOf(a) = "failed" => a.phase = "failed"
    BY DEF OutcomeOf, BackupStatusFromJob
  <2>4. /\ a.phase = "succeeded" => jobs'[BackupJobName(b)].condition = "Complete"
        /\ a.phase = "failed" => jobs'[BackupJobName(b)].condition = "Failed"
    BY <2>1 DEF PollersTold, LibraryInv, OutcomeInv
  <2> QED
    BY <1>2, <1>4, <1>7, <2>1, <2>2, <2>3, <2>4
<1>16. ASSUME NEW q \in Pollers, NEW b \in BackupIDs, LoseStatus(q, b) PROVE ToldInv'
  <2>1. /\ q \in waited /\ look[q].name = BackupJobName(b)
        /\ ClientGets(b, "accepted") /\ waited' = waited \ {q}
        /\ UNCHANGED pollVars /\ jobs' = jobs
    BY <1>16 DEF LoseStatus, allVars, pollVars, vars
  <2>2. jobs'[BackupJobName(b)].uid # 0
    BY <2>1 DEF PollersTold, Exists
  <2> QED
    BY <1>2, <1>4, <1>7, <2>1, <2>2
<1>13. ASSUME NEW c \in Callers, Abort(c) PROVE ToldInv'
  <2>1. UNCHANGED <<pollVars, client, waited>>
    BY <1>13 DEF Abort, apiVars
  <2> QED
    BY <1>2, <1>4, <1>6, <2>1
<1>14. ASSUME Working, UNCHANGED apiVars PROVE ToldInv'
  <2>1. UNCHANGED <<client, waited>>
    BY <1>14 DEF apiVars
  <2>2. UNCHANGED pollVars \/ \E q \in Pollers : State(q)
    BY <1>14 DEF Working, pollVars
  <2> QED
    BY <1>2, <1>3, <1>4, <1>6, <2>1, <2>2
<1>15. CASE UNCHANGED backupVars
  <2>1. UNCHANGED <<pollVars, client, waited>>
    BY <1>15 DEF backupVars, allVars, apiVars, pollVars
  <2> QED
    BY <1>2, <1>4, <1>6, <2>1
<1> QED
  BY <1>8, <1>9, <1>10, <1>11, <1>12, <1>13, <1>14, <1>15, <1>16 DEF BackupNext

\* A backup that was accepted is dispatched, and a client that was told how it
\* ended was told the truth, for any number of clients, of handlers that overlap
\* or die half way, and of answers that are lost.
THEOREM ClientsToldTruth == ASSUME Setting PROVE BackupSpec => []ToldTruth
<1>1. BackupInit => ToldInv
  <2> SUFFICES ASSUME BackupInit PROVE ToldInv
    OBVIOUS
  <2>1. /\ CallsTold /\ PollersTold
        /\ client = [b \in BackupIDs |-> "asking"]
    BY DEF BackupInit, PollInit, Init, CallsTold, PollersTold, NoAnswer, Idle
  <2> QED
    BY <2>1 DEF ToldInv, ToldTruth
<1>2. LibraryInv /\ [BackupNext]_backupVars => LibraryInv' /\ JobsKept
  BY StepLibrary
<1>3. LibraryInv /\ LibraryInv' /\ JobsKept /\ ToldInv /\ [BackupNext]_backupVars => ToldInv'
  BY StepTold
<1>4. ToldInv => ToldTruth
  BY DEF ToldInv
<1> QED
  BY <1>1, <1>2, <1>3, <1>4, InitLibrary, PTL DEF BackupSpec

-----------------------------------------------------------------------------
(***************************************************************************)
(* The refinement of BackupService.                                        *)
(***************************************************************************)

\* The one request about a backup whose answer counts is the one that its client
\* waits for, so that no late answer takes back what the client was told.
WaitInv ==
  /\ \A b \in BackupIDs :
       /\ \A c \in Callers \cap waited : req[c].name = BackupJobName(b) => client[b] = "putting"
       /\ \A q \in Pollers \cap waited : look[q].name = BackupJobName(b) => client[b] = "polling"
  /\ \A c, d \in Callers \cap waited : req[c].name = req[d].name => c = d
  /\ \A q, r \in Pollers \cap waited : look[q].name = look[r].name => q = r

\* Two backups have Jobs of different names.
LEMMA NamesDiffer ==
  /\ \A b \in BackupIDs : BackupJobName(b) \in Names
  /\ \A b, d \in BackupIDs : BackupJobName(b) = BackupJobName(d) => b = d
BY NamesAssumption, BackupIDsAssumption DEF NamesApart, BackupJobName

\* What a handler does changes neither its request nor whom a client waits for.
LEMMA WaitKept ==
  ASSUME WaitInv, UNCHANGED <<client, waited>>,
         \A c \in Callers \cap waited : req'[c].name = req[c].name,
         \A q \in Pollers \cap waited : look'[q].name = look[q].name
  PROVE  WaitInv'
BY DEF WaitInv

\* A client that stops to wait for an answer waits for no other one.
LEMMA WaitEnds ==
  ASSUME WaitInv, NEW b \in BackupIDs, NEW x \in waited, NEW s, ClientGets(b, s),
         client \in [BackupIDs -> {"asking", "putting", "accepted", "polling", "exists", "failed"}],
         waited' = waited \ {x}, UNCHANGED <<req, look>>,
         \/ x \in Callers /\ req[x].name = BackupJobName(b)
         \/ x \in Pollers /\ look[x].name = BackupJobName(b)
  PROVE  WaitInv'
<1>1. \A d \in BackupIDs \ {b} : client'[d] = client[d]
  BY DEF ClientGets
<1>2. \A c \in Callers \cap waited' : req'[c].name # BackupJobName(b)
  BY DEF WaitInv
<1>3. \A q \in Pollers \cap waited' : look'[q].name # BackupJobName(b)
  BY DEF WaitInv
<1> QED
  BY <1>1, <1>2, <1>3 DEF WaitInv

\* Every step keeps a client waiting for one answer at most.
LEMMA StepWait ==
  ASSUME Setting, LibraryInv, ToldInv, WaitInv, [BackupNext]_backupVars
  PROVE  WaitInv'
<1>0. /\ TypeOK /\ PollTypeOK
      /\ client \in [BackupIDs -> {"asking", "putting", "accepted", "polling", "exists", "failed"}]
  BY DEF LibraryInv, PollTypeOK, ToldInv
<1>1. ASSUME NEW c \in Callers, NEW b \in BackupIDs, Put(c, b) PROVE WaitInv'
  <2>1. /\ client[b] = "asking" /\ c \notin waited /\ c \notin Pollers
        /\ req'[c].name = BackupJobName(b) /\ look' = look /\ waited' = waited \cup {c}
        /\ client' = [client EXCEPT ![b] = "putting"]
    BY <1>1 DEF Put, PutCalling, ClientGets, pollVars, Setting
  <2>2. BeginWith(c, Ops)
    BY <1>1 DEF Put, PutCalling, Setting
  <2>3. \A d \in Callers \ {c} : req'[d] = req[d]
    BY <1>0, <2>2, OneCallMoves DEF Begin
  <2>4. client'[b] = "putting" /\ \A d \in BackupIDs \ {b} : client'[d] = client[d]
    BY <1>0, <2>1
  <2>5. /\ \A d \in Callers \cap waited : req[d].name # BackupJobName(b)
        /\ \A q \in Pollers \cap waited : look[q].name # BackupJobName(b)
    BY <2>1 DEF WaitInv
  <2>6. /\ Pollers \cap waited' = Pollers \cap waited
        /\ Callers \cap waited' = (Callers \cap waited) \cup {c}
    BY <2>1
  <2> QED
    BY <2>1, <2>3, <2>4, <2>5, <2>6, NamesDiffer DEF WaitInv
<1>2. ASSUME NEW c \in Callers, NEW b \in BackupIDs,
             AnswerPut(c, b) \/ HangUp(c, b) \/ Die(c, b)
      PROVE  WaitInv'
  <2>1. /\ c \in waited /\ waited' = waited \ {c} /\ UNCHANGED <<req, look>>
        /\ req[c].name = BackupJobName(b) /\ \E s : ClientGets(b, s)
    BY <1>2 DEF AnswerPut, HangUp, Die, Lose, Crash, Return, allVars, vars, callerVars, pollVars
  <2> QED
    BY <1>0, <2>1, WaitEnds
<1>3. ASSUME NEW q \in Pollers, NEW b \in BackupIDs, AskStatus(q, b) PROVE WaitInv'
  <2>1. /\ client[b] = "accepted" /\ q \notin waited /\ q \notin Callers /\ Poll(q)
        /\ look'[q].name = BackupJobName(b) /\ req' = req /\ waited' = waited \cup {q}
        /\ client' = [client EXCEPT ![b] = "polling"]
    BY <1>3 DEF AskStatus, ClientGets, Poll, vars, callerVars, Setting
  <2>2. \A d \in Pollers \ {q} : look'[d] = look[d]
    BY <1>0, <2>1, PollersMove
  <2>3. client'[b] = "polling" /\ \A d \in BackupIDs \ {b} : client'[d] = client[d]
    BY <1>0, <2>1
  <2>4. /\ \A c \in Callers \cap waited : req[c].name # BackupJobName(b)
        /\ \A d \in Pollers \cap waited : look[d].name # BackupJobName(b)
    BY <2>1 DEF WaitInv
  <2>5. /\ Callers \cap waited' = Callers \cap waited
        /\ Pollers \cap waited' = (Pollers \cap waited) \cup {q}
    BY <2>1
  <2> QED
    BY <2>1, <2>2, <2>3, <2>4, <2>5, NamesDiffer DEF WaitInv
<1>4. ASSUME NEW q \in Pollers, NEW b \in BackupIDs, AnswerStatus(q, b) \/ LoseStatus(q, b)
      PROVE  WaitInv'
  <2>1. /\ q \in waited /\ waited' = waited \ {q} /\ UNCHANGED <<req, look>>
        /\ look[q].name = BackupJobName(b) /\ \E s : ClientGets(b, s)
    BY <1>4 DEF AnswerStatus, LoseStatus, allVars, vars, callerVars, pollVars
  <2> QED
    BY <1>0, <2>1, WaitEnds
<1>5. ASSUME NEW c \in Callers, Abort(c) PROVE WaitInv'
  <2>1. UNCHANGED <<client, waited, req, look>>
    BY <1>5 DEF Abort, Return, pollVars, apiVars
  <2> QED
    BY <2>1, WaitKept
<1>6. ASSUME NEW c \in Callers, Requests(c) PROVE req' = req
  BY <1>6 DEF Requests, CreateSecret, CreateSecretTolerating, CreateJob, CreateJobTolerating,
     AdoptSecret, DeleteJob, DeleteJobTolerating, DeleteSecret, DeleteSecretTolerating, Goto, Return
<1>7. ASSUME NEW q \in Pollers, State(q)
      PROVE  req' = req /\ \A d \in Pollers : look'[d].name = look[d].name
  <2>1. req' = req
    BY <1>7 DEF State, GetJob, ListPods, PodLogs, vars, callerVars
  <2> QED
    BY <1>0, <1>7, <2>1, PollersMove
<1>8. ASSUME Working, UNCHANGED apiVars PROVE WaitInv'
  <2>1. UNCHANGED <<client, waited>> /\ req' = req
        /\ \A d \in Pollers : look'[d].name = look[d].name
    BY <1>6, <1>7, <1>8 DEF Working, apiVars, pollVars, callerVars
  <2> QED
    BY <2>1, WaitKept
<1>9. CASE UNCHANGED backupVars
  <2>1. UNCHANGED <<client, waited, req, look>>
    BY <1>9 DEF backupVars, allVars, vars, callerVars, pollVars, apiVars
  <2> QED
    BY <2>1, WaitKept
<1> QED
  BY <1>1, <1>2, <1>3, <1>4, <1>5, <1>8, <1>9 DEF BackupNext

\* The abstract variables of the refinement mapping.
TakenMap == [b \in BackupIDs |-> TakenOf(b)]
ToldMap == [b \in BackupIDs |-> ToldOf(b)]

\* Service, with its variables opaque.
Promised == INSTANCE BackupService WITH taken <- TakenMap, told <- ToldMap

\* The abstract specification under the two names of its instances is one.
LEMMA SameService ==
  /\ Promised!Init <=> Service!Init
  /\ [Promised!Next]_(Promised!serviceVars) <=> [Service!Next]_(Service!serviceVars)
<1> USE DEF TakenMap, ToldMap, Promised!Outcomes, Service!Outcomes
<1>1. Promised!Init <=> Service!Init
  BY Zenon DEF Promised!Init, Service!Init
<1>2. \A b \in BackupIDs :
        /\ Promised!Take(b) <=> Service!Take(b)
        /\ Promised!Conclude(b) <=> Service!Conclude(b)
        /\ Promised!Accept(b) <=> Service!Accept(b)
        /\ Promised!Report(b) <=> Service!Report(b)
  BY Zenon DEF Promised!Take, Service!Take, Promised!Conclude, Service!Conclude, Promised!Accept,
     Service!Accept, Promised!Report, Service!Report, Promised!Becomes, Service!Becomes
<1>3. Promised!Next <=> Service!Next
  BY <1>2, Zenon DEF Promised!Next, Service!Next
<1>4. UNCHANGED Promised!serviceVars <=> UNCHANGED Service!serviceVars
  BY Zenon DEF Promised!serviceVars, Service!serviceVars
<1> QED
  BY <1>1, <1>3, <1>4

\* What a backup has become, by the state of its Job.
LEMMA TakenCases ==
  ASSUME NEW b \in BackupIDs
  PROVE  LET job == jobs[BackupJobName(b)]
         IN /\ job.uid = 0 => TakenMap[b] = "no"
            /\ job.uid # 0 /\ job.condition = "None" => TakenMap[b] = "running"
            /\ job.uid # 0 /\ job.condition = "Complete" => TakenMap[b] = "exists"
            /\ job.uid # 0 /\ job.condition = "Failed" => TakenMap[b] = "failed"
BY DEF TakenMap, TakenOf

\* What its client knows, by what the client does next.
LEMMA ToldCases ==
  ASSUME NEW b \in BackupIDs
  PROVE  /\ client[b] \in {"asking", "putting"} => ToldMap[b] = "nothing"
         /\ client[b] \in {"accepted", "polling"} => ToldMap[b] = "accepted"
         /\ client[b] \in {"exists", "failed"} => ToldMap[b] = client[b]
BY DEF ToldMap, ToldOf

\* What became of the backups changes with the Jobs only, for one backup at a
\* time, and never back.
LEMMA TakenMoves ==
  ASSUME TypeOK, TypeOK', JobsKept
  PROVE  \/ TakenMap' = TakenMap
         \/ \E b \in BackupIDs, x \in {"no", "running"} :
              \E y \in IF x = "no" THEN {"running"} ELSE {"exists", "failed"} :
                 TakenMap[b] = x /\ TakenMap' = [TakenMap EXCEPT ![b] = y]
<1>0. /\ \A n \in Names : jobs[n].condition \in {"None", "Complete", "Failed"}
      /\ \A n \in Names : jobs'[n].condition \in {"None", "Complete", "Failed"}
  BY DEF TypeOK, ClusterTypeOK, Job
<1>1. CASE UNCHANGED jobs
  BY <1>1 DEF TakenMap, TakenOf
<1>2. ASSUME NEW n \in Names, \A m \in Names \ {n} : jobs'[m] = jobs[m],
             \/ ~Exists(n) /\ jobs'[n].uid # 0 /\ jobs'[n].condition = "None"
             \/ Exists(n) /\ ~Finished(n) /\ jobs'[n].uid = jobs[n].uid
      PROVE  \E b \in BackupIDs :
               \/ TakenMap[b] = "no" /\ TakenMap' = [TakenMap EXCEPT ![b] = "running"]
               \/ /\ TakenMap[b] = "running"
                  /\ \E y \in {"running", "exists", "failed"} :
                       TakenMap' = [TakenMap EXCEPT ![b] = y]
  <2>1. PICK b \in BackupIDs : n = BackupJobName(b)
    BY NamesAssumption
  <2>2. \A d \in BackupIDs \ {b} : TakenOf(d)' = TakenOf(d)
    <3> SUFFICES ASSUME NEW d \in BackupIDs \ {b} PROVE TakenOf(d)' = TakenOf(d)
      OBVIOUS
    <3>1. BackupJobName(d) \in Names \ {n}
      BY <2>1, NamesDiffer
    <3>2. jobs'[BackupJobName(d)] = jobs[BackupJobName(d)]
      BY <1>2, <3>1
    <3> QED
      BY <3>2 DEF TakenOf
  <2>3. TakenMap' = [TakenMap EXCEPT ![b] = TakenOf(b)']
    BY <2>2 DEF TakenMap
  <2>4. TakenMap[b] = TakenOf(b) /\ n \in Names
    BY DEF TakenMap
  <2>5. /\ jobs'[n].uid # 0 /\ jobs'[n].condition = "None" => TakenOf(b)' = "running"
        /\ jobs'[n].uid # 0 => TakenOf(b)' \in {"running", "exists", "failed"}
    BY <1>0, <2>1 DEF TakenOf
  <2>6. CASE ~Exists(n) /\ jobs'[n].uid # 0 /\ jobs'[n].condition = "None"
    BY <2>1, <2>3, <2>5, <2>6, TakenCases DEF Exists
  <2>7. CASE Exists(n) /\ ~Finished(n) /\ jobs'[n].uid = jobs[n].uid
    BY <2>1, <2>3, <2>5, <2>7, TakenCases DEF Exists, Finished
  <2> QED
    BY <1>2, <2>6, <2>7
<1>3. ASSUME NEW b \in BackupIDs, TakenMap[b] = "running",
             TakenMap' = [TakenMap EXCEPT ![b] = "running"]
      PROVE  TakenMap' = TakenMap
  BY <1>3 DEF TakenMap
<1> QED
  BY <1>1, <1>2, <1>3 DEF JobsKept, OneJobMoves

\* What a client learns is about its own backup.
LEMMA ToldMoves ==
  ASSUME client \in [BackupIDs -> {"asking", "putting", "accepted", "polling", "exists", "failed"}],
         NEW b \in BackupIDs, NEW s, ClientGets(b, s)
  PROVE  /\ ToldMap' = [ToldMap EXCEPT ![b] = ToldOf(b)'] /\ ToldMap[b] = ToldOf(b)
         /\ client'[b] = s
         /\ ToldOf(b)' = ToldOf(b) => ToldMap' = ToldMap
<1>1. client'[b] = s /\ \A d \in BackupIDs \ {b} : client'[d] = client[d]
  BY DEF ClientGets
<1>2. \A d \in BackupIDs \ {b} : ToldOf(d)' = ToldOf(d)
  BY <1>1 DEF ToldOf
<1> QED
  BY <1>1, <1>2 DEF ToldMap

\* Every step of the routes is a step that BackupService allows, or none.
LEMMA StepPromised ==
  ASSUME Setting, LibraryInv, LibraryInv', JobsKept, ToldInv, WaitInv, [BackupNext]_backupVars
  PROVE  [Promised!Next]_(Promised!serviceVars)
<1> USE DEF Promised!Outcomes
<1>0. /\ TypeOK /\ TypeOK'
      /\ client \in [BackupIDs -> {"asking", "putting", "accepted", "polling", "exists", "failed"}]
  BY DEF LibraryInv, PollTypeOK, ToldInv
<1>1. ASSUME TakenMap' = TakenMap, ToldMap' = ToldMap PROVE UNCHANGED Promised!serviceVars
  BY <1>1 DEF Promised!serviceVars
<1>2. ASSUME UNCHANGED jobs PROVE TakenMap' = TakenMap
  BY <1>2 DEF TakenMap, TakenOf
<1>3. ASSUME UNCHANGED client PROVE [Promised!Next]_(Promised!serviceVars)
  <2>1. ToldMap' = ToldMap
    BY <1>3 DEF ToldMap, ToldOf
  <2>2. ASSUME NEW b \in BackupIDs, TakenMap[b] = "no",
               TakenMap' = [TakenMap EXCEPT ![b] = "running"]
        PROVE  Promised!Next
    BY <2>1, <2>2 DEF Promised!Next, Promised!Take, Promised!Becomes
  <2>3. ASSUME NEW b \in BackupIDs, TakenMap[b] = "running", NEW y \in {"exists", "failed"},
               TakenMap' = [TakenMap EXCEPT ![b] = y]
        PROVE  Promised!Next
    BY <2>1, <2>3 DEF Promised!Next, Promised!Conclude, Promised!Becomes
  <2> QED
    BY <1>0, <1>1, <2>1, <2>2, <2>3, TakenMoves
\* A client that goes on to what it knew already.
<1>4. ASSUME NEW b \in BackupIDs, NEW s, ClientGets(b, s), UNCHANGED jobs,
             \/ client[b] \in {"asking", "putting"} /\ s \in {"asking", "putting"}
             \/ client[b] \in {"accepted", "polling"} /\ s \in {"accepted", "polling"}
      PROVE  [Promised!Next]_(Promised!serviceVars)
  <2>1. client'[b] = s
    BY <1>0, <1>4, ToldMoves
  <2>2. ToldOf(b)' = ToldOf(b)
    BY <1>4, <2>1 DEF ToldOf
  <2> QED
    BY <1>0, <1>1, <1>2, <1>4, <2>2, ToldMoves
<1>5. ASSUME NEW c \in Callers, NEW b \in BackupIDs, Put(c, b)
      PROVE  [Promised!Next]_(Promised!serviceVars)
  <2>1. client[b] = "asking" /\ ClientGets(b, "putting") /\ UNCHANGED jobs
    BY <1>5 DEF Put, PutCalling, BeginWith, clusterVars
  <2> QED
    BY <1>4, <2>1
<1>6. ASSUME NEW c \in Callers, NEW b \in BackupIDs, HangUp(c, b) \/ Die(c, b)
      PROVE  [Promised!Next]_(Promised!serviceVars)
  <2>1. /\ c \in waited /\ req[c].name = BackupJobName(b) /\ ClientGets(b, "asking")
        /\ UNCHANGED jobs
    BY <1>6 DEF HangUp, Die, Lose, Crash, allVars, vars, clusterVars
  <2>2. client[b] = "putting"
    BY <2>1 DEF WaitInv
  <2> QED
    BY <1>4, <2>1, <2>2
<1>7. ASSUME NEW c \in Callers, NEW b \in BackupIDs, AnswerPut(c, b)
      PROVE  [Promised!Next]_(Promised!serviceVars)
  <2>1. /\ c \in waited /\ req[c].name = BackupJobName(b) /\ UNCHANGED jobs
        /\ ClientGets(b, IF Answered202(c) THEN "accepted" ELSE "asking")
    BY <1>7 DEF AnswerPut, allVars, vars, clusterVars
  <2>2. client[b] = "putting"
    BY <2>1 DEF WaitInv
  <2>3. CASE ~Answered202(c)
    BY <1>4, <2>1, <2>2, <2>3
  <2>4. CASE Answered202(c)
    <3>1. ToldMap[b] = "nothing" /\ ClientGets(b, "accepted")
      BY <2>1, <2>2, <2>4, ToldCases
    <3>2. ToldMap' = [ToldMap EXCEPT ![b] = ToldOf(b)'] /\ client'[b] = "accepted"
      BY <1>0, <3>1, ToldMoves
    <3>3. ToldOf(b)' = "accepted"
      BY <3>2 DEF ToldOf
    <3>4. jobs[BackupJobName(b)].uid # 0 /\ BackupJobName(b) \in Names
      BY <2>1, <2>4, NamesDiffer DEF Answered202, ToldInv, CallsTold, Exists
    <3>5. TakenMap[b] # "no"
      BY <1>0, <3>4, TakenCases DEF TypeOK, ClusterTypeOK, Job
    <3>6. Promised!Accept(b)
      BY <1>2, <2>1, <3>1, <3>2, <3>3, <3>5 DEF Promised!Accept
    <3> QED
      BY <3>6 DEF Promised!Next
  <2> QED
    BY <2>3, <2>4
<1>8. ASSUME NEW q \in Pollers, NEW b \in BackupIDs, AskStatus(q, b)
      PROVE  [Promised!Next]_(Promised!serviceVars)
  <2>1. client[b] = "accepted" /\ ClientGets(b, "polling") /\ UNCHANGED jobs
    BY <1>8 DEF AskStatus, Poll, vars, clusterVars
  <2> QED
    BY <1>4, <2>1
<1>9. ASSUME NEW q \in Pollers, NEW b \in BackupIDs, AnswerStatus(q, b)
      PROVE  [Promised!Next]_(Promised!serviceVars)
  <2> DEFINE a == answer[q]
  <2>1. /\ q \in waited /\ at[q] = "idle" /\ look[q].name = BackupJobName(b)
        /\ ClientGets(b, OutcomeOf(a)) /\ UNCHANGED jobs
    BY <1>9 DEF AnswerStatus, allVars, vars, clusterVars
  <2>2. client[b] = "polling"
    BY <2>1 DEF WaitInv
  <2>3. CASE OutcomeOf(a) = "accepted"
    BY <1>4, <2>1, <2>2, <2>3
  <2>4. ASSUME NEW s \in {"exists", "failed"}, OutcomeOf(a) = s
        PROVE  [Promised!Next]_(Promised!serviceVars)
    <3>1. jobs[BackupJobName(b)].uid # 0
      BY <2>1 DEF ToldInv, PollersTold, Exists
    <3>2. /\ s = "exists" => a.phase = "succeeded"
          /\ s = "failed" => a.phase = "failed"
      BY <2>4 DEF OutcomeOf, BackupStatusFromJob
    <3>3. /\ s = "exists" => jobs[BackupJobName(b)].condition = "Complete"
          /\ s = "failed" => jobs[BackupJobName(b)].condition = "Failed"
      BY <2>1, <3>2 DEF ToldInv, PollersTold, LibraryInv, OutcomeInv
    <3>4. TakenMap[b] = s /\ ToldMap[b] = "accepted"
      BY <2>2, <3>1, <3>3, TakenCases, ToldCases
    <3>5. ToldMap' = [ToldMap EXCEPT ![b] = ToldOf(b)'] /\ client'[b] = s
      BY <1>0, <2>1, <2>4, ToldMoves
    <3>6. ToldOf(b)' = s
      BY <3>5 DEF ToldOf
    <3>7. Promised!Report(b)
      BY <1>2, <2>1, <3>4, <3>5, <3>6 DEF Promised!Report
    <3> QED
      BY <3>7 DEF Promised!Next
  <2> QED
    BY <2>3, <2>4 DEF OutcomeOf
<1>12. ASSUME NEW q \in Pollers, NEW b \in BackupIDs, LoseStatus(q, b)
      PROVE  [Promised!Next]_(Promised!serviceVars)
  <2>1. /\ q \in waited /\ look[q].name = BackupJobName(b)
        /\ ClientGets(b, "accepted") /\ UNCHANGED jobs
    BY <1>12 DEF LoseStatus, allVars, vars, clusterVars
  <2>2. client[b] = "polling"
    BY <2>1 DEF WaitInv
  <2> QED
    BY <1>4, <2>1, <2>2
<1>10. ASSUME NEW c \in Callers, Abort(c) PROVE UNCHANGED client
  BY <1>10 DEF Abort, apiVars
<1>11. UNCHANGED apiVars \/ UNCHANGED backupVars => UNCHANGED client
  BY DEF apiVars, backupVars
<1> QED
  BY <1>3, <1>5, <1>6, <1>7, <1>8, <1>9, <1>10, <1>11, <1>12 DEF BackupNext

\* Whatever requests, answers and handlers are lost, repeated or late, the routes
\* on top of JobRunner keep the promise of BackupService: every backup is begun
\* once at most and ends once, it is accepted only when it was begun, and nothing
\* that its client was told is ever taken back.
THEOREM RoutesKeepPromise == ASSUME Setting PROVE BackupSpec => KeepsPromise
<1>1. BackupInit => Promised!Init /\ ToldInv /\ WaitInv
  <2> SUFFICES ASSUME BackupInit PROVE Promised!Init /\ ToldInv /\ WaitInv
    OBVIOUS
  <2>1. /\ client = [b \in BackupIDs |-> "asking"] /\ waited = {}
        /\ \A n \in Names : jobs[n].uid = 0
        /\ CallsTold /\ PollersTold
    BY DEF BackupInit, PollInit, Init, ClusterInit, NoJob, FreshJob, CallsTold, PollersTold,
       NoAnswer, Idle
  <2>2. \A b \in BackupIDs : TakenOf(b) = "no" /\ ToldOf(b) = "nothing"
    BY <2>1, NamesDiffer DEF TakenOf, ToldOf
  <2>3. Promised!Init
    BY <2>2 DEF Promised!Init, TakenMap, ToldMap
  <2> QED
    BY <2>1, <2>3 DEF ToldInv, ToldTruth, WaitInv
<1>2. LibraryInv /\ [BackupNext]_backupVars => LibraryInv' /\ JobsKept
  BY StepLibrary
<1>3. LibraryInv /\ LibraryInv' /\ JobsKept /\ ToldInv /\ [BackupNext]_backupVars => ToldInv'
  BY StepTold
<1>4. LibraryInv /\ ToldInv /\ WaitInv /\ [BackupNext]_backupVars => WaitInv'
  BY StepWait
<1>5. LibraryInv /\ LibraryInv' /\ JobsKept /\ ToldInv /\ WaitInv /\ [BackupNext]_backupVars
        => [Promised!Next]_(Promised!serviceVars)
  BY StepPromised
<1> QED
  BY <1>1, <1>2, <1>3, <1>4, <1>5, InitLibrary, SameService, PTL
     DEF BackupSpec, KeepsPromise, Service!Spec
=============================================================================
