------------------------------ MODULE BackupApi ------------------------------
(***************************************************************************)
(* The backup routes of provider/routes.go on top of a JobRunner: what a   *)
(* client gets that asks for a backup until it is accepted and then polls  *)
(* its status.  Every request is handled by a goroutine of its own, which  *)
(* may outlive the interest of its client.                                 *)
(*                                                                         *)
(* The provider in between is external and does what the worked example in *)
(* provider/servicejob_usage_test.go does: Run and State of the backup's   *)
(* Job.  The client is external too.                                       *)
(***************************************************************************)
EXTENDS JobPolling, ServiceJobs

CONSTANTS
  BackupIDs,  \* the backups that are asked for
  MaxLosses   \* bound: answers that are lost on the way to the client

ASSUME BackupIDsAssumption == IsFiniteSet(BackupIDs) /\ NamesApart({JobOpBackup}, BackupIDs)
ASSUME NamesAssumption == Names = {BackupJobName(b) : b \in BackupIDs}
ASSUME MaxLossesAssumption == MaxLosses \in Nat

VARIABLES
  client,  \* what the client of a backup does next, or waits for, or learnt
  waited,  \* the callers (PUT) and pollers (status) whose answer a client waits for
  losses   \* answers lost so far

apiVars == <<client, waited, losses>>
backupVars == <<allVars, apiVars>>

BackupInit ==
  /\ PollInit
  /\ client = [b \in BackupIDs |-> "asking"]
  /\ waited = {}
  /\ losses = 0

ClientGets(b, s) == client' = [client EXCEPT ![b] = s]

-----------------------------------------------------------------------------
(***************************************************************************)
(* PUT /backups/:id                                                        *)
(***************************************************************************)

\* parseBackup lets no request without a secret key pass.
PutCalling(c, b, op) ==
  /\ client[b] = "asking" /\ c \notin waited
  /\ BeginWith(c, {op}) /\ req'[c].name = BackupJobName(b)
  /\ req'[c].creds # NoCreds
  /\ ClientGets(b, "putting")
  /\ waited' = waited \cup {c}
  /\ UNCHANGED <<pollVars, losses>>

\* Bug: a repeated request is taken for a retry of a failed Job.
PutReplacing(c, b) == PutCalling(c, b, "replace")

Put(c, b) == PutCalling(c, b, "run")

Answered202(c) == ret[c] = "nil"

\* 202, or the status of HandleError, on which the client asks again.
AnswerPut(c, b) ==
  /\ c \in waited /\ pc[c] = "idle" /\ req[c].name = BackupJobName(b)
  /\ ClientGets(b, IF Answered202(c) THEN "accepted" ELSE "asking")
  /\ waited' = waited \ {c}
  /\ UNCHANGED <<allVars, losses>>

Lose(c, b) ==
  /\ c \in waited /\ req[c].name = BackupJobName(b)
  /\ losses < MaxLosses /\ losses' = losses + 1
  /\ waited' = waited \ {c}
  /\ ClientGets(b, "asking")

\* The client gives up, or the write timeout drops the answer: the handler does
\* not stop for that.
HangUp(c, b) == Lose(c, b) /\ UNCHANGED allVars

\* A client that went away cancels the context of its request: the next call
\* fails, also the best-effort one.
Abort(c) ==
  /\ c \notin waited /\ pc[c] # "idle"
  /\ Return(c, IF pc[c] = "adoptSecret" THEN "nil" ELSE "error")
  /\ UNCHANGED <<clusterVars, pollVars, apiVars>>

\* The process dies while it handles the request.
Die(c, b) == Lose(c, b) /\ Crash(c) /\ UNCHANGED pollVars

-----------------------------------------------------------------------------
(***************************************************************************)
(* POST /backups/:id/status                                                *)
(***************************************************************************)

AskStatus(q, b) ==
  /\ client[b] = "accepted" /\ q \notin waited
  /\ Poll(q) /\ look'[q].name = BackupJobName(b)
  /\ ClientGets(b, "polling")
  /\ waited' = waited \cup {q}
  /\ UNCHANGED losses

\* What a client takes from a status; a failure always has an error text.
OutcomeOf(a) == IF BackupStatusFromJob(a).exists THEN "exists"
                ELSE IF a.phase = "failed" THEN "failed" ELSE "accepted"

AnswerStatus(q, b) ==
  /\ q \in waited /\ at[q] = "idle" /\ look[q].name = BackupJobName(b)
  /\ ClientGets(b, OutcomeOf(answer[q]))
  /\ waited' = waited \ {q}
  /\ UNCHANGED <<allVars, losses>>

\* The answer is lost, or the client does not wait for it, and it asks again.
LoseStatus(q, b) ==
  /\ q \in waited /\ look[q].name = BackupJobName(b)
  /\ losses < MaxLosses /\ losses' = losses + 1
  /\ waited' = waited \ {q}
  /\ ClientGets(b, "accepted")
  /\ UNCHANGED allVars

-----------------------------------------------------------------------------
Working == \/ \E c \in Callers : Requests(c) /\ UNCHANGED pollVars
           \/ \E q \in Pollers : State(q)
           \/ Controllers /\ UNCHANGED <<callerVars, pollVars>>

BackupNext ==
  \/ \E b \in BackupIDs :
       \/ \E c \in Callers : Put(c, b) \/ AnswerPut(c, b) \/ HangUp(c, b) \/ Die(c, b)
       \/ \E q \in Pollers : AskStatus(q, b) \/ AnswerStatus(q, b) \/ LoseStatus(q, b)
  \/ \E c \in Callers : Abort(c)
  \/ Working /\ UNCHANGED apiVars

\* Clients and handlers go on; a request that is made again and again is not
\* refused for ever, and the deadline of a Job runs out.  Pods may hang.
BackupFairness ==
  /\ \A b \in BackupIDs :
       /\ WF_backupVars(\E c \in Callers : Put(c, b) \/ AnswerPut(c, b))
       /\ WF_backupVars(\E q \in Pollers : AskStatus(q, b) \/ AnswerStatus(q, b))
  /\ \A c \in Callers :
       /\ WF_backupVars(Requests(c) /\ UNCHANGED <<pollVars, apiVars>>)
       /\ SF_backupVars(/\ CreateSecret(c) /\ pc'[c] = "createJob"
                        /\ UNCHANGED <<pollVars, apiVars>>)
       /\ SF_backupVars(/\ CreateJob(c) /\ ret'[c] # "error"
                        /\ UNCHANGED <<pollVars, apiVars>>)
  /\ \A q \in Pollers :
       /\ WF_backupVars(State(q) /\ UNCHANGED apiVars)
       /\ SF_backupVars(/\ GetJob(q) /\ (at'[q] = "idle" => answer'[q].phase # "error")
                        /\ UNCHANGED apiVars)
  /\ \A n \in Names :
       WF_backupVars(MissDeadline(n) /\ UNCHANGED <<callerVars, pollVars, apiVars>>)

BackupSpec == BackupInit /\ [][BackupNext]_backupVars /\ BackupFairness

-----------------------------------------------------------------------------
\* However often a client asks, because an answer was lost, a handler failed half
\* way or two handlers of one request overlap, a backup is taken once: no Job is
\* dispatched beside the one that is there, or after one that was there.
TakenOnce == uids = Cardinality({b \in BackupIDs : Exists(BackupJobName(b))})

\* A backup that was accepted is dispatched, and what the client was told of it
\* is what became of that Job.
ToldTruth ==
  \A b \in BackupIDs :
    LET job == jobs[BackupJobName(b)]
    IN /\ client[b] \in {"accepted", "polling"} => job.uid # 0
       /\ client[b] = "exists" => job.uid # 0 /\ job.condition = "Complete"
       /\ client[b] = "failed" => job.uid # 0 /\ job.condition = "Failed"

(***************************************************************************)
(* Refinement: over lost answers, repeated requests and handlers that      *)
(* overlap, are abandoned or die, the routes keep the promise of           *)
(* BackupService.                                                          *)
(***************************************************************************)

TakenOf(b) == LET job == jobs[BackupJobName(b)]
              IN IF job.uid = 0 THEN "no"
                 ELSE CASE job.condition = "None" -> "running"
                        [] job.condition = "Complete" -> "exists"
                        [] job.condition = "Failed" -> "failed"

ToldOf(b) == CASE client[b] \in {"asking", "putting"} -> "nothing"
               [] client[b] \in {"accepted", "polling"} -> "accepted"
               [] client[b] \in {"exists", "failed"} -> client[b]

Service == INSTANCE BackupService WITH
  taken <- [b \in BackupIDs |-> TakenOf(b)],
  told <- [b \in BackupIDs |-> ToldOf(b)]

\* A backup is begun once and ends once; what a client was told is never taken
\* back, neither an acceptance by a request of the same client that was lost on
\* the way nor an outcome by a dispatch that came late.
KeepsPromise == Service!Spec

\* A client that asks for a backup learns how it ended, whatever answers and
\* requests are lost on the way and although pods may hang for ever.
BackupConcludes ==
  \A b \in BackupIDs : client[b] = "asking" ~> client[b] \in {"exists", "failed"}
=============================================================================
