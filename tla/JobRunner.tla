------------------------------ MODULE JobRunner ------------------------------
(***************************************************************************)
(* JobRunner of client/jobrunner.go: Run, Delete and Replace, as calls of  *)
(* several callers against one namespace.  Every request to the API server *)
(* is a step of its own, so that other callers and the controllers of the  *)
(* cluster act between any two requests of one call.                       *)
(***************************************************************************)
EXTENDS Cluster, FiniteSets

CONSTANTS
  Callers,    \* goroutines or replicas that use a JobRunner
  Ops,        \* the operations they call
  Exclusive,  \* whether callers take turns on a name
  MaxJobs     \* bound: no dispatch begins once this many Jobs were created

ASSUME OpsAssumption == Ops \subseteq {"run", "delete", "replace"}
ASSUME ExclusiveAssumption == Exclusive \in BOOLEAN
ASSUME MaxJobsAssumption == MaxJobs \in Nat

VARIABLES
  pc,   \* the request a caller makes next, "idle" outside a call
  req,  \* the operation called last and its arguments
  uid,  \* created.GetUID() of the running call
  ret   \* what the last call returned, "none" while it runs or if it died

callerVars == <<pc, req, uid, ret>>
vars == <<jobs, secrets, pods, uids, pc, req, uid, ret>>

Request == [op : {"run", "delete", "replace"}, name : Names,
            creds : Creds \cup {NoCreds}]

TypeOK ==
  /\ ClusterTypeOK
  /\ pc \in [Callers -> {"idle", "deleteJob", "deleteSecret",
                         "createSecret", "createJob", "adoptSecret"}]
  /\ req \in [Callers -> Request]
  /\ uid \in [Callers -> Nat]
  /\ ret \in [Callers -> {"none", "nil", "error"}]

Init ==
  /\ ClusterInit
  /\ pc = [c \in Callers |-> "idle"]
  /\ req \in [Callers -> {r \in Request : r.op = "delete" /\ r.creds = NoCreds}]
  /\ uid = [c \in Callers |-> 0]
  /\ ret = [c \in Callers |-> "none"]

-----------------------------------------------------------------------------
Goto(c, l) == pc' = [pc EXCEPT ![c] = l] /\ UNCHANGED <<req, uid, ret>>

Return(c, r) ==
  /\ pc' = [pc EXCEPT ![c] = "idle"]
  /\ uid' = [uid EXCEPT ![c] = 0]
  /\ ret' = [ret EXCEPT ![c] = r]
  /\ UNCHANGED req

\* Run starts with the Secret only if there are credentials to store.
RunEntry(cr) == IF cr = NoCreds THEN "createJob" ELSE "createSecret"

Busy(n) == \E c \in Callers : pc[c] # "idle" /\ req[c].name = n

\* Delete and Replace begin with the deletion.
BeginWith(c, ops) ==
  /\ pc[c] = "idle"
  /\ \E r \in Request :
       /\ r.op \in ops
       /\ r.op = "delete" => r.creds = NoCreds
       /\ r.op # "delete" => uids < MaxJobs
       /\ Exclusive => ~Busy(r.name)
       /\ req' = [req EXCEPT ![c] = r]
       /\ pc' = [pc EXCEPT ![c] = IF r.op = "run" THEN RunEntry(r.creds)
                                                ELSE "deleteJob"]
  /\ ret' = [ret EXCEPT ![c] = "none"]
  /\ UNCHANGED <<clusterVars, uid>>

Begin(c) == BeginWith(c, Ops)

Errors == {"ErrResourceNotFound", "ErrResourceConflict", "ErrResourceInvalid",
           "ErrKubernetesRequestFailed"}

\* Run goes on to the Job after the errors it tolerates.
CreateSecretTolerating(c, tolerated) ==
  /\ pc[c] = "createSecret"
  /\ \E reason \in Reasons :
       /\ ApiCreateSecret(req[c].name, req[c].creds, reason)
       /\ IF WrapK8sError(reason) \in {"nil"} \cup tolerated
          THEN Goto(c, "createJob") ELSE Return(c, "error")

\* Bug: no error of the first request stops Run.
CreateSecretUnchecked(c) == CreateSecretTolerating(c, Errors)

\* Run: an existing Secret of the name is taken as it is.
CreateSecret(c) == CreateSecretTolerating(c, {"ErrResourceConflict"})

CreateJobTolerating(c, tolerated) ==
  /\ pc[c] = "createJob"
  /\ \E reason \in Reasons :
       /\ ApiCreateJob(req[c].name, req[c].creds, reason)
       /\ CASE WrapK8sError(reason) = "nil" /\ req[c].creds # NoCreds ->
                 /\ pc' = [pc EXCEPT ![c] = "adoptSecret"]
                 /\ uid' = [uid EXCEPT ![c] = jobs'[req[c].name].uid]
                 /\ UNCHANGED <<req, ret>>
            [] WrapK8sError(reason) = "nil" /\ req[c].creds = NoCreds ->
                 Return(c, "nil")
            [] WrapK8sError(reason) \in tolerated -> Return(c, "nil")
            [] OTHER -> Return(c, "error")

\* Bug: Run reports success whatever the create answered.
CreateJobUnchecked(c) == CreateJobTolerating(c, Errors)

\* Run: on a conflict the call is a no-op, only a created Job adopts.
CreateJob(c) == CreateJobTolerating(c, {"ErrResourceConflict"})

\* Bug: the error of the patch becomes the result of Run, and as it came.
AdoptUnwrapped(c) ==
  /\ pc[c] = "adoptSecret"
  /\ \E reason \in Reasons :
       /\ ApiPatchOwner(req[c].name, uid[c], reason)
       /\ Return(c, WrapK8sError(reason))

\* adoptSecret: whatever the patch answers, Run succeeds.
AdoptSecret(c) ==
  /\ pc[c] = "adoptSecret"
  /\ \E reason \in Reasons : ApiPatchOwner(req[c].name, uid[c], reason)
  /\ Return(c, "nil")

DeleteJobTolerating(c, tolerated) ==
  /\ pc[c] = "deleteJob"
  /\ \E reason \in Reasons :
       /\ ApiDeleteJob(req[c].name, reason)
       /\ IF WrapK8sError(reason) \in {"nil"} \cup tolerated
          THEN Goto(c, "deleteSecret") ELSE Return(c, "error")

\* Bugs: no error stops Delete; a Job that is gone already is an error.
DeleteJobUnchecked(c) == DeleteJobTolerating(c, Errors)
DeleteJobStrict(c) == DeleteJobTolerating(c, {})

DeleteJob(c) == DeleteJobTolerating(c, {"ErrResourceNotFound"})

\* Replace goes on with Run where Delete returns.
DeleteSecretTolerating(c, tolerated) ==
  /\ pc[c] = "deleteSecret"
  /\ \E reason \in Reasons :
       /\ ApiDeleteSecret(req[c].name, reason)
       /\ IF WrapK8sError(reason) \notin {"nil"} \cup tolerated
          THEN Return(c, "error")
          ELSE IF req[c].op = "replace" THEN Goto(c, RunEntry(req[c].creds))
                                        ELSE Return(c, "nil")

\* Bug: no error of the second request stops Delete.
DeleteSecretUnchecked(c) == DeleteSecretTolerating(c, Errors)

DeleteSecret(c) == DeleteSecretTolerating(c, {"ErrResourceNotFound"})

\* The caller's process dies between two requests.
Crash(c) == pc[c] # "idle" /\ Return(c, "none") /\ UNCHANGED clusterVars

Requests(c) ==
  CreateSecret(c) \/ CreateJob(c) \/ AdoptSecret(c) \/ DeleteJob(c) \/ DeleteSecret(c)

Next ==
  \/ \E c \in Callers : Begin(c) \/ Requests(c) \/ Crash(c)
  \/ Controllers /\ UNCHANGED callerVars

Spec == Init /\ [][Next]_vars

\* The controllers of the cluster keep working: deadlines and TTLs run out,
\* deleted Jobs go and ownerless dependents are collected.  Nothing is assumed
\* of the callers: a call may never be made, continued or finished.
Fairness ==
  \A n \in Names :
    /\ WF_vars(MissDeadline(n) /\ UNCHANGED callerVars)
    /\ WF_vars(Expire(n) /\ UNCHANGED callerVars)
    /\ WF_vars(RemoveJob(n) /\ UNCHANGED callerVars)
    /\ WF_vars(CollectSecret(n) /\ UNCHANGED callerVars)

FairSpec == Spec /\ Fairness

-----------------------------------------------------------------------------
(***************************************************************************)
(* Safety.                                                                 *)
(***************************************************************************)

Returns(c, r) == pc[c] # "idle" /\ pc'[c] = "idle" /\ ret'[c] = r

\* A Job that was dispatched with credentials never lacks the Secret it reads
\* them from (Run: "created first, so the pod never starts without it").  This is
\* so with callers of Run while no TTL runs out, and not beyond: a Secret that Run
\* finds may be about to go with the Job that it belonged to.
CredentialsPresent ==
  \A n \in Names : Live(n) /\ jobs[n].creds # NoCreds => HasSecret(n)

\* The Secret a Job refers to holds the credentials of the very dispatch that
\* created the Job, not those of an earlier one that Replace or Delete removed.
CredentialsCurrent ==
  \A n \in Names :
    Live(n) /\ jobs[n].creds # NoCreds => secrets[n].creds = jobs[n].creds

\* What a container of a Job was given is what its dispatch asked for; a pod
\* starts later than the calls that prepared its Secret, and may be a retry.
EnvironmentCurrent ==
  \A p \in pods :
    Live(p.name) /\ p.uid = jobs[p.name].uid /\ p.phase # "Waiting"
      => p.env = jobs[p.name].creds

\* The work of a name is never done twice at the same time: however often Run is
\* called for it, one container at most is about to run or running (JobSpec: "a
\* no-op rather than a duplicate").  Replace does not keep this: the pods of the
\* Job it deletes go later than the Job, or never if they are orphaned.
OneAttemptAtATime ==
  \A p, r \in pods :
    {p.phase, r.phase} \subseteq {"Waiting", "Running"} /\ p.name = r.name => p = r

\* The owner reference that Run patches onto a Secret names the Job that is
\* there, so that the garbage collector spares the Secret as long as the Job.
OwnerIsCurrent ==
  \A n \in Names :
    Live(n) /\ jobs[n].creds # NoCreds => secrets[n].owner \in {0, jobs[n].uid}

\* What makes the three invariants above hold, while callers take turns on a
\* name and use Replace and Delete only: what a call may rely on at each of its
\* requests, whatever the controllers did since the last one.
TurnsTaken ==
  \A c, d \in Callers :
    pc[c] # "idle" /\ pc[d] # "idle" /\ req[c].name = req[d].name => c = d

Cleared ==
  \A c \in Callers :
    /\ pc[c] \in {"deleteSecret", "createSecret", "createJob"} => ~Live(req[c].name)
    /\ pc[c] = "createSecret" => ~HasSecret(req[c].name)
    /\ pc[c] \in {"createSecret", "createJob", "adoptSecret"} => req[c].op = "replace"

Prepared ==
  \A c \in Callers :
    pc[c] = "createJob" /\ req[c].creds # NoCreds
      => secrets[req[c].name] = [creds |-> req[c].creds, owner |-> 0]

Adopting ==
  \A c \in Callers :
    pc[c] = "adoptSecret" /\ Live(req[c].name) => jobs[req[c].name].uid = uid[c]

PodsSupplied ==
  \A p \in pods :
    Live(p.name) /\ p.uid = jobs[p.name].uid
      => /\ p.refers = (jobs[p.name].creds # NoCreds)
         /\ p.phase # "Waiting" => p.env = jobs[p.name].creds

UidsIssued ==
  /\ \A n \in Names : jobs[n].uid <= uids
  /\ \A p \in pods : p.uid <= uids

SerialInv ==
  /\ TurnsTaken /\ Cleared /\ Prepared /\ Adopting /\ PodsSupplied /\ UidsIssued
  /\ CredentialsCurrent /\ OwnerIsCurrent

\* A Replace that succeeds without having dispatched a Job of its own (it met
\* one that is still terminating) leaves no Job behind that stays: the Job it
\* was asked to replace is never mistaken for the fresh one.
ReplaceRestarts ==
  [][\A c \in Callers :
       Returns(c, "nil") /\ req[c].op = "replace" /\ Live(req[c].name)'
         => \/ jobs'[req[c].name].uid # jobs[req[c].name].uid
            \/ jobs'[req[c].name].uid = uid[c]]_vars

\* When Delete succeeds, neither the Secret nor a Job that would stay is left,
\* whatever the requests of this and of earlier, failed calls had done.
DeleteCleans ==
  [][\A c \in Callers :
       Returns(c, "nil") /\ req[c].op = "delete"
         => ~Live(req[c].name)' /\ ~HasSecret(req[c].name)']_vars

\* When Run succeeds the work is dispatched: a Job of the name exists, made by
\* this call or, in the no-op case, by an earlier one.
RunDispatched ==
  [][\A c \in Callers :
       pc[c] = "createJob" /\ Returns(c, "nil") => Exists(req[c].name)']_vars

(***************************************************************************)
(* Refinement: under any contention and any faults but a spurious          *)
(* conflict, the calls keep the promise of OneShotJobs.                    *)
(***************************************************************************)

WorkOf(n) == IF ~Exists(n) THEN "absent"
             ELSE IF ~Live(n) THEN "leaving"
             ELSE IF Finished(n) THEN "done" ELSE "running"

StageOf(c) == CASE pc[c] = "idle" -> "idle"
                [] pc[c] = "deleteJob" -> "asked"
                [] pc[c] = "deleteSecret" -> "cleared"
                [] pc[c] \in {"createSecret", "createJob"} ->
                     IF req[c].op = "run" THEN "asked" ELSE "cleared"
                [] pc[c] = "adoptSecret" -> "dispatched"

OneShot == INSTANCE OneShotJobs WITH
  work <- [n \in Names |-> WorkOf(n)],
  made <- uids,
  call <- [c \in Callers |-> [op |-> req[c].op, name |-> req[c].name,
                              stage |-> StageOf(c), result |-> ret[c]]]

\* Every call dispatches at most one Job, only where none exists, succeeds
\* only if it did or found done its work, and no call and no controller takes
\* a Job away that Delete, Replace or the TTL did not give up.
ImplementsOneShot == OneShot!Spec

(***************************************************************************)
(* Liveness.                                                               *)
(***************************************************************************)

\* Every call that began below the bound may dispatch a Job.
UidsMade == 1..(MaxJobs + Cardinality(Callers) - 1)

\* A Secret that a Job owned goes with the Job, unless a later Job adopts it: with
\* the TTL nobody needs to call Delete for old credentials to leave the namespace.
\* The exception is a Job that Delete or Replace removes and the server orphans:
\* its Secret is left to their own second request (DeleteCleans).
AdoptedCollected ==
  \A n \in Names, u \in UidsMade :
    secrets[n].owner = u
      ~> \/ ~HasSecret(n) \/ secrets[n].owner \notin {0, u}
         \/ jobs[n].uid = u /\ jobs[n].deletion = "orphan"

\* No dispatched Job runs for ever, even if its pods hang or wait for a Secret
\* that never comes (the deadline that every Job is given).
WorkEnds ==
  \A n \in Names, u \in UidsMade :
    jobs[n].uid = u ~> jobs[n].uid # u \/ Finished(n)
=============================================================================
