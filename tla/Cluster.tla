------------------------------- MODULE Cluster -------------------------------
(***************************************************************************)
(* The part of a Kubernetes namespace that client/jobrunner.go works on:   *)
(* Jobs, the credentials Secrets named after them, the pods of the Jobs,   *)
(* and the controllers that change these objects on their own (job         *)
(* controller, TTL controller, garbage collector).                         *)
(*                                                                         *)
(* The methods of kubernetesClientImpl (client/kubernetes.go) are the      *)
(* operators Api*: each relates the objects before and after the call to   *)
(* the status reason the API server answers.  A call takes effect at one   *)
(* moment, or never; the answer may be lost after the effect.              *)
(***************************************************************************)
EXTENDS Naturals

CONSTANTS
  Names,         \* Job names; the Secret of a Job has the Job's name
  Creds,         \* contents of a non-empty JobSpec.Secrets
  NoCreds,       \* an empty JobSpec.Secrets
  BackoffLimit,  \* JobSpec.BackoffLimit: pod retries before a Job fails
  Propagation,   \* what a DELETE without a propagationPolicy may do
  Expiring,      \* whether the TTL of finished Jobs can run out
  Refusals,      \* reasons for which a call may fail without effect
  LostAnswers    \* reasons a caller may see for a call that took effect

ASSUME CredsAssumption == NoCreds \notin Creds
ASSUME BackoffAssumption == BackoffLimit \in Nat
ASSUME PropagationAssumption == Propagation \subseteq {"orphan", "cascade"}
ASSUME ExpiringAssumption == Expiring \in BOOLEAN
ASSUME RefusalsAssumption == Refusals \subseteq {"Conflict", "Invalid", "Timeout"}
ASSUME LostAnswersAssumption == LostAnswers \subseteq {"Timeout"}

VARIABLES
  jobs,     \* the Job of each name, or NoJob
  secrets,  \* the Secret of each name, or NoSecret
  pods,     \* the pods that exist, those of deleted Jobs included
  uids      \* the last object UID the API server handed out to a Job

clusterVars == <<jobs, secrets, pods, uids>>

Reasons == {"OK", "NotFound", "AlreadyExists", "Conflict", "Invalid", "Timeout"}

\* creds is the JobSpec.Secrets of the dispatch; the manifest itself only
\* refers to the keys of the Secret.  deletion is "no", or how the dependents
\* of a Job that is being deleted are treated.
Job == [uid : Nat, creds : Creds \cup {NoCreds}, active : BOOLEAN,
        failures : Nat, condition : {"None", "Complete", "Failed"},
        deletion : {"no", "orphan", "cascade"}]

FreshJob(u, cr) ==
  [uid |-> u, creds |-> cr, active |-> FALSE, failures |-> 0,
   condition |-> "None", deletion |-> "no"]

NoJob == FreshJob(0, NoCreds)

\* owner is the UID in the owner reference, 0 without one.
Secret == [creds : Creds \cup {NoCreds}, owner : Nat]
NoSecret == [creds |-> NoCreds, owner |-> 0]

\* refers: the pod template has secretKeyRefs to the Job's Secret; env is what
\* they resolved to when the container started.  created is in whole seconds.
Pod == [name : Names, uid : Nat, attempt : Nat, created : Nat, owned : BOOLEAN,
        phase : {"Waiting", "Running", "Succeeded", "Failed"},
        refers : BOOLEAN, env : Creds \cup {NoCreds}]

Exists(n) == jobs[n].uid # 0
Live(n) == Exists(n) /\ jobs[n].deletion = "no"
Finished(n) == jobs[n].condition # "None"
HasSecret(n) == secrets[n].creds # NoCreds

ClusterTypeOK ==
  /\ jobs \in [Names -> Job]
  /\ secrets \in [Names -> Secret]
  /\ pods \subseteq Pod
  /\ uids \in Nat

ClusterInit ==
  /\ jobs = [n \in Names |-> NoJob]
  /\ secrets = [n \in Names |-> NoSecret]
  /\ pods = {}
  /\ uids = 0

-----------------------------------------------------------------------------
(***************************************************************************)
(* Calls of the API server.                                                *)
(***************************************************************************)

\* The five errors a KubernetesClient returns, by status reason.
WrapK8sError(reason) ==
  CASE reason = "OK" -> "nil"
    [] reason = "NotFound" -> "ErrResourceNotFound"
    [] reason \in {"AlreadyExists", "Conflict"} -> "ErrResourceConflict"
    [] reason = "Invalid" -> "ErrResourceInvalid"
    [] OTHER -> "ErrKubernetesRequestFailed"

Answered(reason) == reason \in {"OK"} \cup LostAnswers

\* ListPods with the label job-name: a Job's UID plays no part.
PodsNamed(n) == {p \in pods : p.name = n}

ApiCreateSecret(n, cr, reason) ==
  /\ \/ /\ ~HasSecret(n)
        /\ Answered(reason)
        /\ secrets' = [secrets EXCEPT ![n] = [creds |-> cr, owner |-> 0]]
     \/ HasSecret(n) /\ reason = "AlreadyExists" /\ UNCHANGED secrets
     \/ reason \in Refusals /\ UNCHANGED secrets
  /\ UNCHANGED <<jobs, pods, uids>>

\* A Job that is being deleted still holds its name.
ApiCreateJob(n, cr, reason) ==
  /\ \/ /\ ~Exists(n)
        /\ Answered(reason)
        /\ uids' = uids + 1
        /\ jobs' = [jobs EXCEPT ![n] = FreshJob(uids + 1, cr)]
     \/ Exists(n) /\ reason = "AlreadyExists" /\ UNCHANGED <<jobs, uids>>
     \/ reason \in Refusals /\ UNCHANGED <<jobs, uids>>
  /\ UNCHANGED <<secrets, pods>>

\* JSON patch "add" of /metadata/ownerReferences: it replaces what is there.
ApiPatchOwner(n, u, reason) ==
  /\ \/ /\ HasSecret(n)
        /\ Answered(reason)
        /\ secrets' = [secrets EXCEPT ![n].owner = u]
     \/ ~HasSecret(n) /\ reason = "NotFound" /\ UNCHANGED secrets
     \/ reason \in Refusals /\ UNCHANGED secrets
  /\ UNCHANGED <<jobs, pods, uids>>

\* The client sends empty DeleteOptions, so the server picks the policy.
ApiDeleteJob(n, reason) ==
  /\ \/ /\ Live(n)
        /\ Answered(reason)
        /\ \E p \in Propagation : jobs' = [jobs EXCEPT ![n].deletion = p]
     \/ Exists(n) /\ ~Live(n) /\ reason = "OK" /\ UNCHANGED jobs
     \/ ~Exists(n) /\ reason = "NotFound" /\ UNCHANGED jobs
     \/ reason \in Refusals /\ UNCHANGED jobs
  /\ UNCHANGED <<secrets, pods, uids>>

ApiDeleteSecret(n, reason) ==
  /\ \/ /\ HasSecret(n)
        /\ Answered(reason)
        /\ secrets' = [secrets EXCEPT ![n] = NoSecret]
     \/ ~HasSecret(n) /\ reason = "NotFound" /\ UNCHANGED secrets
     \/ reason \in Refusals /\ UNCHANGED secrets
  /\ UNCHANGED <<jobs, pods, uids>>

-----------------------------------------------------------------------------
(***************************************************************************)
(* The job controller and the kubelet.  With RestartPolicyNever every      *)
(* attempt is a pod of its own that stays until its Job goes.              *)
(***************************************************************************)

\* The back-off of ten seconds or more sets the attempts of a Job apart; the first
\* of them may come in the second in which an earlier Job had its last.
SecondsAfter(n) ==
  {s \in {1} \cup {r.created + d : r \in PodsNamed(n), d \in {0, 1}} :
     \A r \in PodsNamed(n) :
       /\ r.created <= s
       /\ r.uid = jobs[n].uid \/ jobs[n].failures > 0 => r.created < s}

NextPod(n, s) ==
  [name |-> n, uid |-> jobs[n].uid, attempt |-> jobs[n].failures + 1, created |-> s,
   owned |-> TRUE, phase |-> "Waiting", refers |-> jobs[n].creds # NoCreds,
   env |-> NoCreds]

CreatePod(n) ==
  /\ Live(n) /\ ~Finished(n) /\ ~jobs[n].active
  /\ jobs' = [jobs EXCEPT ![n].active = TRUE]
  /\ \E s \in SecondsAfter(n) : pods' = pods \cup {NextPod(n, s)}
  /\ UNCHANGED <<secrets, uids>>

\* The references to the Secret resolve by name when the container starts;
\* without the Secret the container waits.
StartContainer(p) ==
  /\ p.phase = "Waiting"
  /\ p.refers => HasSecret(p.name)
  /\ pods' = (pods \ {p}) \cup
       {[p EXCEPT !.phase = "Running",
                  !.env = IF p.refers THEN secrets[p.name].creds ELSE NoCreds]}
  /\ UNCHANGED <<jobs, secrets, uids>>

\* The Job after one of its pods ended: only a failure counts as a retry.
Ended(job, outcome) ==
  [job EXCEPT
    !.active = FALSE,
    !.failures = IF outcome = "Failed" THEN job.failures + 1 ELSE job.failures,
    !.condition = IF outcome = "Succeeded" THEN "Complete"
                  ELSE IF job.failures + 1 > BackoffLimit THEN "Failed" ELSE "None"]

\* A container ends; the Job it still belongs to counts the outcome.
EndContainer(p, outcome) ==
  /\ p.phase = "Running"
  /\ pods' = (pods \ {p}) \cup {[p EXCEPT !.phase = outcome]}
  /\ jobs' = IF p.uid = jobs[p.name].uid /\ ~Finished(p.name)
             THEN [jobs EXCEPT ![p.name] = Ended(jobs[p.name], outcome)]
             ELSE jobs
  /\ UNCHANGED <<secrets, uids>>

\* activeDeadlineSeconds runs out: the Job fails and its unfinished pods go.
MissDeadlineIf(n, limited) ==
  /\ Live(n) /\ ~Finished(n) /\ limited
  /\ jobs' = [jobs EXCEPT ![n].condition = "Failed", ![n].active = FALSE]
  /\ pods' = {p \in pods : p.uid # jobs[n].uid \/ p.phase \in {"Succeeded", "Failed"}}
  /\ UNCHANGED <<secrets, uids>>

\* Bug: the time that a Job spends without a pod is not bounded.
MissDeadlineOfPods(n) == MissDeadlineIf(n, jobs[n].active)

\* buildJob gives every Job a deadline.
MissDeadline(n) == MissDeadlineIf(n, TRUE)

(***************************************************************************)
(* The TTL controller and the garbage collector.                           *)
(***************************************************************************)

\* ttlSecondsAfterFinished runs out.
ExpireIf(n, conditions) ==
  /\ Expiring
  /\ Live(n) /\ jobs[n].condition \in conditions
  /\ jobs' = [jobs EXCEPT ![n].deletion = "cascade"]
  /\ UNCHANGED <<secrets, pods, uids>>

\* Bug: buildJob sets no TTL.
ExpireNever(n) == ExpireIf(n, {})

\* buildJob gives every Job a TTL.
Expire(n) == ExpireIf(n, {"Complete", "Failed"})

\* A Job being deleted goes; orphaning strips its owner references first.
RemoveJob(n) ==
  /\ Exists(n) /\ ~Live(n)
  /\ jobs' = [jobs EXCEPT ![n] = NoJob]
  /\ IF jobs[n].deletion = "orphan"
     THEN /\ secrets' = IF secrets[n].owner = jobs[n].uid
                        THEN [secrets EXCEPT ![n].owner = 0] ELSE secrets
          /\ pods' = {IF p.uid = jobs[n].uid THEN [p EXCEPT !.owned = FALSE] ELSE p
                        : p \in pods}
     ELSE UNCHANGED <<secrets, pods>>
  /\ UNCHANGED uids

\* The Job with this UID no longer exists, or goes together with what it owns.
Gone(n, u) == jobs[n].uid # u \/ jobs[n].deletion = "cascade"

CollectSecret(n) ==
  /\ HasSecret(n)
  /\ secrets[n].owner # 0 /\ Gone(n, secrets[n].owner)
  /\ secrets' = [secrets EXCEPT ![n] = NoSecret]
  /\ UNCHANGED <<jobs, pods, uids>>

CollectPod(p) ==
  /\ p.owned /\ Gone(p.name, p.uid)
  /\ pods' = pods \ {p}
  /\ UNCHANGED <<jobs, secrets, uids>>

Controllers ==
  \/ \E n \in Names : CreatePod(n) \/ MissDeadline(n) \/ Expire(n)
                        \/ RemoveJob(n) \/ CollectSecret(n)
  \/ \E p \in pods :
       \/ StartContainer(p) \/ CollectPod(p)
       \/ \E o \in {"Succeeded", "Failed"} : EndContainer(p, o)
=============================================================================
