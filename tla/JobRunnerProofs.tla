--------------------------- MODULE JobRunnerProofs ---------------------------
(***************************************************************************)
(* Theorems about JobRunner, for every set of names, callers and           *)
(* credentials, every backoff limit and every bound.                       *)
(***************************************************************************)
EXTENDS JobRunner, TLAPS

(***************************************************************************)
(* Types.                                                                  *)
(***************************************************************************)

\* What the job controller creates next is a pod.
LEMMA NextPodIsPod ==
  ASSUME ClusterTypeOK, NEW n \in Names, NEW s \in SecondsAfter(n)
  PROVE  NextPod(n, s) \in Pod
<1>1. s \in Nat
  BY DEF SecondsAfter, PodsNamed, ClusterTypeOK, Pod
<1>2. jobs[n].uid \in Nat /\ jobs[n].failures + 1 \in Nat
  BY DEF ClusterTypeOK, Job
<1>3. (jobs[n].creds # NoCreds) \in BOOLEAN
  OBVIOUS
<1>4. QED
  BY <1>1, <1>2, <1>3, Zenon DEF NextPod, Pod

\* The controllers of the cluster keep its objects well formed.
LEMMA ControllersTypeOK ==
  ASSUME ClusterTypeOK, Controllers
  PROVE  ClusterTypeOK'
<1> USE BackoffAssumption DEF ClusterTypeOK, Job, Secret, Pod, NoJob, NoSecret, FreshJob
<1>1. ASSUME NEW n \in Names, CreatePod(n) PROVE ClusterTypeOK'
  <2>1. jobs' \in [Names -> Job]
    BY <1>1 DEF CreatePod
  <2>2. PICK t \in SecondsAfter(n) : pods' = pods \cup {NextPod(n, t)}
    BY <1>1 DEF CreatePod
  <2>3. NextPod(n, t) \in Pod
    BY NextPodIsPod
  <2> QED
    BY <1>1, <2>1, <2>2, <2>3 DEF CreatePod
<1>2. ASSUME NEW n \in Names, MissDeadline(n) PROVE ClusterTypeOK'
  <2>1. [jobs[n] EXCEPT !.condition = "Failed", !.active = FALSE] \in Job
    OBVIOUS
  <2>2. jobs' = [jobs EXCEPT ![n] = [jobs[n] EXCEPT !.condition = "Failed", !.active = FALSE]]
    BY <1>2 DEF MissDeadline, MissDeadlineIf
  <2>3. jobs' \in [Names -> Job]
    BY <2>1, <2>2
  <2> QED
    BY <1>2, <2>3 DEF MissDeadline, MissDeadlineIf
<1>3. ASSUME NEW n \in Names, Expire(n) PROVE ClusterTypeOK'
  BY <1>3 DEF Expire, ExpireIf
<1>4. ASSUME NEW n \in Names, RemoveJob(n) PROVE ClusterTypeOK'
  <2>1. jobs' \in [Names -> Job]
    BY <1>4 DEF RemoveJob
  <2>2. secrets' \in [Names -> Secret]
    BY <1>4 DEF RemoveJob
  <2>3. pods' \subseteq Pod
    <3>1. \A p \in Pod : [p EXCEPT !.owned = FALSE] \in Pod
      OBVIOUS
    <3> QED
      BY <1>4, <3>1 DEF RemoveJob
  <2> QED
    BY <1>4, <2>1, <2>2, <2>3 DEF RemoveJob
<1>5. ASSUME NEW n \in Names, CollectSecret(n) PROVE ClusterTypeOK'
  BY <1>5 DEF CollectSecret
<1>6. ASSUME NEW p \in pods, StartContainer(p) PROVE ClusterTypeOK'
  BY <1>6 DEF StartContainer
<1>7. ASSUME NEW p \in pods, CollectPod(p) PROVE ClusterTypeOK'
  BY <1>7 DEF CollectPod
<1>8. ASSUME NEW p \in pods, NEW o \in {"Succeeded", "Failed"}, EndContainer(p, o)
      PROVE  ClusterTypeOK'
  <2>1. p.name \in Names /\ jobs[p.name] \in Job
    OBVIOUS
  <2>2. Ended(jobs[p.name], o) \in Job
    <3> DEFINE job == jobs[p.name]
               f == IF o = "Failed" THEN job.failures + 1 ELSE job.failures
               k == IF o = "Succeeded" THEN "Complete"
                    ELSE IF job.failures + 1 > BackoffLimit THEN "Failed" ELSE "None"
    <3>1. f \in Nat /\ k \in {"None", "Complete", "Failed"}
      BY <2>1
    <3>2. Ended(job, o) = [job EXCEPT !.active = FALSE, !.failures = f, !.condition = k]
      BY DEF Ended
    <3> HIDE DEF f, k
    <3> QED
      BY <2>1, <3>1, <3>2
  <2>3. jobs' \in [Names -> Job]
    <3>1. jobs' = jobs \/ jobs' = [jobs EXCEPT ![p.name] = Ended(jobs[p.name], o)]
      BY <1>8 DEF EndContainer
    <3> HIDE DEF Job
    <3> QED
      BY <2>1, <2>2, <3>1
  <2>4. [p EXCEPT !.phase = o] \in Pod
    OBVIOUS
  <2> QED
    BY <1>8, <2>3, <2>4 DEF EndContainer
<1> QED
  BY <1>1, <1>2, <1>3, <1>4, <1>5, <1>6, <1>7, <1>8 DEF Controllers

\* So do the calls of the API server, with well-formed arguments.
LEMMA ApiTypeOK ==
  ASSUME ClusterTypeOK, NEW n \in Names, NEW cr \in Creds \cup {NoCreds},
         NEW u \in Nat, NEW reason \in Reasons,
         \/ ApiCreateSecret(n, cr, reason) \/ ApiCreateJob(n, cr, reason)
         \/ ApiPatchOwner(n, u, reason) \/ ApiDeleteJob(n, reason)
         \/ ApiDeleteSecret(n, reason)
  PROVE  ClusterTypeOK'
<1> USE DEF ClusterTypeOK, Job, Secret, NoSecret, FreshJob
<1>1. CASE ApiCreateSecret(n, cr, reason)
  BY <1>1 DEF ApiCreateSecret
<1>2. CASE ApiCreateJob(n, cr, reason)
  <2>1. uids + 1 \in Nat /\ FreshJob(uids + 1, cr) \in Job
    OBVIOUS
  <2>2. \/ jobs' = [jobs EXCEPT ![n] = FreshJob(uids + 1, cr)] /\ uids' = uids + 1
        \/ UNCHANGED <<jobs, uids>>
    BY <1>2 DEF ApiCreateJob
  <2>3. jobs' \in [Names -> Job] /\ uids' \in Nat
    BY <2>1, <2>2
  <2> QED
    BY <1>2, <2>3 DEF ApiCreateJob
<1>3. CASE ApiPatchOwner(n, u, reason)
  BY <1>3 DEF ApiPatchOwner
<1>4. CASE ApiDeleteJob(n, reason)
  <2>1. \A p \in Propagation : [jobs EXCEPT ![n].deletion = p] \in [Names -> Job]
    BY PropagationAssumption
  <2>2. jobs' = jobs \/ \E p \in Propagation : jobs' = [jobs EXCEPT ![n].deletion = p]
    BY <1>4 DEF ApiDeleteJob
  <2>3. jobs' \in [Names -> Job]
    BY <2>1, <2>2
  <2> QED
    BY <1>4, <2>3 DEF ApiDeleteJob
<1>5. CASE ApiDeleteSecret(n, reason)
  BY <1>5 DEF ApiDeleteSecret
<1> QED
  BY <1>1, <1>2, <1>3, <1>4, <1>5

\* Every step of JobRunner keeps the types.
LEMMA StepTypeOK == TypeOK /\ [Next]_vars => TypeOK'
<1> SUFFICES ASSUME TypeOK, [Next]_vars PROVE TypeOK'
  OBVIOUS
<1> USE DEF TypeOK, Request, callerVars
<1>1. CASE UNCHANGED vars
  BY <1>1 DEF vars, ClusterTypeOK
<1>2. ASSUME NEW c \in Callers, Begin(c) PROVE TypeOK'
  <2>1. ClusterTypeOK'
    BY <1>2 DEF Begin, BeginWith, clusterVars, ClusterTypeOK
  <2> QED
    BY <1>2, <2>1 DEF Begin, BeginWith, RunEntry
<1>3. ASSUME NEW c \in Callers, CreateSecret(c) PROVE TypeOK'
  <2>1. ClusterTypeOK'
    BY <1>3, ApiTypeOK DEF CreateSecret, CreateSecretTolerating
  <2> QED
    BY <1>3, <2>1 DEF CreateSecret, CreateSecretTolerating, Goto, Return
<1>4. ASSUME NEW c \in Callers, CreateJob(c) PROVE TypeOK'
  <2>1. ClusterTypeOK'
    BY <1>4, ApiTypeOK DEF CreateJob, CreateJobTolerating
  <2>2. jobs'[req[c].name].uid \in Nat
    BY <2>1 DEF ClusterTypeOK, Job
  <2> QED
    BY <1>4, <2>1, <2>2 DEF CreateJob, CreateJobTolerating, Return
<1>5. ASSUME NEW c \in Callers, AdoptSecret(c) PROVE TypeOK'
  <2>1. ClusterTypeOK'
    BY <1>5, ApiTypeOK DEF AdoptSecret
  <2> QED
    BY <1>5, <2>1 DEF AdoptSecret, Return
<1>6. ASSUME NEW c \in Callers, DeleteJob(c) PROVE TypeOK'
  <2>1. ClusterTypeOK'
    BY <1>6, ApiTypeOK DEF DeleteJob, DeleteJobTolerating
  <2> QED
    BY <1>6, <2>1 DEF DeleteJob, DeleteJobTolerating, Goto, Return
<1>7. ASSUME NEW c \in Callers, DeleteSecret(c) PROVE TypeOK'
  <2>1. ClusterTypeOK'
    BY <1>7, ApiTypeOK DEF DeleteSecret, DeleteSecretTolerating
  <2> QED
    BY <1>7, <2>1 DEF DeleteSecret, DeleteSecretTolerating, Goto, Return, RunEntry
<1>8. ASSUME NEW c \in Callers, Crash(c) PROVE TypeOK'
  <2>1. ClusterTypeOK'
    BY <1>8 DEF Crash, clusterVars, ClusterTypeOK
  <2> QED
    BY <1>8, <2>1 DEF Crash, Return
<1>9. CASE Controllers /\ UNCHANGED callerVars
  BY <1>9, ControllersTypeOK
<1> QED
  BY <1>1, <1>2, <1>3, <1>4, <1>5, <1>6, <1>7, <1>8, <1>9 DEF Next, Requests

\* The objects of the namespace and the state of every call are well formed.
THEOREM TypeCorrect == Spec => []TypeOK
<1>1. Init => TypeOK
  BY DEF Init, TypeOK, ClusterInit, ClusterTypeOK, NoJob, NoSecret, FreshJob, Job,
         Secret, Request
<1> QED
  BY <1>1, StepTypeOK, PTL DEF Spec

(***************************************************************************)
(* Serial use: callers take turns on a name and only replace and delete,   *)
(* and the API server answers "Conflict" to nothing but an existing name.  *)
(* Time to live, failures, lost answers and crashes are not restricted.    *)
(***************************************************************************)
Serial == Exclusive /\ "run" \notin Ops /\ "Conflict" \notin Refusals

\* The steps of the controllers keep the invariant: none revives a Job, and the
\* garbage collector takes no Secret whose owner is 0 or a Job that stays.
LEMMA ControllersSerial ==
  ASSUME TypeOK, SerialInv, Controllers, UNCHANGED callerVars
  PROVE  SerialInv'
<1> USE DEF TypeOK, ClusterTypeOK, callerVars, Job, Secret, Pod
<1> DEFINE Kept(n) ==
      /\ jobs'[n].uid \in {0, jobs[n].uid}
      /\ Live(n)' => /\ Live(n)
                     /\ jobs'[n].uid = jobs[n].uid /\ jobs'[n].creds = jobs[n].creds
                     /\ jobs[n].creds # NoCreds => secrets'[n] = secrets[n]
      /\ HasSecret(n)' => HasSecret(n)
      /\ HasSecret(n) /\ secrets[n].owner = 0 => secrets'[n] = secrets[n]
    AllKept == uids' = uids /\ \A n \in Names : Kept(n)
    PodsKept == PodsSupplied' /\ \A p \in pods' : p.uid <= uids'
<1>0. SerialInv
  OBVIOUS
<1>1. ASSUME NEW n \in Names, CreatePod(n) PROVE AllKept /\ PodsKept
  <2>1. AllKept
    BY <1>1 DEF CreatePod, Live, Exists, HasSecret
  <2>2. PICK t \in SecondsAfter(n) : pods' = pods \cup {NextPod(n, t)}
    BY <1>1 DEF CreatePod
  <2> DEFINE q == NextPod(n, t)
  <2>3. /\ q.name = n /\ q.uid = jobs[n].uid /\ q.phase = "Waiting"
        /\ q.refers = (jobs[n].creds # NoCreds) /\ q.env = NoCreds
    BY Zenon DEF NextPod
  <2>4. pods' = pods \cup {q}
    BY <2>2
  <2> HIDE DEF q
  <2>5. /\ jobs'[n].uid = jobs[n].uid /\ jobs'[n].creds = jobs[n].creds
        /\ \A m \in Names \ {n} : jobs'[m] = jobs[m]
        /\ uids' = uids /\ \A m \in Names : Live(m)' = Live(m)
    BY <1>1 DEF CreatePod, Live, Exists
  <2>6. \A m \in Names : Live(m)' => jobs'[m].uid = jobs[m].uid /\ jobs'[m].creds = jobs[m].creds
    BY <2>5
  <2>7. \A p \in pods : p.name \in Names
    OBVIOUS
  <2>8. \A p \in pods' : /\ Live(p.name)' /\ p.uid = jobs'[p.name].uid
                          => /\ p.refers = (jobs'[p.name].creds # NoCreds)
                             /\ p.phase # "Waiting" => p.env = jobs'[p.name].creds
    <3>1. /\ q.refers = (jobs'[q.name].creds # NoCreds)
          /\ q.phase # "Waiting" => q.env = jobs'[q.name].creds
      BY <2>3, <2>5, Zenon
    <3>2. \A p \in pods : /\ Live(p.name)' /\ p.uid = jobs'[p.name].uid
                          => /\ p.refers = (jobs'[p.name].creds # NoCreds)
                             /\ p.phase # "Waiting" => p.env = jobs'[p.name].creds
      BY <1>0, <2>5, <2>6, <2>7 DEF SerialInv, PodsSupplied
    <3> QED
      BY <2>4, <3>1, <3>2, Zenon
  <2>9. \A p \in pods' : p.uid <= uids'
    BY <1>0, <2>3, <2>4, <2>5 DEF SerialInv, UidsIssued
  <2>10. PodsSupplied'
    BY <2>8 DEF PodsSupplied
  <2> QED
    BY <2>1, <2>9, <2>10
<1>2. ASSUME NEW n \in Names, MissDeadline(n) PROVE AllKept /\ PodsKept
  <2>1. AllKept
    BY <1>2 DEF MissDeadline, MissDeadlineIf, Live, Exists, HasSecret
  <2>2. pods' \subseteq pods
    BY <1>2 DEF MissDeadline, MissDeadlineIf
  <2>3. PodsSupplied'
    BY <1>0, <2>1, <2>2 DEF SerialInv, PodsSupplied
  <2>4. \A p \in pods' : p.uid <= uids'
    BY <1>0, <2>1, <2>2 DEF SerialInv, UidsIssued
  <2> QED
    BY <2>1, <2>3, <2>4
<1>3. ASSUME NEW n \in Names, Expire(n) PROVE AllKept /\ PodsKept
  <2>1. AllKept
    BY <1>3 DEF Expire, ExpireIf, Live, Exists, HasSecret
  <2> QED
    BY <1>0, <1>3, <2>1 DEF Expire, ExpireIf, SerialInv, PodsSupplied, UidsIssued
<1>4. ASSUME NEW n \in Names, RemoveJob(n) PROVE AllKept /\ PodsKept
  <2>1. AllKept
    BY <1>4 DEF RemoveJob, Live, Exists, HasSecret, NoJob, FreshJob
  <2>2. \A p \in pods' : \E r \in pods : /\ p.name = r.name /\ p.uid = r.uid
                                         /\ p.phase = r.phase /\ p.refers = r.refers
                                         /\ p.env = r.env
    BY <1>4 DEF RemoveJob
  <2> QED
    BY <1>0, <2>1, <2>2 DEF SerialInv, PodsSupplied, UidsIssued
<1>5. ASSUME NEW n \in Names, CollectSecret(n) PROVE AllKept /\ PodsKept
  <2>1. AllKept
    BY <1>0, <1>5 DEF CollectSecret, Live, Exists, HasSecret, Gone, NoSecret, SerialInv,
       OwnerIsCurrent
  <2> QED
    BY <1>0, <1>5, <2>1 DEF CollectSecret, SerialInv, PodsSupplied, UidsIssued
<1>6. ASSUME NEW p \in pods, StartContainer(p) PROVE AllKept /\ PodsKept
  <2>1. AllKept
    BY <1>6 DEF StartContainer, Live, Exists, HasSecret
  <2> DEFINE env == IF p.refers THEN secrets[p.name].creds ELSE NoCreds
             started == [p EXCEPT !.phase = "Running", !.env = env]
  <2>2. p \in Pod /\ p.name \in Names
    OBVIOUS
  <2>3. /\ started.name = p.name /\ started.uid = p.uid
        /\ started.refers = p.refers /\ started.env = env
    BY <2>2
  <2>4. Live(p.name) /\ p.uid = jobs[p.name].uid => env = jobs[p.name].creds
    BY <1>0, <2>2 DEF SerialInv, PodsSupplied, CredentialsCurrent
  <2>5. pods' = (pods \ {p}) \cup {started} /\ UNCHANGED <<jobs, secrets, uids>>
    BY <1>6 DEF StartContainer
  <2> HIDE DEF started, env
  <2>6. PodsSupplied'
    BY <1>0, <2>2, <2>3, <2>4, <2>5 DEF SerialInv, PodsSupplied, Live, Exists
  <2> QED
    BY <1>0, <2>1, <2>3, <2>5, <2>6 DEF SerialInv, UidsIssued
<1>7. ASSUME NEW p \in pods, CollectPod(p) PROVE AllKept /\ PodsKept
  <2>1. AllKept
    BY <1>7 DEF CollectPod, Live, Exists, HasSecret
  <2> QED
    BY <1>0, <1>7, <2>1 DEF CollectPod, SerialInv, PodsSupplied, UidsIssued
<1>8. ASSUME NEW p \in pods, NEW o \in {"Succeeded", "Failed"}, EndContainer(p, o)
      PROVE  AllKept /\ PodsKept
  <2>1. AllKept
    BY <1>8 DEF EndContainer, Ended, Live, Exists, HasSecret
  <2> QED
    BY <1>0, <1>8, <2>1 DEF EndContainer, SerialInv, PodsSupplied, UidsIssued
<1>9. AllKept /\ PodsKept
  BY <1>1, <1>2, <1>3, <1>4, <1>5, <1>6, <1>7, <1>8 DEF Controllers
<1>10. TurnsTaken' /\ Cleared' /\ Adopting'
  BY <1>0, <1>9 DEF SerialInv, TurnsTaken, Cleared, Adopting, Request
<1>11. Prepared'
  BY <1>0, <1>9, CredsAssumption DEF SerialInv, Prepared, HasSecret, Request
<1>12. CredentialsCurrent' /\ OwnerIsCurrent'
  BY <1>0, <1>9 DEF SerialInv, CredentialsCurrent, OwnerIsCurrent
<1>13. UidsIssued'
  BY <1>0, <1>9 DEF SerialInv, UidsIssued
<1> QED
  BY <1>9, <1>10, <1>11, <1>12, <1>13 DEF SerialInv

\* SerialInv, by caller and by name.
CallerOK(c) ==
  /\ pc[c] \in {"deleteSecret", "createSecret", "createJob"} => ~Live(req[c].name)
  /\ pc[c] = "createSecret" => ~HasSecret(req[c].name)
  /\ pc[c] \in {"createSecret", "createJob", "adoptSecret"} => req[c].op = "replace"
  /\ pc[c] = "createJob" /\ req[c].creds # NoCreds
       => secrets[req[c].name] = [creds |-> req[c].creds, owner |-> 0]
  /\ pc[c] = "adoptSecret" /\ Live(req[c].name) => jobs[req[c].name].uid = uid[c]

NameOK(n) ==
  Live(n) /\ jobs[n].creds # NoCreds
    => secrets[n].creds = jobs[n].creds /\ secrets[n].owner \in {0, jobs[n].uid}

\* SerialInv, by callers and by names.
LEMMA SerialInvSplit ==
  SerialInv <=> /\ TurnsTaken /\ PodsSupplied /\ UidsIssued
                /\ \A c \in Callers : CallerOK(c)
                /\ \A n \in Names : NameOK(n)
BY DEF SerialInv, CallerOK, NameOK, Cleared, Prepared, Adopting, CredentialsCurrent,
   OwnerIsCurrent

\* What no request of c touches, and what it may do to the Job it names.
Frame(c) ==
  /\ UNCHANGED <<pods, req>>
  /\ \A n \in Names \ {req[c].name} : jobs'[n] = jobs[n] /\ secrets'[n] = secrets[n]
  /\ \A d \in Callers \ {c} : pc'[d] = pc[d] /\ uid'[d] = uid[d]
  /\ LET job == jobs[req[c].name] IN
       \/ UNCHANGED <<jobs, uids>>
       \/ /\ jobs'[req[c].name].uid = job.uid /\ uids' = uids
          /\ ~Live(req[c].name)'
       \/ jobs'[req[c].name].uid = uids + 1 /\ uids' = uids + 1

\* A request disturbs neither other names nor the calls of other callers.
LEMMA RequestSerial ==
  ASSUME TypeOK, SerialInv, NEW c \in Callers, pc[c] # "idle", Frame(c),
         CallerOK(c)', NameOK(req[c].name)'
  PROVE  SerialInv'
<1> USE DEF TypeOK, ClusterTypeOK, Request, Job, Secret, Pod, Live, Exists, HasSecret
<1>0. /\ TurnsTaken /\ PodsSupplied /\ UidsIssued
      /\ \A d \in Callers : CallerOK(d)
      /\ \A n \in Names : NameOK(n)
  BY SerialInvSplit
<1>1. TurnsTaken'
  BY <1>0 DEF TurnsTaken, Frame
<1>2. PodsSupplied'
  <2> SUFFICES ASSUME NEW p \in pods, Live(p.name)', p.uid = jobs'[p.name].uid
               PROVE  /\ p.refers = (jobs'[p.name].creds # NoCreds)
                      /\ p.phase # "Waiting" => p.env = jobs'[p.name].creds
    BY DEF PodsSupplied, Frame
  <2>1. p.name \in Names /\ p.uid <= uids /\ p.uid \in Nat
    BY <1>0 DEF UidsIssued
  <2>2. jobs'[p.name] = jobs[p.name]
    BY <2>1 DEF Frame
  <2> QED
    BY <1>0, <2>1, <2>2 DEF PodsSupplied
<1>3. UidsIssued'
  BY <1>0 DEF UidsIssued, Frame
<1>4. \A d \in Callers : CallerOK(d)'
  <2> SUFFICES ASSUME NEW d \in Callers \ {c}, pc[d] # "idle" PROVE CallerOK(d)'
    BY DEF CallerOK, Frame
  <2>1. req[d].name \in Names \ {req[c].name}
    BY <1>0 DEF TurnsTaken
  <2> QED
    BY <1>0, <2>1 DEF CallerOK, Frame
<1>5. \A n \in Names : NameOK(n)'
  <2> SUFFICES ASSUME NEW n \in Names \ {req[c].name} PROVE NameOK(n)'
    BY DEF Frame
  <2> QED
    BY <1>0 DEF NameOK, Frame
<1> QED
  BY <1>1, <1>2, <1>3, <1>4, <1>5
     DEF SerialInv, CallerOK, NameOK, Cleared, Prepared, Adopting, CredentialsCurrent,
         OwnerIsCurrent

\* Every step keeps the invariant in serial use.
LEMMA StepSerial ==
  ASSUME Serial
  PROVE  TypeOK /\ SerialInv /\ [Next]_vars => SerialInv'
<1> SUFFICES ASSUME TypeOK, SerialInv, [Next]_vars PROVE SerialInv'
  OBVIOUS
<1> USE DEF TypeOK, ClusterTypeOK, Request, Job, Secret
<1>0. /\ \A c \in Callers : CallerOK(c)
      /\ \A n \in Names : NameOK(n)
      /\ TurnsTaken /\ PodsSupplied /\ UidsIssued
  BY SerialInvSplit
<1>1. CASE UNCHANGED vars
  BY <1>1 DEF vars, SerialInv, TurnsTaken, Cleared, Prepared, Adopting, PodsSupplied,
     UidsIssued, CredentialsCurrent, OwnerIsCurrent, Live, Exists, HasSecret
<1>2. ASSUME NEW c \in Callers, Begin(c) PROVE SerialInv'
  <2>1. /\ UNCHANGED clusterVars /\ UNCHANGED uid
        /\ pc'[c] = "deleteJob" /\ \A d \in Callers \ {c} : pc'[d] = pc[d] /\ req'[d] = req[d]
        /\ \A d \in Callers \ {c} : pc[d] # "idle" => req[d].name # req'[c].name
    BY <1>2 DEF Begin, BeginWith, Busy, Serial
  <2>2. TurnsTaken'
    BY <1>0, <2>1 DEF TurnsTaken
  <2>3. \A d \in Callers : CallerOK(d)'
    BY <1>0, <2>1 DEF CallerOK, clusterVars, Live, Exists, HasSecret
  <2>4. PodsSupplied' /\ UidsIssued' /\ \A n \in Names : NameOK(n)'
    BY <1>0, <2>1 DEF PodsSupplied, UidsIssued, NameOK, clusterVars, Live, Exists
  <2> QED
    BY <2>2, <2>3, <2>4
       DEF SerialInv, CallerOK, NameOK, Cleared, Prepared, Adopting, CredentialsCurrent,
           OwnerIsCurrent
<1>3. ASSUME NEW c \in Callers, CreateSecret(c) PROVE SerialInv'
  <2> DEFINE n == req[c].name
  <2>1. pc[c] = "createSecret" /\ ~HasSecret(n) /\ ~Live(n) /\ n \in Names
    BY <1>0, <1>3 DEF CreateSecret, CreateSecretTolerating, CallerOK
  <2>2. PICK reason \in Reasons :
          /\ ApiCreateSecret(n, req[c].creds, reason)
          /\ IF WrapK8sError(reason) \in {"nil", "ErrResourceConflict"}
             THEN Goto(c, "createJob") ELSE Return(c, "error")
    BY <1>3 DEF CreateSecret, CreateSecretTolerating
  <2>3. \/ reason = "OK" /\ secrets' = [secrets EXCEPT ![n] = [creds |-> req[c].creds, owner |-> 0]]
        \/ /\ reason \in {"Invalid", "Timeout"}
           /\ secrets' = secrets \/ secrets' = [secrets EXCEPT ![n] = [creds |-> req[c].creds, owner |-> 0]]
    BY <2>1, <2>2, RefusalsAssumption, LostAnswersAssumption DEF ApiCreateSecret, Answered, Serial
  <2>4. UNCHANGED <<jobs, pods, uids>>
    BY <2>2 DEF ApiCreateSecret
  <2>5. Frame(c)
    BY <2>2, <2>3, <2>4 DEF Frame, Goto, Return
  <2>6. \/ pc'[c] = "idle"
        \/ /\ pc'[c] = "createJob"
           /\ secrets'[n] = [creds |-> req[c].creds, owner |-> 0]
    BY <2>1, <2>2, <2>3 DEF Goto, Return, WrapK8sError
  <2>7. CallerOK(c)'
    BY <1>0, <2>1, <2>4, <2>5, <2>6 DEF CallerOK, Frame, Live, Exists
  <2>8. NameOK(n)'
    BY <2>1, <2>4, <2>5 DEF NameOK, Frame, Live, Exists
  <2> QED
    BY <2>1, <2>5, <2>7, <2>8, RequestSerial
<1>4. ASSUME NEW c \in Callers, CreateJob(c) PROVE SerialInv'
  <2> DEFINE n == req[c].name
             cr == req[c].creds
  <2>1. pc[c] = "createJob" /\ ~Live(n) /\ n \in Names
        /\ (cr # NoCreds => secrets[n] = [creds |-> cr, owner |-> 0])
    BY <1>0, <1>4 DEF CreateJob, CreateJobTolerating, CallerOK
  <2>2. UNCHANGED <<secrets, pods>>
    BY <1>4 DEF CreateJob, CreateJobTolerating, ApiCreateJob
  <2>3. \/ UNCHANGED <<jobs, uids>>
        \/ jobs' = [jobs EXCEPT ![n] = FreshJob(uids + 1, cr)] /\ uids' = uids + 1
    BY <1>4 DEF CreateJob, CreateJobTolerating, ApiCreateJob
  <2>4. /\ UNCHANGED req
        /\ \A d \in Callers \ {c} : pc'[d] = pc[d] /\ uid'[d] = uid[d]
        /\ pc'[c] = "idle" \/ (pc'[c] = "adoptSecret" /\ uid'[c] = jobs'[n].uid)
    BY <1>4 DEF CreateJob, CreateJobTolerating, Return
  <2>5. Frame(c)
    BY <2>1, <2>2, <2>3, <2>4 DEF Frame, FreshJob
  <2>6. CallerOK(c)'
    BY <1>0, <2>1, <2>4 DEF CallerOK
  <2>7. NameOK(n)'
    BY <2>1, <2>2, <2>3, <2>4 DEF NameOK, FreshJob, Live, Exists
  <2> QED
    BY <2>1, <2>5, <2>6, <2>7, RequestSerial
<1>5. ASSUME NEW c \in Callers, AdoptSecret(c) PROVE SerialInv'
  <2> DEFINE n == req[c].name
  <2>1. pc[c] = "adoptSecret" /\ n \in Names /\ (Live(n) => jobs[n].uid = uid[c])
    BY <1>0, <1>5 DEF AdoptSecret, CallerOK
  <2>2. UNCHANGED <<jobs, pods, uids>>
    BY <1>5 DEF AdoptSecret, ApiPatchOwner
  <2>3. secrets' = secrets \/ secrets' = [secrets EXCEPT ![n].owner = uid[c]]
    BY <1>5 DEF AdoptSecret, ApiPatchOwner
  <2>4. Return(c, "nil")
    BY <1>5 DEF AdoptSecret
  <2>5. Frame(c)
    BY <2>1, <2>2, <2>3, <2>4 DEF Frame, Return
  <2>6. CallerOK(c)'
    BY <2>4 DEF CallerOK, Return
  <2>7. NameOK(n)'
    BY <1>0, <2>1, <2>2, <2>3, <2>4 DEF NameOK, Return, Live, Exists
  <2> QED
    BY <2>1, <2>5, <2>6, <2>7, RequestSerial
<1>6. ASSUME NEW c \in Callers, DeleteJob(c) PROVE SerialInv'
  <2> DEFINE n == req[c].name
  <2>1. pc[c] = "deleteJob" /\ n \in Names
    BY <1>6 DEF DeleteJob, DeleteJobTolerating
  <2>2. PICK reason \in Reasons :
          /\ ApiDeleteJob(n, reason)
          /\ IF WrapK8sError(reason) \in {"nil", "ErrResourceNotFound"}
             THEN Goto(c, "deleteSecret") ELSE Return(c, "error")
    BY <1>6 DEF DeleteJob, DeleteJobTolerating
  <2>3. UNCHANGED <<secrets, pods, uids>>
    BY <2>2 DEF ApiDeleteJob
  <2>4. jobs' = jobs \/ \E p \in Propagation : jobs' = [jobs EXCEPT ![n].deletion = p]
    BY <2>2 DEF ApiDeleteJob
  <2>5. /\ \A m \in Names \ {n} : jobs'[m] = jobs[m]
        /\ jobs'[n].uid = jobs[n].uid /\ jobs'[n].creds = jobs[n].creds
        /\ jobs' = jobs \/ jobs'[n].deletion # "no"
    <3>1. CASE jobs' = jobs
      BY <3>1
    <3>2. ASSUME NEW p \in Propagation, jobs' = [jobs EXCEPT ![n].deletion = p]
          PROVE  /\ \A m \in Names \ {n} : jobs'[m] = jobs[m]
                 /\ jobs'[n].uid = jobs[n].uid /\ jobs'[n].creds = jobs[n].creds
                 /\ jobs'[n].deletion # "no"
      <4>1. jobs'[n] = [jobs[n] EXCEPT !.deletion = p] /\ p # "no" /\ jobs[n] \in Job
        BY <2>1, <3>2, PropagationAssumption
      <4> QED
        BY <2>1, <3>2, <4>1
    <3> QED
      BY <2>4, <3>1, <3>2
  <2>6. req' = req
    BY <2>2 DEF Goto, Return
  <2>7. reason \in {"OK", "NotFound"} => ~Live(n)'
    <3>1. reason \in {"OK", "NotFound"} =>
            \/ \E p \in Propagation : jobs' = [jobs EXCEPT ![n].deletion = p]
            \/ ~Live(n) /\ jobs' = jobs
      BY <2>2, RefusalsAssumption DEF ApiDeleteJob, Live
    <3>2. ASSUME NEW p \in Propagation, jobs' = [jobs EXCEPT ![n].deletion = p]
          PROVE  jobs'[n].deletion # "no"
      BY <2>1, <3>2, PropagationAssumption
    <3> QED
      BY <2>6, <3>1, <3>2 DEF Live, Exists
  <2>8. pc'[c] = "deleteSecret" => reason \in {"OK", "NotFound"}
    BY <2>1, <2>2 DEF WrapK8sError, Goto, Return, Reasons
  <2>9. Frame(c)
    BY <2>1, <2>2, <2>3, <2>5, <2>6 DEF Frame, Goto, Return, Live, Exists
  <2>10. CallerOK(c)'
    BY <2>1, <2>2, <2>7, <2>8 DEF CallerOK, Goto, Return
  <2>11. NameOK(n)'
    BY <1>0, <2>1, <2>3, <2>5, <2>9 DEF NameOK, Frame, Live, Exists
  <2> QED
    BY <2>1, <2>9, <2>10, <2>11, RequestSerial
<1>7. ASSUME NEW c \in Callers, DeleteSecret(c) PROVE SerialInv'
  <2> DEFINE n == req[c].name
  <2>1. pc[c] = "deleteSecret" /\ n \in Names /\ ~Live(n)
    BY <1>0, <1>7 DEF DeleteSecret, DeleteSecretTolerating, CallerOK
  <2>2. PICK reason \in Reasons :
          /\ ApiDeleteSecret(n, reason)
          /\ IF WrapK8sError(reason) \notin {"nil", "ErrResourceNotFound"}
             THEN Return(c, "error")
             ELSE IF req[c].op = "replace" THEN Goto(c, RunEntry(req[c].creds))
                                           ELSE Return(c, "nil")
    BY <1>7 DEF DeleteSecret, DeleteSecretTolerating
  <2>3. UNCHANGED <<jobs, pods, uids>>
    BY <2>2 DEF ApiDeleteSecret
  <2>4. secrets' = secrets \/ secrets' = [secrets EXCEPT ![n] = NoSecret]
    BY <2>2 DEF ApiDeleteSecret
  <2>5. reason \in {"OK", "NotFound"} => ~HasSecret(n)'
    BY <2>1, <2>2, RefusalsAssumption
       DEF ApiDeleteSecret, HasSecret, NoSecret, Goto, Return
  <2>6. \/ pc'[c] = "idle"
        \/ /\ reason \in {"OK", "NotFound"}
           /\ req[c].op = "replace"
           /\ pc'[c] = RunEntry(req[c].creds)
    BY <2>1, <2>2 DEF WrapK8sError, Goto, Return, Reasons
  <2>7. Frame(c)
    BY <2>1, <2>2, <2>3, <2>4 DEF Frame, Goto, Return
  <2>8. CallerOK(c)'
    BY <2>1, <2>3, <2>5, <2>6, <2>7 DEF CallerOK, Frame, RunEntry, Live, Exists
  <2>9. NameOK(n)'
    BY <2>1, <2>3, <2>7 DEF NameOK, Frame, Live, Exists
  <2> QED
    BY <2>1, <2>7, <2>8, <2>9, RequestSerial
<1>8. ASSUME NEW c \in Callers, Crash(c) PROVE SerialInv'
  <2>1. pc[c] # "idle" /\ Return(c, "none") /\ UNCHANGED clusterVars
    BY <1>8 DEF Crash
  <2>2. Frame(c)
    BY <2>1 DEF Frame, Return, clusterVars
  <2>3. CallerOK(c)'
    BY <2>1 DEF CallerOK, Return
  <2>4. NameOK(req[c].name)'
    BY <1>0, <2>1 DEF NameOK, Return, clusterVars, Live, Exists
  <2> QED
    BY <2>1, <2>2, <2>3, <2>4, RequestSerial
<1>9. CASE Controllers /\ UNCHANGED callerVars
  BY <1>9, ControllersSerial
<1> QED
  BY <1>1, <1>2, <1>3, <1>4, <1>5, <1>6, <1>7, <1>8, <1>9 DEF Next, Requests

\* In serial use the calls find at each of their requests what they rely on.
THEOREM SerialCorrect == ASSUME Serial PROVE Spec => []SerialInv
<1>1. Init => SerialInv
  BY DEF Init, ClusterInit, SerialInv, TurnsTaken, Cleared, Prepared, Adopting, PodsSupplied,
     UidsIssued, CredentialsCurrent, OwnerIsCurrent, Live, Exists, NoJob, FreshJob
<1>2. TypeOK /\ SerialInv /\ [Next]_vars => SerialInv'
  BY StepSerial
<1> QED
  BY <1>1, <1>2, TypeCorrect, PTL DEF Spec

\* In serial use the Secret of a Job that stays holds the credentials of the
\* dispatch that made the Job.
THEOREM SerialCredentials == ASSUME Serial PROVE Spec => []CredentialsCurrent
<1>1. SerialInv => CredentialsCurrent
  BY DEF SerialInv
<1> QED
  BY <1>1, SerialCorrect, PTL

\* In serial use no garbage collection takes the Secret of a Job that stays: the
\* owner it is adopted by is that Job.
THEOREM SerialOwner == ASSUME Serial PROVE Spec => []OwnerIsCurrent
<1>1. SerialInv => OwnerIsCurrent
  BY DEF SerialInv
<1> QED
  BY <1>1, SerialCorrect, PTL

\* In serial use every container of a Job is started with the credentials of
\* the dispatch that made the Job.
THEOREM SerialEnvironment == ASSUME Serial PROVE Spec => []EnvironmentCurrent
<1>1. SerialInv => EnvironmentCurrent
  BY DEF SerialInv, PodsSupplied, EnvironmentCurrent
<1> QED
  BY <1>1, SerialCorrect, PTL

\* A step in which a call of c ends is a request of c or its crash.
LEMMA ReturningStep ==
  ASSUME Next, NEW c \in Callers, NEW r, Returns(c, r), TypeOK
  PROVE  Requests(c) \/ Crash(c)
<1>1. ASSUME NEW d \in Callers, Begin(d) PROVE FALSE
  BY <1>1 DEF Begin, BeginWith, Returns, TypeOK, RunEntry
<1>2. ASSUME NEW d \in Callers, d # c, Requests(d) PROVE FALSE
  BY <1>2 DEF Requests, CreateSecret, CreateSecretTolerating, CreateJob, CreateJobTolerating,
     AdoptSecret, DeleteJob, DeleteJobTolerating, DeleteSecret, DeleteSecretTolerating, Goto,
     Return, Returns, TypeOK
<1>3. ASSUME NEW d \in Callers, d # c, Crash(d) PROVE FALSE
  BY <1>3 DEF Crash, Return, Returns, TypeOK
<1>4. ~UNCHANGED callerVars
  BY DEF callerVars, Returns
<1> QED
  BY <1>1, <1>2, <1>3, <1>4 DEF Next

\* In serial use a Delete that succeeds left neither Job nor Secret to stay.
THEOREM SerialDelete == ASSUME Serial PROVE Spec => DeleteCleans
<1>1. ASSUME TypeOK, SerialInv, [Next]_vars, NEW c \in Callers, Returns(c, "nil"),
             req[c].op = "delete"
      PROVE  ~Live(req[c].name)' /\ ~HasSecret(req[c].name)'
  <2>1. Next
    BY <1>1 DEF Returns, vars
  <2>2. \A d \in Callers : CallerOK(d)
    BY <1>1, SerialInvSplit
  <2>3. DeleteSecret(c)
    <3>1. ~Crash(c) /\ ~DeleteJob(c)
      BY <1>1 DEF Crash, DeleteJob, DeleteJobTolerating, Goto, Return, Returns, TypeOK
    <3>2. pc[c] \notin {"createSecret", "createJob", "adoptSecret"}
      BY <1>1, <2>2 DEF CallerOK
    <3> QED
      BY <1>1, <2>1, <3>1, <3>2, ReturningStep
         DEF Requests, CreateSecret, CreateSecretTolerating, CreateJob, CreateJobTolerating,
             AdoptSecret
  <2> DEFINE n == req[c].name
  <2>4. n \in Names /\ ~Live(n)
    BY <1>1, <2>2, <2>3 DEF DeleteSecret, DeleteSecretTolerating, CallerOK, TypeOK, Request
  <2>5. PICK reason \in Reasons :
          /\ ApiDeleteSecret(n, reason)
          /\ IF WrapK8sError(reason) \notin {"nil", "ErrResourceNotFound"}
             THEN Return(c, "error") ELSE Return(c, "nil")
    BY <1>1, <2>3 DEF DeleteSecret, DeleteSecretTolerating
  <2>6. reason \in {"OK", "NotFound"}
    BY <1>1, <2>5 DEF WrapK8sError, Reasons, Return, Returns, TypeOK
  <2>7. req' = req /\ jobs' = jobs
    BY <2>5 DEF Return, ApiDeleteSecret
  <2>8. secrets'[n].creds = NoCreds
    BY <1>1, <2>4, <2>5, <2>6, RefusalsAssumption
       DEF ApiDeleteSecret, HasSecret, NoSecret, TypeOK, ClusterTypeOK
  <2> QED
    BY <2>4, <2>7, <2>8 DEF Live, Exists, HasSecret
<1>2. TypeOK /\ SerialInv /\ [Next]_vars =>
        [\A c \in Callers : Returns(c, "nil") /\ req[c].op = "delete"
           => ~Live(req[c].name)' /\ ~HasSecret(req[c].name)']_vars
  BY <1>1
<1> QED
  BY <1>2, TypeCorrect, SerialCorrect, PTL DEF Spec, DeleteCleans

\* In serial use a Replace that succeeds did not leave the old Job to stay.
THEOREM SerialReplace == ASSUME Serial PROVE Spec => ReplaceRestarts
<1>1. ASSUME TypeOK, SerialInv, [Next]_vars, NEW c \in Callers, Returns(c, "nil"),
             req[c].op = "replace", Live(req[c].name)'
      PROVE  \/ jobs'[req[c].name].uid # jobs[req[c].name].uid
             \/ jobs'[req[c].name].uid = uid[c]
  <2> DEFINE n == req[c].name
  <2>1. Next
    BY <1>1 DEF Returns, vars
  <2>2. CallerOK(c) /\ UidsIssued /\ n \in Names
    BY <1>1, SerialInvSplit DEF TypeOK, Request
  <2>3. CreateJob(c) \/ AdoptSecret(c)
    <3>1. ~Crash(c) /\ ~DeleteJob(c) /\ ~CreateSecret(c) /\ ~DeleteSecret(c)
      BY <1>1 DEF Crash, DeleteJob, DeleteJobTolerating, CreateSecret, CreateSecretTolerating,
         DeleteSecret, DeleteSecretTolerating, RunEntry, Goto, Return, Returns, TypeOK
    <3> QED
      BY <1>1, <2>1, <3>1, ReturningStep DEF Requests
  <2>4. CASE CreateJob(c)
    <3>1. /\ ~Live(n) /\ req' = req
          /\ \/ UNCHANGED <<jobs, uids>>
             \/ jobs' = [jobs EXCEPT ![n] = FreshJob(uids + 1, req[c].creds)]
      BY <1>1, <2>2, <2>4
         DEF CreateJob, CreateJobTolerating, ApiCreateJob, CallerOK, Return, TypeOK
    <3>2. jobs[n].uid \in Nat /\ jobs[n].uid <= uids /\ uids \in Nat
      BY <1>1, <2>2 DEF UidsIssued, TypeOK, ClusterTypeOK, Job
    <3>3. jobs \in [Names -> Job]
      BY <1>1 DEF TypeOK, ClusterTypeOK
    <3>4. jobs' # jobs
      BY <1>1, <3>1 DEF Live, Exists
    <3> QED
      BY <2>2, <3>1, <3>2, <3>3, <3>4 DEF FreshJob
  <2>5. CASE AdoptSecret(c)
    BY <1>1, <2>2, <2>5 DEF AdoptSecret, ApiPatchOwner, CallerOK, Return, Live, Exists
  <2> QED
    BY <2>3, <2>4, <2>5
<1>2. TypeOK /\ SerialInv /\ [Next]_vars =>
        [\A c \in Callers :
           Returns(c, "nil") /\ req[c].op = "replace" /\ Live(req[c].name)'
             => \/ jobs'[req[c].name].uid # jobs[req[c].name].uid
                \/ jobs'[req[c].name].uid = uid[c]]_vars
  BY <1>1
<1> QED
  BY <1>2, TypeCorrect, SerialCorrect, PTL DEF Spec, ReplaceRestarts
=============================================================================
