--------------------------- MODULE JobRetryProofs ---------------------------
(***************************************************************************)
(* Theorems about JobPolling and JobRetry: that a provider's retry loop is *)
(* a use of JobRunner like any other, and that the failure it acts upon is *)
(* explained by the newest attempt.                                        *)
(***************************************************************************)
EXTENDS JobRetry, JobPollingProofs

(***************************************************************************)
(* What the pods in the namespace say of the Jobs, whoever calls what.     *)
(***************************************************************************)
PodsApart == \A p, r \in pods : p.uid = r.uid /\ p.attempt = r.attempt => p = r

UidsApart == \A n, m \in Names : Exists(n) /\ jobs[n].uid = jobs[m].uid => n = m

PodsPast ==
  \A p \in pods : p.uid # 0 /\ (Exists(p.name) => p.uid <= jobs[p.name].uid)

\* A pod of the Job that is there: its attempt is one that was counted, or the
\* one that is under way.
AttemptsCounted ==
  \A p \in pods, n \in Names : p.uid = jobs[n].uid =>
    /\ p.name = n
    /\ p.attempt <= jobs[n].failures + 1
    /\ ~Finished(n) /\ ~jobs[n].active => p.attempt <= jobs[n].failures
    /\ ~Finished(n) /\ Unfinished(p) => p.attempt = jobs[n].failures + 1

FailureOnRecord ==
  \A n \in Names : Live(n) /\ jobs[n].failures > 0 =>
    \E p \in pods :
      p.uid = jobs[n].uid /\ p.attempt = jobs[n].failures /\ p.phase = "Failed"

\* p is of a later attempt of the same Job, or a retry of a later Job.
Later(p, r) == \/ p.uid = r.uid /\ p.attempt > r.attempt
               \/ p.uid > r.uid /\ p.attempt > 1

\* Whole seconds tell the attempts of a Job apart, and its retries from the pods of
\* earlier Jobs of the name.
PodsInOrder == \A p, r \in pods : p.name = r.name /\ Later(p, r) => Newer(p, r)

Accounted ==
  PodsInOrder /\ UidsIssued /\ PodsApart /\ UidsApart /\ PodsPast /\ AttemptsCounted /\ FailureOnRecord

\* A pod before and after a step: it is no further from its end.
SamePod(p, r) ==
  /\ r.name = p.name /\ r.uid = p.uid /\ r.attempt = p.attempt /\ r.created = p.created
  /\ Unfinished(r) => Unfinished(p)
  /\ p.phase = "Failed" => r.phase = "Failed"

\* What a step does to the Job of a name: the Job goes, a new one comes, or it is
\* the same one, which is then not revived, and counts nothing once it is over.
LivesOn ==
  /\ uids <= uids'
  /\ \A n \in Names :
       \/ jobs'[n].uid = 0
       \/ jobs'[n].uid = uids + 1
       \/ /\ jobs'[n].uid = jobs[n].uid
          /\ Live(n)' => Live(n)
          /\ Finished(n) => Finished(n)' /\ jobs'[n].failures = jobs[n].failures

\* A Job that is created gets a UID that no pod has.
LEMMA CreateAccounted ==
  ASSUME TypeOK, Accounted, NEW n \in Names, NEW cr, ~Exists(n), uids' = uids + 1,
         jobs' = [jobs EXCEPT ![n] = FreshJob(uids + 1, cr)], pods' = pods
  PROVE  Accounted' /\ LivesOn
<1> USE DEF Exists, Live, Finished, Unfinished
<1>0. /\ jobs \in [Names -> Job] /\ pods \subseteq Pod /\ uids \in Nat
      /\ \A m \in Names : jobs[m].uid \in Nat
      /\ \A p \in pods : p.uid \in Nat /\ p.name \in Names
  BY DEF TypeOK, ClusterTypeOK, Job, Pod
<1>1. /\ jobs'[n].uid = uids + 1 /\ jobs'[n].failures = 0 /\ jobs'[n].condition = "None"
      /\ \A m \in Names \ {n} : jobs'[m] = jobs[m]
  BY <1>0 DEF FreshJob
<1>2. /\ \A m \in Names : jobs[m].uid <= uids
      /\ \A p \in pods : p.uid <= uids
  BY DEF Accounted, UidsIssued
<1>3. UidsIssued'
  BY <1>0, <1>1, <1>2 DEF UidsIssued
<1>4. PodsInOrder' /\ PodsApart' /\ UidsApart' /\ PodsPast'
  BY <1>0, <1>1, <1>2 DEF Accounted, PodsInOrder, PodsApart, UidsApart, PodsPast
<1>5. AttemptsCounted'
  BY <1>0, <1>1, <1>2 DEF Accounted, AttemptsCounted
<1>6. FailureOnRecord'
  BY <1>0, <1>1 DEF Accounted, FailureOnRecord
<1>7. LivesOn
  BY <1>0, <1>1 DEF LivesOn
<1> QED
  BY <1>3, <1>4, <1>5, <1>6, <1>7 DEF Accounted

\* A Job that is given up, expires, misses its deadline or starts a pod is the
\* same Job with the same count.
LEMMA ChangeAccounted ==
  ASSUME TypeOK, Accounted, NEW n \in Names, uids' = uids,
         \A m \in Names \ {n} : jobs'[m] = jobs[m],
         jobs'[n].uid = jobs[n].uid, jobs'[n].failures = jobs[n].failures,
         jobs'[n].deletion = "no" => jobs[n].deletion = "no",
         Finished(n) => Finished(n)', jobs[n].active => jobs'[n].active \/ Finished(n)',
         pods' \subseteq pods,
         \A p \in pods : p.phase = "Failed" => p \in pods'
  PROVE  Accounted' /\ LivesOn
<1> USE DEF Exists, Live, Finished, Unfinished
<1>0. /\ jobs \in [Names -> Job] /\ pods \subseteq Pod /\ uids \in Nat
      /\ \A m \in Names : jobs[m].uid \in Nat /\ jobs[m].failures \in Nat
      /\ \A p \in pods : p.uid \in Nat /\ p.name \in Names /\ p.attempt \in Nat
  BY DEF TypeOK, ClusterTypeOK, Job, Pod
<1>1. \A m \in Names : jobs'[m].uid = jobs[m].uid /\ jobs'[m].failures = jobs[m].failures
  OBVIOUS
<1>2. UidsIssued'
  BY <1>1 DEF Accounted, UidsIssued
<1>3. PodsInOrder' /\ PodsApart' /\ UidsApart' /\ PodsPast'
  BY <1>0, <1>1 DEF Accounted, PodsInOrder, PodsApart, UidsApart, PodsPast
<1>4. AttemptsCounted'
  BY <1>0, <1>1 DEF Accounted, AttemptsCounted
<1>5. FailureOnRecord'
  BY <1>0, <1>1 DEF Accounted, FailureOnRecord
<1>6. LivesOn
  BY <1>0, <1>1 DEF LivesOn
<1> QED
  BY <1>2, <1>3, <1>4, <1>5, <1>6 DEF Accounted

\* The pod of a new attempt gets a number that no pod of the Job has.
LEMMA CreatePodAccounted ==
  ASSUME TypeOK, Accounted, NEW n \in Names, CreatePod(n)
  PROVE  Accounted' /\ LivesOn
<1> USE DEF Exists, Live, Finished, Unfinished
<1>0. /\ jobs \in [Names -> Job] /\ pods \subseteq Pod /\ uids \in Nat
      /\ \A m \in Names : jobs[m].uid \in Nat /\ jobs[m].failures \in Nat
      /\ \A p \in pods : p.uid \in Nat /\ p.name \in Names /\ p.attempt \in Nat
  BY DEF TypeOK, ClusterTypeOK, Job, Pod
<1>1. /\ Exists(n) /\ Live(n) /\ ~Finished(n) /\ ~jobs[n].active /\ uids' = uids
      /\ jobs'[n] = [jobs[n] EXCEPT !.active = TRUE] /\ jobs[n] \in Job
      /\ \A m \in Names \ {n} : jobs'[m] = jobs[m]
  BY <1>0 DEF CreatePod
<1>2. /\ jobs'[n].active /\ jobs'[n].uid = jobs[n].uid /\ jobs'[n].failures = jobs[n].failures
      /\ jobs'[n].condition = jobs[n].condition /\ jobs'[n].deletion = jobs[n].deletion
  BY <1>1 DEF Job
<1>3. PICK q :
        /\ q.created \in SecondsAfter(n)
        /\ pods' = pods \cup {q}
        /\ q.name = n /\ q.uid = jobs[n].uid /\ q.attempt = jobs[n].failures + 1
        /\ q.phase = "Waiting"
  <2>1. PICK t \in SecondsAfter(n) : pods' = pods \cup {NextPod(n, t)}
    BY DEF CreatePod
  <2> DEFINE r == NextPod(n, t)
  <2>2. /\ r.name = n /\ r.uid = jobs[n].uid /\ r.attempt = jobs[n].failures + 1
        /\ r.created = t /\ r.phase = "Waiting"
    BY Zenon DEF NextPod
  <2>3. pods' = pods \cup {r}
    BY <2>1
  <2> HIDE DEF r
  <2> QED
    BY <2>2, <2>3
<1>4. \A m \in Names : /\ jobs'[m].uid = jobs[m].uid /\ jobs'[m].failures = jobs[m].failures
                       /\ jobs'[m].condition = jobs[m].condition
                       /\ jobs'[m].deletion = jobs[m].deletion
                       /\ m # n => jobs'[m] = jobs[m]
  BY <1>1, <1>2
<1>5. UidsIssued'
  BY <1>1, <1>3, <1>4 DEF Accounted, UidsIssued
<1>6. UidsApart' /\ PodsPast'
  BY <1>0, <1>1, <1>3, <1>4 DEF Accounted, UidsApart, PodsPast
<1>7. \A p \in pods : p.uid = jobs[n].uid => p.attempt <= jobs[n].failures
  BY <1>1 DEF Accounted, AttemptsCounted
<1>8. PodsApart'
  BY <1>0, <1>3, <1>7 DEF Accounted, PodsApart
<1>12. PodsInOrder'
  <2>1. \A r \in pods : r.name = n =>
          /\ r.created <= q.created
          /\ r.uid = jobs[n].uid \/ jobs[n].failures > 0 => r.created < q.created
    BY <1>3 DEF SecondsAfter, PodsNamed
  <2>2. \A r \in pods : r.name = n /\ Later(q, r) => Newer(q, r)
    BY <1>0, <1>3, <2>1 DEF Later, Newer
  <2>3. \A r \in pods : r.name = n => ~Later(r, q)
    BY <1>0, <1>1, <1>3, <1>7 DEF Later, Accounted, PodsPast
  <2>4. ~Later(q, q)
    BY <1>0, <1>3 DEF Later
  <2> QED
    BY <1>3, <2>2, <2>3, <2>4 DEF Accounted, PodsInOrder
<1>9. AttemptsCounted'
  <2>1. \A p \in pods, m \in Names : p.uid = jobs[m].uid =>
          /\ p.name = m
          /\ p.attempt <= jobs[m].failures + 1
          /\ ~Finished(m) /\ ~jobs[m].active => p.attempt <= jobs[m].failures
          /\ ~Finished(m) /\ Unfinished(p) => p.attempt = jobs[m].failures + 1
    BY DEF Accounted, AttemptsCounted
  <2>2. \A p \in pods : p.uid = jobs[n].uid => ~Unfinished(p)
    BY <1>0, <1>1, <1>7, <2>1
  <2>3. ASSUME NEW p \in pods, NEW m \in Names \ {n}, p.uid = jobs'[m].uid
        PROVE  /\ p.name = m
               /\ p.attempt <= jobs'[m].failures + 1
               /\ ~Finished(m)' /\ ~jobs'[m].active => p.attempt <= jobs'[m].failures
               /\ ~Finished(m)' /\ Unfinished(p) => p.attempt = jobs'[m].failures + 1
    BY <1>4, <2>1, <2>3
  <2>4. ASSUME NEW p \in pods, p.uid = jobs'[n].uid
        PROVE  /\ p.name = n
               /\ p.attempt <= jobs'[n].failures + 1
               /\ jobs'[n].active /\ ~Unfinished(p)
    BY <1>2, <2>1, <2>2, <2>4
  <2>5. ASSUME NEW m \in Names, q.uid = jobs'[m].uid PROVE m = n
    <3>1. jobs[n].uid = jobs[m].uid
      BY <1>3, <1>4, <2>5
    <3> QED
      BY <1>1, <3>1 DEF Accounted, UidsApart
  <2>6. q.attempt = jobs'[n].failures + 1 /\ jobs'[n].active /\ jobs'[n].failures \in Nat
    BY <1>0, <1>2, <1>3
  <2> QED
    BY <1>3, <2>3, <2>4, <2>5, <2>6 DEF AttemptsCounted
<1>10. FailureOnRecord'
  BY <1>3, <1>4 DEF Accounted, FailureOnRecord
<1>11. LivesOn
  BY <1>0, <1>1, <1>4 DEF LivesOn
<1> QED
  BY <1>5, <1>6, <1>8, <1>9, <1>10, <1>11, <1>12 DEF Accounted

\* Jobs may go, and pods may go or change, as long as a pod keeps its name, UID and
\* attempt and no failed pod of a Job that stays goes.
LEMMA PodsAccounted ==
  ASSUME TypeOK, Accounted, NEW kept \in SUBSET pods, NEW Now \in [kept -> Pod],
         uids' = uids, \A n \in Names : jobs'[n] = jobs[n] \/ jobs'[n].uid = 0,
         pods' = {Now[p] : p \in kept},
         \A p \in kept : SamePod(p, Now[p]),
         \A p \in pods : p.phase = "Failed" /\ Live(p.name) /\ p.uid = jobs[p.name].uid
                         => p \in kept
  PROVE  Accounted' /\ LivesOn
<1> USE DEF Exists, Live, Finished, SamePod
<1>0. /\ uids \in Nat /\ \A n \in Names : jobs[n].uid \in Nat
      /\ \A p \in pods : p.name \in Names
  BY DEF TypeOK, ClusterTypeOK, Job, Pod
<1>1. UidsIssued' /\ PodsApart' /\ PodsInOrder'
  BY <1>0 DEF Accounted, UidsIssued, PodsApart, PodsInOrder, Later, Newer
<1>2. UidsApart' /\ PodsPast'
  BY <1>0 DEF Accounted, UidsApart, PodsPast
<1>3. AttemptsCounted'
  <2> SUFFICES ASSUME NEW p \in kept, NEW n \in Names, Now[p].uid = jobs'[n].uid
               PROVE  /\ Now[p].name = n
                      /\ Now[p].attempt <= jobs'[n].failures + 1
                      /\ ~Finished(n)' /\ ~jobs'[n].active => Now[p].attempt <= jobs'[n].failures
                      /\ ~Finished(n)' /\ Unfinished(Now[p]) =>
                           Now[p].attempt = jobs'[n].failures + 1
    BY DEF AttemptsCounted
  <2>1. jobs'[n] = jobs[n]
    BY DEF Accounted, PodsPast
  <2> QED
    BY <2>1 DEF Accounted, AttemptsCounted
<1>4. FailureOnRecord'
  <2> SUFFICES ASSUME NEW n \in Names, Live(n)', jobs'[n].failures > 0
               PROVE  \E p \in pods' : /\ p.uid = jobs'[n].uid /\ p.attempt = jobs'[n].failures
                                       /\ p.phase = "Failed"
    BY DEF FailureOnRecord
  <2>1. jobs'[n] = jobs[n]
    OBVIOUS
  <2>2. PICK p \in pods :
          p.uid = jobs[n].uid /\ p.attempt = jobs[n].failures /\ p.phase = "Failed"
    BY <2>1 DEF Accounted, FailureOnRecord
  <2>3. p.name = n
    BY <2>2 DEF Accounted, AttemptsCounted
  <2>4. p \in kept /\ Now[p] \in pods'
    BY <2>1, <2>2, <2>3
  <2> QED
    BY <2>1, <2>2, <2>4
<1>5. LivesOn
  BY <1>0 DEF LivesOn
<1> QED
  BY <1>1, <1>2, <1>3, <1>4, <1>5 DEF Accounted

\* A container that ends is that of the last attempt, if its Job is still to end; a
\* failure that is counted has its number.
LEMMA EndAccounted ==
  ASSUME TypeOK, Accounted, NEW p \in pods, NEW o \in {"Succeeded", "Failed"},
         EndContainer(p, o)
  PROVE  Accounted' /\ LivesOn
<1> USE DEF Exists, Live, Finished
<1> DEFINE f == IF o = "Failed" THEN jobs[p.name].failures + 1 ELSE jobs[p.name].failures
           k == IF o = "Succeeded" THEN "Complete"
                ELSE IF jobs[p.name].failures + 1 > BackoffLimit THEN "Failed" ELSE "None"
           same == [jobs[p.name] EXCEPT !.active = FALSE, !.failures = f, !.condition = k]
<1>0. /\ jobs \in [Names -> Job] /\ pods \subseteq Pod /\ uids \in Nat
      /\ \A m \in Names : jobs[m].uid \in Nat /\ jobs[m].failures \in Nat
      /\ \A r \in pods : r.uid \in Nat /\ r.name \in Names /\ r.attempt \in Nat
  BY DEF TypeOK, ClusterTypeOK, Job, Pod
<1>1. PICK n \in Names : n = p.name
  BY <1>0
<1>2. PICK q : /\ pods' = (pods \ {p}) \cup {q}
               /\ q.name = n /\ q.uid = p.uid /\ q.attempt = p.attempt
               /\ q.created = p.created /\ q.phase = o
  <2>1. [p EXCEPT !.phase = o].phase = o
    BY <1>0 DEF Pod
  <2> QED
    BY <1>0, <1>1, <2>1 DEF EndContainer, Pod
<1>3. uids' = uids /\ p.phase = "Running"
  BY DEF EndContainer
<1>6. PodsInOrder'
  BY <1>1, <1>2 DEF Accounted, PodsInOrder, Later, Newer
<1>4. CASE jobs' = jobs /\ (p.uid = jobs[n].uid => Finished(n))
  <2>1. PodsApart' /\ UidsIssued'
    BY <1>2, <1>3, <1>4 DEF Accounted, PodsApart, UidsIssued
  <2>2. UidsApart' /\ PodsPast'
    <3>1. UidsApart'
      BY <1>4 DEF Accounted, UidsApart
    <3>2. p.uid # 0 /\ (Exists(n) => p.uid <= jobs[n].uid)
      BY <1>1 DEF Accounted, PodsPast
    <3>3. PodsPast'
      BY <1>2, <1>4, <3>2 DEF Accounted, PodsPast
    <3> QED
      BY <3>1, <3>3
  <2>3. AttemptsCounted'
    BY <1>1, <1>2, <1>4 DEF Accounted, AttemptsCounted, Unfinished
  <2>4. FailureOnRecord'
    BY <1>2, <1>3, <1>4 DEF Accounted, FailureOnRecord
  <2>5. LivesOn
    BY <1>0, <1>3, <1>4 DEF LivesOn
  <2> QED
    BY <1>6, <2>1, <2>2, <2>3, <2>4, <2>5 DEF Accounted
<1>5. CASE ~Finished(n) /\ p.uid = jobs[n].uid /\ jobs' = [jobs EXCEPT ![n] = Ended(jobs[n], o)]
  <2>1. jobs'[n] = same /\ \A m \in Names \ {n} : jobs'[m] = jobs[m]
    BY <1>0, <1>1, <1>5 DEF Ended
  <2>2. /\ jobs'[n].uid = jobs[n].uid /\ jobs'[n].failures = f /\ jobs'[n].condition = k
        /\ jobs'[n].deletion = jobs[n].deletion
    <3> HIDE DEF f, k
    <3> QED
      BY <1>0, <1>1, <2>1 DEF Job
  <2>3. p.attempt = jobs[n].failures + 1
    BY <1>1, <1>3, <1>5 DEF Accounted, AttemptsCounted, Unfinished
  <2>4. \A r \in pods \ {p} : r.uid = jobs[n].uid =>
          r.name = n /\ r.attempt <= jobs[n].failures /\ ~Unfinished(r)
    <3> SUFFICES ASSUME NEW r \in pods \ {p}, r.uid = jobs[n].uid
                 PROVE  r.name = n /\ r.attempt <= jobs[n].failures /\ ~Unfinished(r)
      OBVIOUS
    <3>1. r.attempt # p.attempt
      BY <1>5 DEF Accounted, PodsApart
    <3>2. /\ r.name = n /\ r.attempt <= jobs[n].failures + 1
          /\ Unfinished(r) => r.attempt = jobs[n].failures + 1
      BY <1>5 DEF Accounted, AttemptsCounted
    <3> QED
      BY <1>0, <2>3, <3>1, <3>2
  <2>5. UidsIssued' /\ PodsApart' /\ UidsApart' /\ PodsPast'
    <3>1. \A m \in Names : jobs'[m].uid = jobs[m].uid
      BY <2>1, <2>2
    <3> HIDE DEF same, f, k
    <3>2. UidsIssued' /\ PodsApart'
      BY <1>2, <1>3, <3>1 DEF Accounted, UidsIssued, PodsApart
    <3>3. UidsApart'
      BY <3>1 DEF Accounted, UidsApart
    <3>4. p.uid # 0 /\ (Exists(n) => p.uid <= jobs[n].uid)
      BY <1>1 DEF Accounted, PodsPast
    <3>5. PodsPast'
      BY <1>0, <1>2, <3>1, <3>4 DEF Accounted, PodsPast
    <3> QED
      BY <3>2, <3>3, <3>5
  <2>6. k = "Complete" \/ f = jobs[n].failures + 1
    BY <1>1
  <2>7. f >= jobs[n].failures /\ f \in Nat
    BY <1>0, <1>1
  <2>8. AttemptsCounted'
    <3>1. ASSUME NEW r \in pods', r.uid = jobs'[n].uid
          PROVE  /\ r.name = n /\ r.attempt <= jobs'[n].failures + 1
                 /\ ~Finished(n)' => r.attempt <= jobs'[n].failures
                 /\ ~Unfinished(r)
      <4> HIDE DEF f, k
      <4>1. CASE r = q
        BY <1>0, <1>2, <2>2, <2>3, <2>6, <2>7, <4>1 DEF Unfinished
      <4>2. CASE r \in pods \ {p}
        BY <1>0, <2>2, <2>4, <2>7, <3>1, <4>2
      <4> QED
        BY <1>2, <4>1, <4>2
    <3>2. ASSUME NEW r \in pods', NEW m \in Names \ {n}, r.uid = jobs'[m].uid
          PROVE  /\ r.name = m
                 /\ r.attempt <= jobs'[m].failures + 1
                 /\ ~Finished(m)' /\ ~jobs'[m].active => r.attempt <= jobs'[m].failures
                 /\ ~Finished(m)' /\ Unfinished(r) => r.attempt = jobs'[m].failures + 1
      <4>1. r # q
        BY <1>1, <1>2, <2>1, <3>2 DEF Accounted, AttemptsCounted
      <4> QED
        BY <1>2, <2>1, <3>2, <4>1 DEF Accounted, AttemptsCounted
    <3> QED
      BY <3>1, <3>2 DEF AttemptsCounted
  <2>9. FailureOnRecord'
    <3> SUFFICES ASSUME NEW m \in Names, Live(m)', jobs'[m].failures > 0
                 PROVE  \E r \in pods' : /\ r.uid = jobs'[m].uid /\ r.attempt = jobs'[m].failures
                                         /\ r.phase = "Failed"
      BY DEF FailureOnRecord
    <3>1. CASE m # n \/ o = "Succeeded"
      <4>1. jobs'[m].uid = jobs[m].uid /\ jobs'[m].failures = jobs[m].failures /\ Live(m)
        BY <1>1, <2>1, <2>2, <3>1
      <4>2. PICK r \in pods :
              r.uid = jobs[m].uid /\ r.attempt = jobs[m].failures /\ r.phase = "Failed"
        BY <4>1 DEF Accounted, FailureOnRecord
      <4> QED
        BY <1>2, <1>3, <4>1, <4>2
    <3>2. CASE m = n /\ o = "Failed"
      BY <1>1, <1>2, <1>5, <2>2, <2>3, <3>2
    <3> QED
      BY <3>1, <3>2
  <2>10. LivesOn
    BY <1>0, <1>3, <1>5, <2>1, <2>2 DEF LivesOn
  <2> QED
    BY <1>6, <2>5, <2>8, <2>9, <2>10 DEF Accounted
<1> QED
  BY <1>1, <1>4, <1>5 DEF EndContainer

\* Every step of callers and controllers keeps the account.
LEMMA StepAccounted ==
  ASSUME TypeOK, Accounted, [Next]_vars PROVE Accounted' /\ LivesOn
<1> USE DEF Exists, Live, Finished
<1>0. /\ jobs \in [Names -> Job] /\ pods \subseteq Pod /\ uids \in Nat
      /\ \A n \in Names : jobs[n] \in Job
      /\ \A p \in pods : p \in Pod /\ p.name \in Names
  BY DEF TypeOK, ClusterTypeOK, Job, Pod
<1>1. CASE UNCHANGED <<jobs, pods, uids>>
  <2>1. Accounted'
    BY <1>1 DEF Accounted, UidsIssued, PodsApart, PodsInOrder, UidsApart, PodsPast,
       AttemptsCounted, FailureOnRecord
  <2>2. LivesOn
    BY <1>0, <1>1 DEF LivesOn
  <2> QED
    BY <2>1, <2>2
<1>2. ASSUME NEW c \in Callers,
             Begin(c) \/ CreateSecret(c) \/ AdoptSecret(c) \/ DeleteSecret(c) \/ Crash(c)
      PROVE  Accounted' /\ LivesOn
  BY <1>1, <1>2 DEF Begin, BeginWith, CreateSecret, CreateSecretTolerating, ApiCreateSecret,
     AdoptSecret, ApiPatchOwner, DeleteSecret, DeleteSecretTolerating, ApiDeleteSecret, Crash,
     clusterVars
<1>3. ASSUME NEW c \in Callers, CreateJob(c) PROVE Accounted' /\ LivesOn
  <2>1. PICK n \in Names : n = req[c].name
    BY DEF TypeOK, Request
  <2>2. /\ pods' = pods
        /\ \/ UNCHANGED <<jobs, uids>>
           \/ /\ ~Exists(n) /\ uids' = uids + 1
              /\ jobs' = [jobs EXCEPT ![n] = FreshJob(uids + 1, req[c].creds)]
    BY <1>3, <2>1 DEF CreateJob, CreateJobTolerating, ApiCreateJob
  <2> QED
    BY <1>1, <2>2, CreateAccounted
<1>4. ASSUME NEW n \in Names, NEW how \in {"orphan", "cascade"}, UNCHANGED <<pods, uids>>,
             jobs' = [jobs EXCEPT ![n].deletion = how]
      PROVE  Accounted' /\ LivesOn
  <2>1. /\ jobs'[n] = [jobs[n] EXCEPT !.deletion = how]
        /\ \A m \in Names \ {n} : jobs'[m] = jobs[m]
    BY <1>0, <1>4
  <2>2. /\ jobs'[n].uid = jobs[n].uid /\ jobs'[n].failures = jobs[n].failures
        /\ jobs'[n].condition = jobs[n].condition /\ jobs'[n].deletion = how
        /\ jobs[n].active => jobs'[n].active
    BY <1>0, <2>1 DEF Job
  <2> QED
    BY <1>4, <2>1, <2>2, ChangeAccounted
<1>5. ASSUME NEW c \in Callers, DeleteJob(c) PROVE Accounted' /\ LivesOn
  <2>1. PICK n \in Names : n = req[c].name
    BY DEF TypeOK, Request
  <2>2. /\ UNCHANGED <<pods, uids>>
        /\ UNCHANGED jobs \/ \E how \in Propagation : jobs' = [jobs EXCEPT ![n].deletion = how]
    BY <1>5, <2>1 DEF DeleteJob, DeleteJobTolerating, ApiDeleteJob
  <2> QED
    BY <1>1, <1>4, <2>2, PropagationAssumption
<1>6. ASSUME NEW n \in Names, Expire(n) PROVE Accounted' /\ LivesOn
  BY <1>4, <1>6 DEF Expire, ExpireIf
<1>7. ASSUME NEW n \in Names, MissDeadline(n) PROVE Accounted' /\ LivesOn
  <2>1. jobs' = [jobs EXCEPT ![n] = [[jobs[n] EXCEPT !.condition = "Failed"] EXCEPT !.active = FALSE]]
    BY <1>0, <1>7 DEF MissDeadline, MissDeadlineIf
  <2>2. PICK j \in Job : j = [jobs[n] EXCEPT !.condition = "Failed"]
    BY <1>0 DEF Job
  <2>3. /\ jobs'[n] = [j EXCEPT !.active = FALSE]
        /\ \A m \in Names \ {n} : jobs'[m] = jobs[m]
    BY <1>0, <2>1, <2>2
  <2>4. /\ jobs'[n].uid = jobs[n].uid /\ jobs'[n].failures = jobs[n].failures
        /\ jobs'[n].condition = "Failed" /\ jobs'[n].deletion = jobs[n].deletion
    BY <1>0, <2>2, <2>3 DEF Job
  <2>5. /\ uids' = uids /\ pods' \subseteq pods
        /\ \A p \in pods : p.phase = "Failed" => p \in pods'
    BY <1>7 DEF MissDeadline, MissDeadlineIf
  <2> QED
    BY <2>3, <2>4, <2>5, ChangeAccounted
<1>8. ASSUME NEW n \in Names, RemoveJob(n) PROVE Accounted' /\ LivesOn
  <2> DEFINE Freed == [p \in pods |-> IF p.uid = jobs[n].uid THEN [p EXCEPT !.owned = FALSE] ELSE p]
             Same == [p \in pods |-> p]
  <2>1. /\ uids' = uids /\ jobs'[n] = NoJob /\ \A m \in Names \ {n} : jobs'[m] = jobs[m]
        /\ pods' = pods \/ pods' = {Freed[p] : p \in pods}
    BY <1>0, <1>8 DEF RemoveJob
  <2>2. \A m \in Names : jobs'[m] = jobs[m] \/ jobs'[m].uid = 0
    BY <2>1 DEF NoJob, FreshJob
  <2>3. /\ Same \in [pods -> Pod]
        /\ \A p \in pods : SamePod(p, Same[p])
    BY <1>0 DEF SamePod
  <2>4. /\ Freed \in [pods -> Pod]
        /\ \A p \in pods : SamePod(p, Freed[p])
    <3>1. \A p \in pods : [p EXCEPT !.owned = FALSE] \in Pod /\ SamePod(p, [p EXCEPT !.owned = FALSE])
      BY <1>0 DEF Pod, Unfinished, SamePod
    <3>2. \A p \in pods : p \in Pod /\ SamePod(p, p)
      BY <1>0 DEF SamePod
    <3> QED
      BY <3>1, <3>2
  <2>5. pods = {Same[p] : p \in pods}
    OBVIOUS
  <2> HIDE DEF Same, Freed
  <2>6. CASE pods' = {Freed[p] : p \in pods}
    BY <2>1, <2>2, <2>4, <2>6, PodsAccounted
  <2>7. CASE pods' = pods
    <3>1. pods' = {Same[p] : p \in pods}
      BY <2>5, <2>7
    <3> QED
      BY <2>1, <2>2, <2>3, <3>1, PodsAccounted
  <2> QED
    BY <2>1, <2>6, <2>7
<1>9. ASSUME NEW p \in pods, StartContainer(p) PROVE Accounted' /\ LivesOn
  <2> DEFINE env == IF p.refers THEN secrets[p.name].creds ELSE NoCreds
             started == [p EXCEPT !.phase = "Running", !.env = env]
             Now == [r \in pods |-> IF r = p THEN started ELSE r]
  <2>1. env \in Creds \cup {NoCreds}
    BY <1>0 DEF TypeOK, ClusterTypeOK, Secret
  <2>2. /\ started \in Pod /\ started.name = p.name /\ started.uid = p.uid
        /\ started.attempt = p.attempt /\ started.created = p.created
    <3> HIDE DEF env
    <3> QED
      BY <1>0, <2>1 DEF Pod
  <2>3. pods' = (pods \ {p}) \cup {started} /\ UNCHANGED <<jobs, uids>> /\ p.phase = "Waiting"
    BY <1>9 DEF StartContainer
  <2> HIDE DEF started
  <2>4. /\ Now \in [pods -> Pod]
        /\ \A r \in pods : SamePod(r, Now[r])
    BY <1>0, <2>2, <2>3 DEF Unfinished, SamePod
  <2>5. pods' = {Now[r] : r \in pods}
    BY <2>3
  <2> HIDE DEF Now
  <2> QED
    BY <2>3, <2>4, <2>5, PodsAccounted
<1>10. ASSUME NEW p \in pods, CollectPod(p) PROVE Accounted' /\ LivesOn
  <2> DEFINE kept == pods \ {p}
             Now == [r \in kept |-> r]
  <2>1. /\ Now \in [kept -> Pod]
        /\ \A r \in kept : SamePod(r, Now[r])
    BY <1>0 DEF SamePod
  <2>2. pods' = {Now[r] : r \in kept} /\ UNCHANGED <<jobs, uids>>
    BY <1>10 DEF CollectPod
  <2>3. \A r \in pods : Live(r.name) /\ r.uid = jobs[r.name].uid => r \in kept
    BY <1>10 DEF CollectPod, Gone
  <2>4. kept \in SUBSET pods
    OBVIOUS
  <2> HIDE DEF kept, Now
  <2> QED
    BY <2>1, <2>2, <2>3, <2>4, PodsAccounted
<1>11. ASSUME NEW n \in Names, CollectSecret(n) PROVE Accounted' /\ LivesOn
  BY <1>1, <1>11 DEF CollectSecret
<1>12. CASE UNCHANGED vars
  BY <1>1, <1>12 DEF vars
<1> QED
  BY <1>2, <1>3, <1>5, <1>6, <1>7, <1>8, <1>9, <1>10, <1>11, <1>12, CreatePodAccounted,
     EndAccounted DEF Next, Requests, Controllers

\* Whatever the callers do, the pods in the namespace account for every failure that
\* a Job has counted.
THEOREM FailuresAccounted == Spec => []Accounted
<1>1. Init => Accounted
  BY DEF Init, ClusterInit, NoJob, FreshJob, Accounted, UidsIssued, PodsApart, PodsInOrder,
     UidsApart, PodsPast, AttemptsCounted, FailureOnRecord, Exists, Live
<1>2. TypeOK /\ Accounted /\ [Next]_vars => Accounted'
  BY StepAccounted
<1> QED
  BY <1>1, <1>2, TypeCorrect, PTL DEF Spec

(***************************************************************************)
(* The retry loop uses the calls and the poll of the library.              *)
(***************************************************************************)

\* Of two steps that the provider's loop makes one is about the calls, the other
\* about the pollers; a retry makes its call and forgets the answer at once.
LEMMA LoopSteps ==
  ASSUME [RetryNext]_allVars
  PROVE  /\ [Next]_vars
         /\ \/ \E q \in Pollers : (Poll(q) \/ State(q)) /\ UNCHANGED vars
            \/ UNCHANGED <<at, look>>
<1>1. ASSUME NEW q \in Pollers, Poll(q) \/ State(q) PROVE UNCHANGED vars
  BY <1>1 DEF Poll, State, GetJob, ListPods, PodLogs
<1>2. ASSUME NEW c \in Callers, NEW q \in Pollers, Loop(c, q)
      PROVE  \/ Poll(q) \/ State(q)
             \/ (Begin(c) \/ Requests(c)) /\ UNCHANGED <<at, look>>
  BY <1>2 DEF Loop, Dispatch, PollAgain, Retry, pollVars
<1>3. CASE Background
  BY <1>3 DEF Background, Next, pollVars
<1>4. CASE UNCHANGED allVars
  BY <1>4 DEF allVars, pollVars
<1> QED
  BY <1>1, <1>2, <1>3, <1>4 DEF RetryNext, Next

\* The provider's loop is a use of JobRunner: what holds of its calls for any
\* callers holds while operations are retried.
THEOREM RetryIsAUse == RetrySpec => Spec
<1>1. PollInit => Init
  BY DEF PollInit
<1>2. [RetryNext]_allVars => [Next]_vars
  BY LoopSteps
<1> QED
  BY <1>1, <1>2, PTL DEF RetrySpec, Spec

\* What the pollers of the loop hold is of its type, also after a retry.
LEMMA LoopTypeOK == PollTypeOK /\ TypeOK' /\ [RetryNext]_allVars => PollTypeOK'
<1> SUFFICES ASSUME PollTypeOK, TypeOK', [RetryNext]_allVars PROVE PollTypeOK'
  OBVIOUS
<1>1. ASSUME NEW q \in Pollers, Poll(q) \/ State(q) PROVE PollTypeOK'
  BY <1>1, StepPollTypeOK DEF PollNext
<1>2. CASE UNCHANGED pollVars
  BY <1>2 DEF pollVars, PollTypeOK
<1>3. ASSUME NEW c \in Callers, NEW q \in Pollers, Retry(c, q) PROVE PollTypeOK'
  <2>1. /\ UNCHANGED <<at, look>>
        /\ answer' = [answer EXCEPT ![q] = NoAnswer(answer[q].name)]
    BY <1>3 DEF Retry, PollTypeOK
  <2>2. NoAnswer(answer[q].name) \in Answer
    BY DEF NoAnswer, NoLog, Log, Answer, Phases, PollTypeOK
  <2> QED
    BY <2>1, <2>2 DEF PollTypeOK
<1> QED
  BY <1>1, <1>2, <1>3 DEF RetryNext, Loop, Dispatch, PollAgain, Background, allVars, pollVars

\* In the retry loop, too, a poll holds a Job and its pods and answers a JobState.
THEOREM RetryTypeCorrect == RetrySpec => []PollTypeOK
<1>1. PollInit /\ TypeOK => PollTypeOK
  BY DEF PollInit, PollTypeOK, Idle, NoAnswer, Look, Answer, Log, NoLog, Phases, NoJob, FreshJob,
     Job
<1> QED
  BY <1>1, LoopTypeOK, RetryIsAUse, TypeCorrect, PTL DEF RetrySpec

(***************************************************************************)
(* The failure that a poll reports is that of the newest attempt.          *)
(***************************************************************************)
StillThere(q) == jobs[look[q].name].uid = look[q].job.uid

\* The pods that are not tried yet are of this Job or of earlier ones, in the order
\* of their seconds, and the last attempt that was counted is among them.
Explained(ps, u, failures) ==
  /\ \A p \in ps : p.uid <= u
  /\ \A p, r \in ps : Later(p, r) => Newer(p, r)
  /\ \E p \in ps : p.uid = u /\ p.attempt = failures

\* What a poll has read of a failed Job, as long as that Job is there: the count is
\* final, and the pods explain it if it was retried.
Explaining ==
  \A q \in Pollers :
    /\ at[q] \in {"listPods", "podLogs"} =>
         /\ look[q].job.uid # 0 /\ look[q].job.uid <= uids
         /\ StillThere(q) => /\ Finished(look[q].name)
                             /\ jobs[look[q].name].failures = look[q].job.failures
    /\ at[q] = "podLogs" /\ StillThere(q) /\ Live(look[q].name) /\ look[q].job.failures > 1 =>
         Explained(look[q].rest, look[q].job.uid, look[q].job.failures)

\* Of the pods of a Job that was retried and of earlier ones, one of its last attempt
\* comes first, however the sort leaves those of one second.
LEMMA NewestIsLast ==
  ASSUME NEW rest \in SUBSET Pod, NEW u \in Nat, NEW failures \in Nat, failures > 1,
         Explained(rest, u, failures), NEW p \in Newest(rest)
  PROVE  p \in rest /\ p.uid = u /\ failures <= p.attempt
<1>1. PICK last \in rest : last.uid = u /\ last.attempt = failures
  BY DEF Explained
<1>2. p \in rest /\ ~Newer(last, p)
  BY <1>1 DEF Newest
<1>3. ~Later(last, p)
  BY <1>1, <1>2 DEF Explained
<1>4. p.uid <= u /\ p.uid \in Nat /\ p.attempt \in Nat
  BY <1>2 DEF Explained, Pod
<1> QED
  BY <1>1, <1>2, <1>3, <1>4 DEF Later

\* What callers and controllers do to a Job that is being explained either keeps it
\* or takes it away for good.
LEMMA CallsExplaining ==
  ASSUME PollTypeOK, TypeOK', Explaining, LivesOn, UNCHANGED <<at, look>>
  PROVE  Explaining'
<1> USE DEF Exists, Live, Finished, StillThere
<1>0. /\ uids \in Nat /\ uids' \in Nat /\ \A n \in Names : jobs[n].uid \in Nat
      /\ \A q \in Pollers : look[q].name \in Names /\ look[q].job.uid \in Nat
  BY DEF PollTypeOK, TypeOK, ClusterTypeOK, Look, Job
<1> SUFFICES ASSUME NEW q \in Pollers, at[q] \in {"listPods", "podLogs"}
             PROVE  /\ look[q].job.uid <= uids'
                    /\ StillThere(q)' => /\ StillThere(q)
                                         /\ Finished(look[q].name)'
                                         /\ jobs'[look[q].name].failures = look[q].job.failures
                                         /\ Live(look[q].name)' => Live(look[q].name)
  BY DEF Explaining
<1>1. PICK n \in Names : n = look[q].name
  BY <1>0
<1>2. /\ look[q].job.uid # 0 /\ look[q].job.uid <= uids
      /\ StillThere(q) => Finished(n) /\ jobs[n].failures = look[q].job.failures
  BY <1>1 DEF Explaining
<1>3. \/ jobs'[n].uid = 0
      \/ jobs'[n].uid = uids + 1
      \/ /\ jobs'[n].uid = jobs[n].uid
         /\ Live(n)' => Live(n)
         /\ Finished(n) => Finished(n)' /\ jobs'[n].failures = jobs[n].failures
  BY DEF LivesOn
<1>4. look[q].job.uid <= uids'
  BY <1>0, <1>2 DEF LivesOn
<1>5. ASSUME StillThere(q)' PROVE jobs'[n].uid # 0 /\ jobs'[n].uid # uids + 1
  BY <1>0, <1>1, <1>2, <1>5
<1> QED
  BY <1>0, <1>1, <1>2, <1>3, <1>4, <1>5

\* The logs of a failed pod can be read as long as it exists.
LEMMA FailedPodHasLogs ==
  ASSUME Accounted, Refusals = {}, ~Silent, NEW r \in pods, r.phase = "Failed", NEW p,
         p.uid = r.uid, p.attempt = r.attempt
  PROVE  MayHaveLogs(p) /\ ~MayLackLogs(p)
<1>1. LogsNow(p) = {r}
  BY DEF Accounted, PodsApart, LogsNow
<1> QED
  BY <1>1 DEF MayHaveLogs, MayLackLogs

\* A request of a poll keeps what the poll knows of a Job that is still there, and an
\* answer that it gives names the newest attempt of that Job.
LEMMA PollExplaining ==
  ASSUME PollTypeOK, Accounted, Explaining, Refusals = {}, ~Silent, UNCHANGED vars,
         NEW q \in Pollers, Poll(q) \/ State(q)
  PROVE  /\ Explaining'
         /\ \A d \in Pollers :
              LET a == answer'[d] IN
              /\ Answers(d) /\ a.phase = "failed" /\ a.failures > 1
              /\ Live(a.name) /\ jobs[a.name].uid = a.uid
              => a.log.uid = a.uid /\ a.log.attempt >= a.failures
<1> USE DEF StillThere
<1> DEFINE Told(a) == /\ a.phase = "failed" /\ a.failures > 1
                      /\ Live(a.name) /\ jobs[a.name].uid = a.uid
                      => a.log.uid = a.uid /\ a.log.attempt >= a.failures
           n == look[q].name
           j == look[q].job
           Knows(l, k) ==
             /\ l \in {"listPods", "podLogs"} =>
                  /\ k.job.uid # 0 /\ k.job.uid <= uids
                  /\ jobs[k.name].uid = k.job.uid =>
                       Finished(k.name) /\ jobs[k.name].failures = k.job.failures
             /\ (/\ l = "podLogs" /\ jobs[k.name].uid = k.job.uid
                 /\ Live(k.name) /\ k.job.failures > 1) =>
                  Explained(k.rest, k.job.uid, k.job.failures)
<1>0. /\ n \in Names /\ jobs \in [Names -> Job] /\ jobs[n] \in Job /\ uids \in Nat
      /\ look[q] \in Look /\ j \in Job /\ pods \subseteq Pod
      /\ j.uid \in Nat /\ j.failures \in Nat
      /\ \A m \in Names : jobs[m].uid \in Nat /\ jobs[m].failures \in Nat
  BY DEF PollTypeOK, TypeOK, ClusterTypeOK, Look, Job
<1>1. \A d \in Pollers \ {q} : /\ at'[d] = at[d] /\ look'[d] = look[d]
                               /\ answer'[d] = answer[d]
  BY DEF Poll, State, GetJob, ListPods, PodLogs, AnswerWith, PollTypeOK
<1>2. \A d \in Pollers : Knows(at[d], look[d])
  BY DEF Explaining
<1>3. ASSUME Knows(at'[q], look'[q]), Answers(q) => Told(answer'[q])
      PROVE  /\ Explaining'
             /\ \A d \in Pollers : Answers(d) => Told(answer'[d])
  <2>1. \A d \in Pollers : Knows(at'[d], look'[d])
    BY <1>1, <1>2, <1>3
  <2>2. \A d \in Pollers \ {q} : ~Answers(d)
    BY <1>1 DEF Answers
  <2>3. Explaining'
    BY <2>1 DEF Explaining, vars, Finished, Live, Exists
  <2> QED
    BY <1>3, <2>2, <2>3
<1> SUFFICES Explaining' /\ \A d \in Pollers : Answers(d) => Told(answer'[d])
  OBVIOUS
<1> USE DEF Finished, Live, Exists
<1> HIDE DEF Knows, Told
<1>5. CASE Poll(q)
  <2>1. PICK m \in Names : look' = [look EXCEPT ![q] = Idle(m)]
    BY <1>5 DEF Poll
  <2>2. at'[q] = "getJob"
    BY <1>5 DEF Poll, PollTypeOK
  <2>3. Knows(at'[q], look'[q]) /\ ~Answers(q)
    BY <2>2 DEF Knows, Answers
  <2> QED
    BY <1>3, <2>3 DEF Told
<1>6. CASE GetJob(q)
  <2>1. CASE at'[q] = "idle"
    <3>1. Knows(at'[q], look'[q])
      BY <2>1 DEF Knows
    <3>2. answer'[q].phase # "failed"
      BY <1>6, <2>1 DEF GetJob, AnswerWith, PollTypeOK
    <3> QED
      BY <1>3, <3>1, <3>2 DEF Told
  <2>2. CASE at'[q] # "idle"
    <3>1. /\ Exists(n) /\ PhaseOf(jobs[n]) = "failed" /\ at'[q] = "listPods"
          /\ look' = [look EXCEPT ![q].job = jobs[n]]
      BY <1>6, <2>2 DEF GetJob, AnswerWith, PollTypeOK
    <3>2. look'[q].name = n /\ look'[q].job = jobs[n]
      BY <1>0, <3>1 DEF PollTypeOK, Look
    <3>3. Finished(n)
      BY <3>1 DEF PhaseOf, PhaseOr
    <3>4. jobs[n].uid <= uids
      BY <1>0 DEF Accounted, UidsIssued
    <3>5. Knows(at'[q], look'[q]) /\ ~Answers(q)
      BY <2>2, <3>1, <3>2, <3>3, <3>4 DEF Knows, Answers
    <3> QED
      BY <1>3, <3>5
  <2> QED
    BY <2>1, <2>2
<1>7. ASSUME at[q] \in {"listPods", "podLogs"}
      PROVE  /\ j.uid # 0 /\ j.uid <= uids
             /\ jobs[n].uid = j.uid => Finished(n) /\ jobs[n].failures = j.failures
  BY <1>2, <1>7 DEF Knows
<1>8. ASSUME jobs[n].uid = j.uid, j.uid # 0, Live(n), j.failures > 1, jobs[n].failures = j.failures
      PROVE  \E p \in pods : /\ p.uid = j.uid /\ p.attempt = j.failures /\ p.phase = "Failed"
                             /\ p.name = n
  <2>1. PICK p \in pods : p.uid = j.uid /\ p.attempt = j.failures /\ p.phase = "Failed"
    BY <1>0, <1>8 DEF Accounted, FailureOnRecord
  <2>2. p.name = n
    BY <1>0, <1>8, <2>1 DEF Accounted, AttemptsCounted
  <2> QED
    BY <2>1, <2>2
<1>9. CASE ListPods(q)
  <2>1. /\ at[q] = "listPods" /\ at'[q] = "podLogs"
        /\ look' = [look EXCEPT ![q].rest = PodsNamed(n)]
    BY <1>9 DEF ListPods, PollTypeOK
  <2>2. look'[q].name = n /\ look'[q].job = j /\ look'[q].rest = PodsNamed(n)
    BY <1>0, <2>1 DEF PollTypeOK, Look
  <2>3. ASSUME jobs[n].uid = j.uid, Live(n), j.failures > 1
        PROVE  Explained(PodsNamed(n), j.uid, j.failures)
    <3>1. jobs[n].failures = j.failures /\ j.uid # 0
      BY <1>7, <2>1, <2>3
    <3>2. \A p \in PodsNamed(n) : p.uid <= j.uid
      BY <1>0, <2>3, <3>1 DEF PodsNamed, Accounted, PodsPast
    <3>3. \A p, r \in PodsNamed(n) : Later(p, r) => Newer(p, r)
      BY DEF PodsNamed, Accounted, PodsInOrder
    <3>4. \E p \in PodsNamed(n) : p.uid = j.uid /\ p.attempt = j.failures
      BY <1>8, <2>3, <3>1 DEF PodsNamed
    <3> QED
      BY <3>2, <3>3, <3>4 DEF Explained
  <2>4. Knows(at'[q], look'[q]) /\ ~Answers(q)
    BY <1>7, <2>1, <2>2, <2>3 DEF Knows, Answers
  <2> QED
    BY <1>3, <2>4
<1>10. CASE PodLogs(q)
  <2> DEFINE rest == look[q].rest
  <2>1. at[q] = "podLogs" /\ rest \in SUBSET Pod
    BY <1>0, <1>10 DEF PodLogs, Look
  <2>2. ASSUME jobs[n].uid = j.uid, Live(n), j.failures > 1
        PROVE  /\ Explained(rest, j.uid, j.failures)
               /\ rest # {}
               /\ \A p \in Newest(rest) : p \in rest /\ p.uid = j.uid /\ j.failures <= p.attempt
    <3>1. Explained(rest, j.uid, j.failures)
      BY <1>2, <2>1, <2>2 DEF Knows
    <3> HIDE DEF rest, j
    <3>2. \A p \in Newest(rest) : p \in rest /\ p.uid = j.uid /\ j.failures <= p.attempt
      BY <1>0, <2>1, <2>2, <3>1, NewestIsLast
    <3> QED
      BY <3>1, <3>2 DEF Explained
  <2>3. ASSUME NEW log, AnswerWith(q, "failed", j, log),
               \/ \E p \in Newest(rest) : log = [uid |-> p.uid, attempt |-> p.attempt]
               \/ rest = {}
        PROVE  Explaining' /\ \A d \in Pollers : Answers(d) => Told(answer'[d])
    <3>1. at'[q] = "idle" /\ Knows(at'[q], look'[q])
      BY <2>3 DEF AnswerWith, PollTypeOK, Knows
    <3>2. /\ answer'[q].name = n /\ answer'[q].uid = j.uid /\ answer'[q].failures = j.failures
          /\ answer'[q].log = log
      BY <2>3 DEF AnswerWith, PollTypeOK
    <3> HIDE DEF rest
    <3>3. Told(answer'[q])
      BY <1>0, <2>2, <2>3, <3>2 DEF Told
    <3> QED
      BY <1>3, <3>1, <3>3
  <2>4. ASSUME NEW p \in Newest(rest), MayLackLogs(p), UNCHANGED <<at, answer>>,
               look' = [look EXCEPT ![q].rest = rest \ {p}]
        PROVE  Explaining' /\ \A d \in Pollers : Answers(d) => Told(answer'[d])
    <3>1. look'[q].name = n /\ look'[q].job = j /\ look'[q].rest = rest \ {p}
      BY <1>0, <2>4 DEF PollTypeOK, Look
    <3> HIDE DEF rest
    <3>2. ASSUME jobs[n].uid = j.uid, Live(n), j.failures > 1
          PROVE  Explained(rest \ {p}, j.uid, j.failures)
      <4>1. PICK last \in rest : last.uid = j.uid /\ last.attempt = j.failures
        BY <2>2, <3>2 DEF Explained
      <4>2. jobs[n].failures = j.failures /\ j.uid # 0
        BY <1>7, <2>1, <3>2
      <4>3. PICK r \in pods : r.uid = j.uid /\ r.attempt = j.failures /\ r.phase = "Failed"
        BY <1>8, <3>2, <4>2
      <4>4. last # p
        BY <2>4, <4>1, <4>3, FailedPodHasLogs
      <4> QED
        BY <2>2, <3>2, <4>1, <4>4 DEF Explained
    <3>3. Knows(at'[q], look'[q]) /\ ~Answers(q)
      BY <1>7, <2>1, <2>4, <3>1, <3>2 DEF Knows, Answers
    <3> QED
      BY <1>3, <3>3
  <2> QED
    BY <1>10, <2>3, <2>4 DEF PodLogs
<1> QED
  BY <1>5, <1>6, <1>9, <1>10 DEF State

\* Whether a step is one of a poll or of the calls, it keeps what the polls know, and
\* an answer that is given in it is explained.
LEMMA StepExplaining ==
  ASSUME PollTypeOK, TypeOK', Accounted, Explaining, Refusals = {}, ~Silent, [Next]_vars,
         \/ \E q \in Pollers : (Poll(q) \/ State(q)) /\ UNCHANGED vars
         \/ UNCHANGED <<at, look>>
  PROVE  /\ Explaining'
         /\ \A q \in Pollers :
              LET a == answer'[q] IN
              /\ Answers(q) /\ a.phase = "failed" /\ a.failures > 1
              /\ Live(a.name) /\ jobs[a.name].uid = a.uid
              => a.log.uid = a.uid /\ a.log.attempt >= a.failures
<1>1. ASSUME NEW q \in Pollers, Poll(q) \/ State(q), UNCHANGED vars
      PROVE  /\ Explaining'
             /\ \A d \in Pollers :
                  LET a == answer'[d] IN
                  /\ Answers(d) /\ a.phase = "failed" /\ a.failures > 1
                  /\ Live(a.name) /\ jobs[a.name].uid = a.uid
                  => a.log.uid = a.uid /\ a.log.attempt >= a.failures
  BY <1>1, PollExplaining
<1>2. CASE UNCHANGED <<at, look>>
  <2>1. TypeOK
    BY DEF PollTypeOK
  <2>2. Explaining'
    BY <1>2, <2>1, StepAccounted, CallsExplaining
  <2>3. \A q \in Pollers : ~Answers(q)
    BY <1>2 DEF Answers
  <2> QED
    BY <2>2, <2>3
<1> QED
  BY <1>1, <1>2

\* While the API server refuses no request and a failed container has logged
\* something, the failure that a poll reports of a Job that failed after a retry and is
\* still there is that of its newest attempt, also among pods of one second, however
\* many callers dispatch, replace and delete meanwhile.
THEOREM FailuresExplained ==
  ASSUME Refusals = {}, ~Silent PROVE PollSpec => NewestFailureExplains
<1>1. PollInit => Explaining
  BY DEF PollInit, Explaining
<1>2. [PollNext]_allVars =>
        \/ \E q \in Pollers : (Poll(q) \/ State(q)) /\ UNCHANGED vars
        \/ UNCHANGED <<at, look>>
  <2>1. ASSUME NEW q \in Pollers, Poll(q) \/ State(q) PROVE UNCHANGED vars
    BY <2>1 DEF Poll, State, GetJob, ListPods, PodLogs
  <2> QED
    BY <2>1 DEF PollNext, allVars, pollVars
<1>3. /\ PollTypeOK /\ TypeOK' /\ Accounted /\ Explaining
      /\ [Next]_vars /\ [PollNext]_allVars
      => /\ Explaining'
         /\ [\A q \in Pollers :
               LET a == answer'[q] IN
               /\ Answers(q) /\ a.phase = "failed" /\ a.failures > 1
               /\ Live(a.name) /\ jobs[a.name].uid = a.uid
               => a.log.uid = a.uid /\ a.log.attempt >= a.failures]_allVars
  BY <1>2, StepExplaining
<1> QED
  BY <1>1, <1>3, PollersOnlyRead, PollTypeCorrect, TypeCorrect, FailuresAccounted, PTL
     DEF PollSpec, Spec, NewestFailureExplains

\* A provider that retries failed operations is told, of each Job that failed after a
\* retry of its own and is still there, the failure of its newest attempt, and not one of an attempt or Job before it.
THEOREM RetriesExplained ==
  ASSUME Refusals = {}, ~Silent PROVE RetrySpec => NewestFailureExplains
<1>1. PollInit => Explaining
  BY DEF PollInit, Explaining
<1>2. /\ PollTypeOK /\ TypeOK' /\ Accounted /\ Explaining
      /\ [RetryNext]_allVars
      => /\ Explaining'
         /\ [\A q \in Pollers :
               LET a == answer'[q] IN
               /\ Answers(q) /\ a.phase = "failed" /\ a.failures > 1
               /\ Live(a.name) /\ jobs[a.name].uid = a.uid
               => a.log.uid = a.uid /\ a.log.attempt >= a.failures]_allVars
  BY LoopSteps, StepExplaining
<1> QED
  BY <1>1, <1>2, RetryIsAUse, RetryTypeCorrect, TypeCorrect, FailuresAccounted, PTL
     DEF RetrySpec, NewestFailureExplains
=============================================================================
