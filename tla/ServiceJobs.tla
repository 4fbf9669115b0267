----------------------------- MODULE ServiceJobs -----------------------------
(***************************************************************************)
(* The conventions of provider/servicejob.go and provider/backupjob.go:    *)
(* how a detached operation of a service becomes the name and the labels   *)
(* of a Job.  A string with dashes is the sequence of the parts between    *)
(* them, so that joining with "-" is concatenation.                        *)
(***************************************************************************)
EXTENDS Naturals, Sequences

JobOpBackup == <<"backup">>
JobOpRestore == <<"restore">>
JobOpDeleteBackup == <<"delete", "backup">>

JobOps == {JobOpBackup, JobOpDeleteBackup, JobOpRestore}

\* "<operation>-<key>"
ServiceJobName(operation, key) == operation \o key

BackupJobName(backupID) == ServiceJobName(JobOpBackup, backupID)
DeleteBackupJobName(backupID) == ServiceJobName(JobOpDeleteBackup, backupID)

\* The labels by which a Job is found; "id" is the ServiceIDLabel.
IdentityLabels(j) ==
  IF j.operation \in {JobOpBackup, JobOpDeleteBackup}
  THEN [id |-> j.msID, backupID |-> j.key]
  ELSE [id |-> j.msID]

\* Two copies into one map: what is in f was copied last.
Over(f, g) == [l \in DOMAIN f \cup DOMAIN g |-> IF l \in DOMAIN f THEN f[l] ELSE g[l]]

\* Bug: the caller's labels are copied last.
LabelsOverridden(j) == Over(j.labels, IdentityLabels(j))

LabelsOf(j) == Over(IdentityLabels(j), j.labels)

ServiceJobSpec(j) ==
  [name |-> ServiceJobName(j.operation, j.key), labels |-> LabelsOf(j)]

\* An operation is told by the beginning of the name: none of a set of
\* operations begins with another one.
PrefixFree(operations) ==
  \A o, p \in operations :
    Len(o) <= Len(p) /\ (\A i \in 1..Len(o) : o[i] = p[i]) => o = p

\* Jobs of the same name are the same work: operations that a set of callers
\* use share no name, so that a dispatch never takes another operation's Job
\* for its own and State never reports on it.
NamesApart(operations, keys) ==
  \A o, p \in operations, k, l \in keys :
    ServiceJobName(o, k) = ServiceJobName(p, l) => o = p /\ k = l
=============================================================================
