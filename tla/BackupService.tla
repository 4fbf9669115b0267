---------------------------- MODULE BackupService ----------------------------
(***************************************************************************)
(* What the backup routes promise the client of a backup, without          *)
(* handlers, retries, Jobs, Secrets and requests: a backup is taken at     *)
(* most once; it is accepted only when it is being taken; and what it is   *)
(* reported to have become is what it has become, once and for all.        *)
(***************************************************************************)
CONSTANT BackupIDs

VARIABLES
  taken,  \* what has become of a backup
  told    \* what its client knows of it

serviceVars == <<taken, told>>

Outcomes == {"exists", "failed"}

TypeOK ==
  /\ taken \in [BackupIDs -> {"no", "running"} \cup Outcomes]
  /\ told \in [BackupIDs -> {"nothing", "accepted"} \cup Outcomes]

Init ==
  /\ taken = [b \in BackupIDs |-> "no"]
  /\ told = [b \in BackupIDs |-> "nothing"]

Becomes(b, from, to) == taken[b] = from /\ taken' = [taken EXCEPT ![b] = to]

\* TakeBackup: once.
Take(b) == Becomes(b, "no", "running") /\ UNCHANGED told

Conclude(b) == (\E o \in Outcomes : Becomes(b, "running", o)) /\ UNCHANGED told

\* 202, possibly long after the backup is over.
Accept(b) ==
  /\ told[b] = "nothing" /\ taken[b] # "no"
  /\ told' = [told EXCEPT ![b] = "accepted"]
  /\ UNCHANGED taken

\* GetBackupStatus.
Report(b) ==
  /\ told[b] = "accepted" /\ taken[b] \in Outcomes
  /\ told' = [told EXCEPT ![b] = taken[b]]
  /\ UNCHANGED taken

Next == \E b \in BackupIDs : Take(b) \/ Conclude(b) \/ Accept(b) \/ Report(b)

Spec == Init /\ [][Next]_serviceVars
=============================================================================
