------------------------------ MODULE JobRetry ------------------------------
(***************************************************************************)
(* The retry path that JobRunner.Replace is documented for: a provider     *)
(* polls an operation, replaces its Job when the poll says so, and polls   *)
(* again.  The loop itself is the provider's, which this library does not  *)
(* contain; it is modelled from the comment on Replace.                    *)
(***************************************************************************)
EXTENDS JobPolling

CONSTANT
  RetryOn  \* the phases of JobState on which the provider replaces the Job

ASSUME RetryOnAssumption == RetryOn \subseteq Phases

WantsRetry(q) == answer[q].phase \in RetryOn /\ uids < MaxJobs

\* An answer is acted upon once.
Retry(c, q) ==
  /\ at[q] = "idle" /\ WantsRetry(q)
  /\ Begin(c) /\ req'[c].op = "replace" /\ req'[c].name = answer[q].name
  /\ answer' = [answer EXCEPT ![q] = NoAnswer(@.name)]
  /\ UNCHANGED <<at, look>>

PollAgain(c, q) == pc[c] = "idle" /\ ~WantsRetry(q) /\ Poll(q)

\* The operation is dispatched by Run and only retried by Replace.
Dispatch(c) == uids = 0 /\ Begin(c) /\ req'[c].op = "run" /\ UNCHANGED pollVars

Loop(c, q) == \/ Dispatch(c) \/ PollAgain(c, q) \/ State(q) \/ Retry(c, q)
              \/ Requests(c) /\ UNCHANGED pollVars

Background == Controllers /\ UNCHANGED <<callerVars, pollVars>>

RetryNext == (\E c \in Callers, q \in Pollers : Loop(c, q)) \/ Background

\* The provider's loop goes on, and so do deletions and garbage collection.
\* Pods may hang: whether and when a Job ends is not assumed.
RetrySpec ==
  /\ PollInit /\ [][RetryNext]_allVars
  /\ \A c \in Callers, q \in Pollers : WF_allVars(Loop(c, q))
  /\ \A n \in Names : WF_allVars(RemoveJob(n) /\ UNCHANGED <<callerVars, pollVars>>)

\* A failed Job is eventually followed by a fresh one, although Replace may
\* meet the old Job while it is terminating and then dispatch nothing, and
\* although the TTL may take the failed Job away before or during a retry.
FailureIsRetried ==
  \A n \in Names, u \in 1..MaxJobs :
    jobs[n].uid = u /\ jobs[n].condition = "Failed" /\ u < MaxJobs ~> uids > u
=============================================================================
