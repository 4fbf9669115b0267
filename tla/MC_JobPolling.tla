---------------------------- MODULE MC_JobPolling ----------------------------
(***************************************************************************)
(* State on small instances, alone and in the retry loop.                  *)
(***************************************************************************)
EXTENDS JobRetry
=============================================================================
