-------------------------- MODULE JobDispatchProofs --------------------------
(***************************************************************************)
(* Theorems about JobRunner under contention: that its calls keep the      *)
(* promise of OneShotJobs, and what holds when everybody calls Run.        *)
(***************************************************************************)
EXTENDS JobRunnerProofs

(***************************************************************************)
(* JobRunner implements OneShotJobs.                                       *)
(***************************************************************************)

\* Only Delete and Replace make the requests of Delete, only Run and Replace
\* those of Run.
OpOK ==
  \A c \in Callers :
    /\ pc[c] \in {"deleteJob", "deleteSecret"} => req[c].op # "run"
    /\ pc[c] \in {"createSecret", "createJob", "adoptSecret"} => req[c].op # "delete"

\* A step keeps every call at a request of its own operation.
LEMMA StepOpOK == TypeOK /\ OpOK /\ [Next]_vars => OpOK'
<1> SUFFICES ASSUME TypeOK, OpOK, [Next]_vars PROVE OpOK'
  OBVIOUS
<1> USE DEF TypeOK, OpOK, Request
<1>1. CASE UNCHANGED vars
  BY <1>1 DEF vars
<1>2. ASSUME NEW c \in Callers, Begin(c) PROVE OpOK'
  <2>1. PICK r \in Request : /\ req' = [req EXCEPT ![c] = r]
                             /\ pc' = [pc EXCEPT ![c] = IF r.op = "run" THEN RunEntry(r.creds)
                                                                      ELSE "deleteJob"]
    BY <1>2 DEF Begin, BeginWith
  <2> QED
    BY <2>1 DEF RunEntry
<1>3. ASSUME NEW c \in Callers, CreateSecret(c) PROVE OpOK'
  BY <1>3 DEF CreateSecret, CreateSecretTolerating, Goto, Return
<1>4. ASSUME NEW c \in Callers, CreateJob(c) PROVE OpOK'
  BY <1>4 DEF CreateJob, CreateJobTolerating, Return
<1>5. ASSUME NEW c \in Callers, AdoptSecret(c) PROVE OpOK'
  BY <1>5 DEF AdoptSecret, Return
<1>6. ASSUME NEW c \in Callers, DeleteJob(c) PROVE OpOK'
  BY <1>6 DEF DeleteJob, DeleteJobTolerating, Goto, Return
<1>7. ASSUME NEW c \in Callers, DeleteSecret(c) PROVE OpOK'
  BY <1>7 DEF DeleteSecret, DeleteSecretTolerating, Goto, Return, RunEntry
<1>8. ASSUME NEW c \in Callers, Crash(c) PROVE OpOK'
  BY <1>8 DEF Crash, Return
<1>9. CASE Controllers /\ UNCHANGED callerVars
  BY <1>9 DEF callerVars
<1> QED
  BY <1>1, <1>2, <1>3, <1>4, <1>5, <1>6, <1>7, <1>8, <1>9 DEF Next, Requests

\* The abstract variables of the refinement mapping.
Work == [n \in Names |-> WorkOf(n)]
CallOf(c) == [op |-> req[c].op, name |-> req[c].name, stage |-> StageOf(c), result |-> ret[c]]
AllCalls == [c \in Callers |-> CallOf(c)]

\* The stages by the request that is next.
LEMMA Stages ==
  ASSUME NEW c \in Callers
  PROVE  /\ pc[c] = "idle" => StageOf(c) = "idle"
         /\ pc[c] = "deleteJob" => StageOf(c) = "asked"
         /\ pc[c] = "deleteSecret" => StageOf(c) = "cleared"
         /\ pc[c] \in {"createSecret", "createJob"} =>
              StageOf(c) = IF req[c].op = "run" THEN "asked" ELSE "cleared"
         /\ pc[c] = "adoptSecret" => StageOf(c) = "dispatched"
BY DEF StageOf

\* A call that moved to stage t and result v, as an update of all calls.
LEMMA CallUpdated ==
  ASSUME NEW A \in [Callers -> OneShot!Call], NEW B \in [Callers -> OneShot!Call],
         NEW c \in Callers, NEW t, NEW v,
         \A d \in Callers \ {c} : B[d] = A[d],
         B[c] = [op |-> A[c].op, name |-> A[c].name, stage |-> t, result |-> v]
  PROVE  /\ v = A[c].result => B = [A EXCEPT ![c].stage = t]
         /\ B = [A EXCEPT ![c].stage = t, ![c].result = v]
<1>1. A[c] \in OneShot!Call
  OBVIOUS
<1>2. PICK o, n, s, r : A[c] = [op |-> o, name |-> n, stage |-> s, result |-> r]
  BY <1>1 DEF OneShot!Call
<1>3. [A[c] EXCEPT !.stage = t] = [op |-> o, name |-> n, stage |-> t, result |-> r]
  BY <1>2
<1>4. [[A[c] EXCEPT !.stage = t] EXCEPT !.result = v]
        = [op |-> o, name |-> n, stage |-> t, result |-> v]
  <2> DEFINE moved == [A[c] EXCEPT !.stage = t]
  <2>1. moved = [op |-> o, name |-> n, stage |-> t, result |-> r]
    BY <1>3
  <2> HIDE DEF moved
  <2>2. [moved EXCEPT !.result = v] = [op |-> o, name |-> n, stage |-> t, result |-> v]
    BY <2>1
  <2> QED
    BY <2>2 DEF moved
<1>5. v = A[c].result => B[c] = [A[c] EXCEPT !.stage = t]
  BY <1>2, <1>3
<1>6. B[c] = [[A[c] EXCEPT !.stage = t] EXCEPT !.result = v]
  BY <1>2, <1>4
<1>7. v = A[c].result => B = [A EXCEPT ![c].stage = t]
  BY <1>5
<1>8. B = [[A EXCEPT ![c].stage = t] EXCEPT ![c].result = v]
  BY <1>6
<1> QED
  BY <1>7, <1>8

\* The calls, as the abstract specification sees them, are of its type.
LEMMA CallsTyped == TypeOK => AllCalls \in [Callers -> OneShot!Call]
<1> SUFFICES ASSUME TypeOK, NEW c \in Callers PROVE CallOf(c) \in OneShot!Call
  BY DEF AllCalls
<1>1. StageOf(c) \in {"idle", "asked", "cleared", "dispatched"}
  BY Stages DEF TypeOK
<1> QED
  BY <1>1 DEF CallOf, OneShot!Call, TypeOK, Request

\* A step of one call changes the stage and the result of that call only.
LEMMA CallMoves ==
  ASSUME TypeOK, TypeOK', NEW c \in Callers, req' = req,
         \A d \in Callers \ {c} : pc'[d] = pc[d] /\ ret'[d] = ret[d]
  PROVE  /\ ret'[c] = ret[c] => AllCalls' = [AllCalls EXCEPT ![c].stage = StageOf(c)']
         /\ AllCalls' = [AllCalls EXCEPT ![c].stage = StageOf(c)', ![c].result = ret'[c]]
<1>1. \A d \in Callers \ {c} : CallOf(d)' = CallOf(d)
  BY DEF CallOf, StageOf
<1>2. \A d \in Callers : AllCalls[d] = CallOf(d) /\ AllCalls'[d] = CallOf(d)'
  BY DEF AllCalls
<1>3. CallOf(c)' = [op |-> req[c].op, name |-> req[c].name, stage |-> StageOf(c)',
                    result |-> ret'[c]]
  BY DEF CallOf
<1>4. /\ CallOf(c).op = req[c].op /\ CallOf(c).name = req[c].name
      /\ CallOf(c).result = ret[c]
  BY DEF CallOf
<1>5. (AllCalls \in [Callers -> OneShot!Call])'
  BY CallsTyped, PTL
<1> DEFINE A == AllCalls
           B == AllCalls'
           t == StageOf(c)'
           v == ret'[c]
<1>6. A \in [Callers -> OneShot!Call] /\ B \in [Callers -> OneShot!Call]
  BY CallsTyped, <1>5
<1>7. /\ \A d \in Callers \ {c} : B[d] = A[d]
      /\ B[c] = [op |-> A[c].op, name |-> A[c].name, stage |-> t, result |-> v]
      /\ A[c].result = ret[c]
  BY <1>1, <1>2, <1>3, <1>4
<1>8. /\ v = A[c].result => B = [A EXCEPT ![c].stage = t]
      /\ B = [A EXCEPT ![c].stage = t, ![c].result = v]
  <2> HIDE DEF A, B, t, v
  <2> QED
    BY <1>6, <1>7, CallUpdated
<1> QED
  BY <1>7, <1>8

\* OneShot, with its variables opaque.
Promise == INSTANCE OneShotJobs WITH work <- Work, made <- uids, call <- AllCalls

\* The abstract specification under the two names of its instances is one.
LEMMA SamePromise ==
  /\ Promise!Init <=> OneShot!Init
  /\ [Promise!Next]_(Promise!oneShotVars) <=> [OneShot!Next]_(OneShot!oneShotVars)
<1> USE DEF Work, AllCalls, CallOf, Promise!Stage, OneShot!Stage, Promise!Result, OneShot!Result,
        Promise!Call, OneShot!Call, Promise!MayClear, OneShot!MayClear,
        Promise!MayDispatch, OneShot!MayDispatch, Promise!Removed, OneShot!Removed,
        Promise!Stays, OneShot!Stays, Promise!Turn, OneShot!Turn
<1>1. Promise!Init <=> OneShot!Init
  BY Zenon DEF Promise!Init, OneShot!Init
<1>2. \A c \in Callers :
        /\ Promise!Ask(c) <=> OneShot!Ask(c)
        /\ Promise!Clear(c) <=> OneShot!Clear(c)
        /\ Promise!ClearFails(c) <=> OneShot!ClearFails(c)
        /\ Promise!Dispatch(c) <=> OneShot!Dispatch(c)
        /\ Promise!NoOp(c) <=> OneShot!NoOp(c)
        /\ Promise!Succeed(c) <=> OneShot!Succeed(c)
        /\ Promise!Fail(c) <=> OneShot!Fail(c)
        /\ Promise!Die(c) <=> OneShot!Die(c)
  BY Zenon DEF Promise!Ask, OneShot!Ask, Promise!Clear, OneShot!Clear, Promise!ClearFails,
     OneShot!ClearFails, Promise!Dispatch, OneShot!Dispatch, Promise!NoOp, OneShot!NoOp,
     Promise!Succeed, OneShot!Succeed, Promise!Fail, OneShot!Fail, Promise!Die, OneShot!Die
<1>3. \A n \in Names : Promise!Passes(n) <=> OneShot!Passes(n)
  BY Zenon DEF Promise!Passes, OneShot!Passes
<1>4. Promise!Next <=> OneShot!Next
  BY <1>2, <1>3, Zenon DEF Promise!Next, OneShot!Next
<1>5. UNCHANGED Promise!oneShotVars <=> UNCHANGED OneShot!oneShotVars
  BY Zenon DEF Promise!oneShotVars, OneShot!oneShotVars
<1> QED
  BY <1>1, <1>4, <1>5

\* The abstract view of a call, field by field.
LEMMA CallFields ==
  ASSUME NEW c \in Callers
  PROVE  /\ AllCalls[c].op = req[c].op /\ AllCalls[c].name = req[c].name
         /\ AllCalls[c].stage = StageOf(c) /\ AllCalls[c].result = ret[c]
BY DEF AllCalls, CallOf

\* What the work of a name looks like depends on three fields of its Job.
LEMMA WorkMoves ==
  ASSUME NEW n \in Names,
         \A m \in Names \ {n} : /\ jobs'[m].uid = jobs[m].uid
                                /\ jobs'[m].condition = jobs[m].condition
                                /\ jobs'[m].deletion = jobs[m].deletion
  PROVE  /\ Work' = [Work EXCEPT ![n] = WorkOf(n)']
         /\ WorkOf(n)' = WorkOf(n) => Work' = Work
         /\ Work[n] = WorkOf(n)
<1>1. \A m \in Names \ {n} : WorkOf(m)' = WorkOf(m)
  BY DEF WorkOf, Exists, Live, Finished
<1> QED
  BY <1>1 DEF Work

\* A call returns: what the abstract call does is its result alone.
LEMMA ReturnMoves ==
  ASSUME TypeOK, TypeOK', NEW c \in Callers, NEW r, Return(c, r)
  PROVE  Promise!Result(c, r)
<1>1. /\ req' = req /\ pc'[c] = "idle" /\ ret'[c] = r
      /\ \A d \in Callers \ {c} : pc'[d] = pc[d] /\ ret'[d] = ret[d]
  BY DEF Return, TypeOK
<1>2. StageOf(c)' = "idle"
  BY <1>1 DEF StageOf
<1> QED
  BY <1>1, <1>2, CallMoves DEF Promise!Result

\* A call goes on: its stage may change, or stay as it is.
LEMMA GotoMoves ==
  ASSUME TypeOK, TypeOK', NEW c \in Callers, req' = req, ret' = ret,
         \A d \in Callers \ {c} : pc'[d] = pc[d]
  PROVE  /\ Promise!Stage(c, StageOf(c)')
         /\ StageOf(c)' = StageOf(c) => AllCalls' = AllCalls
<1>1. AllCalls' = [AllCalls EXCEPT ![c].stage = StageOf(c)']
  BY CallMoves
<1>2. ASSUME StageOf(c)' = StageOf(c) PROVE AllCalls' = AllCalls
  <2>1. \A d \in Callers : CallOf(d)' = CallOf(d)
    BY <1>2 DEF CallOf, StageOf
  <2> QED
    BY <2>1 DEF AllCalls
<1> QED
  BY <1>1, <1>2 DEF Promise!Stage

\* Every step of a caller is a step of OneShotJobs, or none.
LEMMA BeginImplements ==
  ASSUME TypeOK, TypeOK', NEW c \in Callers, Begin(c) PROVE Promise!Ask(c)
<1>1. /\ pc[c] = "idle" /\ UNCHANGED clusterVars
      /\ \A d \in Callers \ {c} : pc'[d] = pc[d] /\ req'[d] = req[d] /\ ret'[d] = ret[d]
      /\ ret'[c] = "none"
  BY DEF Begin, BeginWith, TypeOK
<1>2. StageOf(c)' = "asked"
  <2>1. PICK r \in Request : /\ req' = [req EXCEPT ![c] = r]
                             /\ pc' = [pc EXCEPT ![c] = IF r.op = "run" THEN RunEntry(r.creds)
                                                                      ELSE "deleteJob"]
    BY DEF Begin, BeginWith
  <2>2. req'[c] = r /\ pc'[c] = IF r.op = "run" THEN RunEntry(r.creds) ELSE "deleteJob"
    BY <2>1 DEF TypeOK
  <2>3. \/ r.op = "run" /\ pc'[c] \in {"createSecret", "createJob"}
        \/ pc'[c] = "deleteJob"
    BY <2>2 DEF RunEntry
  <2> QED
    BY <2>2, <2>3 DEF StageOf
<1>3. StageOf(c) = "idle"
  BY <1>1 DEF StageOf
<1>4. \A d \in Callers \ {c} : CallOf(d)' = CallOf(d)
  BY <1>1 DEF CallOf, StageOf
<1>5. (AllCalls \in [Callers -> OneShot!Call])'
  BY CallsTyped, PTL
<1>6. CallOf(c)' \in OneShot!Call
  BY <1>5 DEF AllCalls
<1>7. CallOf(c)'.stage = "asked" /\ CallOf(c)'.result = "none"
  BY <1>1, <1>2 DEF CallOf
<1>8. AllCalls' = [AllCalls EXCEPT ![c] = CallOf(c)']
  BY <1>4 DEF AllCalls
<1>9. Work' = Work /\ uids' = uids
  BY <1>1 DEF Work, WorkOf, Exists, Live, Finished, clusterVars
<1>10. Promise!Call = OneShot!Call
  BY DEF Promise!Call, OneShot!Call
<1> QED
  BY <1>3, <1>6, <1>7, <1>8, <1>9, <1>10, CallFields DEF Promise!Ask

\* The requests for the Secret do not touch the work; only their errors show.
LEMMA CreateSecretImplements ==
  ASSUME TypeOK, TypeOK', OpOK, NEW c \in Callers, CreateSecret(c)
  PROVE  Promise!Fail(c) \/ UNCHANGED Promise!oneShotVars
<1>1. /\ pc[c] = "createSecret" /\ UNCHANGED <<jobs, uids>>
      /\ Goto(c, "createJob") \/ Return(c, "error")
  BY DEF CreateSecret, CreateSecretTolerating, ApiCreateSecret
<1>2. Work' = Work
  BY <1>1 DEF Work, WorkOf, Exists, Live, Finished
<1>3. StageOf(c) \in {"asked", "cleared"}
  BY <1>1, Stages
<1>4. CASE Goto(c, "createJob")
  <2>1. /\ req' = req /\ ret' = ret /\ pc'[c] = "createJob"
        /\ \A d \in Callers \ {c} : pc'[d] = pc[d]
    BY <1>4 DEF Goto, TypeOK
  <2>2. StageOf(c)' = StageOf(c)
    BY <1>1, <2>1 DEF StageOf
  <2>3. AllCalls' = AllCalls
    BY <2>1, <2>2, GotoMoves
  <2> QED
    BY <1>1, <1>2, <2>3 DEF Promise!oneShotVars
<1>5. CASE Return(c, "error")
  BY <1>1, <1>2, <1>3, <1>5, ReturnMoves, CallFields DEF Promise!Fail
<1> QED
  BY <1>1, <1>4, <1>5

\* The second request of Delete ends the call, or Replace goes on unseen.
LEMMA DeleteSecretImplements ==
  ASSUME TypeOK, TypeOK', OpOK, NEW c \in Callers, DeleteSecret(c)
  PROVE  Promise!Fail(c) \/ Promise!Succeed(c) \/ UNCHANGED Promise!oneShotVars
<1>1. /\ pc[c] = "deleteSecret" /\ UNCHANGED <<jobs, uids>>
      /\ \/ Return(c, "error")
         \/ req[c].op = "replace" /\ Goto(c, RunEntry(req[c].creds))
         \/ req[c].op # "replace" /\ Return(c, "nil")
  BY DEF DeleteSecret, DeleteSecretTolerating, ApiDeleteSecret
<1>2. Work' = Work
  BY <1>1 DEF Work, WorkOf, Exists, Live, Finished
<1>3. StageOf(c) = "cleared"
  BY <1>1, Stages
<1>4. CASE req[c].op = "replace" /\ Goto(c, RunEntry(req[c].creds))
  <2>1. /\ req' = req /\ ret' = ret /\ pc'[c] \in {"createSecret", "createJob"}
        /\ \A d \in Callers \ {c} : pc'[d] = pc[d]
    BY <1>4 DEF Goto, RunEntry, TypeOK
  <2>2. StageOf(c)' = StageOf(c)
    BY <1>1, <1>4, <2>1 DEF StageOf
  <2>3. AllCalls' = AllCalls
    BY <2>1, <2>2, GotoMoves
  <2> QED
    BY <1>1, <1>2, <2>3 DEF Promise!oneShotVars
<1>5. CASE Return(c, "error")
  BY <1>1, <1>2, <1>3, <1>5, ReturnMoves, CallFields DEF Promise!Fail
<1>6. CASE req[c].op # "replace" /\ Return(c, "nil")
  <2>1. req[c].op = "delete"
    BY <1>1, <1>6 DEF OpOK, TypeOK, Request
  <2> QED
    BY <1>1, <1>2, <1>3, <1>6, <2>1, ReturnMoves, CallFields DEF Promise!Succeed
<1> QED
  BY <1>1, <1>4, <1>5, <1>6

\* The adoption ends the call as a success, whatever it answers.
LEMMA AdoptSecretImplements ==
  ASSUME TypeOK, TypeOK', NEW c \in Callers, AdoptSecret(c)
  PROVE  Promise!Succeed(c)
<1>1. pc[c] = "adoptSecret" /\ UNCHANGED <<jobs, uids>> /\ Return(c, "nil")
  BY DEF AdoptSecret, ApiPatchOwner
<1>2. Work' = Work
  BY <1>1 DEF Work, WorkOf, Exists, Live, Finished
<1>3. StageOf(c) = "dispatched"
  BY <1>1, Stages
<1> QED
  BY <1>1, <1>2, <1>3, ReturnMoves, CallFields DEF Promise!Succeed

\* A caller that dies leaves its call without a result.
LEMMA CrashImplements ==
  ASSUME TypeOK, TypeOK', NEW c \in Callers, Crash(c)
  PROVE  Promise!Die(c)
<1>1. pc[c] # "idle" /\ UNCHANGED <<jobs, uids>> /\ Return(c, "none")
  BY DEF Crash, clusterVars
<1>2. Work' = Work
  BY <1>1 DEF Work, WorkOf, Exists, Live, Finished
<1>3. StageOf(c) # "idle"
  BY <1>1, Stages DEF TypeOK
<1> QED
  BY <1>1, <1>2, <1>3, ReturnMoves, CallFields DEF Promise!Die

\* The answer of the create tells whether the work was there; "Conflict" would
\* say so falsely.
LEMMA CreateJobImplements ==
  ASSUME TypeOK, TypeOK', OpOK, "Conflict" \notin Refusals, NEW c \in Callers, CreateJob(c)
  PROVE  Promise!Dispatch(c) \/ Promise!NoOp(c) \/ Promise!Fail(c)
<1> DEFINE cr == req[c].creds
<1>0. PICK n \in Names : n = req[c].name
  BY DEF TypeOK, Request
<1>1. jobs \in [Names -> Job] /\ uids \in Nat
  BY DEF TypeOK, ClusterTypeOK
<1>2. PICK reason \in Reasons :
        /\ ApiCreateJob(n, cr, reason)
        /\ CASE WrapK8sError(reason) = "nil" /\ cr # NoCreds ->
                  /\ pc' = [pc EXCEPT ![c] = "adoptSecret"]
                  /\ uid' = [uid EXCEPT ![c] = jobs'[n].uid]
                  /\ UNCHANGED <<req, ret>>
             [] WrapK8sError(reason) = "nil" /\ cr = NoCreds -> Return(c, "nil")
             [] WrapK8sError(reason) \in {"ErrResourceConflict"} -> Return(c, "nil")
             [] OTHER -> Return(c, "error")
  BY <1>0 DEF CreateJob, CreateJobTolerating
<1>3. /\ pc[c] = "createJob"
      /\ \/ AllCalls[c].stage = "asked" /\ AllCalls[c].op = "run"
         \/ AllCalls[c].stage = "cleared" /\ AllCalls[c].op = "replace"
  <2>1. pc[c] = "createJob"
    BY DEF CreateJob, CreateJobTolerating
  <2>2. req[c].op \in {"run", "replace"}
    BY <2>1 DEF OpOK, TypeOK, Request
  <2>3. StageOf(c) = IF req[c].op = "run" THEN "asked" ELSE "cleared"
    BY <2>1, Stages
  <2> QED
    BY <2>1, <2>2, <2>3, CallFields
<1>4. AllCalls[c].name = n /\ Promise!MayDispatch(c)
  BY <1>0, <1>3, CallFields DEF Promise!MayDispatch
<1>5. CASE ~Exists(n) /\ Answered(reason) /\ uids' = uids + 1
           /\ jobs' = [jobs EXCEPT ![n] = FreshJob(uids + 1, cr)]
  <2>1. jobs'[n] = FreshJob(uids + 1, cr) /\ \A m \in Names \ {n} : jobs'[m] = jobs[m]
    BY <1>1, <1>5
  <2>2. WorkOf(n)' = "running" /\ WorkOf(n) = "absent"
    BY <1>1, <1>5, <2>1 DEF WorkOf, Exists, Live, Finished, FreshJob, CreateJob,
       CreateJobTolerating, Return
  <2>3. Work' = [Work EXCEPT ![n] = "running"] /\ Work[n] = "absent"
    BY <1>1, <2>1, <2>2, WorkMoves
  <2>4. Promise!Stage(c, "dispatched") \/ Promise!Result(c, "nil") \/ Promise!Result(c, "error")
    <3>1. reason \in {"OK", "Timeout"}
      BY <1>5, LostAnswersAssumption DEF Answered
    <3>2. \/ Return(c, "nil") \/ Return(c, "error")
          \/ pc' = [pc EXCEPT ![c] = "adoptSecret"] /\ UNCHANGED <<req, ret>>
      BY <1>2, Zenon
    <3>3. CASE pc' = [pc EXCEPT ![c] = "adoptSecret"] /\ UNCHANGED <<req, ret>>
      <4>1. pc'[c] = "adoptSecret" /\ \A d \in Callers \ {c} : pc'[d] = pc[d]
        BY <3>3 DEF TypeOK
      <4>2. StageOf(c)' = "dispatched"
        BY <4>1 DEF StageOf
      <4> QED
        BY <3>3, <4>1, <4>2, GotoMoves
    <3> QED
      BY <3>2, <3>3, ReturnMoves
  <2> QED
    BY <1>4, <1>5, <2>3, <2>4 DEF Promise!Dispatch
<1>6. CASE Exists(n) /\ reason = "AlreadyExists" /\ UNCHANGED <<jobs, uids>>
  <2>1. Work' = Work /\ Work[n] # "absent"
    BY <1>1, <1>6 DEF Work, WorkOf, Exists, Live, Finished
  <2>2. WrapK8sError(reason) = "ErrResourceConflict"
    BY <1>6 DEF WrapK8sError
  <2>3. Return(c, "nil")
    BY <1>2, <2>2, Zenon
  <2> QED
    BY <1>4, <1>6, <2>1, <2>3, ReturnMoves DEF Promise!NoOp
<1>7. CASE reason \in Refusals /\ UNCHANGED <<jobs, uids>>
  <2>1. Work' = Work
    BY <1>7 DEF Work, WorkOf, Exists, Live, Finished
  <2>2. reason \in {"Invalid", "Timeout"}
    BY <1>7, RefusalsAssumption
  <2>3. WrapK8sError(reason) \in {"ErrResourceInvalid", "ErrKubernetesRequestFailed"}
    BY <2>2 DEF WrapK8sError
  <2>4. WrapK8sError(reason) # "nil" /\ WrapK8sError(reason) # "ErrResourceConflict"
    BY <2>3
  <2>5. Return(c, "error")
    BY <1>2, <2>4, Zenon
  <2> QED
    BY <1>3, <1>7, <2>1, <2>5, ReturnMoves DEF Promise!Fail
<1> QED
  BY <1>2, <1>5, <1>6, <1>7 DEF ApiCreateJob

\* A deletion leaves what was there to go, now or since an earlier deletion; an
\* error leaves open which.
LEMMA DeleteJobImplements ==
  ASSUME TypeOK, TypeOK', OpOK, "Conflict" \notin Refusals, NEW c \in Callers, DeleteJob(c)
  PROVE  Promise!Clear(c) \/ Promise!ClearFails(c)
<1>0. PICK n \in Names : n = req[c].name
  BY DEF TypeOK, Request
<1>1. jobs \in [Names -> Job] /\ jobs[n] \in Job
  BY DEF TypeOK, ClusterTypeOK
<1>2. PICK reason \in Reasons :
        /\ ApiDeleteJob(n, reason)
        /\ IF WrapK8sError(reason) \in {"nil", "ErrResourceNotFound"}
           THEN Goto(c, "deleteSecret") ELSE Return(c, "error")
  BY <1>0 DEF DeleteJob, DeleteJobTolerating
<1>3. pc[c] = "deleteJob"
  BY DEF DeleteJob, DeleteJobTolerating
<1>4. Promise!MayClear(c) /\ AllCalls[c].name = n
  BY <1>0, <1>3, Stages, CallFields DEF Promise!MayClear, OpOK
<1>5. uids' = uids
  BY <1>2 DEF ApiDeleteJob
<1>6. \/ WrapK8sError(reason) \in {"nil", "ErrResourceNotFound"} /\ Promise!Stage(c, "cleared")
      \/ WrapK8sError(reason) \notin {"nil", "ErrResourceNotFound"} /\ Promise!Result(c, "error")
  <2>1. CASE Goto(c, "deleteSecret")
    <3>1. /\ req' = req /\ ret' = ret /\ pc'[c] = "deleteSecret"
          /\ \A d \in Callers \ {c} : pc'[d] = pc[d]
      BY <2>1 DEF Goto, TypeOK
    <3>2. StageOf(c)' = "cleared"
      BY <3>1 DEF StageOf
    <3>3. Promise!Stage(c, "cleared")
      BY <3>1, <3>2, GotoMoves
    <3>4. WrapK8sError(reason) \in {"nil", "ErrResourceNotFound"}
      BY <1>2, <1>3, <2>1, <3>1 DEF Return, TypeOK
    <3> QED
      BY <3>3, <3>4
  <2>2. CASE Return(c, "error")
    <3>1. WrapK8sError(reason) \notin {"nil", "ErrResourceNotFound"}
      BY <1>2, <1>3, <2>2 DEF Goto, Return, TypeOK
    <3> QED
      BY <2>2, <3>1, ReturnMoves
  <2> QED
    BY <1>2, <2>1, <2>2
<1>7. reason \in {"OK", "NotFound"} <=> WrapK8sError(reason) \in {"nil", "ErrResourceNotFound"}
  BY DEF WrapK8sError, Reasons
<1>8. \/ Work' = Promise!Removed(n)
      \/ Work' = Work /\ reason \notin {"OK", "NotFound"}
  <2>1. ASSUME Live(n), NEW p \in Propagation, jobs' = [jobs EXCEPT ![n].deletion = p]
        PROVE  Work' = Promise!Removed(n)
    <3>1. /\ jobs'[n] = [jobs[n] EXCEPT !.deletion = p] /\ p # "no"
          /\ \A m \in Names \ {n} : jobs'[m] = jobs[m]
      BY <1>1, <2>1, PropagationAssumption
    <3>2. jobs'[n].uid = jobs[n].uid /\ jobs'[n].deletion # "no"
      BY <1>1, <3>1 DEF Job
    <3>3. WorkOf(n)' = "leaving" /\ WorkOf(n) \in {"running", "done"}
      BY <2>1, <3>2 DEF WorkOf, Live, Exists
    <3>4. Work' = [Work EXCEPT ![n] = "leaving"] /\ Work[n] \in {"running", "done"}
      BY <3>1, <3>3, WorkMoves
    <3> QED
      BY <3>4 DEF Promise!Removed, Promise!Stays
  <2>2. ASSUME ~Live(n), jobs' = jobs PROVE Work' = Promise!Removed(n)
    <3>1. WorkOf(n) \in {"absent", "leaving"}
      BY <2>2 DEF WorkOf
    <3>2. Work' = Work /\ Work[n] \in {"absent", "leaving"}
      BY <2>2, <3>1 DEF Work, WorkOf, Exists, Live, Finished
    <3>3. [Work EXCEPT ![n] = Work[n]] = Work
      BY DEF Work
    <3> QED
      BY <3>2, <3>3 DEF Promise!Removed, Promise!Stays
  <2>3. ASSUME reason \in Refusals, jobs' = jobs
        PROVE  Work' = Work /\ reason \notin {"OK", "NotFound"}
    BY <2>3, RefusalsAssumption DEF Work, WorkOf, Exists, Live, Finished
  <2> QED
    BY <1>2, <2>1, <2>2, <2>3 DEF ApiDeleteJob, Live
<1> QED
  BY <1>4, <1>5, <1>6, <1>7, <1>8 DEF Promise!Clear, Promise!ClearFails

\* The controllers only let work end, leave and go.
LEMMA ControllersImplement ==
  ASSUME TypeOK, Controllers, UNCHANGED callerVars
  PROVE  (\E n \in Names : Promise!Passes(n)) \/ UNCHANGED Promise!oneShotVars
<1> USE DEF Job, Live, Exists, Finished
<1>0. AllCalls' = AllCalls
  BY DEF AllCalls, CallOf, StageOf, callerVars
<1>1. jobs \in [Names -> Job] /\ pods \subseteq Pod
  BY DEF TypeOK, ClusterTypeOK
<1>2. ASSUME NEW n \in Names, CreatePod(n) PROVE UNCHANGED Promise!oneShotVars
  <2>1. /\ jobs'[n] = [jobs[n] EXCEPT !.active = TRUE] /\ jobs[n] \in Job /\ uids' = uids
        /\ \A m \in Names \ {n} : jobs'[m] = jobs[m]
    BY <1>1, <1>2 DEF CreatePod
  <2>2. WorkOf(n)' = WorkOf(n)
    BY <2>1 DEF WorkOf
  <2> QED
    BY <1>0, <2>1, <2>2, WorkMoves DEF Promise!oneShotVars
<1>3. ASSUME NEW n \in Names, MissDeadline(n) PROVE Promise!Passes(n)
  <2>1. jobs' = [jobs EXCEPT ![n] = [[jobs[n] EXCEPT !.condition = "Failed"] EXCEPT !.active = FALSE]]
    BY <1>1, <1>3 DEF MissDeadline, MissDeadlineIf
  <2>2. /\ jobs'[n] = [[jobs[n] EXCEPT !.condition = "Failed"] EXCEPT !.active = FALSE]
        /\ \A m \in Names \ {n} : jobs'[m] = jobs[m]
    BY <1>1, <2>1
  <2>3. PICK j \in Job : j = [jobs[n] EXCEPT !.condition = "Failed"]
    BY <1>1
  <2>4. jobs'[n] = [j EXCEPT !.active = FALSE]
    BY <2>2, <2>3
  <2>5. /\ jobs'[n].uid = jobs[n].uid /\ jobs'[n].deletion = jobs[n].deletion
        /\ jobs'[n].condition = "Failed"
    BY <1>1, <2>3, <2>4
  <2>6. WorkOf(n)' = "done" /\ WorkOf(n) = "running"
    BY <1>3, <2>5 DEF WorkOf, MissDeadline, MissDeadlineIf
  <2>7. Work' = [Work EXCEPT ![n] = "done"] /\ Work[n] = "running"
    BY <2>2, <2>6, WorkMoves
  <2>8. uids' = uids
    BY <1>3 DEF MissDeadline, MissDeadlineIf
  <2> QED
    BY <1>0, <2>7, <2>8 DEF Promise!Passes, Promise!Turn
<1>4. ASSUME NEW n \in Names, Expire(n) PROVE Promise!Passes(n)
  <2>1. /\ jobs'[n] = [jobs[n] EXCEPT !.deletion = "cascade"] /\ jobs[n] \in Job
        /\ \A m \in Names \ {n} : jobs'[m] = jobs[m]
        /\ uids' = uids
    BY <1>1, <1>4 DEF Expire, ExpireIf
  <2>2. WorkOf(n)' = "leaving" /\ WorkOf(n) = "done"
    BY <1>4, <2>1 DEF WorkOf, Expire, ExpireIf
  <2>3. Work' = [Work EXCEPT ![n] = "leaving"] /\ Work[n] = "done"
    BY <2>1, <2>2, WorkMoves
  <2> QED
    BY <1>0, <2>1, <2>3 DEF Promise!Passes, Promise!Turn
<1>5. ASSUME NEW n \in Names, RemoveJob(n) PROVE Promise!Passes(n)
  <2>1. /\ jobs'[n].uid = 0 /\ \A m \in Names \ {n} : jobs'[m] = jobs[m]
        /\ uids' = uids
    BY <1>1, <1>5 DEF RemoveJob, NoJob, FreshJob
  <2>2. WorkOf(n)' = "absent" /\ WorkOf(n) = "leaving"
    BY <1>5, <2>1 DEF WorkOf, RemoveJob
  <2>3. Work' = [Work EXCEPT ![n] = "absent"] /\ Work[n] = "leaving"
    BY <2>1, <2>2, WorkMoves
  <2> QED
    BY <1>0, <2>1, <2>3 DEF Promise!Passes, Promise!Turn
<1>6. ASSUME UNCHANGED <<jobs, uids>> PROVE UNCHANGED Promise!oneShotVars
  BY <1>0, <1>6 DEF Work, WorkOf, Promise!oneShotVars
<1>7. ASSUME NEW p \in pods, NEW o \in {"Succeeded", "Failed"}, EndContainer(p, o)
      PROVE  Promise!Passes(p.name) \/ UNCHANGED Promise!oneShotVars
  <2>0. PICK n \in Names : n = p.name
    BY <1>1 DEF Pod
  <2>1. uids' = uids
    BY <1>7 DEF EndContainer
  <2>2. CASE p.uid = jobs[n].uid /\ ~Finished(n) /\ jobs' = [jobs EXCEPT ![n] = Ended(jobs[n], o)]
    <3>1. jobs'[n] = Ended(jobs[n], o) /\ \A m \in Names \ {n} : jobs'[m] = jobs[m]
      BY <1>1, <2>2
    <3> DEFINE f == IF o = "Failed" THEN jobs[n].failures + 1 ELSE jobs[n].failures
               k == IF o = "Succeeded" THEN "Complete"
                    ELSE IF jobs[n].failures + 1 > BackoffLimit THEN "Failed" ELSE "None"
    <3>2. Ended(jobs[n], o) = [jobs[n] EXCEPT !.active = FALSE, !.failures = f, !.condition = k]
      BY DEF Ended
    <3>3. /\ jobs'[n].uid = jobs[n].uid /\ jobs'[n].deletion = jobs[n].deletion
      <4> HIDE DEF f, k
      <4> QED
        BY <1>1, <3>1, <3>2
    <3>4. WorkOf(n)' = WorkOf(n) \/ (WorkOf(n)' = "done" /\ WorkOf(n) = "running")
      BY <2>2, <3>3 DEF WorkOf
    <3>5. Work' = Work \/ (Work' = [Work EXCEPT ![n] = "done"] /\ Work[n] = "running")
      BY <3>1, <3>4, WorkMoves
    <3> QED
      BY <1>0, <2>0, <2>1, <3>5 DEF Promise!Passes, Promise!Turn, Promise!oneShotVars
  <2>3. CASE jobs' = jobs
    BY <1>6, <2>1, <2>3
  <2> QED
    BY <1>7, <2>0, <2>2, <2>3 DEF EndContainer
<1>8. ASSUME NEW n \in Names, CollectSecret(n) PROVE UNCHANGED <<jobs, uids>>
  BY <1>8 DEF CollectSecret
<1>9. ASSUME NEW p \in pods, StartContainer(p) \/ CollectPod(p) PROVE UNCHANGED <<jobs, uids>>
  BY <1>9 DEF StartContainer, CollectPod
<1>10. \A p \in pods : p.name \in Names
  BY <1>1 DEF Pod
<1> QED
  BY <1>2, <1>3, <1>4, <1>5, <1>6, <1>7, <1>8, <1>9, <1>10 DEF Controllers

\* Under any contention, any crashes, lost answers and failures, and for every
\* sequence of calls, JobRunner keeps the promise of OneShotJobs, as long as
\* "Conflict" is answered to nothing but an existing name.
THEOREM PromiseKept ==
  ASSUME "Conflict" \notin Refusals PROVE Spec => ImplementsOneShot
<1>1. Init => Promise!Init /\ OpOK
  <2> SUFFICES ASSUME Init PROVE Promise!Init /\ OpOK
    OBVIOUS
  <2>1. Work = [n \in Names |-> "absent"] /\ uids = 0
    BY DEF Init, ClusterInit, NoJob, FreshJob, Work, WorkOf, Exists
  <2>2. \A c \in Callers : /\ req[c] \in Request /\ pc[c] = "idle" /\ ret[c] = "none"
                           /\ StageOf(c) = "idle"
    BY DEF Init, StageOf
  <2>3. \A c \in Callers : CallOf(c) \in {x \in Promise!Call : x.stage = "idle" /\ x.result = "none"}
    BY <2>2 DEF CallOf, Promise!Call, Request
  <2>4. AllCalls \in [Callers -> {x \in Promise!Call : x.stage = "idle" /\ x.result = "none"}]
    BY <2>3 DEF AllCalls
  <2> QED
    BY <2>1, <2>2, <2>4 DEF Promise!Init, OpOK
<1>2. TypeOK /\ OpOK /\ TypeOK' /\ [Next]_vars => [Promise!Next]_(Promise!oneShotVars)
  <2> SUFFICES ASSUME TypeOK, OpOK, TypeOK', [Next]_vars
               PROVE  Promise!Next \/ UNCHANGED Promise!oneShotVars
    OBVIOUS
  <2>1. CASE UNCHANGED vars
    BY <2>1 DEF vars, Work, WorkOf, Exists, Live, Finished, AllCalls, CallOf, StageOf,
       Promise!oneShotVars
  <2>2. ASSUME NEW c \in Callers, Begin(c) \/ Requests(c) \/ Crash(c)
        PROVE  Promise!Next \/ UNCHANGED Promise!oneShotVars
    BY <2>2, BeginImplements, CreateSecretImplements, CreateJobImplements,
       AdoptSecretImplements, DeleteJobImplements, DeleteSecretImplements, CrashImplements
       DEF Requests, Promise!Next
  <2>3. CASE Controllers /\ UNCHANGED callerVars
    BY <2>3, ControllersImplement DEF Promise!Next
  <2> QED
    BY <2>1, <2>2, <2>3 DEF Next
<1>3. TypeOK /\ OpOK /\ [Next]_vars => OpOK'
  BY StepOpOK
<1> QED
  BY <1>1, <1>2, <1>3, TypeCorrect, SamePromise, PTL DEF Spec, ImplementsOneShot, OneShot!Spec

(***************************************************************************)
(* What holds whoever calls Run, and how often.                            *)
(***************************************************************************)

\* Under any contention a Run or Replace that says its work is dispatched left a
\* Job of the name, its own or one it met.
THEOREM DispatchHeld ==
  ASSUME "Conflict" \notin Refusals PROVE Spec => RunDispatched
<1>1. ASSUME TypeOK, [Next]_vars, NEW c \in Callers, pc[c] = "createJob", Returns(c, "nil")
      PROVE  Exists(req[c].name)'
  <2>1. CreateJob(c)
    <3>1. Next /\ ~Crash(c)
      BY <1>1 DEF Returns, vars, Crash, Return, TypeOK
    <3> QED
      BY <1>1, <3>1, ReturningStep
         DEF Requests, CreateSecret, CreateSecretTolerating, AdoptSecret, DeleteJob,
             DeleteJobTolerating, DeleteSecret, DeleteSecretTolerating
  <2>2. PICK n \in Names : n = req[c].name
    BY <1>1 DEF TypeOK, Request
  <2>3. PICK reason \in Reasons :
          /\ ApiCreateJob(n, req[c].creds, reason)
          /\ CASE WrapK8sError(reason) = "nil" /\ req[c].creds # NoCreds ->
                    /\ pc' = [pc EXCEPT ![c] = "adoptSecret"]
                    /\ uid' = [uid EXCEPT ![c] = jobs'[n].uid]
                    /\ UNCHANGED <<req, ret>>
               [] WrapK8sError(reason) = "nil" /\ req[c].creds = NoCreds -> Return(c, "nil")
               [] WrapK8sError(reason) \in {"ErrResourceConflict"} -> Return(c, "nil")
               [] OTHER -> Return(c, "error")
    BY <2>1, <2>2 DEF CreateJob, CreateJobTolerating
  <2>4. reason \notin Refusals
    <3> SUFFICES ASSUME reason \in Refusals PROVE FALSE
      OBVIOUS
    <3>1. WrapK8sError(reason) \in {"ErrResourceInvalid", "ErrKubernetesRequestFailed"}
      BY RefusalsAssumption DEF WrapK8sError
    <3>2. WrapK8sError(reason) # "nil" /\ WrapK8sError(reason) # "ErrResourceConflict"
      BY <3>1
    <3>3. Return(c, "error")
      BY <2>3, <3>2, Zenon
    <3> QED
      BY <1>1, <3>3 DEF Return, Returns, TypeOK
  <2>5. req' = req
    BY <2>1 DEF CreateJob, CreateJobTolerating, Return
  <2>6. jobs'[n].uid # 0
    <3>1. jobs \in [Names -> Job] /\ uids \in Nat
      BY <1>1 DEF TypeOK, ClusterTypeOK
    <3> QED
      BY <2>3, <2>4, <3>1 DEF ApiCreateJob, Exists, FreshJob
  <2> QED
    BY <2>2, <2>5, <2>6 DEF Exists
<1>2. TypeOK /\ [Next]_vars =>
        [\A c \in Callers :
           pc[c] = "createJob" /\ Returns(c, "nil") => Exists(req[c].name)']_vars
  BY <1>1
<1> QED
  BY <1>2, TypeCorrect, PTL DEF Spec, RunDispatched

\* Callers that only call Run make only its requests.
RunsOnly == \A c \in Callers : pc[c] \notin {"deleteJob", "deleteSecret"}

\* Callers of Run only make no request of Delete.
LEMMA StepRunsOnly ==
  ASSUME Ops \subseteq {"run"}, TypeOK, RunsOnly, [Next]_vars PROVE RunsOnly'
<1> USE DEF TypeOK, RunsOnly
<1>1. CASE UNCHANGED vars
  BY <1>1 DEF vars
<1>2. ASSUME NEW c \in Callers, Begin(c) PROVE RunsOnly'
  BY <1>2 DEF Begin, BeginWith, RunEntry
<1>3. ASSUME NEW c \in Callers, Requests(c) PROVE RunsOnly'
  BY <1>3 DEF Requests, CreateSecret, CreateSecretTolerating, CreateJob,
     CreateJobTolerating, AdoptSecret, DeleteJob, DeleteJobTolerating, DeleteSecret,
     DeleteSecretTolerating, Goto, Return
<1>4. ASSUME NEW c \in Callers, Crash(c) PROVE RunsOnly'
  BY <1>4 DEF Crash, Return
<1>5. CASE Controllers /\ UNCHANGED callerVars
  BY <1>5 DEF callerVars
<1> QED
  BY <1>1, <1>2, <1>3, <1>4, <1>5 DEF Next

\* Callers of Run only never come to a request of Delete.
LEMMA RunsOnlyHeld ==
  ASSUME Ops \subseteq {"run"} PROVE Spec => [](TypeOK /\ RunsOnly)
<1>1. Init => RunsOnly
  BY DEF Init, RunsOnly
<1>2. TypeOK /\ RunsOnly /\ [Next]_vars => RunsOnly'
  BY StepRunsOnly
<1> QED
  BY <1>1, <1>2, TypeCorrect, PTL DEF Spec

(***************************************************************************)
(* The work of a name is one attempt at a time: a Job that is active has   *)
(* the one pod that is not finished, and a Job goes only when it is done.  *)
(***************************************************************************)
Unfinished(p) == p.phase \in {"Waiting", "Running"}

AttemptInv ==
  /\ \A n \in Names : /\ jobs[n].deletion # "no" => Finished(n)
                      /\ jobs[n].active => ~Finished(n)
  /\ \A p \in pods : Unfinished(p) => /\ Exists(p.name) /\ p.uid = jobs[p.name].uid
                                      /\ jobs[p.name].active
  /\ \A p, r \in pods : Unfinished(p) /\ Unfinished(r) /\ p.name = r.name => p = r

\* The controllers start an attempt only where none is under way.
LEMMA ControllersAttempt ==
  ASSUME TypeOK, AttemptInv, Controllers PROVE AttemptInv'
<1> USE DEF AttemptInv, Unfinished, Exists, Finished
<1>0. jobs \in [Names -> Job] /\ pods \subseteq Pod
  BY DEF TypeOK, ClusterTypeOK
<1>1. ASSUME NEW n \in Names, CreatePod(n) PROVE AttemptInv'
  <2>1. /\ Exists(n) /\ ~Finished(n) /\ ~jobs[n].active
        /\ jobs'[n] = [jobs[n] EXCEPT !.active = TRUE] /\ jobs[n] \in Job
        /\ \A m \in Names \ {n} : jobs'[m] = jobs[m]
    BY <1>0, <1>1 DEF CreatePod, Live
  <2>2. /\ jobs'[n].active /\ jobs'[n].uid = jobs[n].uid
        /\ jobs'[n].condition = jobs[n].condition /\ jobs'[n].deletion = jobs[n].deletion
    BY <2>1 DEF Job
  <2>3. PICK t \in SecondsAfter(n) : pods' = pods \cup {NextPod(n, t)}
    BY <1>1 DEF CreatePod
  <2> DEFINE q == NextPod(n, t)
  <2>4. q.name = n /\ q.uid = jobs[n].uid
    BY Zenon DEF NextPod
  <2>5. \A p \in pods : p.name \in Names /\ (p.name = n => ~Unfinished(p))
    BY <1>0, <2>1 DEF Pod
  <2> HIDE DEF q
  <2>6. \A m \in Names : /\ jobs'[m].uid = jobs[m].uid
                         /\ jobs'[m].condition = jobs[m].condition
                         /\ jobs'[m].deletion = jobs[m].deletion
                         /\ jobs[m].active => jobs'[m].active
                         /\ jobs'[m].active => jobs[m].active \/ m = n
    BY <2>1, <2>2
  <2>7. \A m \in Names : /\ jobs'[m].deletion # "no" => Finished(m)'
                         /\ jobs'[m].active => ~Finished(m)'
    BY <2>1, <2>6
  <2>8. \A p \in pods' : Unfinished(p) => /\ Exists(p.name)' /\ p.uid = jobs'[p.name].uid
                                          /\ jobs'[p.name].active
    <3> SUFFICES ASSUME NEW p \in pods', Unfinished(p)
                 PROVE  /\ Exists(p.name)' /\ p.uid = jobs'[p.name].uid
                        /\ jobs'[p.name].active
      OBVIOUS
    <3>1. CASE p = q
      BY <2>1, <2>2, <2>4, <3>1
    <3>2. CASE p \in pods
      <4>1. p.name \in Names \ {n} /\ jobs'[p.name] = jobs[p.name]
        BY <2>1, <2>5, <3>2
      <4> QED
        BY <3>2, <4>1
    <3> QED
      BY <2>3, <3>1, <3>2 DEF q
  <2>9. \A p, r \in pods' : Unfinished(p) /\ Unfinished(r) /\ p.name = r.name => p = r
    BY <2>3, <2>4, <2>5 DEF q
  <2> QED
    BY <2>7, <2>8, <2>9
<1>2. ASSUME NEW n \in Names, MissDeadline(n) PROVE AttemptInv'
  <2>1. jobs' = [jobs EXCEPT ![n] = [[jobs[n] EXCEPT !.condition = "Failed"] EXCEPT !.active = FALSE]]
    BY <1>0, <1>2 DEF MissDeadline, MissDeadlineIf
  <2>2. PICK j \in Job : j = [jobs[n] EXCEPT !.condition = "Failed"]
    BY <1>0 DEF Job
  <2>3. /\ jobs'[n] = [j EXCEPT !.active = FALSE]
        /\ \A m \in Names \ {n} : jobs'[m] = jobs[m]
    BY <1>0, <2>1, <2>2
  <2>4. jobs'[n].condition = "Failed" /\ ~jobs'[n].active
    BY <1>0, <2>2, <2>3 DEF Job
  <2>5. \A p \in pods' : p \in pods /\ p.name \in Names
    BY <1>0, <1>2 DEF MissDeadline, MissDeadlineIf, Pod
  <2>6. \A p \in pods' : p.name = n => ~Unfinished(p)
    BY <1>0, <1>2, <2>5 DEF MissDeadline, MissDeadlineIf
  <2> QED
    BY <2>3, <2>4, <2>5, <2>6
<1>3. ASSUME NEW n \in Names, Expire(n) PROVE AttemptInv'
  <2>1. /\ jobs'[n] = [jobs[n] EXCEPT !.deletion = "cascade"] /\ jobs[n] \in Job
        /\ \A m \in Names \ {n} : jobs'[m] = jobs[m]
        /\ Finished(n) /\ pods' = pods
    BY <1>0, <1>3 DEF Expire, ExpireIf
  <2>2. /\ jobs'[n].active <=> jobs[n].active
        /\ jobs'[n].uid = jobs[n].uid /\ jobs'[n].condition = jobs[n].condition
    BY <2>1 DEF Job
  <2>3. \A p \in pods : p.name \in Names
    BY <1>0 DEF Pod
  <2>4. \A m \in Names : /\ jobs'[m].uid = jobs[m].uid /\ jobs'[m].condition = jobs[m].condition
                         /\ jobs'[m].active <=> jobs[m].active
    BY <2>1, <2>2
  <2>5. \A m \in Names : jobs'[m].deletion # "no" => Finished(m)'
    BY <2>1, <2>4
  <2>6. \A m \in Names : jobs'[m].active => ~Finished(m)'
    BY <2>4
  <2>7. \A p \in pods' : Unfinished(p) => /\ Exists(p.name)' /\ p.uid = jobs'[p.name].uid
                                          /\ jobs'[p.name].active
    BY <2>1, <2>3, <2>4
  <2> QED
    BY <2>1, <2>5, <2>6, <2>7
<1>4. ASSUME NEW n \in Names, RemoveJob(n) PROVE AttemptInv'
  <2>1. /\ Finished(n)
        /\ jobs'[n] = NoJob /\ \A m \in Names \ {n} : jobs'[m] = jobs[m]
    BY <1>0, <1>4 DEF RemoveJob, Live
  <2>2. ~jobs'[n].active /\ jobs'[n].deletion = "no"
    BY <2>1 DEF NoJob, FreshJob
  <2> DEFINE Kept(p) == IF p.uid = jobs[n].uid THEN [p EXCEPT !.owned = FALSE] ELSE p
  <2>3. pods' = pods \/ pods' = {Kept(p) : p \in pods}
    BY <1>4 DEF RemoveJob
  <2>4. \A p \in pods : /\ Kept(p).name = p.name /\ Kept(p).uid = p.uid
                        /\ Kept(p).phase = p.phase
    BY <1>0 DEF Pod
  <2>5. \A p \in pods : p.name \in Names /\ (Unfinished(p) => p.name # n)
    BY <1>0, <2>1 DEF Pod
  <2> HIDE DEF Kept
  <2> QED
    BY <2>1, <2>2, <2>3, <2>4, <2>5
<1>5. ASSUME NEW n \in Names, CollectSecret(n) PROVE AttemptInv'
  BY <1>5 DEF CollectSecret
<1>6. ASSUME NEW p \in pods, StartContainer(p) PROVE AttemptInv'
  <2> DEFINE env == IF p.refers THEN secrets[p.name].creds ELSE NoCreds
             started == [p EXCEPT !.phase = "Running", !.env = env]
  <2>1. p \in Pod /\ Unfinished(p)
    BY <1>0, <1>6 DEF StartContainer
  <2>2. started.name = p.name /\ started.uid = p.uid
    BY <2>1 DEF Pod
  <2>3. pods' = (pods \ {p}) \cup {started} /\ UNCHANGED jobs
    BY <1>6 DEF StartContainer
  <2> HIDE DEF started
  <2> QED
    BY <2>1, <2>2, <2>3
<1>7. ASSUME NEW p \in pods, CollectPod(p) PROVE AttemptInv'
  BY <1>7 DEF CollectPod
<1>8. ASSUME NEW p \in pods, NEW o \in {"Succeeded", "Failed"}, EndContainer(p, o)
      PROVE  AttemptInv'
  <2>0. PICK n \in Names : n = p.name
    BY <1>0 DEF Pod
  <2>1. Unfinished(p) /\ p.uid = jobs[n].uid /\ jobs[n].active /\ ~Finished(n)
    BY <1>8, <2>0 DEF EndContainer
  <2>2. /\ jobs'[n] = Ended(jobs[n], o) /\ \A m \in Names \ {n} : jobs'[m] = jobs[m]
    BY <1>0, <1>8, <2>0, <2>1 DEF EndContainer
  <2> DEFINE f == IF o = "Failed" THEN jobs[n].failures + 1 ELSE jobs[n].failures
             k == IF o = "Succeeded" THEN "Complete"
                  ELSE IF jobs[n].failures + 1 > BackoffLimit THEN "Failed" ELSE "None"
             ended == [p EXCEPT !.phase = o]
  <2>3. Ended(jobs[n], o) = [jobs[n] EXCEPT !.active = FALSE, !.failures = f, !.condition = k]
    BY DEF Ended
  <2>4. ~jobs'[n].active /\ jobs'[n].deletion = jobs[n].deletion
    <3> HIDE DEF f, k
    <3> QED
      BY <1>0, <2>2, <2>3 DEF Job
  <2>5. jobs'[n].deletion = "no"
    BY <2>1, <2>4
  <2>6. pods' = (pods \ {p}) \cup {ended} /\ ended.phase = o /\ ended.name = n
    BY <1>0, <1>8, <2>0 DEF EndContainer, Pod
  <2>7. ~Unfinished(ended)
    BY <2>6
  <2>8. \A r \in pods \ {p} : r.name \in Names /\ (Unfinished(r) => r.name # n)
    BY <1>0, <2>0, <2>1 DEF Pod
  <2> HIDE DEF ended
  <2> QED
    BY <2>2, <2>4, <2>5, <2>6, <2>7, <2>8
<1> QED
  BY <1>1, <1>2, <1>3, <1>4, <1>5, <1>6, <1>7, <1>8 DEF Controllers

\* No step of callers of Run leads to a second attempt beside one under way.
LEMMA StepAttempt ==
  ASSUME TypeOK, RunsOnly, AttemptInv, [Next]_vars PROVE AttemptInv'
<1>1. CASE UNCHANGED jobs /\ UNCHANGED pods
  BY <1>1 DEF AttemptInv, Finished, Exists
<1>2. CASE UNCHANGED vars
  BY <1>1, <1>2 DEF vars
<1>3. ASSUME NEW c \in Callers, Begin(c) \/ CreateSecret(c) \/ AdoptSecret(c) \/ Crash(c)
      PROVE  AttemptInv'
  BY <1>1, <1>3 DEF Begin, BeginWith, CreateSecret, CreateSecretTolerating, ApiCreateSecret,
     AdoptSecret, ApiPatchOwner, Crash, clusterVars
<1>4. ASSUME NEW c \in Callers, CreateJob(c) PROVE AttemptInv'
  <2>1. PICK n \in Names : n = req[c].name
    BY DEF TypeOK, Request
  <2>2. /\ pods' = pods
        /\ \/ UNCHANGED jobs
           \/ ~Exists(n) /\ jobs' = [jobs EXCEPT ![n] = FreshJob(uids + 1, req[c].creds)]
    BY <1>4, <2>1 DEF CreateJob, CreateJobTolerating, ApiCreateJob
  <2>3. CASE ~Exists(n) /\ jobs' = [jobs EXCEPT ![n] = FreshJob(uids + 1, req[c].creds)]
    <3>1. /\ jobs \in [Names -> Job]
          /\ \A p \in pods : p.name \in Names
      BY DEF TypeOK, ClusterTypeOK, Pod
    <3>2. /\ jobs'[n] = FreshJob(uids + 1, req[c].creds)
          /\ \A m \in Names \ {n} : jobs'[m] = jobs[m]
      BY <2>3, <3>1
    <3>3. jobs'[n].deletion = "no" /\ ~jobs'[n].active
      BY <3>2 DEF FreshJob
    <3>4. \A p \in pods : Unfinished(p) => p.name # n
      BY <2>3, <3>1 DEF AttemptInv
    <3> QED
      BY <2>2, <3>1, <3>2, <3>3, <3>4 DEF AttemptInv, Finished, Exists
  <2> QED
    BY <1>1, <2>2, <2>3
<1>5. ASSUME NEW c \in Callers, DeleteJob(c) \/ DeleteSecret(c) PROVE FALSE
  BY <1>5 DEF RunsOnly, DeleteJob, DeleteJobTolerating, DeleteSecret,
     DeleteSecretTolerating
<1>6. CASE Controllers
  BY <1>6, ControllersAttempt
<1> QED
  BY <1>2, <1>3, <1>4, <1>5, <1>6 DEF Next, Requests

\* While callers use Run only, attempts follow one another.
LEMMA AttemptInvHeld ==
  ASSUME Ops \subseteq {"run"} PROVE Spec => []AttemptInv
<1>1. Init => AttemptInv
  BY DEF Init, ClusterInit, AttemptInv, NoJob, FreshJob, Finished
<1>2. TypeOK /\ RunsOnly /\ AttemptInv /\ [Next]_vars => AttemptInv'
  BY StepAttempt
<1> QED
  BY <1>1, <1>2, RunsOnlyHeld, PTL DEF Spec

\* However often Run is called for a name, by however many callers, with time to
\* live or without, one attempt at most is about to run or running.
THEOREM OneAttempt ==
  ASSUME Ops \subseteq {"run"} PROVE Spec => []OneAttemptAtATime
<1>1. AttemptInv => OneAttemptAtATime
  BY DEF AttemptInv, OneAttemptAtATime, Unfinished
<1> QED
  BY <1>1, AttemptInvHeld, PTL

(***************************************************************************)
(* Where Jobs stay, a dispatch leaves its Secret to stay with its Job.     *)
(***************************************************************************)
CredentialsInv ==
  /\ \A n \in Names : jobs[n].deletion = "no"
  /\ \A n \in Names : secrets[n].owner \in {0, jobs[n].uid}
  /\ \A c \in Callers :
       pc[c] = "createJob" /\ req[c].creds # NoCreds => HasSecret(req[c].name)
  /\ \A c \in Callers :
       pc[c] = "adoptSecret" => uid[c] # 0 /\ jobs[req[c].name].uid = uid[c]
  /\ CredentialsPresent

\* No controller takes a Secret whose owner is the Job that stays.
LEMMA ControllersCredentials ==
  ASSUME TypeOK, CredentialsInv, ~Expiring, Controllers, UNCHANGED callerVars
  PROVE  CredentialsInv'
<1> USE DEF CredentialsInv, CredentialsPresent, callerVars, Live, Exists, HasSecret
<1>0. jobs \in [Names -> Job] /\ pods \subseteq Pod
  BY DEF TypeOK, ClusterTypeOK
<1> DEFINE Kept == /\ secrets' = secrets
                   /\ \A n \in Names : /\ jobs'[n].uid = jobs[n].uid
                                       /\ jobs'[n].creds = jobs[n].creds
                                       /\ jobs'[n].deletion = jobs[n].deletion
<1>1. ASSUME NEW n \in Names, CreatePod(n) PROVE Kept
  BY <1>0, <1>1 DEF CreatePod, Job
<1>2. ASSUME NEW n \in Names, MissDeadline(n) PROVE Kept
  <2>1. jobs' = [jobs EXCEPT ![n] = [[jobs[n] EXCEPT !.condition = "Failed"] EXCEPT !.active = FALSE]]
    BY <1>0, <1>2 DEF MissDeadline, MissDeadlineIf
  <2>2. PICK j \in Job : j = [jobs[n] EXCEPT !.condition = "Failed"]
    BY <1>0 DEF Job
  <2>3. /\ jobs'[n] = [j EXCEPT !.active = FALSE]
        /\ \A m \in Names \ {n} : jobs'[m] = jobs[m]
    BY <1>0, <2>1, <2>2
  <2>4. /\ jobs'[n].uid = jobs[n].uid /\ jobs'[n].creds = jobs[n].creds
        /\ jobs'[n].deletion = jobs[n].deletion
    BY <1>0, <2>2, <2>3 DEF Job
  <2>5. secrets' = secrets
    BY <1>2 DEF MissDeadline, MissDeadlineIf
  <2> QED
    BY <2>3, <2>4, <2>5
<1>3. ASSUME NEW n \in Names, Expire(n) \/ RemoveJob(n) \/ CollectSecret(n) PROVE FALSE
  BY <1>3 DEF Expire, ExpireIf, RemoveJob, CollectSecret, Gone
<1>4. ASSUME NEW p \in pods, StartContainer(p) \/ CollectPod(p) PROVE Kept
  BY <1>4 DEF StartContainer, CollectPod
<1>5. ASSUME NEW p \in pods, NEW o \in {"Succeeded", "Failed"}, EndContainer(p, o) PROVE Kept
  <2>0. PICK n \in Names : n = p.name
    BY <1>0 DEF Pod
  <2> DEFINE f == IF o = "Failed" THEN jobs[n].failures + 1 ELSE jobs[n].failures
             k == IF o = "Succeeded" THEN "Complete"
                  ELSE IF jobs[n].failures + 1 > BackoffLimit THEN "Failed" ELSE "None"
  <2>1. Ended(jobs[n], o) = [jobs[n] EXCEPT !.active = FALSE, !.failures = f, !.condition = k]
    BY DEF Ended
  <2>2. jobs' = jobs \/ jobs' = [jobs EXCEPT ![n] = Ended(jobs[n], o)]
    BY <1>5, <2>0 DEF EndContainer
  <2>3. \/ jobs' = jobs
        \/ jobs'[n] = Ended(jobs[n], o) /\ \A m \in Names \ {n} : jobs'[m] = jobs[m]
    BY <1>0, <2>2
  <2>4. /\ jobs'[n].uid = jobs[n].uid /\ jobs'[n].creds = jobs[n].creds
        /\ jobs'[n].deletion = jobs[n].deletion
    <3>1. CASE jobs' = jobs
      BY <3>1
    <3>2. CASE jobs'[n] = Ended(jobs[n], o)
      <4> HIDE DEF f, k
      <4>1. jobs'[n] = [jobs[n] EXCEPT !.active = FALSE, !.failures = f, !.condition = k]
        BY <2>1, <3>2
      <4> QED
        BY <1>0, <4>1 DEF Job
    <3> QED
      BY <2>3, <3>1, <3>2
  <2>5. secrets' = secrets
    BY <1>5 DEF EndContainer
  <2> QED
    BY <2>3, <2>4, <2>5
<1>6. Kept
  BY <1>1, <1>2, <1>3, <1>4, <1>5 DEF Controllers
<1> QED
  BY <1>6 DEF TypeOK, Request

\* However often Run is called for a name, by however many callers, with crashes
\* and lost answers, a Job dispatched with credentials never lacks its Secret, as
\* long as Jobs stay and "Conflict" is answered to nothing but an existing name.
THEOREM RunsCredentials ==
  ASSUME Ops \subseteq {"run"}, ~Expiring, "Conflict" \notin Refusals
  PROVE  Spec => []CredentialsPresent
<1>1. Init => CredentialsInv
  BY DEF Init, ClusterInit, CredentialsInv, CredentialsPresent, NoJob, FreshJob, NoSecret,
     Live, Exists
<1>2. ASSUME TypeOK, RunsOnly, CredentialsInv, [Next]_vars PROVE CredentialsInv'
  <2> USE DEF CredentialsInv, CredentialsPresent, Live, Exists, HasSecret
  <2>0. /\ jobs \in [Names -> Job] /\ secrets \in [Names -> Secret] /\ uids \in Nat
        /\ \A c \in Callers : req[c].name \in Names
        /\ \A n \in Names : jobs[n].uid \in Nat
    BY <1>2 DEF TypeOK, ClusterTypeOK, Request, Job
  <2>1. CASE UNCHANGED vars
    BY <1>2, <2>1 DEF vars
  <2>2. ASSUME NEW c \in Callers, Begin(c) PROVE CredentialsInv'
    <3>1. /\ UNCHANGED <<jobs, secrets, uid>>
          /\ \/ pc'[c] \notin {"createJob", "adoptSecret"}
             \/ pc'[c] = "createJob" /\ req'[c].creds = NoCreds
      BY <1>2, <2>2 DEF Begin, BeginWith, RunEntry, clusterVars, TypeOK
    <3>2. \A d \in Callers \ {c} : pc'[d] = pc[d] /\ req'[d] = req[d]
      BY <1>2, <2>2 DEF Begin, BeginWith, TypeOK
    <3> QED
      BY <1>2, <2>0, <3>1, <3>2
  <2>3. ASSUME NEW c \in Callers, CreateSecret(c) PROVE CredentialsInv'
    <3>1. PICK n \in Names : n = req[c].name
      BY <2>0
    <3>2. PICK reason \in Reasons :
            /\ ApiCreateSecret(n, req[c].creds, reason)
            /\ IF WrapK8sError(reason) \in {"nil", "ErrResourceConflict"}
               THEN Goto(c, "createJob") ELSE Return(c, "error")
      BY <2>3, <3>1 DEF CreateSecret, CreateSecretTolerating
    <3>3. /\ jobs' = jobs /\ req' = req
          /\ \A d \in Callers \ {c} : pc'[d] = pc[d] /\ uid'[d] = uid[d]
      BY <1>2, <3>2 DEF ApiCreateSecret, Goto, Return, TypeOK
    <3>4. /\ \/ secrets' = secrets
             \/ ~HasSecret(n) /\ secrets' = [secrets EXCEPT ![n] = [creds |-> req[c].creds, owner |-> 0]]
          /\ reason \notin Refusals => HasSecret(n)' \/ req[c].creds = NoCreds
      BY <1>2, <2>0, <3>1, <3>2 DEF ApiCreateSecret
    <3>5. /\ \A m \in Names : HasSecret(m) => HasSecret(m)'
          /\ \A m \in Names : secrets'[m].owner \in {0, secrets[m].owner}
      BY <2>0, <3>4
    <3>6. pc'[c] \in {"idle", "createJob"} /\ (pc'[c] = "createJob" => reason \notin Refusals)
      BY <1>2, <3>2, RefusalsAssumption DEF Goto, Return, WrapK8sError, TypeOK
    <3> QED
      BY <1>2, <2>0, <3>1, <3>3, <3>4, <3>5, <3>6
  <2>4. ASSUME NEW c \in Callers, CreateJob(c) PROVE CredentialsInv'
    <3>1. PICK n \in Names : n = req[c].name
      BY <2>0
    <3>2. /\ UNCHANGED <<secrets, req>> /\ pc[c] = "createJob"
          /\ \/ UNCHANGED jobs
             \/ ~Exists(n) /\ jobs' = [jobs EXCEPT ![n] = FreshJob(uids + 1, req[c].creds)]
      BY <2>4, <3>1 DEF CreateJob, CreateJobTolerating, ApiCreateJob, Return
    <3>3. /\ \A d \in Callers \ {c} : pc'[d] = pc[d] /\ uid'[d] = uid[d]
          /\ pc'[c] = "idle" \/ (pc'[c] = "adoptSecret" /\ uid'[c] = jobs'[n].uid /\ jobs'[n].uid # 0)
      <4>1. PICK reason \in Reasons :
              /\ ApiCreateJob(n, req[c].creds, reason)
              /\ \/ Return(c, "nil") \/ Return(c, "error")
                 \/ /\ WrapK8sError(reason) = "nil"
                    /\ pc' = [pc EXCEPT ![c] = "adoptSecret"]
                    /\ uid' = [uid EXCEPT ![c] = jobs'[n].uid]
        BY <2>4, <3>1, Zenon DEF CreateJob, CreateJobTolerating
      <4>2. WrapK8sError(reason) = "nil" => jobs'[n].uid # 0
        <5>1. WrapK8sError(reason) = "nil" => reason = "OK"
          BY DEF WrapK8sError, Reasons
        <5>2. reason = "OK" => jobs' = [jobs EXCEPT ![n] = FreshJob(uids + 1, req[c].creds)]
          BY <4>1, RefusalsAssumption DEF ApiCreateJob
        <5> QED
          BY <2>0, <5>1, <5>2 DEF FreshJob
      <4> QED
        BY <1>2, <4>1, <4>2 DEF Return, TypeOK
    <3>4. CASE UNCHANGED jobs
      BY <1>2, <2>0, <3>1, <3>2, <3>3, <3>4
    <3>5. CASE ~Exists(n) /\ jobs' = [jobs EXCEPT ![n] = FreshJob(uids + 1, req[c].creds)]
      <4>1. /\ \A m \in Names \ {n} : jobs'[m] = jobs[m]
            /\ jobs'[n].deletion = "no" /\ jobs'[n].creds = req[c].creds
            /\ jobs[n].uid = 0
        BY <2>0, <3>5 DEF FreshJob
      <4>2. \A d \in Callers \ {c} : pc[d] = "adoptSecret" => req[d].name # n
        BY <1>2, <4>1
      <4> QED
        BY <1>2, <2>0, <3>1, <3>2, <3>3, <4>1, <4>2
    <3> QED
      BY <3>2, <3>4, <3>5
  <2>5. ASSUME NEW c \in Callers, AdoptSecret(c) PROVE CredentialsInv'
    <3>1. PICK n \in Names : n = req[c].name
      BY <2>0
    <3>2. /\ UNCHANGED <<jobs, req>> /\ pc[c] = "adoptSecret"
          /\ secrets' = secrets \/ secrets' = [secrets EXCEPT ![n].owner = uid[c]]
      BY <2>5, <3>1 DEF AdoptSecret, ApiPatchOwner, Return
    <3>3. pc'[c] = "idle" /\ \A d \in Callers \ {c} : pc'[d] = pc[d] /\ uid'[d] = uid[d]
      BY <1>2, <2>5 DEF AdoptSecret, Return, TypeOK
    <3>4. /\ \A m \in Names : secrets'[m].creds = secrets[m].creds
          /\ \A m \in Names : \/ secrets'[m].owner = secrets[m].owner
                              \/ m = n /\ secrets'[m].owner = uid[c]
      BY <2>0, <3>2 DEF Secret
    <3> QED
      BY <1>2, <2>0, <3>1, <3>2, <3>3, <3>4
  <2>6. ASSUME NEW c \in Callers, DeleteJob(c) \/ DeleteSecret(c) PROVE FALSE
    BY <1>2, <2>6 DEF RunsOnly, DeleteJob, DeleteJobTolerating, DeleteSecret,
       DeleteSecretTolerating
  <2>7. ASSUME NEW c \in Callers, Crash(c) PROVE CredentialsInv'
    BY <1>2, <2>7 DEF Crash, Return, clusterVars, TypeOK
  <2>8. CASE Controllers /\ UNCHANGED callerVars
    BY <1>2, <2>8, ControllersCredentials
  <2> QED
    BY <1>2, <2>1, <2>2, <2>3, <2>4, <2>5, <2>6, <2>7, <2>8 DEF Next, Requests
<1>3. CredentialsInv => CredentialsPresent
  BY DEF CredentialsInv
<1> QED
  BY <1>1, <1>2, <1>3, RunsOnlyHeld, PTL DEF Spec
=============================================================================
