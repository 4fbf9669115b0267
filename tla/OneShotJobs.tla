----------------------------- MODULE OneShotJobs -----------------------------
(***************************************************************************)
(* What a JobRunner promises its callers, without Secrets, pods, UIDs or   *)
(* requests: named pieces of work that are dispatched at most once per     *)
(* call, and only while none of the name exists; that stay until a Delete  *)
(* or a Replace removes them or their time to live ends; and calls that    *)
(* say "nil" only when they did, or found done, what they are for.         *)
(***************************************************************************)
EXTENDS Naturals

CONSTANTS Names, Callers

VARIABLES
  work,  \* the state of the work of each name
  made,  \* how many pieces of work were dispatched
  call   \* the last call of each caller: its stage and its result

oneShotVars == <<work, made, call>>

Call == [op : {"run", "delete", "replace"}, name : Names,
         stage : {"idle", "asked", "cleared", "dispatched"},
         result : {"none", "nil", "error"}]

TypeOK ==
  /\ work \in [Names -> {"absent", "running", "done", "leaving"}]
  /\ made \in Nat
  /\ call \in [Callers -> Call]

Init ==
  /\ work = [n \in Names |-> "absent"]
  /\ made = 0
  /\ call \in [Callers -> {x \in Call : x.stage = "idle" /\ x.result = "none"}]

Stays(n) == work[n] \in {"running", "done"}

Stage(c, s) == call' = [call EXCEPT ![c].stage = s]
Result(c, r) == call' = [call EXCEPT ![c].stage = "idle", ![c].result = r]

Ask(c) ==
  /\ call[c].stage = "idle"
  /\ \E x \in Call : /\ x.stage = "asked" /\ x.result = "none"
                     /\ call' = [call EXCEPT ![c] = x]
  /\ UNCHANGED <<work, made>>

\* The call may run, delete or replace: where it may clear, where dispatch.
MayClear(c) == call[c].stage = "asked" /\ call[c].op # "run"
MayDispatch(c) == \/ call[c].stage = "asked" /\ call[c].op = "run"
                  \/ call[c].stage = "cleared" /\ call[c].op = "replace"

Removed(n) == [work EXCEPT ![n] = IF Stays(n) THEN "leaving" ELSE @]

Clear(c) ==
  /\ MayClear(c)
  /\ work' = Removed(call[c].name)
  /\ Stage(c, "cleared")
  /\ UNCHANGED made

\* An error leaves open whether the work was removed or dispatched.
ClearFails(c) ==
  /\ MayClear(c)
  /\ work' \in {work, Removed(call[c].name)}
  /\ Result(c, "error")
  /\ UNCHANGED made

Dispatch(c) ==
  /\ MayDispatch(c)
  /\ work[call[c].name] = "absent"
  /\ work' = [work EXCEPT ![call[c].name] = "running"]
  /\ made' = made + 1
  /\ Stage(c, "dispatched") \/ Result(c, "nil") \/ Result(c, "error")

NoOp(c) ==
  /\ MayDispatch(c)
  /\ work[call[c].name] # "absent"
  /\ Result(c, "nil")
  /\ UNCHANGED <<work, made>>

\* A Delete that cleared and a Run or Replace that dispatched may succeed.
Succeed(c) ==
  /\ \/ call[c].stage = "dispatched"
     \/ call[c].stage = "cleared" /\ call[c].op = "delete"
  /\ Result(c, "nil")
  /\ UNCHANGED <<work, made>>

Fail(c) ==
  /\ call[c].stage \in {"asked", "cleared"}
  /\ Result(c, "error")
  /\ UNCHANGED <<work, made>>

Die(c) ==
  /\ call[c].stage # "idle"
  /\ Result(c, "none")
  /\ UNCHANGED <<work, made>>

Turn(n, from, to) ==
  /\ work[n] = from
  /\ work' = [work EXCEPT ![n] = to]
  /\ UNCHANGED <<made, call>>

\* Work ends, finished work outlives its time to live, removed work goes.
Passes(n) ==
  Turn(n, "running", "done") \/ Turn(n, "done", "leaving") \/ Turn(n, "leaving", "absent")

Next ==
  \/ \E c \in Callers : \/ Ask(c) \/ Clear(c) \/ ClearFails(c) \/ Dispatch(c)
                        \/ NoOp(c) \/ Succeed(c) \/ Fail(c) \/ Die(c)
  \/ \E n \in Names : Passes(n)

Spec == Init /\ [][Next]_oneShotVars
=============================================================================
