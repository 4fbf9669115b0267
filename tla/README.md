# managed-services-lib in TLA+

This directory holds TLA+ models of the Go library in `src/`: what is modelled,
what TLC checks about it on small instances, and what TLAPS proves about it for
every instance. The library lets a backend offer managed services (databases
and the like) on Kubernetes: an HTTP API in front, providers that create and
watch resources, and detached one-shot Jobs for backups, backup deletions and
restores.

## The system

| component | state it keeps | operations | talks to | what is hard |
|---|---|---|---|---|
| `JobRunner` (`client/jobrunner.go`) | none; everything is in the cluster | `Run`, `Delete`, `Replace`, `State` | `KubernetesClient`, up to five requests per call | several callers and replicas, failures between requests, objects that are being deleted, TTL |
| `KubernetesClient` (`client/kubernetes.go`) | connection only | `Create`, `Get`, `List`, `Patch`, `Delete`, `GetJob`, `ListPods`, `GetPodLogs`, Secrets | API server | lost answers, five errors for many reasons |
| cluster (not in `src/`) | Jobs, Secrets, pods | controllers: job, TTL, garbage collector, kubelet | the objects above | acts on its own at any time |
| Job conventions (`provider/servicejob.go`, `provider/backupjob.go`) | none | names, labels, status conversions | `JobRunner` | status is derived from an object that expires |
| routes (`provider/routes.go`) | none | one handler per endpoint, `HandleError` | a provider | error mapping, decode and validation order |
| server and middleware (`api`, `middleware`) | router, HTTP server | `NewServer`, `Run`, `Shutdown`, middleware chain | routes | order of the chain, panics, abort |
| `Base` and provider interfaces (`provider/base.go`, `provider/interface.go`) | client, logger | lookups, secrets, conversions, `NewServiceStatus` | `KubernetesClient` | fallback values |
| model types (`model`) | none | data and binding rules | all | mutually exclusive fields |
| telemetry, config | global providers, environment | `Setup`, `Load` | exporters | partial failure of `Setup` |

The core is the first two rows and the cluster below them: `JobRunner` keeps no
state and takes no lock, so all of its guarantees come from the order of its
requests and from what the API server does with names. A Job and its
credentials Secret share a name, which is the idempotency key. Between any two
requests other callers, the job controller, the TTL controller and the garbage
collector may act, an answer may be lost, or the caller may die.

What makes each component correct:

- `Run`: at most one Job per name; a Job with credentials has its Secret, with
  the credentials of that dispatch; success means the Job exists.
- `Delete`: after success neither the Job (unless it is terminating) nor the
  Secret is left, whatever earlier calls left half done.
- `Replace`: the old Job is never taken for the new one; a caller that keeps
  polling gets its retry.
- adoption: a Secret leaves with its Job and not before it.
- `State`: the failure reason is about the Job that failed and its last
  attempt; statuses derived from the phase do not go back on their word.
- routes and server: every error has one status, a panic never takes the
  process down, authentication precedes every provider call.

## Modules

| module | models | source |
|---|---|---|
| `Cluster` | the namespace: Jobs, Secrets, pods, the calls of the API server with the errors that `wrapK8sError` makes of its answers, and the controllers | `client/kubernetes.go`; the controllers are external |
| `JobRunner` | `Run`, `Delete`, `Replace` as state machines of several callers, one action per request | `client/jobrunner.go` |
| `OneShotJobs` | the promise of a `JobRunner`, without Secrets, pods and requests | comments and code of `Run`, `Delete`, `Replace` |
| `JobPolling` | `State` in up to three kinds of requests, `BackupStatusFromJob`, `OperationStatusFromJob` | `client/jobrunner.go`, `provider/backupjob.go`, `provider/servicejob.go` |
| `JobRetry` | a provider's loop of polls and `Replace` | the comment on `Replace`; the loop is external |
| `ServiceJobs` | names and identity labels of detached Jobs | `provider/servicejob.go`, `provider/backupjob.go` |
| `Conversions` | the pure parts: limits and environment of a Job, what its status becomes, JSON pointers, lookups by label, the status envelope, `RecoverFrom`, `telemetry.Setup` | `client/jobrunner.go`, `provider/*.go`, `model/common.go`, `telemetry/telemetry.go` |
| `BackupApi` | `PUT /backups/:id` and `POST /backups/:id/status` on top of `JobRunner` and `JobPolling`, with the clients | `provider/routes.go`; provider and clients are external |
| `BackupService` | the promise of the backup routes, without handlers, retries, Jobs and requests | `provider/routes.go`, the `Backups` interface |
| `HttpServer` | the server's life cycle, the middleware chain, every route with its decoding and status, `HandleError`, panics | `api/server.go`, `middleware/middleware.go`, `provider/routes.go`; `net/http` and gin are external |
| `JobRunnerProofs` | theorems about `JobRunner` in serial use | |
| `JobDispatchProofs` | theorems about `JobRunner` under contention: the refinement of `OneShotJobs`, and callers of `Run` only | |
| `JobPollingProofs` | theorems about `JobPolling`: what pollers leave alone, outcomes that stay | |
| `JobRetryProofs` | theorems about `JobPolling` and `JobRetry`: which attempt a failure reason is about | |
| `BackupApiProofs` | theorems about `BackupApi`: backups are taken once, clients are told the truth, the refinement of `BackupService` | |
| `ConversionsProofs` | theorems about every pure function of `Conversions` and `ServiceJobs` | |
| `WellOrder` | lemmas: least and greatest elements of sets of naturals, induction over a set | |
| `HttpServerProofs` | theorems about `HttpServer` | |
| `MC_JobRunner`, `MC_JobPolling`, `MC_BackupApi`, `MC_Conversions` | instances for TLC | |

`JobRunner` extends `Cluster`, `JobPolling` extends `JobRunner`, `JobRetry`
extends `JobPolling`. `BackupApi` extends `JobPolling` and `ServiceJobs`, and
`Conversions` extends `ServiceJobs`. `OneShotJobs` and `BackupService` stand
alone and are instantiated, by `JobRunner` and by `BackupApi`, with a refinement
mapping. `HttpServer` stands alone too: it is about what every route has in common, whatever its provider does.
The provider between the backup routes and the `JobRunner` is other people's
code; `BackupApi` takes the one of `provider/servicejob_usage_test.go`, which
the library offers as its worked example.

### From the code to the state

`jobs[n]` is the Job of name `n`: its UID, the credentials it was dispatched
with, whether a pod is active, how many pods failed, its terminal condition,
and whether it is being deleted and how its dependents are treated then.
`secrets[n]` is the Secret: its contents and the UID in its owner reference.
`pods` are all pods, those that a deleted Job orphaned included; `env` of a pod
is what its `secretKeyRef`s resolved to when the container started, and `created`
is its creation time in whole seconds, of which only the order matters
(`SecondsAfter`): the attempts of a Job are a back-off apart, whereas the first pod
of a Job may come in the second of the last one of the Job before it.

A caller has a program counter `pc` that names the request it makes next, its
arguments `req`, the UID that `Create` returned (`uid`) and its result `ret`.
`CreateSecret`, `CreateJob` and `AdoptSecret` are the three requests of `Run`,
`DeleteJob` and `DeleteSecret` those of `Delete`; `Replace` is the second
sequence followed by the first. Each request is one atomic step of the API
server which takes effect or not (`Refusals`) and whose answer may be lost
(`LostAnswers`). Which errors are tolerated is read off the code: an existing
Secret or Job in `Run`, missing objects in `Delete`, everything in
`adoptSecret`. `Crash` ends a call between two requests. A failure to build the
Job (`buildJob`) ends `Run` at the same place, with the same effect, as a
refused `Create`, and is not told apart from one.

A poller reads the Job (`GetJob`), for a failed Job the pods (`ListPods`), and
then their logs one pod at a time, newest first (`PodLogs`), each at its own
moment. "Newest" goes by `created`, as the code does; among pods of one second any
may come first, because `sort.Slice` is not stable (`Newest`).

In `BackupApi` every caller and every poller is the goroutine of one request.
`client[b]` is what the client of backup `b` does next or was told at last,
`waited` are the requests whose answer somebody still waits for. A client that
hangs up, or whose connection the write timeout cuts, asks again (`HangUp`)
while its handler goes on; `net/http` cancels the context of such a request, so
that its next call of the API server fails (`Abort`), the best-effort adoption
included; a handler may also finish first. `Die` is a process that dies with the
request. A status request that fails, or whose answer is lost (`LoseStatus`), makes
the client ask again; its handler reads on, and does no more than that.

In `ServiceJobs` a string with dashes is the sequence of the parts between them,
so `"delete-backup"` is `<<"delete", "backup">>` and joining with `"-"` is
concatenation: a collision of names is a collision of sequences.

In `Conversions` a step is one call of one pure function: `last` has its name,
what it was given and what it gave. Each is called with every small input that
the program can give it, the statuses of Jobs being those that the job
controller writes (`JobStatuses`). Numbers are small: `Second` ticks make a
second, an `int32` turns negative at `Int32Half`, `MaxLen` characters are a
health message, and the default limits of a Job, 6 and 36 ticks, are to each
other as one hour is to six. A text is the sequence of its words, so that an
empty one is `<<>>`; a JSON pointer token is a sequence of characters. Where the
source fixes a value (the labels, the defaults, what a text may be), it is a
constant with the assumption that the code justifies, so that the theorems hold
for the value of the source as well as for that of the run.

In `HttpServer`, `conn[c]` is the connection of a client with the request on it:
how far through the chain it is, which route it asks for, whether it carries the
key and its body arrives within the read timeout and decodes, what the provider
did, which status was written, and whether the write timeout has passed (`late`).
That timeout stops no handler: a late request runs to its end and finds its
connection closed (`Sent`), so it is "cut" where another one is "answered". A
connection that sends nothing is closed in the end (`IdleTimesOut`). gin's chain is
a nest of calls on one goroutine that shares nothing, so everything before the
provider is one step (`Enter`), as is everything after it up to the return of
`Logger`. A panic skips `Logger`, which has no deferred part, and is answered by
`ErrorHandler`. `runner` is the goroutine in `Server.Run`, `stop[s]` a goroutine
in `Server.Shutdown`; the nil check and `http.Server.Shutdown` are separate
steps, because `httpServer` is read without synchronisation. A request on a
connection that was accepted before the shutdown is still handled, and a
connection without a request is closed; this is what `net/http` does.

### Choices about the cluster

- `DeleteOptions` are empty in `client/kubernetes.go:239`, so the propagation
  policy is the server's. The constant `Propagation` lets a run allow orphaning,
  which is what the server does with Jobs unless the object's finalizers say
  otherwise, cascading, or both. All passing runs allow both.
- A deleted Job keeps its name until `RemoveJob`, because finalizers run first;
  `Create` answers AlreadyExists until then.
- An owner reference whose UID does not exist makes a Secret garbage, whoever
  wrote it.
- With restart policy Never every attempt is a pod of its own; the deadline
  removes unfinished pods and fails the Job.
- `Reasons` are the API server's answers that the code tells apart; every other
  error behaves as "Timeout" (`ErrKubernetesRequestFailed`).

## Runs

`tlc -config <run>.cfg <module>.tla`; all bounds are in the cfg.

| run | question | shows |
|---|---|---|
| `serial_replace` | callers take turns on a name and use `Replace` and `Delete` only | `TypeOK`, `CredentialsCurrent`, `EnvironmentCurrent`, `OwnerIsCurrent`, `SerialInv`, `ReplaceRestarts`, `DeleteCleans` under refused and lost requests and crashes |
| `contention` | `Run`, `Delete` and `Replace` at once, deletions cascade or orphan, and nobody is bound to clean up | `ImplementsOneShot`, `AdoptedCollected` (with the exception of a Secret that a half-done deletion orphaned), `WorkEnds` |
| `retry` | a provider polls and replaces; pods of one second come in any order | `FailureIsRetried`, `NewestFailureExplains` |
| `backup_api` | a client asks for a backup until it is accepted and polls its status; answers are lost, handlers are abandoned, overlap and die | `ToldTruth`, `TakenOnce`, `KeepsPromise` (the refinement of `BackupService`), `BackupConcludes`; of the calls of `Run` and `State` below, as long as nobody deletes the Job and no TTL runs out, `PollTypeOK`, `CredentialsPresent`, `OneAttemptAtATime`, `RunDispatched`, `OutcomeStays` |
| `conversions` | every pure function on every small input | `JobIdentity`, `LimitsKept`, `SecretsPrevail`, `EnvDeterministic`, `FailureIsTold`, `OutcomeIsDated`, `PointerReadsBack`, `ListedIsFound`, `HealthShown`, `OneSource`, `TelemetryFlushed` |
| `serve` | clients send requests of every kind while the server starts and is shut down twice, and some are slower than the write timeout | `TypeOK`, `AnswersTruthfully`, `ShutDownForGood`, `ShutdownReturns`, `NothingDropped` |

Runs that find a disagreement between the code and what it says of itself:

| run | what happens | what is said |
|---|---|---|
| `stale_credentials` | a `Run` fails after `CreateSecret`; the next one with other credentials keeps the old Secret | `jobrunner.go:86-88`: each entry of `Secrets` is stored in the Job's Secret |
| `expired_credentials` | a `Run` finds the Secret of a finished Job whose TTL runs out before the `Run` creates its Job; the Secret is collected and the new Job's container waits for the deadline | `jobrunner.go:128-130`: the Secret is created first, "so the pod never starts without it" |
| `late_adoption` | a `Replace` that was overtaken patches the UID of a removed Job onto the newer Job's Secret, which is collected | `jobrunner.go:221-222`: the Secret is collected together with the Job |
| `backup_forgotten` | after the TTL a successful backup is reported with `exists: false` | `model/common.go:99-100`: whether the backup was taken successfully |
| `foreign_logs` | a Job whose own pods have no logs fails with the log of a pod that the replaced Job left | `jobrunner.go:250`: "a pod belonging to the Job" |
| `early_shutdown` | `Shutdown` comes before `Run` has set `httpServer`, returns nil, and the server then serves | `api/server.go:85`: "Shutdown gracefully shuts down the server." |

`CredentialsPresent` is thus no promise of `Run` as it stands, although
`buildJob` gives every Job a TTL: it holds from the dispatch until the TTL, and
`backup_api` and the theorem `RunsCredentials` say so with `Expiring = FALSE`. Nor
does it hold beside `Delete`: a `Delete` that removes no Job, because there is none
yet, goes on to remove the Secret that a `Run` has just created and dispatched a
Job for (with two callers, `Ops = {"run", "delete"}` and `Expiring = FALSE` in
`expired_credentials.cfg` TLC finds this after six steps without any fault).

A 409 with reason Conflict on `Create` ("Conflict" among the `Refusals`) breaks
`RunDispatched` at once: `wrapK8sError` takes it for "already exists"
(`kubernetes.go:297`), and `Run` returns nil without a Job. The API server is not
known to answer a `Create` so, hence the passing runs leave it out.

Where deletions orphan, a `Delete` or `Replace` that ends after its first request
leaves a Secret that nobody owns: the owner reference has gone with the Job, and no
controller collects it. It stays until the next successful `Delete` or `Replace` of
the name (`DeleteCleans`), which is why `AdoptedCollected` excepts it.

Which calls callers may combine safely is what the passing runs say: any number of
`Run`s until the TTL runs out, or `Replace` and `Delete` in turns.

### Bounds

- `Names = {backup}`: calls on different names touch different objects and meet
  only in the UID counter. The proofs hold for any set of names.
- `MaxJobs` (1 or 2): no dispatch begins once so many Jobs were created; two
  Jobs in a row show every mix-up of an old and a new Job. Calls that began earlier may exceed it by the number of callers.
- `Callers` one or two. One caller is enough where callers take turns
  (`Exclusive`), since a caller that begins again remembers nothing.
- `BackoffLimit` 0 or 1: with 1 a Job has an earlier and a last attempt.
- `Creds` one or two contents, two where the wrong one could be read.
- Symmetry is used for the callers of `late_adoption`, which checks an invariant.
- `retry` stops after two Jobs (`MaxJobs = 2`) of two attempts each, which has a
  failed Job with an earlier and a last attempt and its replacement, whose first
  pod may be as old as that last attempt. A pod is created in the second of the
  youngest pod of the name or in the next: later ones compare alike.
- `backup_api`: one backup, since backups share nothing but the callers; two
  handlers, so that an abandoned one overlaps its successor, and one poller;
  `MaxLosses = 2` lost answers of either route. Everybody has the same
  credentials, and no TTL runs out (with one, `backup_forgotten` and
  `expired_credentials` are what happens). `BackupApiProofs` covers any number of backups, handlers, pollers,
  losses and credentials.
- `conversions`: keys of one or two parts, so that a key may itself contain a
  dash; durations around zero, around every whole second, and up to the width
  of the integer; up to three variables, two conditions, two objects and four
  characters, since each function looks at one or two neighbours at a time.
- `contention`: two callers that may each dispatch a Job below the bound, so that
  up to two Jobs of the name are made (`UidsMade`); "Timeout" stands for every
  refusal, since the code tells no other one apart from it in these three calls.
- `serve`: two clients and two stoppers, since a request that another one
  delays, or a second `Shutdown`, involves no third. `Routes` has one route of
  every shape (answered by CORS, open, unknown, asking a provider with and
  without a body), every request may be late, and `Wrapped` is a domain and an
  infrastructure sentinel, so an error wraps none, one or both. `HttpServerProofs` covers all routes and all
  sentinels.

`CHECK_DEADLOCK FALSE` appears where the system may stop: with `Run` only and
without a TTL a finished Job stays and, past `MaxJobs`, nobody may act; a server
that was shut down stays down.

### Fairness

`FairSpec` assumes that the cluster's controllers keep working: the deadline
and TTL controllers fire, finalizers finish, the collector collects. Nothing is
assumed of pods (they may hang) or of callers (they may stop anywhere).
`RetrySpec` assumes that the provider's loop goes on and that deletions finish;
it has no faults or crashes, since an endlessly failing API server refutes any
progress. It shows that `Replace`'s documented contract ("call again on the next
poll") suffices if the provider replaces on `failed` *and* on `not_found`: with
`failed` only, the loop ends when `Replace` met a terminating Job.

`BackupSpec` assumes that clients and handlers go on, that deadlines run out, and
that a request that is made again and again is not refused for ever (strong
fairness on `CreateSecret`, `CreateJob` and `GetJob` having an effect or an
answer); `MaxLosses` bounds the answers that are lost. Of pods nothing is
assumed: `BackupConcludes` rests on the deadline that `buildJob` gives every Job.

`FairSpec` of `HttpServer` assumes that handlers and providers come to an end, by
returning or by panicking, that `ListenAndServe` returns once the server is shut
down, and that `Shutdown` goes on. Nothing is assumed of clients, of `Run`, or
of the context that `Shutdown` is given: it need never end, so
`ShutdownReturns` says that draining does. It does because
a connection that was answered is not used again after the shutdown (`net/http`
closes it), so an old connection delays the drain by at most one request.

## Proofs

`JobRunnerProofs` proves, with `tlapm JobRunnerProofs.tla`:

| theorem | statement |
|---|---|
| `TypeCorrect` | `Spec => []TypeOK`, from the assumptions on the constants alone |
| `SerialCorrect` | `Spec => []SerialInv` |
| `SerialCredentials` | `Spec => []CredentialsCurrent` |
| `SerialOwner` | `Spec => []OwnerIsCurrent` |
| `SerialEnvironment` | `Spec => []EnvironmentCurrent` |
| `SerialDelete` | `Spec => DeleteCleans` |
| `SerialReplace` | `Spec => ReplaceRestarts` |

All but the first assume `Serial`: callers take turns on a name (`Exclusive`),
use `Replace` and `Delete`, and no spurious Conflict is answered. These
assumptions are needed: each violation above arises without one of them.
Names, callers, credentials, back-off limit, propagation policy, TTL, refusals
and lost answers are arbitrary.

The invariants are not inductive. That a fresh Secret is the Job's own depends
on what the requests before it achieved and on what controllers cannot undo in
between, which is `SerialInv`:

- `TurnsTaken`: at most one call per name is running;
- `Cleared`: from the deletion of the Job up to the new dispatch no Job that
  stays exists, and no Secret is left when the new one is created;
- `Prepared`: before the Job is created the Secret has this call's credentials
  and no owner, so the collector cannot take it;
- `Adopting`: if a Job is there when the patch is made, it is the one this call
  created;
- `PodsSupplied`: a pod of the present Job refers to the Secret exactly if the
  Job has credentials, and once started has its values;
- `UidsIssued`: UIDs grow, so a fresh one is nobody's owner and nobody's Job;
- `CredentialsCurrent` and `OwnerIsCurrent` themselves.

The proof has two layers. Lemmas about the API calls and the controllers
(`ApiTypeOK`, `ControllersTypeOK`, `ControllersSerial`) say what one step of
the cluster preserves; lemmas about callers (`RequestSerial`, `StepSerial`,
`ReturningStep`) combine them request by request. The theorems follow with
`PTL`.

`JobDispatchProofs` is about callers that do not take turns:

| theorem | assumes | statement |
|---|---|---|
| `PromiseKept` | no spurious Conflict | `Spec => ImplementsOneShot` |
| `DispatchHeld` | no spurious Conflict | `Spec => RunDispatched` |
| `OneAttempt` | `Run` only | `Spec => []OneAttemptAtATime` |
| `RunsCredentials` | `Run` only, before a TTL runs out, no spurious Conflict | `Spec => []CredentialsPresent` |

`PromiseKept` is the refinement. The mapping takes the Job of a name to
"absent", "running", "done" or "leaving", the UID counter to the number of Jobs
made, and the request a call makes next to the stage of the call. That stage
depends on the operation as well: a `Replace` that creates has cleared the name
before and a `Run` has not, so the proof needs the invariant `OpOK`, which
relates `pc` to the operation. There is a lemma per action: a request on the
Secret is a stutter or the end of a call, a request on the Job is a dispatch, a
no-op, a clearing or a failure, and a step of the controllers is the abstract
work passing on by itself. The state functions of the mapping are kept opaque
(`Work`, `AllCalls`), with `SamePromise` to come back to the mapping of
`JobRunner`.

`OneAttempt` rests on `AttemptInv`: an unfinished pod belongs to the Job that is
there, this Job has counted it as active, and a Job that is being deleted is
finished. The last part is where `Run` only is needed. `RunsCredentials` rests on
`CredentialsInv`: a call that is to create the Job with credentials has the
Secret, a Secret is owned by nobody or by the Job that is there, and no Job goes.

`JobPollingProofs` adds the pollers:

| theorem | assumes | statement |
|---|---|---|
| `PollersOnlyRead` | | `PollSpec => Spec`, so that the theorems above hold beside any pollers |
| `PollTypeCorrect` | | `PollSpec => []PollTypeOK` |
| `OutcomesStay` | `Run` only, no TTL | `PollSpec => OutcomeStays` |

`OutcomesStay` uses `JobsStay` (no Job is being deleted) and `OutcomeInv`: an
answer that tells an outcome is still true of the Job of its name, and a poller
that has read a failed Job and still looks for its logs will not be wrong.

`JobRetryProofs` is about the reason that is given for a failure:

| theorem | assumes | statement |
|---|---|---|
| `FailuresAccounted` | | `Spec => []Accounted` |
| `RetryIsAUse` | | `RetrySpec => Spec`, so that what holds of any callers holds of the loop |
| `RetryTypeCorrect` | | `RetrySpec => []PollTypeOK` |
| `FailuresExplained` | no request is refused, a failed container has logged something | `PollSpec => NewestFailureExplains` |
| `RetriesExplained` | the same | `RetrySpec => NewestFailureExplains` |

`NewestFailureExplains` relates a Job that was read, pods that were listed later and
logs that were read later still to the Job that is there by then, while it may be
replaced at every moment. It is about Jobs that failed after a retry: the only pod
of a Job without one may have the same creation second as a pod that the replaced
Job left, and then the sort may put either first. It takes two invariants:

- `Accounted`, about the cluster: UID and attempt tell pods apart, a UID is that of
  one Job, no pod is younger than the Job of its name, the attempts of a Job are
  those it has counted and the one under way, and the pod of the last failure of a
  Job that stays is still there. `PodsInOrder` adds what the creation times tell:
  an attempt is newer than the earlier attempts of its Job, and a retry is newer
  than every pod of an earlier Job of the name (`Later`). It holds under any callers.
- `Explaining`, about a poll under way: as long as the Job it has read is still
  there, that Job is over with the count that was read, and the pod of its last
  failure is among those not tried yet, all of which are of this Job or of earlier
  ones and in order (`Explained`). So whichever of them the sort puts first is that
  pod or one of a still later attempt (`NewestIsLast`).

TLC has checked both with the bounds of `retry`. The assumptions on requests and
containers are needed: a log that cannot be read, or is empty, makes
`failedPodLogs` go on to an earlier pod. `foreign_logs` shows where that ends: a Job
that failed before its own pods logged anything is explained by a pod of another
Job. No theorem is offered for `LogsBelongToJob`: it holds only where no Job of the
name was there before, and there it says nothing.

`BackupApiProofs` is about the composition. Its `Setting` is that handlers use
`Run`, may overlap, no TTL runs out and no spurious Conflict is answered:

| theorem | statement |
|---|---|
| `BackupsTakenOnce` | `BackupSpec => []TakenOnce` |
| `ClientsToldTruth` | `BackupSpec => []ToldTruth` |
| `RoutesKeepPromise` | `BackupSpec => KeepsPromise` |

A step of the routes is one of `PollSpec` or an abort (`ApiSteps`), so the
invariants of the modules below, together `LibraryInv`, carry over
(`StepLibrary`), and `JobsKept` is what they say about one step: at most one Job
is new, and it is the first of its name. As different backups have different
names (`BackupIDsAssumption`), the Jobs are counted by the backups that have one.
For `ClientsToldTruth` the invariant `ToldInv` adds that a call of `Run` that
succeeded, or has come to the adoption, is about a Job that exists (`CallsTold`),
and that a poller somebody waits for looks at such a Job and answers under its
name (`PollersTold`).

`RoutesKeepPromise` is the refinement. What became of a backup (`TakenOf`) is read
off its Job, what its client knows (`ToldOf`) off what the client does next. That
a step of the library changes what became of one backup at most, and never back,
is `TakenMoves`, which rests on `OneJobMoves`: one Job at most changes in a step,
it is dispatched where none was, or goes on as long as it is not over. That no
client is told something and then less needs one more invariant, because handlers
overlap and are abandoned, so that many requests about one backup are under way:

- `WaitInv`: a request whose answer still counts is about a backup whose client is
  waiting for that kind of answer, and no two of them are about the same backup.

So a late 202, a lost answer or a handler that dies never finds a client that knows
more already. TLC has checked `WaitInv` with the bounds of `backup_api`. `SameService` takes the opaque state functions back to the mapping. All
three theorems use the safety part of `BackupSpec` only.

`ConversionsProofs` proves every invariant of the run `conversions`, from the
assumptions on the constants alone unless the table says more:

| theorem | statement |
|---|---|
| `PrefixFreeNamesApart` | operations of which none begins with another never share a Job name, whatever the keys |
| `LibraryNamesApart` | the three operations of the library are such |
| `JobsIdentified` | `Spec => []JobIdentity`, if `Operations` is prefix-free |
| `LimitsAreKept` | `Spec => []LimitsKept`, for any tick, defaults and width of the integer |
| `ManifestDeterministic` | `Spec => []EnvDeterministic` |
| `SecretsAlwaysPrevail` | `Spec => []SecretsPrevail` |
| `FailureAlwaysTold` | `Spec => []FailureIsTold` |
| `OutcomeAlwaysDated` | `Spec => []OutcomeIsDated` |
| `EveryReadBack` | every token, of any length, is escaped without a slash and read back |
| `PointerAlwaysReadsBack` | `Spec => []PointerReadsBack` |
| `ListedIffFound` | `Spec => []ListedIsFound` |
| `HealthIsShown` | `Spec => []HealthShown` |
| `OneSourceOnly` | `Spec => []OneSource` |
| `TelemetryIsFlushed` | `Spec => []TelemetryFlushed` |

Each call is one step from `NoCall`, so these invariants are inductive, and the work
is in the functions. The manifest is the same for every order in which the maps yield
their keys because the sort has one result: two sorted sequences of the same keys
agree at the least index at which they might differ (`LeastNat` of `WellOrder`). That
the escape is read back is an induction over the length of the token. The induction
theorems of the library take a predicate as a parameter, which the provers cannot
instantiate; `SetInduction` takes a set of naturals instead, and the recursions of
`FlattenSeq` and `Unescaped` are first turned into equations about one more
character (`FlattenIsJoin`, `ReadOnce`, `ReadCons`).

A provider that adds an operation "delete" breaks the premise of `JobsIdentified`:
with the key "backup-x" its Job has the name of the Job that deletes backup "x", and
each is taken for a retry of the other.

`HttpServerProofs` proves, with `tlapm HttpServerProofs.tla` and from the
assumptions on the constants alone:

| theorem | statement |
|---|---|
| `HttpTypeCorrect` | `Spec => []TypeOK` |
| `AnswersAreTruthful` | `Spec => []AnswersTruthfully` |
| `RequestsKept` | `Spec => NothingDropped` |
| `ShutdownIsFinal` | `Spec => []ShutDownForGood` |

The first three follow from `RequestInv`: only provider routes get to a provider,
and whatever ends the handlers has set a status that fits the verdict.
`AnswersAreTruthful` rests on `HandleErrorFails`, that the first matching case of
the switch, which exists by `LeastIndex`, or its default is a 4xx or 5xx whatever
the error wraps. `RequestsKept` goes through the steps that end the handlers, among
them the panic that skips `Logger`, and through those of the server, which close
idle connections only. `ShutDownForGood` needs
`DrainInv`: whoever waits has closed the listeners, and once somebody has
drained, every connection is away or answered, so that nothing is left that
could receive a request.

Only model-checked: all liveness (`WorkEnds`, `AdoptedCollected`,
`FailureIsRetried`, `ShutdownReturns`, `BackupConcludes`) and
the temporal formula with fairness around it, which are outside the prover's
reach. Every safety property and every action property of a passing run is a
theorem, as are both refinements; of the properties that another run refutes,
`CredentialsPresent`, `OwnerIsCurrent` and `CredentialsCurrent` are theorems under
the conditions in which they do hold.

## Not modelled

- `Get`, `List` and `GetSecret` of the client, used by `Base` and providers.
- The contents of logs and the wording of reasons; times, but for the order of the
  pods' creation times and for whether the others are set.
- `DELETE /backups/:id` beside the other two backup routes: it dispatches a Job of
  its own name (`LibraryNamesApart`), so it meets them only in what the provider
  does with the backup store. `HttpServer` has the route itself.
- A request that the API server applies only after its caller has given up and
  gone on: lost answers are applied at once.
- Response bodies and headers, log lines, request metrics; a body that cannot be
  encoded; an answer so long that a part of it is sent before its handler returns.
- A duration under a second, which becomes 0 seconds, and a TTL of 2^31 seconds or
  more, which wraps: both are preconditions of `LimitsKept`.
- The meter provider that `telemetry.Setup` has built when the trace exporter
  fails is never stopped (`telemetry.go:59`). It was never installed, so nothing
  that was collected is lost, and `TelemetryFlushed` does not ask for it.
- The helpers of `Base` that make one call or parse one string, the log handler,
  `Transport`, rules on a single field in `model`, and the provider interfaces,
  which other people implement.
- `config`, the generated mocks, workflows and build files: no behaviour.

## Plan

1. (done) `Cluster`, `JobRunner`, `OneShotJobs`, `JobPolling`, `JobRetry`, and
   the serial theorems.
2. (done) `HttpServer`: life cycle, middleware chain, routes, `HandleError`,
   panics, and its theorems.
3. (done) `ServiceJobs`, `Conversions`: names, labels, limits, environment,
   statuses, `RecoverFrom`, `NewServiceStatus`, telemetry `Setup`.
4. (done) `BackupApi`: the routes, the handlers and the clients of backups on top
   of the `JobRunner`.
5. (done) Theorems: `JobRunner` implements `OneShotJobs`; what callers of `Run`
   may rely on; outcomes stay; backups are taken once and reported truly.

6. (done) More theorems: the backup routes implement `BackupService`, failures are
   explained by their own Job and its newest attempt, and what every pure function
   of `Conversions` gives for any input.

What could come next: a provider that cleans up with `Delete` beside the routes of
`BackupApi`, and what the abstract services say of such a provider.
