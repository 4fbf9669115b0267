----------------------------- MODULE HttpServer -----------------------------
(***************************************************************************)
(* The HTTP side of the library: Server of api/server.go with its life     *)
(* cycle, the middleware chain of middleware/middleware.go, and the routes *)
(* and HandleError of provider/routes.go.  Requests are handled by         *)
(* goroutines of their own while the server starts and is shut down.       *)
(*                                                                         *)
(* net/http and gin are external.  What gin calls the chain is one step up *)
(* to the provider and one step after it: nothing in it is shared.         *)
(***************************************************************************)
EXTENDS Naturals

CONSTANTS
  Clients,   \* connections; each carries one request at a time
  Stoppers,  \* goroutines that call Shutdown, once each
  Locked,    \* whether cfg.APIKey is set
  Routes,    \* the routes that are requested
  Wrapped    \* the sentinel errors that a provider's error may wrap

\* HandleError tries the sentinels in this order.
Mapping == <<
  <<"ErrServiceNotFound", 404>>, <<"ErrBackupNotFound", 404>>,
  <<"ErrInvalidArgument", 400>>, <<"ErrServiceNotHealthy", 502>>,
  <<"ErrNamespaceNotFound", 404>>, <<"ErrConflict", 409>>,
  <<"ErrServiceUnavailable", 503>>, <<"ErrNotImplemented", 501>>,
  <<"ErrResourceNotFound", 404>>, <<"ErrResourceConflict", 409>>,
  <<"ErrResourceInvalid", 422>>, <<"ErrKubernetesRequestFailed", 502>> >>

\* What the handler of a route answers when the provider returns no error.
Success(route) ==
  CASE route \in {"list", "status", "backupStatus"} -> 200
    [] route = "create" -> 201
    [] route \in {"takeBackup", "deleteBackup", "maintenance"} -> 202
    [] route \in {"update", "delete"} -> 204

Provided == {"list", "status", "create", "update", "delete",
             "takeBackup", "backupStatus", "deleteBackup", "maintenance"}

\* The routes whose handler reads a body; update also compares two IDs.
Decoding == {"create", "update", "takeBackup", "backupStatus", "deleteBackup"}

AllRoutes == Provided \cup {"preflight", "health", "root", "unknown"}

ASSUME LockedAssumption == Locked \in BOOLEAN
ASSUME RoutesAssumption == Routes \subseteq AllRoutes
ASSUME WrappedAssumption == Wrapped \subseteq {Mapping[i][1] : i \in DOMAIN Mapping}

VARIABLES
  runner,  \* the goroutine in Server.Run: "assigned" once httpServer is set
  closed,  \* whether httpServer is shutting down
  stop,    \* Shutdown of each stopper: where it is, or how it returned
  conn     \* the connection of each client and its request

serverVars == <<runner, closed, stop>>
vars == <<runner, closed, stop, conn>>

Verdicts == {"none", "nil", "error", "panic"}

Statuses == {0} \cup 200..599

Stages == {"away", "connected", "chain", "provider", "logging", "answered", "cut"}

\* keyed: the request carries the API key; valid: its body arrives in time,
\* decodes and fits the path; verdict: what the provider did; late: the write
\* timeout has passed.  "answered" requests had their answer, "cut" ones none.
Conn == [stage : Stages, route : AllRoutes, keyed : BOOLEAN, valid : BOOLEAN,
         verdict : Verdicts, status : Statuses, late : BOOLEAN]

TypeOK ==
  /\ runner \in {"new", "assigned", "serving", "returned"}
  /\ closed \in BOOLEAN
  /\ stop \in [Stoppers -> {"idle", "found", "waiting", "drained", "gaveUp", "absent"}]
  /\ conn \in [Clients -> Conn]

NoConn == [stage |-> "away", route |-> "unknown", keyed |-> FALSE, valid |-> FALSE,
           verdict |-> "none", status |-> 0, late |-> FALSE]

Init ==
  /\ runner = "new"
  /\ closed = FALSE
  /\ stop = [s \in Stoppers |-> "idle"]
  /\ conn = [c \in Clients |-> NoConn]

Handling(c) == conn[c].stage \in {"chain", "provider", "logging"}

-----------------------------------------------------------------------------
(***************************************************************************)
(* Run and Shutdown.                                                       *)
(***************************************************************************)

RunTo(from, to) == runner = from /\ runner' = to /\ UNCHANGED <<closed, stop, conn>>

\* Run: sets httpServer, then listens; the address may be taken.
Assign == RunTo("new", "assigned")
Listen == ~closed /\ RunTo("assigned", "serving")
ListenFails == RunTo("assigned", "returned")

\* ListenAndServe returns as soon as the server is being shut down.
ServeEnds == closed /\ RunTo("serving", "returned")

StopTo(s, from, to) ==
  /\ stop[s] = from
  /\ stop' = [stop EXCEPT ![s] = to]
  /\ UNCHANGED runner

\* Shutdown reads httpServer without synchronisation: nil before Run set it.
CheckServer(s) ==
  /\ StopTo(s, "idle", IF runner = "new" THEN "absent" ELSE "found")
  /\ UNCHANGED <<closed, conn>>

CloseListeners(s) == StopTo(s, "found", "waiting") /\ closed' = TRUE /\ UNCHANGED conn

\* Connections that carry no request are closed; the others are waited for.
DrainedOf(s, busy) ==
  /\ StopTo(s, "waiting", "drained")
  /\ runner # "serving"
  /\ \A c \in Clients : conn[c].stage \notin busy
  /\ conn' = [c \in Clients |-> IF conn[c].stage = "connected" THEN NoConn ELSE conn[c]]
  /\ UNCHANGED closed

\* Bugs: Close instead of Shutdown; clients that send nothing are waited for.
DrainedAtOnce(s) == DrainedOf(s, {})
DrainedOfAll(s) == DrainedOf(s, {"connected", "chain", "provider", "logging"})

Drained(s) == DrainedOf(s, {"chain", "provider", "logging"})

\* The context of Shutdown ends first; requests go on.
GiveUp(s) == StopTo(s, "waiting", "gaveUp") /\ UNCHANGED <<closed, conn>>

-----------------------------------------------------------------------------
(***************************************************************************)
(* Requests.                                                               *)
(***************************************************************************)

Becomes(c, r) == conn' = [conn EXCEPT ![c] = r] /\ UNCHANGED serverVars

Connect(c) ==
  /\ runner = "serving" /\ ~closed
  /\ conn[c].stage \in {"away", "answered", "cut"}
  /\ Becomes(c, [NoConn EXCEPT !.stage = "connected"])

\* A request on a connection that was accepted before Shutdown is handled.
Receive(c) ==
  /\ conn[c].stage = "connected"
  /\ \E route \in Routes, keyed \in BOOLEAN, valid \in BOOLEAN :
       Becomes(c, [NoConn EXCEPT !.stage = "chain", !.route = route,
                                 !.keyed = keyed, !.valid = valid])

\* A connection that sends nothing is closed in the end.
IdleTimesOut(c) == conn[c].stage = "connected" /\ Becomes(c, NoConn)

\* The write timeout passes; the handler is not told.
WriteTimesOut(c) == Handling(c) /\ ~conn[c].late /\ Becomes(c, [conn[c] EXCEPT !.late = TRUE])

Judged(r, stage, status, verdict) ==
  [r EXCEPT !.stage = stage, !.status = status, !.verdict = verdict]

\* The answer is written when the handlers are done, unless it is too late.
Sent(r) == IF r.late THEN "cut" ELSE "answered"

\* Logger goes on after the handler, but not after a panic.
Answer(c, status, verdict) == Becomes(c, Judged(conn[c], "logging", status, verdict))

\* Bug: nobody recovers; net/http drops the connection.
AnswerReset(c) == Becomes(c, [conn[c] EXCEPT !.stage = "reset"])

AnswerPanic(c) == Becomes(c, Judged(conn[c], Sent(conn[c]), 500, "panic"))

\* "health" stands for /health and /ready.
Unlocked(c) == Locked => conn[c].keyed \/ conn[c].route = "health"

\* CORS, Auth and the handler up to the provider.
Enter(c) ==
  LET r == conn[c]
      open == Unlocked(c)
  IN
  /\ r.stage = "chain"
  /\ \/ r.route = "preflight" /\ Answer(c, 204, "none")
     \/ r.route # "preflight" /\ ~open /\ Answer(c, 401, "none")
     \/ open /\ r.route \in {"health", "root"} /\ Answer(c, 200, "none")
     \/ open /\ r.route = "unknown" /\ Answer(c, 404, "none")
     \/ open /\ r.route \in Decoding /\ ~r.valid /\ Answer(c, 400, "none")
     \/ /\ open /\ r.route \in Provided /\ (r.route \in Decoding => r.valid)
        /\ Becomes(c, [r EXCEPT !.stage = "provider"])

HandleErrorOr(err, default) ==
  LET hits == {i \in DOMAIN Mapping : Mapping[i][1] \in err}
  IN IF hits = {} THEN default
     ELSE Mapping[CHOOSE i \in hits : \A j \in hits : i <= j][2]

\* Bug: without a default nothing is written, and gin sends 200.
HandleErrorKnown(err) == HandleErrorOr(err, 200)

HandleError(err) == HandleErrorOr(err, 500)

ProviderReturns(c) ==
  /\ conn[c].stage = "provider"
  /\ \/ Answer(c, Success(conn[c].route), "nil")
     \/ \E err \in SUBSET Wrapped : Answer(c, HandleError(err), "error")

ProviderPanics(c) == conn[c].stage = "provider" /\ AnswerPanic(c)

Leave(c) ==
  /\ conn[c].stage = "logging"
  /\ Becomes(c, [conn[c] EXCEPT !.stage = Sent(conn[c])])

Request(c) ==
  Connect(c) \/ Receive(c) \/ IdleTimesOut(c) \/ Enter(c) \/ WriteTimesOut(c)
    \/ ProviderReturns(c) \/ ProviderPanics(c) \/ Leave(c)

Run == Assign \/ Listen \/ ListenFails \/ ServeEnds

Shutdown(s) == CheckServer(s) \/ CloseListeners(s) \/ Drained(s) \/ GiveUp(s)

Next == Run \/ (\E s \in Stoppers : Shutdown(s)) \/ (\E c \in Clients : Request(c))

Spec == Init /\ [][Next]_vars

\* Handlers and providers come to an end, a server that is shut down stops
\* serving, and calls of Shutdown go on; nobody is bound to send a request, to
\* start the server or to give up.
Fairness ==
  /\ WF_vars(ServeEnds)
  /\ \A s \in Stoppers : WF_vars(CloseListeners(s)) /\ WF_vars(Drained(s))
  /\ \A c \in Clients : WF_vars(Enter(c)) /\ WF_vars(Leave(c))
                         /\ WF_vars(ProviderReturns(c) \/ ProviderPanics(c))

FairSpec == Spec /\ Fairness

-----------------------------------------------------------------------------
\* A provider route answers with a success exactly if the provider returned no
\* error: no error, however wrapped, and no panic is reported as one.
AnswersTruthfully ==
  \A c \in Clients :
    conn[c].stage \in {"logging", "answered", "cut"} /\ conn[c].verdict # "none"
      => (conn[c].status \in 200..299 <=> conn[c].verdict = "nil")

\* Once a Shutdown that found the server returned nil, no request is being
\* handled and none ever will be, on old connections or new ones, even if Run
\* had only begun to listen.
ShutDownForGood ==
  \A s \in Stoppers :
    stop[s] = "drained" => runner # "serving" /\ \A c \in Clients : ~Handling(c)

\* The same for every Shutdown that returned nil, also one that came before Run
\* had set httpServer ("Shutdown gracefully shuts down the server").
ShutdownStops ==
  \A s \in Stoppers :
    stop[s] \in {"drained", "absent"} => \A c \in Clients : ~Handling(c)

\* Shutdown does not wait for ever, although requests may still come in on
\* connections that were accepted, and others stay silent.
ShutdownReturns ==
  \A s \in Stoppers : stop[s] = "found" ~> stop[s] \in {"drained", "gaveUp"}

\* A request that the handlers have taken up leaves them with its answer, whether
\* its provider panics, the server is shut down meanwhile, or both: only the write
\* timeout can cost a request its answer.
NothingDropped ==
  [][\A c \in Clients :
       Handling(c) /\ ~Handling(c)' /\ ~conn[c].late
         => conn'[c].stage = "answered" /\ conn'[c].status # 0]_vars
=============================================================================
