-------------------------- MODULE HttpServerProofs --------------------------
(***************************************************************************)
(* Proofs about HttpServer, for any clients, stoppers, routes and errors.  *)
(***************************************************************************)
EXTENDS HttpServer, TLAPS, WellFoundedInduction

\* A set of naturals has a least member: the first case of a switch that holds.
LEMMA LeastIndex ==
  ASSUME NEW S \in SUBSET Nat, S # {}
  PROVE  \E i \in S : \A j \in S : i <= j
<1> DEFINE R == OpToRel(<, Nat)
<1>1. \E i \in S : \A j \in S : <<j, i>> \notin R
  <2> HIDE DEF R
  <2>1. IsWellFoundedOn(R, Nat)
    BY NatLessThanWellFounded DEF R
  <2>2. QED
    BY <2>1, WFMin
<1>2. \A i, j \in Nat : <<j, i>> \notin R => i <= j
  BY DEF OpToRel
<1>3. QED
  BY <1>1, <1>2

\* HandleError answers with a client or a server error, whatever sentinels an
\* error wraps (the switch of HandleError ends in a default).
LEMMA HandleErrorFails ==
  ASSUME NEW err
  PROVE  HandleError(err) \in 400..599
<1> DEFINE hits == {i \in DOMAIN Mapping : Mapping[i][1] \in err}
           first == CHOOSE i \in hits : \A j \in hits : i <= j
<1>1. hits \subseteq 1..12
  BY DEF Mapping
<1>2. HandleError(err) = IF hits = {} THEN 500 ELSE Mapping[first][2]
  BY DEF HandleError, HandleErrorOr
<1>3. \A i \in 1..12 : Mapping[i][2] \in 400..599
  BY DEF Mapping
<1>4. hits # {} => first \in 1..12
  <2> HIDE DEF hits
  <2>1. hits # {} => \E i \in hits : \A j \in hits : i <= j
    BY <1>1, LeastIndex
  <2>2. QED
    BY <2>1, <1>1
<1> HIDE DEF hits, first
<1>5. QED
  BY <1>2, <1>3, <1>4

\* Every route that asks a provider has a success status of its own.
LEMMA SuccessSucceeds ==
  ASSUME NEW route \in Provided
  PROVE  Success(route) \in 200..299
BY DEF Provided, Success

-----------------------------------------------------------------------------
(***************************************************************************)
(* Type correctness.                                                       *)
(***************************************************************************)

Judgement == {"logging", "answered", "cut"}

\* What is known of one connection: its type, that only a provider route reaches
\* the provider, that the handlers end with a status, and that it fits the verdict.
ConnOK(r) ==
  /\ r \in Conn
  /\ r.stage = "provider" => r.route \in Provided
  /\ r.stage \in Judgement =>
       /\ r.status \in 200..599
       /\ r.verdict # "none" => (r.status \in 200..299 <=> r.verdict = "nil")

ServerOK ==
  /\ runner \in {"new", "assigned", "serving", "returned"}
  /\ closed \in BOOLEAN
  /\ stop \in [Stoppers -> {"idle", "found", "waiting", "drained", "gaveUp", "absent"}]

\* The inductive invariant of requests.
RequestInv == ServerOK /\ conn \in [Clients -> Conn] /\ \A c \in Clients : ConnOK(conn[c])

\* A connection that becomes another sound one leaves the invariant intact.
LEMMA BecomesSound ==
  ASSUME RequestInv, NEW c \in Clients, NEW r, ConnOK(r), Becomes(c, r)
  PROVE  RequestInv'
BY DEF RequestInv, ServerOK, ConnOK, Becomes, serverVars

\* A fresh connection is sound.
LEMMA NoConnSound == ConnOK(NoConn) /\ NoConn.stage = "away"
BY DEF ConnOK, NoConn, Conn, Stages, Verdicts, Statuses, AllRoutes, Provided, Judgement

\* What the updates of a connection leave in its fields.
LEMMA Staged ==
  ASSUME NEW r \in Conn, NEW stage \in Stages
  PROVE  LET q == [r EXCEPT !.stage = stage]
         IN /\ q \in Conn /\ q.stage = stage
            /\ q.route = r.route /\ q.keyed = r.keyed /\ q.valid = r.valid
            /\ q.verdict = r.verdict /\ q.status = r.status /\ q.late = r.late
BY DEF Conn

\* The write timeout is noted and changes nothing else.
LEMMA Delayed ==
  ASSUME NEW r, ConnOK(r)
  PROVE  ConnOK([r EXCEPT !.late = TRUE])
<1> DEFINE q == [r EXCEPT !.late = TRUE]
<1>1. r \in Conn
  BY DEF ConnOK
<1>2. q \in Conn
  BY <1>1 DEF Conn
<1>3. /\ q.stage = r.stage /\ q.route = r.route
      /\ q.status = r.status /\ q.verdict = r.verdict
  BY <1>1 DEF Conn
<1> HIDE DEF q
<1>4. ConnOK(q)
  BY <1>2, <1>3 DEF ConnOK
<1>5. QED
  BY <1>4 DEF q

\* An answer is sent or cut off.
LEMMA SentStage ==
  ASSUME NEW r \in Conn
  PROVE  Sent(r) \in {"answered", "cut"} /\ (~r.late => Sent(r) = "answered")
BY DEF Sent

\* A connection on which a request was read is one, in the chain.
LEMMA Requested ==
  ASSUME NEW r \in Conn, NEW route \in AllRoutes, NEW keyed \in BOOLEAN, NEW valid \in BOOLEAN
  PROVE  LET q == [r EXCEPT !.stage = "chain", !.route = route,
                            !.keyed = keyed, !.valid = valid]
         IN q \in Conn /\ q.stage = "chain"
BY DEF Conn, Stages

\* A connection stays one when its request is answered or passed on.
LEMMA JudgedSound ==
  ASSUME NEW r \in Conn, NEW stage \in Stages, NEW status \in Statuses,
         NEW verdict \in Verdicts
  PROVE  Judged(r, stage, status, verdict) \in Conn
BY DEF Conn, Judged

\* What a request's stage, status and verdict are from then on.
LEMMA JudgedFields ==
  ASSUME NEW r \in Conn, NEW stage, NEW status, NEW verdict
  PROVE  LET q == Judged(r, stage, status, verdict)
         IN q.stage = stage /\ q.status = status /\ q.verdict = verdict
BY DEF Conn, Judged

\* A request whose answer fits the verdict is sound.
LEMMA AnswerSound ==
  ASSUME NEW r \in Conn, NEW stage \in Judgement, NEW status \in 200..599,
         NEW verdict \in Verdicts,
         verdict # "none" => (status \in 200..299 <=> verdict = "nil")
  PROVE  ConnOK(Judged(r, stage, status, verdict))
<1> DEFINE q == Judged(r, stage, status, verdict)
<1>1. q.stage = stage /\ q.status = status /\ q.verdict = verdict
  BY JudgedFields
<1>2. q \in Conn
  <2>1. stage \in Stages /\ status \in Statuses
    BY DEF Stages, Statuses, Judgement
  <2>2. QED
    BY <2>1, JudgedSound
<1> HIDE DEF q
<1>3. ConnOK(q)
  BY <1>1, <1>2 DEF ConnOK, Judgement
<1>4. QED
  BY <1>3 DEF q

\* CORS, Auth and the decoding either answer themselves or let through what the
\* handler asks its provider for.
LEMMA EnterCases ==
  ASSUME NEW c \in Clients, conn[c] \in Conn, Enter(c)
  PROVE  \/ \E status \in {200, 204, 400, 401, 404} : Answer(c, status, "none")
         \/ /\ conn[c].route \in Provided
            /\ Becomes(c, [conn[c] EXCEPT !.stage = "provider"])
BY DEF Enter

\* Every step of a request keeps the invariant: the handlers end with a status,
\* and it fits what the provider did.
LEMMA RequestSound ==
  ASSUME RequestInv, NEW c \in Clients, Request(c)
  PROVE  RequestInv'
<1> DEFINE r == conn[c]
<1>1. ConnOK(r) /\ r \in Conn
  BY DEF RequestInv
<1>2. CASE Connect(c)
  <2>1. ConnOK([NoConn EXCEPT !.stage = "connected"])
    BY NoConnSound, Staged DEF ConnOK, Stages, Judgement
  <2>2. QED
    BY <1>2, <2>1, BecomesSound DEF Connect
<1>3. CASE Receive(c)
  <2>1. PICK route \in Routes, keyed \in BOOLEAN, valid \in BOOLEAN :
          Becomes(c, [NoConn EXCEPT !.stage = "chain", !.route = route,
                                    !.keyed = keyed, !.valid = valid])
    BY <1>3 DEF Receive
  <2>2. ConnOK([NoConn EXCEPT !.stage = "chain", !.route = route,
                              !.keyed = keyed, !.valid = valid])
    BY NoConnSound, RoutesAssumption, Requested DEF ConnOK, Judgement
  <2>3. QED
    BY <2>1, <2>2, BecomesSound
<1>4. ASSUME NEW status \in 200..599, NEW verdict \in {"none", "nil", "error"},
             verdict # "none" => (status \in 200..299 <=> verdict = "nil"),
             Answer(c, status, verdict)
      PROVE  RequestInv'
  <2>1. ConnOK(Judged(r, "logging", status, verdict))
    <3>1. verdict \in Verdicts /\ "logging" \in Judgement
      BY DEF Verdicts, Judgement
    <3>2. QED
      BY <1>1, <1>4, <3>1, AnswerSound
  <2>2. QED
    BY <1>4, <2>1, BecomesSound DEF Answer
<1>5. CASE Enter(c)
  <2>1. CASE \E status \in {200, 204, 400, 401, 404} : Answer(c, status, "none")
    BY <1>4, <2>1
  <2>2. CASE r.route \in Provided /\ Becomes(c, [r EXCEPT !.stage = "provider"])
    <3>1. ConnOK([r EXCEPT !.stage = "provider"])
      BY <1>1, <2>2, Staged DEF ConnOK, Stages, Judgement
    <3>2. QED
      BY <2>2, <3>1, BecomesSound
  <2>3. QED
    BY <1>1, <1>5, <2>1, <2>2, EnterCases
<1>6. CASE ProviderReturns(c)
  <2>1. CASE Answer(c, Success(r.route), "nil")
    <3>1. Success(r.route) \in 200..299
      BY <1>1, <1>6, SuccessSucceeds DEF ProviderReturns, ConnOK
    <3>2. QED
      BY <1>4, <2>1, <3>1
  <2>2. ASSUME NEW err \in SUBSET Wrapped, Answer(c, HandleError(err), "error")
        PROVE  RequestInv'
    <3>1. HandleError(err) \in 400..599
      BY HandleErrorFails
    <3>2. QED
      BY <1>4, <2>2, <3>1
  <2>3. QED
    BY <1>6, <2>1, <2>2 DEF ProviderReturns
<1>7. CASE ProviderPanics(c)
  <2>1. ConnOK(Judged(r, Sent(r), 500, "panic"))
    <3>1. 500 \in 200..599 /\ 500 \notin 200..299 /\ "panic" \in Verdicts
      BY DEF Verdicts
    <3>2. Sent(r) \in Judgement
      BY <1>1, SentStage DEF Judgement
    <3>3. QED
      BY <1>1, <3>1, <3>2, AnswerSound
  <2>2. QED
    BY <1>7, <2>1, BecomesSound DEF ProviderPanics, AnswerPanic
<1>8. CASE Leave(c)
  <2>1. r.stage \in Judgement /\ Sent(r) \in Judgement /\ Sent(r) \in Stages
    BY <1>1, <1>8, SentStage DEF Leave, Judgement, Stages
  <2>2. Sent(r) # "provider"
    BY <1>1, SentStage
  <2>3. ConnOK([r EXCEPT !.stage = Sent(r)])
    BY <1>1, <2>1, <2>2, Staged DEF ConnOK
  <2>4. QED
    BY <1>8, <2>3, BecomesSound DEF Leave
<1>9. CASE IdleTimesOut(c)
  BY <1>9, NoConnSound, BecomesSound DEF IdleTimesOut
<1>10. CASE WriteTimesOut(c)
  BY <1>1, <1>10, Delayed, BecomesSound DEF WriteTimesOut
<1>11. QED
  BY <1>2, <1>3, <1>5, <1>6, <1>7, <1>8, <1>9, <1>10 DEF Request

\* So does every step of Run and Shutdown, which close connections at most.
LEMMA ServerSound ==
  ASSUME RequestInv, Run \/ \E s \in Stoppers : Shutdown(s)
  PROVE  RequestInv'
<1>1. CASE Run
  BY <1>1 DEF Run, Assign, Listen, ListenFails, ServeEnds, RunTo, RequestInv, ServerOK
<1>2. ASSUME NEW s \in Stoppers, Shutdown(s)
      PROVE  RequestInv'
  <2>1. ServerOK'
    BY <1>2 DEF Shutdown, CheckServer, CloseListeners, Drained, DrainedOf, GiveUp,
                StopTo, RequestInv, ServerOK
  <2>2. conn' = conn \/ conn' = [c \in Clients |-> IF conn[c].stage = "connected"
                                                  THEN NoConn ELSE conn[c]]
    BY <1>2 DEF Shutdown, CheckServer, CloseListeners, Drained, DrainedOf, GiveUp
  <2>3. QED
    BY <2>1, <2>2, NoConnSound DEF RequestInv, ConnOK
<1>3. QED
  BY <1>1, <1>2

\* The invariant of requests holds of every behaviour.
LEMMA RequestsSound == Spec => []RequestInv
<1>1. Init => RequestInv
  <2>1. ConnOK(NoConn) /\ NoConn \in Conn
    BY NoConnSound DEF ConnOK
  <2>2. QED
    BY <2>1 DEF Init, RequestInv, ServerOK
<1>2. RequestInv /\ [Next]_vars => RequestInv'
  <2>1. RequestInv /\ UNCHANGED vars => RequestInv'
    BY DEF RequestInv, ServerOK, ConnOK, vars
  <2>2. QED
    BY <2>1, RequestSound, ServerSound DEF Next
<1>3. QED
  BY <1>1, <1>2, PTL DEF Spec

\* The variables keep their types.
THEOREM HttpTypeCorrect == Spec => []TypeOK
<1>1. RequestInv => TypeOK
  BY DEF RequestInv, ServerOK, TypeOK
<1>2. QED
  BY <1>1, RequestsSound, PTL

\* A success is answered exactly if the provider returned no error.
THEOREM AnswersAreTruthful == Spec => []AnswersTruthfully
<1>1. RequestInv => AnswersTruthfully
  BY DEF RequestInv, ConnOK, Judgement, AnswersTruthfully
<1>2. QED
  BY <1>1, RequestsSound, PTL

\* A step that takes a request out of the handlers ends it: either they end, or
\* one of them panics.
LEMMA LeavesAnswered ==
  ASSUME RequestInv, NEW c \in Clients, Request(c), Handling(c), ~Handling(c)', ~conn[c].late
  PROVE  conn'[c].stage = "answered" /\ conn'[c].status # 0
<1> DEFINE r == conn[c]
<1>1. ConnOK(r) /\ r \in Conn /\ c \in DOMAIN conn
  BY DEF RequestInv
<1>2. Sent(r) = "answered" /\ "answered" \in Stages
  BY SentStage, <1>1 DEF Stages
<1>3. CASE Leave(c)
  <2>1. conn'[c] = [r EXCEPT !.stage = "answered"]
    BY <1>1, <1>2, <1>3 DEF Leave, Becomes
  <2>2. conn'[c].stage = "answered" /\ conn'[c].status = r.status
    BY <1>1, <1>2, <2>1, Staged
  <2>3. r.status \in 200..599
    BY <1>1, <1>3 DEF Leave, ConnOK, Judgement
  <2>4. QED
    BY <2>2, <2>3
<1>4. CASE ProviderPanics(c)
  <2>1. conn'[c] = Judged(r, "answered", 500, "panic")
    BY <1>1, <1>2, <1>4 DEF ProviderPanics, AnswerPanic, Becomes
  <2>2. QED
    BY <1>1, <2>1, JudgedFields
<1>5. ASSUME NEW status, NEW verdict, Answer(c, status, verdict)
      PROVE  FALSE
  <2>1. conn'[c] = Judged(r, "logging", status, verdict)
    BY <1>1, <1>5 DEF Answer, Becomes
  <2>2. conn'[c].stage = "logging"
    BY <1>1, <2>1, JudgedFields
  <2>3. QED
    BY <2>2 DEF Handling
<1>6. CASE Enter(c)
  <2>1. PICK q \in {[r EXCEPT !.stage = "provider"]} : Becomes(c, q)
    BY <1>1, <1>5, <1>6, EnterCases
  <2>2. conn'[c] = [r EXCEPT !.stage = "provider"]
    BY <1>1, <2>1 DEF Becomes
  <2>3. conn'[c].stage = "provider"
    BY <1>1, <2>2, Staged DEF Stages
  <2>4. QED
    BY <2>3 DEF Handling
<1>7. CASE ProviderReturns(c)
  BY <1>5, <1>7 DEF ProviderReturns
<1>8. CASE WriteTimesOut(c)
  <2>1. conn'[c] = [r EXCEPT !.late = TRUE]
    BY <1>1, <1>8 DEF WriteTimesOut, Becomes
  <2>2. conn'[c].stage = r.stage
    BY <1>1, <2>1 DEF Conn
  <2>3. QED
    BY <2>2 DEF Handling
<1>9. CASE Connect(c) \/ Receive(c) \/ IdleTimesOut(c)
  BY <1>9 DEF Connect, Receive, IdleTimesOut, Handling
<1>10. QED
  BY <1>3, <1>4, <1>6, <1>7, <1>8, <1>9 DEF Request

\* Nobody else takes a request out of the handlers: not the request of another
\* client, not Run, and not a Shutdown, which closes silent connections only.
LEMMA OthersLeave ==
  ASSUME RequestInv, NEW c \in Clients,
         Run \/ (\E s \in Stoppers : Shutdown(s)) \/ (\E d \in Clients \ {c} : Request(d)),
         Handling(c)
  PROVE  Handling(c)'
<1>1. CASE Run
  BY <1>1 DEF Run, Assign, Listen, ListenFails, ServeEnds, RunTo, Handling
<1>2. CASE \E s \in Stoppers : Shutdown(s)
  <2>1. conn' = conn \/ conn' = [d \in Clients |-> IF conn[d].stage = "connected"
                                                  THEN NoConn ELSE conn[d]]
    BY <1>2 DEF Shutdown, CheckServer, CloseListeners, Drained, DrainedOf, GiveUp
  <2>2. QED
    BY <2>1 DEF Handling
<1>3. ASSUME NEW d \in Clients \ {c}, Request(d)
      PROVE  Handling(c)'
  <2>1. \E q : Becomes(d, q)
    <3>1. CASE Enter(d)
      BY <3>1, EnterCases DEF Answer, RequestInv
    <3>2. CASE ~Enter(d)
      BY <1>3, <3>2 DEF Request, Connect, Receive, IdleTimesOut, WriteTimesOut,
                        ProviderReturns, ProviderPanics, Leave, Answer, AnswerPanic
    <3>3. QED
      BY <3>1, <3>2
  <2>2. conn'[c] = conn[c]
    BY <2>1 DEF Becomes, RequestInv
  <2>3. QED
    BY <2>2 DEF Handling
<1>4. QED
  BY <1>1, <1>2, <1>3

\* A request that the handlers have taken up is answered, unless the write timeout
\* passes: neither a panic nor a Shutdown drops it.
THEOREM RequestsKept == Spec => NothingDropped
<1>1. RequestInv /\ [Next]_vars
        => [\A c \in Clients :
              Handling(c) /\ ~Handling(c)' /\ ~conn[c].late
                => conn'[c].stage = "answered" /\ conn'[c].status # 0]_vars
  <2>1. SUFFICES ASSUME RequestInv, Next, NEW c \in Clients,
                        Handling(c), ~Handling(c)', ~conn[c].late
                 PROVE  conn'[c].stage = "answered" /\ conn'[c].status # 0
    OBVIOUS
  <2>2. Request(c)
    BY <2>1, OthersLeave DEF Next
  <2>3. QED
    BY <2>1, <2>2, LeavesAnswered
<1>2. QED
  BY <1>1, RequestsSound, PTL DEF Spec, NothingDropped

-----------------------------------------------------------------------------
(***************************************************************************)
(* Shutdown.                                                               *)
(***************************************************************************)

\* A Shutdown past its check has closed the listeners, or will before it waits;
\* once drained, nothing is connected, and nothing can connect any more.
DrainInv ==
  /\ \A s \in Stoppers : stop[s] \in {"waiting", "drained"} => closed
  /\ \A s \in Stoppers : stop[s] = "drained" =>
       /\ runner # "serving"
       /\ \A c \in Clients : conn[c].stage \in {"away", "answered", "cut"}

\* A request takes no step that would undo a drain.
LEMMA RequestDrains ==
  ASSUME RequestInv, DrainInv, NEW c \in Clients, Request(c)
  PROVE  DrainInv'
<1>1. UNCHANGED serverVars
  <2>1. CASE Enter(c)
    BY <2>1, EnterCases DEF RequestInv, Answer, Becomes
  <2>2. CASE ~Enter(c)
    BY <2>2 DEF Request, Connect, Receive, IdleTimesOut, WriteTimesOut, ProviderReturns,
                ProviderPanics, Leave, Answer, AnswerPanic, Becomes
  <2>3. QED
    BY <2>1, <2>2
<1>2. ASSUME NEW s \in Stoppers, stop[s] = "drained"
      PROVE  FALSE
  <2>1. closed /\ runner # "serving" /\ conn[c].stage \in {"away", "answered", "cut"}
    BY <1>2 DEF DrainInv
  <2>2. QED
    BY <2>1 DEF Request, Connect, Receive, IdleTimesOut, Enter, WriteTimesOut, Handling,
                ProviderReturns, ProviderPanics, Leave
<1>3. QED
  BY <1>1, <1>2 DEF DrainInv, serverVars

\* Neither does Run, which cannot begin to serve what is closed, nor another
\* Shutdown.
LEMMA ServerDrains ==
  ASSUME RequestInv, DrainInv, Run \/ \E s \in Stoppers : Shutdown(s)
  PROVE  DrainInv'
<1>1. CASE Run
  BY <1>1 DEF Run, Assign, Listen, ListenFails, ServeEnds, RunTo, DrainInv
<1>2. ASSUME NEW s \in Stoppers, Shutdown(s)
      PROVE  DrainInv'
  <2>1. CASE CheckServer(s) \/ CloseListeners(s) \/ GiveUp(s)
    BY <2>1 DEF CheckServer, CloseListeners, GiveUp, StopTo, DrainInv, RequestInv, ServerOK
  <2>2. CASE Drained(s)
    <3>1. \A c \in Clients : conn'[c].stage \in {"away", "answered", "cut"}
      BY <2>2, NoConnSound DEF Drained, DrainedOf, RequestInv, Conn, Stages
    <3>2. QED
      BY <2>2, <3>1 DEF Drained, DrainedOf, StopTo, DrainInv, RequestInv, ServerOK
  <2>3. QED
    BY <1>2, <2>1, <2>2 DEF Shutdown
<1>3. QED
  BY <1>1, <1>2

\* A Shutdown that found the server and returned nil is final.
THEOREM ShutdownIsFinal == Spec => []ShutDownForGood
<1>1. Init => DrainInv
  BY DEF Init, DrainInv
<1>2. RequestInv /\ DrainInv /\ [Next]_vars => DrainInv'
  <2>1. DrainInv /\ UNCHANGED vars => DrainInv'
    BY DEF DrainInv, vars
  <2>2. QED
    BY <2>1, RequestDrains, ServerDrains DEF Next
<1>3. DrainInv => ShutDownForGood
  BY DEF DrainInv, ShutDownForGood, Handling
<1>4. QED
  BY <1>1, <1>2, <1>3, RequestsSound, PTL DEF Spec
=============================================================================
