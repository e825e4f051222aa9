------------------------ MODULE DashboardQueryProofs ------------------------
(***************************************************************************)
(* Safety of DashboardQuery, and of the RestCall each of its fetches is,   *)
(* for every number of keys, pings and disturbances.                       *)
(***************************************************************************)
EXTENDS DashboardQuery, TLAPS

(* The calls: their types, with the Booleans of the request kept apart.    *)

Client == 400..499
Phase == {"asked", "reading", "waiting", "settled"}

Exchange ==
    /\ phase \in Phase
    /\ answers \in Seq(Nat)
    /\ Len(answers) <= IF phase = "settled" THEN 3 ELSE 2
    /\ response \in Seq(Response) /\ (response # <<>> <=> phase = "reading")

(* A call goes on while no answer blames it; the answer under way blames   *)
(* it only if the request is at fault.                                     *)
Blameless ==
    /\ phase # "settled" => outcome.is = "pending"
    /\ \A k \in 1..(Len(answers) - 1) : answers[k] \notin Client
    /\ phase # "settled" => \A k \in DOMAIN answers : answers[k] \notin Client
    /\ phase = "reading" => (response[1].status \in Client => AtFault)

(* How a fetch ends.                                                       *)
Outcomes ==
    /\ outcome.is = "error" => outcome.error \in ApiError
    /\ IsError /\ ~AtFault => Len(answers) = 3

(* What the route raises, and that it blames the caller only for a fault   *)
(* of his.                                                                 *)
LEMMA RaisedIs ==
    ASSUME request \in Request, NEW database \in {"up", "down"}
    PROVE  \/ Raised(request, database) = None
           \/ Raised(request, database) = ZodError /\ AtFault
           \/ Raised(request, database) = Unexpected
           \/ Raised(request, database) = AppError(404, "NOT_FOUND") /\ AtFault
           \/ Raised(request, database) = AppError(401, "UNAUTHORIZED") /\ AtFault
           \/ Raised(request, database) = AppError(503, "INTERNAL_API_DISABLED")
           \/ Raised(request, database) = ClientError(request.parsing) /\ AtFault
<1> DEFINE req == request
<1>1. CASE req.parsing # "fine"
  BY <1>1 DEF Raised, AtFault
<1>2. CASE req.parsing = "fine" /\ req.route = "health"
  <2>1. RaisedByRoute(req, database) = None
    BY <1>2 DEF RaisedByRoute, Internal
  <2>2. QED
    BY <1>2, <2>1 DEF Raised
<1>3. CASE req.parsing = "fine" /\ req.route = "unknown"
  <2>1. RaisedByRoute(req, database) = AppError(404, "NOT_FOUND")
    BY <1>3 DEF RaisedByRoute, Internal
  <2>2. QED
    BY <1>3, <2>1 DEF Raised, AtFault
<1>4. CASE req.parsing = "fine" /\ req.route \in Internal
  <2>1. req.token \in {"disabled", "wrong", "right"}
    BY DEF Request, Token
  <2>2. RaisedByRoute(req, database) =
            IF req.token # "right" THEN RequireInternalToken(req.token)
            ELSE IF database = "up" THEN None ELSE Unexpected
    BY <1>4 DEF RaisedByRoute, Internal
  <2>3. CASE req.token = "disabled"
    BY <1>4, <2>2, <2>3 DEF Raised, RequireInternalToken
  <2>4. CASE req.token = "wrong"
    BY <1>4, <2>2, <2>4 DEF Raised, RequireInternalToken, AtFault
  <2>5. CASE req.token = "right"
    BY <1>4, <2>2, <2>5 DEF Raised
  <2>6. QED
    BY <2>1, <2>3, <2>4, <2>5
<1>5. CASE req.parsing = "fine" /\ req.route \in WebRoute
  <2>1. RaisedByRoute(req, database) =
            IF ~req.valid THEN ZodError
            ELSE IF database = "down" THEN Unexpected
            ELSE IF req.route = "detail" /\ ~req.exists THEN AppError(404, "NOT_FOUND")
            ELSE None
    BY <1>5 DEF RaisedByRoute, Internal, WebRoute
  <2>2. QED
    BY <1>5, <2>1, Zenon DEF Raised, AtFault
<1>6. QED
  BY <1>1, <1>2, <1>3, <1>4, <1>5 DEF Request, Route

LEMMA EnvelopeTyped ==
    ASSUME NEW status \in Nat, NEW code \in Code
    PROVE  /\ Envelope(status, code) \in Response
           /\ Envelope(status, code).status = status
<1>1. Envelope(status, code) \in [status : Nat, shape : {"envelope"}, code : Code]
  BY Zenon DEF Envelope
<1>2. QED
  BY <1>1 DEF Response, Envelope

LEMMA AnswerBlames ==
    ASSUME request \in Request, NEW database \in {"up", "down"}
    PROVE  /\ Respond(request, database) \in Response
           /\ Respond(request, database).status \in Client => AtFault
<1> DEFINE err == Raised(request, database)
           answer == Respond(request, database)
<1>1. CASE err = None
  <2>1. answer = IF request.route = "health"
                 THEN [status |-> IF database = "up" THEN 200 ELSE 503, shape |-> "health"]
                 ELSE [status |-> 200, shape |-> "data"]
    BY <1>1 DEF Respond
  <2>2. PICK status \in {200, 503}, shape \in {"data", "health"} :
            answer = [status |-> status, shape |-> shape]
    BY <2>1
  <2>3. answer \in [status : Nat, shape : {"data", "health", "other"}]
    BY <2>2
  <2>4. answer.status \notin Client
    BY <2>2 DEF Client
  <2>5. QED
    BY <2>3, <2>4 DEF Response
<1>2. CASE err # None
  <2>1. answer = ErrorHandler(err)
    BY <1>2 DEF Respond
  <2>2. \/ answer = Envelope(400, "VALIDATION_ERROR") /\ AtFault
        \/ answer = Envelope(500, "INTERNAL_ERROR")
        \/ answer = Envelope(404, "NOT_FOUND") /\ AtFault
        \/ answer = Envelope(401, "UNAUTHORIZED") /\ AtFault
        \/ answer = Envelope(503, "INTERNAL_API_DISABLED")
        \/ answer = Envelope(400, "INVALID_JSON") /\ AtFault
        \/ answer = Envelope(413, "PAYLOAD_TOO_LARGE") /\ AtFault
        \/ answer = Envelope(415, "UNSUPPORTED_MEDIA_TYPE") /\ AtFault
        \/ answer = Envelope(400, "BAD_REQUEST") /\ AtFault
    <3>1. CASE err = ZodError /\ AtFault
      BY <2>1, <3>1 DEF ErrorHandler, ZodError
    <3>2. CASE err = Unexpected
      BY <2>1, <3>2 DEF ErrorHandler, Unexpected, InternalError
    <3>3. CASE err = AppError(404, "NOT_FOUND") /\ AtFault
      BY <2>1, <3>3 DEF ErrorHandler, AppError
    <3>4. CASE err = AppError(401, "UNAUTHORIZED") /\ AtFault
      BY <2>1, <3>4 DEF ErrorHandler, AppError
    <3>5. CASE err = AppError(503, "INTERNAL_API_DISABLED")
      BY <2>1, <3>5 DEF ErrorHandler, AppError
    <3>6. CASE err = ClientError(request.parsing) /\ AtFault
      <4>1. answer = ClassifyClientError(request.parsing)
        BY <2>1, <3>6 DEF ErrorHandler, ClientError
      <4>2. QED
        BY <3>6, <4>1 DEF ClassifyClientError
    <3>7. QED
      BY <1>2, <3>1, <3>2, <3>3, <3>4, <3>5, <3>6, RaisedIs
  <2>3. PICK status \in Nat, code \in Code :
            answer = Envelope(status, code) /\ (status \in Client => AtFault)
    BY <2>2 DEF Code, Client
  <2>4. QED
    BY <2>3, EnvelopeTyped
<1>3. QED
  BY <1>1, <1>2
-----------------------------------------------------------------------------
(* The steps of a call.                                                    *)

Call == request \in Request /\ Exchange /\ Blameless /\ Outcomes

(* Pings come to the pages that have a panel.                              *)
PingsAreShown == delivered < recorded => ByWeb

LEMMA CallSteps ==
    ASSUME PingsAreShown, [QueryNext]_queryVars
    PROVE  \/ Answered \/ TakenByOther \/ ReadData \/ Unreachable \/ ReadFailure
           \/ BodyBreaks \/ Cancel \/ AskAgain \/ UNCHANGED vars
           \/ \E more, pages : AskFor(more, pages)
<1>0. Ask => \E more, pages : AskFor(more, pages)
  BY Zenon DEF Ask
<1>1. ASSUME NEW entries, Refetch(entries)
      PROVE  Ask \/ UNCHANGED vars
  BY <1>1, Zenon DEF Refetch, fetchVars, vars
<1>2. Invalidate => Ask \/ UNCHANGED vars
  BY <1>1, Zenon DEF Invalidate
<1>3. LivePing => Ask \/ UNCHANGED vars
  <2>1. CASE LivePing /\ Kind = "list"
    BY <2>1 DEF LivePing, fetchVars, vars
  <2>2. CASE LivePing /\ Kind \in {"stats", "series"}
    <3>1. LivePing => Invalidate
      BY <2>2 DEF LivePing
    <3>2. QED
      BY <1>2, <2>2, <3>1
  <2>3. CASE LivePing /\ Kind = "detail"
    BY <2>3 DEF LivePing, fetchVars, vars
  <2>4. LivePing => ByWeb
    BY Zenon DEF LivePing, PingsAreShown
  <2>5. QED
    BY <2>1, <2>2, <2>3, <2>4 DEF ByWeb, WebRoute, Kind
<1>4. QED
  BY <1>0, <1>1, <1>2, <1>3, Zenon DEF QueryNext, FetchStep, Answer, Load, AttemptFails,
     RetryDelayEnds, PingIsRecorded, EventIsLost, StreamReopens, IntervalEnds,
     RetryIsClicked, LoadOlder, Show, GrowsOld, IsCollected, OtherCall, fetchVars, vars,
     queryVars

LEMMA RequestStays ==
    ASSUME PingsAreShown, [QueryNext]_queryVars
    PROVE  request' = request /\ (AtFault' <=> AtFault) /\ (ByWeb' <=> ByWeb) /\ Kind' = Kind
<1>1. request' = request
  BY CallSteps, Zenon DEF Answered, TakenByOther, ReadData, Unreachable, ReadFailure,
     BodyBreaks, Cancel, AskAgain, AskFor, Fail, vars
<1>2. QED
  BY <1>1, Zenon DEF AtFault, ByWeb, Kind

LEMMA AnswersAppended ==
    ASSUME NEW status \in Nat, answers \in Seq(Nat)
    PROVE  /\ Append(answers, status) \in Seq(Nat)
           /\ Len(Append(answers, status)) = Len(answers) + 1
           /\ \A k \in DOMAIN answers : Append(answers, status)[k] = answers[k]
           /\ \A k \in 1..Len(answers) : k \in DOMAIN answers
           /\ \A k \in DOMAIN Append(answers, status) : k \in DOMAIN answers \/ k = Len(answers) + 1
           /\ Append(answers, status)[Len(answers) + 1] = status
  OBVIOUS

(* An attempt that failed.                                                 *)
LEMMA FailKeepsCall ==
    ASSUME Call, phase \in {"asked", "reading"}, NEW error \in ApiError,
           NEW status \in Nat, error.status = status, status \in Client => AtFault,
           AtFault' <=> AtFault, Fail(error, status)
    PROVE  Call'
<1>1. /\ answers \in Seq(Nat) /\ Len(answers) \in Nat /\ Len(answers) <= 2
      /\ \A k \in DOMAIN answers : answers[k] \notin Client
  BY DEF Call, Exchange, Blameless
<1>2. answers' = Append(answers, status) /\ response' = <<>> /\ request' = request
  BY Zenon DEF Fail
<1>3. /\ answers' \in Seq(Nat) /\ Len(answers') = Len(answers) + 1
      /\ \A k \in 1..(Len(answers') - 1) : answers'[k] \notin Client
      /\ \A k \in DOMAIN answers' : answers'[k] \notin Client \/ answers'[k] = status
  BY <1>1, <1>2, AnswersAppended
<1>4. <<>> \in Seq(Response)
  OBVIOUS
<1>5. CASE Retry(Len(answers), error)
  <2>1. phase' = "waiting" /\ outcome' = outcome
    BY <1>5, Zenon DEF Fail
  <2>2. status \notin Client /\ Len(answers) < 2
    <3>1. ~(error.status \in 400..499) /\ Len(answers) < 2
      BY <1>5, Zenon DEF Retry
    <3>2. QED
      BY <3>1 DEF Client
  <2>3. Exchange'
    BY <1>1, <1>2, <1>3, <1>4, <2>1, <2>2 DEF Exchange, Phase
  <2>4. outcome.is = "pending"
    BY DEF Call, Blameless
  <2>5. Blameless'
    BY <1>3, <2>1, <2>2, <2>4 DEF Blameless
  <2>6. Outcomes'
    BY <2>1, <2>4 DEF Outcomes, IsError
  <2>7. QED
    BY <1>2, <2>3, <2>5, <2>6 DEF Call
<1>6. CASE ~Retry(Len(answers), error)
  <2>1. phase' = "settled" /\ outcome' = Failed(error)
    BY <1>6, Zenon DEF Fail
  <2>2. status \in Client \/ Len(answers) = 2
    <3>1. error.status \in 400..499 \/ ~(Len(answers) < 2)
      BY <1>6, Zenon DEF Retry
    <3>2. ~(Len(answers) < 2) => Len(answers) = 2
      <4>1. Len(answers) \in Nat /\ Len(answers) <= 2
        BY <1>1
      <4>2. \A n \in Nat : n <= 2 /\ ~(n < 2) => n = 2
        OBVIOUS
      <4>3. QED
        BY <4>1, <4>2, Zenon
    <3>3. error.status \in 400..499 => status \in Client
      BY Zenon DEF Client
    <3>4. QED
      BY <3>1, <3>2, <3>3
  <2>3. Exchange'
    BY <1>1, <1>2, <1>3, <1>4, <2>1 DEF Exchange, Phase
  <2>4. Blameless'
    BY <1>3, <2>1 DEF Blameless
  <2>5. outcome'.error = error
    BY <2>1 DEF Failed
  <2>6. ~AtFault => Len(answers') = 3
    BY <1>1, <1>3, <2>2
  <2>7. Outcomes'
    BY <2>5, <2>6 DEF Outcomes
  <2>8. QED
    BY <1>2, <2>3, <2>4, <2>7 DEF Call
<1>7. QED
  BY <1>5, <1>6

LEMMA ErrorTyped ==
    ASSUME NEW resp \in Response, NEW body, body = resp.shape \/ body = "null"
    PROVE  ErrorOf(resp, body) \in ApiError /\ ErrorOf(resp, body).status = resp.status
<1>1. resp.status \in Nat
  BY DEF Response
<1>2. body = "envelope" => resp.code \in Code
  BY DEF Response
<1>3. PICK code \in Code \cup {"NETWORK_ERROR", "HTTP_ERROR", "INVALID_RESPONSE"} :
          ErrorOf(resp, body) = [status |-> resp.status, code |-> code]
  BY <1>2 DEF ErrorOf
<1>4. QED
  BY <1>1, <1>3 DEF ApiError

LEMMA CallKept ==
    ASSUME Call, PingsAreShown, [QueryNext]_queryVars
    PROVE  Call'
<1>1. request' = request /\ (AtFault' <=> AtFault)
  BY RequestStays
<1>2. /\ answers \in Seq(Nat) /\ Len(answers) \in Nat /\ Len(answers) <= 3
      /\ <<>> \in Seq(Response) /\ <<>> \in Seq(Nat)
  BY DEF Call, Exchange
<1>3. phase = "reading" => response[1] \in Response
  BY DEF Call, Exchange
<1>4. CASE Answered
  <2>1. /\ phase = "asked" /\ phase' = "reading" /\ answers' = answers /\ outcome' = outcome
    BY <1>4 DEF Answered
  <2>2. PICK resp \in Response : response' = <<resp>> /\ (resp.status \in Client => AtFault)
    <3>1. [status |-> 502, shape |-> "other"] \in Response
      BY DEF Response
    <3>2. [status |-> 502, shape |-> "other"].status \notin Client
      BY DEF Client
    <3>3. request \in Request
      BY DEF Call
    <3>4. QED
      BY <1>4, <3>1, <3>2, <3>3, AnswerBlames DEF Answered
  <2>3. Exchange'
    BY <2>1, <2>2 DEF Call, Exchange, Phase
  <2>4. response'[1] = resp
    BY <2>2
  <2>5. Blameless'
    BY <1>1, <2>1, <2>2, <2>4 DEF Call, Blameless
  <2>6. Outcomes'
    BY <1>1, <2>1 DEF Call, Outcomes, IsError
  <2>7. QED
    BY <1>1, <2>3, <2>5, <2>6 DEF Call
<1>5. CASE TakenByOther \/ ReadData
  <2>1. /\ phase = "reading" /\ phase' = "settled" /\ response' = <<>>
        /\ answers' = Append(answers, response[1].status)
        /\ outcome' = outcome \/ outcome' = [is |-> "data"]
    BY <1>5 DEF TakenByOther, ReadData
  <2>2. response[1].status \in Nat
    BY <1>3, <2>1 DEF Response
  <2>3. Len(answers) <= 2 /\ \A k \in DOMAIN answers : answers[k] \notin Client
    BY <2>1 DEF Call, Exchange, Blameless
  <2>4. /\ answers' \in Seq(Nat) /\ Len(answers') = Len(answers) + 1
        /\ \A k \in 1..(Len(answers') - 1) : answers'[k] \notin Client
    BY <1>2, <2>1, <2>2, <2>3, AnswersAppended
  <2>5. Exchange'
    BY <1>2, <2>1, <2>3, <2>4 DEF Exchange, Phase
  <2>6. Blameless'
    BY <2>1, <2>4 DEF Blameless
  <2>7. outcome'.is # "error"
    BY <2>1 DEF Call, Blameless
  <2>8. Outcomes'
    BY <2>7 DEF Outcomes, IsError
  <2>9. QED
    BY <1>1, <2>5, <2>6, <2>8 DEF Call
<1>6. CASE Unreachable
  <2>1. [status |-> 0, code |-> "NETWORK_ERROR"] \in ApiError
    BY DEF ApiError
  <2>2. 0 \notin Client
    BY DEF Client
  <2>3. QED
    BY <1>1, <1>6, <2>1, <2>2, FailKeepsCall DEF Unreachable
<1>7. CASE ReadFailure \/ BodyBreaks
  <2>1. phase = "reading"
    BY <1>7 DEF ReadFailure, BodyBreaks
  <2>2. PICK body \in {response[1].shape, "null"} :
            Fail(ErrorOf(response[1], body), response[1].status)
    BY <1>7, Zenon DEF ReadFailure, BodyBreaks
  <2>3. response[1].status \in Nat
    BY <1>3, <2>1 DEF Response
  <2>4. response[1].status \in Client => AtFault
    BY <2>1 DEF Call, Blameless
  <2>5. QED
    BY <1>1, <1>3, <2>1, <2>2, <2>3, <2>4, ErrorTyped, FailKeepsCall
<1>8. CASE Cancel
  <2>1. /\ phase # "settled" /\ phase' = "settled" /\ answers' = answers /\ response' = <<>>
        /\ outcome'.is = "cancelled"
    BY <1>8 DEF Cancel
  <2>2. Exchange'
    BY <1>2, <2>1 DEF Exchange, Phase
  <2>3. Blameless'
    BY <2>1 DEF Call, Blameless
  <2>4. Outcomes'
    BY <2>1 DEF Outcomes, IsError
  <2>5. QED
    BY <1>1, <2>2, <2>3, <2>4 DEF Call
<1>9. CASE AskAgain
  <2>1. /\ phase = "waiting" /\ phase' = "asked" /\ UNCHANGED <<answers, response, outcome>>
    BY <1>9 DEF AskAgain
  <2>2. Exchange'
    BY <2>1 DEF Call, Exchange, Phase
  <2>3. Blameless'
    BY <2>1 DEF Call, Blameless
  <2>4. Outcomes'
    BY <1>1, <2>1 DEF Call, Outcomes, IsError
  <2>5. QED
    BY <1>1, <2>2, <2>3, <2>4 DEF Call
<1>10. CASE \E more, pages : AskFor(more, pages)
  <2>1. /\ phase' = "asked" /\ answers' = <<>> /\ response' = <<>> /\ outcome'.is = "pending"
    BY <1>10 DEF AskFor, Pending
  <2>2. Exchange'
    BY <1>2, <2>1 DEF Exchange, Phase
  <2>3. Blameless'
    BY <2>1 DEF Blameless
  <2>4. Outcomes'
    BY <2>1 DEF Outcomes, IsError
  <2>5. QED
    BY <1>1, <2>2, <2>3, <2>4 DEF Call
<1>11. CASE UNCHANGED vars
  <2>1. UNCHANGED <<phase, answers, response, outcome>>
    BY <1>11 DEF vars
  <2>2. QED
    BY <1>1, <2>1 DEF Call, Exchange, Blameless, Outcomes, IsError
<1>12. QED
  BY <1>4, <1>5, <1>6, <1>7, <1>8, <1>9, <1>10, <1>11, CallSteps

(* A request is sent after no 4xx, and only a request at fault is given up *)
(* before its third failure.                                               *)
LEMMA CallImplies == Call => OnlyFaultsAreFinal
<1>1. Call => /\ \A k \in 1..(Len(answers) - 1) : answers[k] \notin 400..499
              /\ phase \in {"asked", "reading"} => \A k \in DOMAIN answers : answers[k] \notin 400..499
  BY DEF Call, Blameless, Client
<1>2. Call /\ IsError /\ ~AtFault => Len(answers) = 3
  BY Zenon DEF Call, Outcomes
<1>3. QED
  BY <1>1, <1>2, Zenon DEF OnlyFaultsAreFinal

LEMMA CallTyped == Call => TypeOK
<1>1. ASSUME Call
      PROVE  Len(answers) <= 3
  <2>1. Len(answers) \in Nat /\ Len(answers) <= IF phase = "settled" THEN 3 ELSE 2
    BY <1>1 DEF Call, Exchange
  <2>2. QED
    BY <2>1
<1>2. QED
  BY <1>1, Zenon DEF Call, Exchange, Blameless, Outcomes, Phase, TypeOK
-----------------------------------------------------------------------------
(* Entries of the query cache.                                             *)

Alike(e, f) == e.loaded = f.loaded /\ e.data = f.data /\ e.marked = f.marked /\ e.old = f.old

LEMMA EntryExcept ==
    ASSUME NEW e \in Entry, NEW b \in BOOLEAN
    PROVE  /\ [e EXCEPT !.failed = b] \in Entry /\ [e EXCEPT !.failed = b].failed = b
           /\ Alike([e EXCEPT !.failed = b], e)
           /\ [e EXCEPT !.marked = b] \in Entry /\ [e EXCEPT !.marked = b].marked = b
           /\ [e EXCEPT !.marked = b].loaded = e.loaded
           /\ [e EXCEPT !.marked = b].data = e.data
           /\ [e EXCEPT !.marked = b].old = e.old
           /\ [e EXCEPT !.old = b] \in Entry
           /\ [e EXCEPT !.old = b].loaded = e.loaded
           /\ [e EXCEPT !.old = b].data = e.data
           /\ [e EXCEPT !.old = b].marked = e.marked
           /\ [e EXCEPT !.old = b].failed = e.failed
  BY DEF Entry, Alike

LEMMA EmptyIs ==
    /\ Empty \in Entry /\ Empty.data = {}
    /\ ~Empty.loaded /\ ~Empty.marked /\ ~Empty.old /\ ~Empty.failed
  BY DEF Empty, Entry

LEMMA FreshIs ==
    ASSUME NEW ids \in SUBSET Ping
    PROVE  LET fresh == [Empty EXCEPT !.loaded = TRUE, !.data = ids] IN
             /\ fresh \in Entry
             /\ fresh.loaded /\ fresh.data = ids
             /\ ~fresh.marked /\ ~fresh.failed /\ ~fresh.old
<1>1. ASSUME NEW e \in Entry, NEW b \in BOOLEAN
      PROVE  LET f == [e EXCEPT !.loaded = b, !.data = ids] IN
               /\ f \in Entry
               /\ f.loaded = b /\ f.data = ids
               /\ f.marked = e.marked /\ f.failed = e.failed /\ f.old = e.old
  BY DEF Entry
<1>2. QED
  BY <1>1, EmptyIs

LEMMA ErroredIs ==
    ASSUME NEW e \in Entry
    PROVE  /\ Errored(e) \in Entry /\ Errored(e).failed /\ Errored(e).marked
           /\ Errored(e).loaded = e.loaded /\ Errored(e).data = e.data /\ Errored(e).old = e.old
  BY DEF Entry, Errored

LEMMA WithPingIs ==
    ASSUME NEW e \in Entry, NEW k, NEW ping \in Ping
    PROVE  /\ WithPing(e, k, ping) \in Entry
           /\ WithPing(e, k, ping).loaded = e.loaded
           /\ e.loaded /\ Matches(ping, k) =>
                 /\ WithPing(e, k, ping).data = e.data \cup {ping}
                 /\ ~WithPing(e, k, ping).marked /\ ~WithPing(e, k, ping).old
                 /\ ~WithPing(e, k, ping).failed
           /\ ~(e.loaded /\ Matches(ping, k)) => WithPing(e, k, ping) = e
<1>1. CASE e.loaded /\ Matches(ping, k)
  <2>1. WithPing(e, k, ping) = [Empty EXCEPT !.loaded = TRUE, !.data = e.data \cup {ping}]
    BY <1>1, Zenon DEF WithPing
  <2>2. e.data \cup {ping} \in SUBSET Ping /\ e.loaded \in BOOLEAN
    BY DEF Entry
  <2>3. LET fresh == [Empty EXCEPT !.loaded = TRUE, !.data = e.data \cup {ping}] IN
          /\ fresh \in Entry
          /\ fresh.loaded /\ fresh.data = e.data \cup {ping}
          /\ ~fresh.marked /\ ~fresh.failed /\ ~fresh.old
    BY <2>2, FreshIs
  <2>4. WithPing(e, k, ping).loaded \in BOOLEAN
    BY <2>1, <2>3 DEF Entry
  <2>5. QED
    BY <1>1, <2>1, <2>2, <2>3, <2>4
<1>2. CASE ~(e.loaded /\ Matches(ping, k))
  <2>1. WithPing(e, k, ping) = e
    BY <1>2, Zenon DEF WithPing
  <2>2. QED
    BY <1>2, <2>1
<1>3. QED
  BY <1>1, <1>2

LEMMA StartedIs ==
    ASSUME NEW entries \in [Key -> Entry], NEW k \in Key
    PROVE  /\ Started(entries, k) \in [Key -> Entry]
           /\ \A j \in Key : Alike(Started(entries, k)[j], entries[j])
<1> DEFINE b == entries[k].failed /\ entries[k].loaded
<1>1. Started(entries, k) = [entries EXCEPT ![k] = [entries[k] EXCEPT !.failed = b]]
  BY Zenon DEF Started
<1>2. b \in BOOLEAN
  OBVIOUS
<1>3. /\ [entries[k] EXCEPT !.failed = b] \in Entry
      /\ Alike([entries[k] EXCEPT !.failed = b], entries[k])
  BY <1>2, EntryExcept
<1> HIDE DEF b
<1>4. QED
  BY <1>1, <1>3 DEF Alike

(* A refetch of what is shown.                                             *)
LEMMA RefetchIs ==
    ASSUME NEW entries \in [Key -> Entry], shown \in Key \cup {NoKey}, Refetch(entries)
    PROVE  /\ entry' \in [Key -> Entry]
           /\ \A j \in Key : Alike(entry'[j], entries[j])
           /\ carried' = carried
           /\ phase' = "asked" \/ UNCHANGED fetchVars
           /\ IF shown = NoKey THEN phase' = phase ELSE phase' # "settled"
           /\ shown # NoKey /\ (entries[shown].loaded \/ ~Fetching) => Ask /\ phase' = "asked"
<1>1. CASE shown = NoKey \/ (Fetching /\ Joined(entries[shown]))
  <2>1. entry' = entries /\ UNCHANGED fetchVars
    BY <1>1, Zenon DEF Refetch
  <2>2. carried' = carried /\ phase' = phase
    BY <2>1 DEF fetchVars
  <2>3. shown # NoKey => Fetching /\ ~entries[shown].loaded
    BY <1>1, Zenon DEF Joined
  <2>4. QED
    BY <1>1, <2>1, <2>2, <2>3 DEF Alike, Fetching
<1>2. CASE ~(shown = NoKey \/ (Fetching /\ Joined(entries[shown])))
  <2>1. entry' = Started(entries, shown) /\ Ask
    BY <1>2, Zenon DEF Refetch
  <2>2. shown \in Key
    BY <1>2
  <2>3. phase' = "asked" /\ carried' = carried
    BY <2>1 DEF Ask, AskFor
  <2>4. QED
    BY <1>2, <2>1, <2>2, <2>3, StartedIs
<1>3. QED
  BY <1>1, <1>2

(* An invalidation: every query is marked.                                 *)
LEMMA InvalidateIs ==
    ASSUME entry \in [Key -> Entry], shown \in Key \cup {NoKey}, Invalidate
    PROVE  /\ entry' \in [Key -> Entry]
           /\ \A j \in Key : /\ entry'[j].loaded = entry[j].loaded
                             /\ entry'[j].data = entry[j].data
                             /\ entry'[j].old = entry[j].old
                             /\ entry'[j].marked
           /\ carried' = carried
           /\ phase' = "asked" \/ UNCHANGED fetchVars
           /\ IF shown = NoKey THEN phase' = phase ELSE phase' # "settled"
           /\ shown # NoKey /\ entry[shown].loaded => Ask /\ phase' = "asked"
<1> DEFINE marked == [j \in Key |-> [entry[j] EXCEPT !.marked = TRUE]]
<1>1. /\ marked \in [Key -> Entry]
      /\ \A j \in Key : /\ marked[j].loaded = entry[j].loaded
                        /\ marked[j].data = entry[j].data
                        /\ marked[j].old = entry[j].old
                        /\ marked[j].marked = TRUE
  BY EntryExcept
<1>2. Refetch(marked)
  BY Zenon DEF Invalidate
<1> HIDE DEF marked
<1>3. QED
  BY <1>1, <1>2, RefetchIs DEF Alike
-----------------------------------------------------------------------------
(* The page: its types, with the flag of the stream kept apart.            *)

Cache ==
    /\ shown \in Key \cup {NoKey}
    /\ entry \in [Key -> Entry]
    /\ \A k \in Key : entry[k].loaded \/ (entry[k].data = {} /\ ~entry[k].old)
    /\ shown = NoKey => ~ByWeb \/ (Kind = "detail" /\ ~Fetching)
    /\ excused \subseteq Key

Counts ==
    /\ recorded \in 0..MaxPings /\ delivered \in 0..recorded /\ carried \in 0..recorded
    /\ disturbances \in 0..MaxDisturbances

(* The three ways in which a live ping is taken.                           *)
LEMMA LivePingIs ==
    ASSUME PingsAreShown, LivePing
    PROVE  \/ /\ Kind = "list"
              /\ entry' = [k \in Key |-> WithPing(entry[k], k, delivered')]
              /\ excused' = excused \cup {k \in Key : Matches(delivered', k) /\
                    ((entry[k].loaded /\ entry[k].marked) \/ (k = shown /\ Outdated(delivered')))}
              /\ UNCHANGED fetchVars
           \/ /\ Kind \in {"stats", "series"}
              /\ Invalidate
              /\ excused' = excused \cup {k \in {shown} : Outdated(delivered') /\ ~entry[k].loaded}
           \/ /\ Kind = "detail"
              /\ UNCHANGED <<entry, excused>> /\ UNCHANGED fetchVars
<1>1. ByWeb
  BY Zenon DEF LivePing, PingsAreShown
<1>2. Kind \in {"list", "stats", "series", "detail"}
  BY <1>1 DEF ByWeb, WebRoute, Kind
<1>3. CASE Kind = "list"
  BY <1>3 DEF LivePing
<1>4. CASE Kind \in {"stats", "series"}
  BY <1>4 DEF LivePing
<1>5. CASE Kind = "detail"
  BY <1>5 DEF LivePing
<1>6. QED
  BY <1>2, <1>3, <1>4, <1>5

(* What is carried was read when all that was recorded was there.          *)
LEMMA CarriedMoves ==
    ASSUME Cache, PingsAreShown, [QueryNext]_queryVars
    PROVE  carried' = carried \/ (carried' = recorded /\ UNCHANGED <<recorded, delivered>>)
<1>1. ASSUME NEW entries \in [Key -> Entry], Refetch(entries)
      PROVE  carried' = carried
  BY <1>1, RefetchIs DEF Cache
<1>2. CASE PingIsRecorded \/ EventIsLost \/ \E k \in Key : GrowsOld(k) \/ IsCollected(k)
  BY <1>2, Zenon DEF PingIsRecorded, EventIsLost, GrowsOld, IsCollected, fetchVars
<1>3. CASE LivePing
  <2>1. Invalidate => carried' = carried
    BY InvalidateIs DEF Cache
  <2>2. QED
    BY <1>3, <2>1, LivePingIs DEF fetchVars
<1>4. CASE StreamReopens
  BY <1>4, InvalidateIs DEF Cache, StreamReopens
<1>5. CASE IntervalEnds \/ RetryIsClicked
  <2>1. Refetch(entry) /\ entry \in [Key -> Entry]
    BY <1>5, Zenon DEF IntervalEnds, RetryIsClicked, Cache
  <2>2. QED
    BY <1>1, <2>1
<1>6. CASE \E k \in Key \cup {NoKey} : Show(k)
  BY <1>6, Zenon DEF Show, Ask, AskFor
<1>7. CASE FetchStep \/ LoadOlder \/ OtherCall \/ UNCHANGED queryVars
  BY <1>7 DEF FetchStep, Answer, Load, AttemptFails, RetryDelayEnds, LoadOlder, AskFor,
     OtherCall, pageVars, serverVars, queryVars
<1>8. QED
  BY <1>2, <1>3, <1>4, <1>5, <1>6, <1>7, Zenon DEF QueryNext

LEMMA CountsKept ==
    ASSUME Cache, Counts, PingsAreShown, [QueryNext]_queryVars
    PROVE  Counts'
<1>1. Disturbance => disturbances' \in 0..MaxDisturbances
  BY PageBoundsAssumption DEF Disturbance, Counts
<1>2. disturbances' \in 0..MaxDisturbances
  <2>1. disturbances' = disturbances \/ Disturbance
    BY Zenon DEF QueryNext, FetchStep, Answer, Load, AttemptFails, RetryDelayEnds, PingIsRecorded,
       LivePing, EventIsLost, StreamReopens, IntervalEnds, RetryIsClicked, LoadOlder, Show, GrowsOld,
       IsCollected, OtherCall, pageVars, queryVars
  <2>2. QED
    BY <1>1, <2>1 DEF Counts
<1>3. carried' = carried \/ (carried' = recorded /\ UNCHANGED <<recorded, delivered>>)
  BY CarriedMoves
<1>4. CASE PingIsRecorded
  BY <1>2, <1>3, <1>4, PageBoundsAssumption DEF PingIsRecorded, Counts
<1>5. CASE LivePing \/ EventIsLost
  <2>1. delivered < recorded /\ delivered' = delivered + 1 /\ recorded' = recorded
    BY <1>5, Zenon DEF LivePing, EventIsLost
  <2>2. QED
    BY <1>2, <1>3, <2>1 DEF Counts
<1>6. CASE ~PingIsRecorded /\ ~LivePing /\ ~EventIsLost
  <2>1. UNCHANGED <<recorded, delivered>>
    BY <1>6, Zenon DEF QueryNext, FetchStep, Answer, Load, AttemptFails, RetryDelayEnds,
       StreamReopens, IntervalEnds, RetryIsClicked, LoadOlder, Show, GrowsOld, IsCollected, OtherCall,
       serverVars, pageVars, queryVars
  <2>2. QED
    BY <1>2, <1>3, <2>1 DEF Counts
<1>7. QED
  BY <1>4, <1>5, <1>6

LEMMA PingsAreShownKept ==
    ASSUME Counts, PingsAreShown, [QueryNext]_queryVars
    PROVE  PingsAreShown'
<1>1. ByWeb' <=> ByWeb
  BY RequestStays
<1>2. CASE PingIsRecorded
  BY <1>1, <1>2, Zenon DEF PingIsRecorded, PingsAreShown
<1>3. CASE LivePing \/ EventIsLost
  <2>1. delivered < recorded
    BY <1>3, Zenon DEF LivePing, EventIsLost
  <2>2. QED
    BY <1>1, <2>1, Zenon DEF PingsAreShown
<1>4. CASE ~PingIsRecorded /\ ~LivePing /\ ~EventIsLost
  <2>1. UNCHANGED <<recorded, delivered>>
    BY <1>4, Zenon DEF QueryNext, FetchStep, Answer, Load, AttemptFails, RetryDelayEnds,
       StreamReopens, IntervalEnds, RetryIsClicked, LoadOlder, Show, GrowsOld, IsCollected, OtherCall,
       serverVars, pageVars, queryVars
  <2>2. QED
    BY <1>1, <2>1, Zenon DEF PingsAreShown
<1>5. QED
  BY <1>2, <1>3, <1>4

BelongsTo(ping, k) == Kind = "list" => Matches(ping, k)

LEMMA ContentsIs ==
    ASSUME ByWeb, NEW k, NEW n \in 0..MaxPings
    PROVE  /\ Contents(k, n) \in SUBSET Ping
           /\ Kind = "detail" => Contents(k, n) = {}
           /\ Kind # "detail" => Contents(k, n) = {p \in 1..n : BelongsTo(p, k)}
<1>1. 1..n \subseteq Ping /\ \A p \in 1..n : p <= SeriesLimit
  BY SeriesLimitAssumption, PageBoundsAssumption DEF Ping
<1>2. CASE Kind = "list"
  <2>1. Contents(k, n) = {p \in 1..n : Matches(p, k)}
    BY <1>2 DEF Contents, List
  <2>2. QED
    BY <1>1, <1>2, <2>1 DEF BelongsTo
<1>3. CASE Kind = "stats"
  BY <1>1, <1>3 DEF Contents, Stats, BelongsTo
<1>4. CASE Kind = "series"
  <2>1. Contents(k, n) = {p \in 1..n : p <= SeriesLimit}
    BY <1>4 DEF Contents, Series
  <2>2. QED
    BY <1>1, <1>4, <2>1 DEF BelongsTo
<1>5. CASE Kind = "detail"
  BY <1>5 DEF Contents
<1>6. QED
  BY <1>2, <1>3, <1>4, <1>5 DEF ByWeb, WebRoute, Kind

(* A query that has every ping that was delivered and belongs to it.       *)
Whole(k) == \A p \in 1..delivered : BelongsTo(p, k) => p \in entry[k].data

(* A "Load older" appends to pages that are there still, and leaves behind *)
(* no ping, once it has cleared the mark, but for a known reason; the same *)
(* when it has failed, for its notice speaks of the older pages only.      *)
Extending ==
    IF older
    THEN /\ Kind = "list" /\ shown \in Key /\ entry[shown].loaded
         /\ oldPages \subseteq entry[shown].data
         /\ Whole(shown) \/ gap \/ shown \in excused
    ELSE oldPages = {}

(* A fetch that succeeds.                                                  *)
LEMMA LoadIs ==
    ASSUME Cache, Counts, Extending, ByWeb, Load
    PROVE  /\ shown \in Key
           /\ phase = "reading" /\ response[1].shape = "data" /\ phase' = "settled"
           /\ entry' \in [Key -> Entry]
           /\ entry'[shown].loaded /\ entry'[shown].data = ReadPages
           /\ ~entry'[shown].marked /\ ~entry'[shown].failed
           /\ \A k \in Key : k # shown => entry'[k] = entry[k]
           /\ shown' = shown /\ carried' = carried /\ UNCHANGED <<recorded, delivered, gap>>
           /\ excused' \in {excused, excused \cup {shown}, excused \ {shown}}
           /\ older \/ carried < delivered => excused \subseteq excused'
           /\ Overwrites => shown \in excused'
<1>1. /\ phase = "reading" /\ response[1].shape = "data" /\ phase' = "settled"
      /\ shown' = shown /\ carried' = carried /\ UNCHANGED <<recorded, delivered, gap>>
      /\ entry' = [entry EXCEPT ![shown] =
                       [Empty EXCEPT !.loaded = TRUE, !.data = ReadPages]]
  BY Zenon DEF Load, ReadData, serverVars
<1>2. /\ excused' \in {excused, excused \cup {shown}, excused \ {shown}}
      /\ older \/ carried < delivered => excused \subseteq excused'
      /\ Overwrites => shown \in excused'
  BY DEF Load
<1>3. shown \in Key
  BY <1>1 DEF Cache, Fetching
<1>4. entry \in [Key -> Entry]
  BY DEF Cache
<1>5. ReadPages \in SUBSET Ping
  <2>1. CASE older
    <3>1. ReadPages = oldPages /\ oldPages \subseteq entry[shown].data
      BY <2>1, Zenon DEF ReadPages, Extending
    <3>2. QED
      BY <1>3, <1>4, <3>1 DEF Entry
  <2>2. CASE ~older
    <3>1. carried \in 0..MaxPings
      BY PageBoundsAssumption DEF Counts
    <3>2. ReadPages = Contents(shown, carried)
      BY <2>2, Zenon DEF ReadPages
    <3>3. QED
      BY <3>1, <3>2, ContentsIs
  <2>3. QED
    BY <2>1, <2>2
<1>6. LET fresh == [Empty EXCEPT !.loaded = TRUE, !.data = ReadPages] IN
        /\ fresh \in Entry
        /\ fresh.loaded /\ fresh.data = ReadPages
        /\ ~fresh.marked /\ ~fresh.failed
  BY <1>5, FreshIs
<1>7. QED
  BY <1>1, <1>2, <1>3, <1>4, <1>6

(* An attempt that fails.                                                  *)
LEMMA AttemptFailsIs ==
    ASSUME Cache, ByWeb, AttemptFails
    PROVE  /\ shown \in Key
           /\ phase' \in {"waiting", "settled"}
           /\ entry' \in [Key -> Entry]
           /\ phase' = "settled" => entry'[shown] = Errored(entry[shown])
           /\ phase' # "settled" => entry' = entry
           /\ \A k \in Key : k # shown => entry'[k] = entry[k]
           /\ UNCHANGED <<shown, carried, excused, recorded, delivered, gap>>
<1>1. /\ entry' = IF phase' = "settled" THEN [entry EXCEPT ![shown] = Errored(@)]
                  ELSE entry
      /\ UNCHANGED <<shown, carried, excused, recorded, delivered, gap>>
  BY Zenon DEF AttemptFails, serverVars
<1>2. phase \in {"asked", "reading"} /\ \E error, status : Fail(error, status)
  BY DEF AttemptFails, ReadFailure, Unreachable, BodyBreaks
<1>3. phase' \in {"waiting", "settled"}
  BY <1>2 DEF Fail
<1>4. shown \in Key
  BY <1>2 DEF Cache, Fetching
<1>5. entry \in [Key -> Entry] /\ Errored(entry[shown]) \in Entry
  BY <1>4, ErroredIs DEF Cache
<1>6. QED
  BY <1>1, <1>3, <1>4, <1>5

(* Another key is shown.                                                   *)
LEMMA ShowIs ==
    ASSUME Cache, NEW k \in Key \cup {NoKey}, Show(k)
    PROVE  /\ shown' = k /\ ByWeb
           /\ entry' \in [Key -> Entry]
           /\ \A j \in Key : Alike(entry'[j], entry[j])
           /\ UNCHANGED <<carried, excused, recorded, delivered, gap>>
           /\ k = NoKey => Kind = "detail"
           /\ \/ phase' = "asked" /\ k # NoKey
              \/ phase' = "settled" /\ (k # NoKey => entry'[k].loaded /\ ~entry'[k].marked)
<1>1. /\ shown' = k /\ ByWeb /\ UNCHANGED <<excused, recorded, delivered, gap>>
      /\ Chosen(k) \/ Selected(k) \/ Closed(k)
  BY Zenon DEF Show, serverVars
<1>2. k = NoKey => Kind = "detail"
  BY <1>1, KeyAssumption DEF Chosen, Selected, Closed
<1>3. entry \in [Key -> Entry]
  BY DEF Cache
<1>4. CASE k # NoKey /\ Stale(entry[k])
  <2>1. entry' = Started(entry, k) /\ Ask
    BY <1>4, Zenon DEF Show
  <2>2. phase' = "asked" /\ carried' = carried
    BY <2>1 DEF Ask, AskFor
  <2>3. QED
    BY <1>1, <1>2, <1>3, <1>4, <2>1, <2>2, StartedIs
<1>5. CASE ~(k # NoKey /\ Stale(entry[k]))
  <2>1. (Cancel \/ (~Fetching /\ UNCHANGED vars)) /\ UNCHANGED <<entry, carried>>
    BY <1>5, Zenon DEF Show
  <2>2. phase' = "settled"
    BY <2>1 DEF Cancel, Fetching, vars
  <2>3. k # NoKey => entry[k].loaded /\ ~entry[k].marked
    BY <1>5, Zenon DEF Stale
  <2>4. QED
    BY <1>1, <1>2, <1>3, <2>1, <2>2, <2>3 DEF Alike
<1>6. QED
  BY <1>4, <1>5

LEMMA CacheKept ==
    ASSUME Cache, Counts, Extending, PingsAreShown, [QueryNext]_queryVars
    PROVE  Cache'
<1> DEFINE Sane(entries) ==
              /\ entries \in [Key -> Entry]
              /\ \A k \in Key : entries[k].loaded \/ (entries[k].data = {} /\ ~entries[k].old)
           Closing == shown = NoKey => ~ByWeb \/ (Kind = "detail" /\ ~Fetching)
<1>1. shown \in Key \cup {NoKey} /\ Sane(entry) /\ Closing /\ excused \subseteq Key
  BY DEF Cache
<1>2. (ByWeb' <=> ByWeb) /\ Kind' = Kind
  BY RequestStays
<1>3. ASSUME shown' = shown, excused' \subseteq Key, Sane(entry'),
             shown = NoKey /\ ByWeb => phase' = "settled"
      PROVE  Cache'
  <2>1. shown' = NoKey => ~ByWeb' \/ (Kind' = "detail" /\ ~Fetching')
    BY <1>1, <1>2, <1>3 DEF Fetching
  <2>2. QED
    BY <1>1, <1>3, <2>1 DEF Cache
<1>4. shown = NoKey /\ ByWeb => phase = "settled"
  BY <1>1 DEF Fetching
<1>5. CASE Answer /\ ByWeb
  <2>1. phase = "asked" /\ UNCHANGED <<shown, entry, excused>>
    BY <1>5 DEF Answer, Answered
  <2>2. QED
    BY <1>1, <1>3, <1>4, <1>5, <2>1
<1>6. CASE Load /\ ByWeb
  <2>1. shown \in Key /\ entry' \in [Key -> Entry] /\ shown' = shown
    BY <1>6, LoadIs
  <2>2. \A k \in Key : entry'[k].loaded \/ entry'[k] = entry[k]
    BY <1>6, LoadIs
  <2>3. excused' \subseteq Key
    BY <1>1, <1>6, LoadIs
  <2>4. shown # NoKey
    BY <2>1, KeyAssumption
  <2>5. QED
    BY <1>1, <1>3, <2>1, <2>2, <2>3, <2>4
<1>7. CASE AttemptFails /\ ByWeb
  <2>1. shown \in Key /\ entry' \in [Key -> Entry] /\ UNCHANGED <<shown, excused>>
    BY <1>7, AttemptFailsIs
  <2>2. \A k \in Key : entry'[k] = entry[k] \/ entry'[k] = Errored(entry[k])
    BY <1>7, <2>1, AttemptFailsIs
  <2>3. \A k \in Key : entry[k] \in Entry
    BY <1>1
  <2>4. Sane(entry')
    BY <1>1, <2>1, <2>2, <2>3, ErroredIs
  <2>5. shown # NoKey
    BY <2>1, KeyAssumption
  <2>6. QED
    BY <1>1, <1>3, <2>1, <2>4, <2>5
<1>8. CASE RetryDelayEnds /\ ByWeb
  <2>1. phase = "waiting" /\ UNCHANGED <<shown, entry, excused>>
    BY <1>8, Zenon DEF RetryDelayEnds, AskAgain, pageVars
  <2>2. QED
    BY <1>1, <1>3, <1>4, <1>8, <2>1
<1>9. CASE PingIsRecorded \/ EventIsLost \/ UNCHANGED queryVars
  <2>1. UNCHANGED <<shown, entry, excused, phase>>
    BY <1>9, Zenon DEF PingIsRecorded, EventIsLost, fetchVars, queryVars
  <2>2. QED
    BY <1>1, <1>3, <1>4, <2>1
<1>10. CASE LivePing
  <2>1. shown' = shown /\ delivered' \in Ping
    <3>1. shown' = shown /\ delivered < recorded /\ delivered' = delivered + 1
      BY <1>10, Zenon DEF LivePing
    <3>2. QED
      BY <3>1, PageBoundsAssumption DEF Counts, Ping
  <2>2. ByWeb
    BY <1>10, Zenon DEF LivePing, PingsAreShown
  <2>3. CASE Kind = "list"
    <3>1. /\ entry' = [k \in Key |-> WithPing(entry[k], k, delivered')]
          /\ excused' \subseteq Key
          /\ phase' = phase
      BY <1>1, <1>10, <2>3, LivePingIs DEF fetchVars
    <3>2. Sane(entry')
      <4>1. \A k \in Key : entry[k] \in Entry
        BY <1>1
      <4>2. \A k \in Key : WithPing(entry[k], k, delivered') \in Entry
        BY <2>1, <4>1, WithPingIs
      <4>3. \A k \in Key : WithPing(entry[k], k, delivered').loaded
                          \/ WithPing(entry[k], k, delivered') = entry[k]
        BY <2>1, <4>1, WithPingIs
      <4>4. QED
        BY <1>1, <3>1, <4>2, <4>3
    <3>3. QED
      BY <1>3, <1>4, <2>1, <3>1, <3>2
  <2>4. CASE Kind \in {"stats", "series"}
    <3>1. /\ Invalidate
          /\ excused' = excused \cup {k \in {shown} : Outdated(delivered') /\ ~entry[k].loaded}
      BY <1>10, <2>4, LivePingIs
    <3>2. shown # NoKey
      BY <1>1, <2>2, <2>4
    <3>3. Sane(entry')
      BY <1>1, <3>1, InvalidateIs
    <3>4. excused' \subseteq Key
      BY <1>1, <3>1, <3>2
    <3>5. QED
      BY <1>3, <2>1, <3>2, <3>3, <3>4
  <2>5. CASE Kind = "detail"
    <3>1. UNCHANGED <<entry, excused, phase>>
      BY <1>10, <2>5, LivePingIs DEF fetchVars
    <3>2. QED
      BY <1>1, <1>3, <1>4, <2>1, <3>1
  <2>6. QED
    BY <1>10, <2>3, <2>4, <2>5, LivePingIs
<1>11. CASE StreamReopens
  <2>1. /\ Invalidate /\ shown' = shown
        /\ excused' = excused \cup {k \in {shown} \ {NoKey} : Outdated(delivered) /\ ~entry[k].loaded}
    BY <1>11, Zenon DEF StreamReopens
  <2>2. Sane(entry') /\ (shown = NoKey => phase' = phase)
    BY <1>1, <2>1, InvalidateIs
  <2>3. QED
    BY <1>1, <1>3, <1>4, <2>1, <2>2
<1>12. CASE IntervalEnds \/ RetryIsClicked
  <2>1. Refetch(entry) /\ UNCHANGED <<shown, excused>>
    BY <1>12, Zenon DEF IntervalEnds, RetryIsClicked
  <2>2. Sane(entry') /\ (shown = NoKey => phase' = phase)
    BY <1>1, <2>1, RefetchIs DEF Alike
  <2>3. QED
    BY <1>1, <1>3, <1>4, <2>1, <2>2
<1>13. ASSUME NEW k \in Key \cup {NoKey}, Show(k)
       PROVE  Cache'
  <2>1. /\ shown' = k /\ entry' \in [Key -> Entry] /\ excused' = excused
        /\ \A j \in Key : Alike(entry'[j], entry[j])
        /\ k = NoKey => Kind = "detail" /\ phase' = "settled"
    BY <1>13, ShowIs
  <2>2. Sane(entry')
    BY <1>1, <2>1 DEF Alike
  <2>3. shown' = NoKey => Kind' = "detail" /\ ~Fetching'
    BY <1>2, <2>1 DEF Fetching
  <2>4. QED
    BY <1>1, <2>1, <2>2, <2>3 DEF Cache
<1>14. ASSUME NEW k \in Key, GrowsOld(k)
       PROVE  Cache'
  <2>1. /\ entry[k].loaded /\ entry' = [entry EXCEPT ![k].old = TRUE]
        /\ UNCHANGED <<shown, excused, phase>>
    BY <1>14, Zenon DEF GrowsOld, fetchVars
  <2>2. entry[k] \in Entry
    BY <1>1
  <2>3. [entry[k] EXCEPT !.old = TRUE] \in Entry /\ [entry[k] EXCEPT !.old = TRUE].loaded
    <3>1. /\ [entry[k] EXCEPT !.old = TRUE] \in Entry
          /\ [entry[k] EXCEPT !.old = TRUE].loaded = entry[k].loaded
      BY <2>2, EntryExcept
    <3>2. QED
      BY <2>1, <3>1, Zenon
  <2>4. entry' = [entry EXCEPT ![k] = [entry[k] EXCEPT !.old = TRUE]]
    BY <2>1, Zenon
  <2>5. Sane(entry')
    BY <1>1, <2>3, <2>4
  <2>6. QED
    BY <1>1, <1>3, <1>4, <2>1, <2>5
<1>15. ASSUME NEW k \in Key, IsCollected(k)
       PROVE  Cache'
  <2>1. /\ entry' = [entry EXCEPT ![k] = Empty] /\ excused' = excused \ {k}
        /\ UNCHANGED <<shown, phase>>
    BY <1>15, Zenon DEF IsCollected, fetchVars
  <2>2. Sane(entry')
    BY <1>1, <2>1, EmptyIs
  <2>3. QED
    BY <1>1, <1>3, <1>4, <2>1, <2>2
<1>16. CASE OtherCall
  <2>1. ~ByWeb /\ UNCHANGED <<shown, entry, excused>>
    BY <1>16, Zenon DEF OtherCall, TakenByOther, pageVars
  <2>2. QED
    BY <1>1, <1>3, <2>1
<1>17. CASE LoadOlder
  <2>1. /\ Kind = "list" /\ shown \in Key /\ UNCHANGED <<shown, entry>>
        /\ excused' = excused \/ excused' = excused \cup {shown}
    BY <1>17, KeyAssumption DEF LoadOlder
  <2>2. excused' \subseteq Key /\ Sane(entry') /\ shown # NoKey
    BY <1>1, <2>1, KeyAssumption
  <2>3. QED
    BY <1>3, <2>1, <2>2
<1>18. QED
  BY <1>5, <1>6, <1>7, <1>8, <1>9, <1>10, <1>11, <1>12, <1>13, <1>14, <1>15, <1>16, <1>17,
     Zenon DEF QueryNext, FetchStep
-----------------------------------------------------------------------------
(* What the queries hold.                                                  *)

Kept(e, f) == f.loaded = e.loaded /\ f.data = e.data /\ (f.marked = e.marked \/ f.marked)

(* Only these steps change what a query holds or what excuses it.          *)
LEMMA Moves ==
    ASSUME Cache, Counts, PingsAreShown, [QueryNext]_queryVars
    PROVE  \/ LivePing \/ EventIsLost \/ StreamReopens
           \/ (Load /\ ByWeb) \/ \E k \in Key : IsCollected(k)
           \/ /\ \A k \in Key : Kept(entry[k], entry'[k])
              /\ UNCHANGED <<delivered, gap>> /\ excused \subseteq excused'
<1>1. entry \in [Key -> Entry] /\ shown \in Key \cup {NoKey}
  BY DEF Cache
<1>2. entry' = entry => \A k \in Key : Kept(entry[k], entry'[k])
  BY DEF Kept
<1>3. CASE Answer \/ RetryDelayEnds \/ PingIsRecorded \/ OtherCall \/ UNCHANGED queryVars
  <2>1. UNCHANGED <<entry, delivered, gap, excused>>
    BY <1>3, Zenon DEF Answer, RetryDelayEnds, PingIsRecorded, OtherCall, serverVars, pageVars,
       queryVars
  <2>2. QED
    BY <1>2, <2>1
<1>4. CASE AttemptFails /\ ByWeb
  <2>1. UNCHANGED <<delivered, gap, excused>>
    BY <1>4, AttemptFailsIs
  <2>2. \A k \in Key : entry'[k] = entry[k] \/ entry'[k] = Errored(entry[k])
    BY <1>4, AttemptFailsIs
  <2>3. \A k \in Key : entry[k] \in Entry
    BY <1>1
  <2>4. \A k \in Key : Kept(entry[k], entry'[k])
    BY <2>2, <2>3, ErroredIs DEF Kept
  <2>5. QED
    BY <2>1, <2>4
<1>5. CASE IntervalEnds \/ RetryIsClicked
  <2>1. Refetch(entry) /\ UNCHANGED <<delivered, gap, excused>>
    BY <1>5, Zenon DEF IntervalEnds, RetryIsClicked, serverVars
  <2>2. \A k \in Key : Alike(entry'[k], entry[k])
    BY <1>1, <2>1, RefetchIs
  <2>3. QED
    BY <2>1, <2>2 DEF Alike, Kept
<1>6. ASSUME NEW k \in Key \cup {NoKey}, Show(k)
      PROVE  (\A j \in Key : Kept(entry[j], entry'[j])) /\ UNCHANGED <<delivered, gap, excused>>
  <2>1. /\ \A j \in Key : Alike(entry'[j], entry[j])
        /\ UNCHANGED <<delivered, gap, excused>>
    BY <1>6, ShowIs
  <2>2. QED
    BY <2>1 DEF Alike, Kept
<1>7. ASSUME NEW k \in Key, GrowsOld(k)
      PROVE  (\A j \in Key : Kept(entry[j], entry'[j])) /\ UNCHANGED <<delivered, gap, excused>>
  <2>1. /\ entry' = [entry EXCEPT ![k] = [entry[k] EXCEPT !.old = TRUE]]
        /\ UNCHANGED <<delivered, gap, excused>>
    BY <1>7, Zenon DEF GrowsOld, serverVars
  <2>2. entry[k] \in Entry
    BY <1>1
  <2>3. Kept(entry[k], [entry[k] EXCEPT !.old = TRUE])
    BY <2>2, EntryExcept DEF Kept
  <2>4. \A j \in Key : entry'[j] = IF j = k THEN [entry[k] EXCEPT !.old = TRUE] ELSE entry[j]
    BY <1>1, <2>1
  <2>5. QED
    BY <2>1, <2>3, <2>4 DEF Kept
<1>8. CASE LoadOlder
  <2>1. UNCHANGED <<entry, delivered, gap>>
    BY <1>8, Zenon DEF LoadOlder, serverVars
  <2>2. excused \subseteq excused'
    BY <1>8 DEF LoadOlder
  <2>3. QED
    BY <1>2, <2>1, <2>2
<1>9. excused' = excused => excused \subseteq excused'
  OBVIOUS
<1>10. QED
  BY <1>3, <1>4, <1>5, <1>6, <1>7, <1>8, <1>9, Zenon DEF QueryNext, FetchStep

(* A query holds pings that are recorded and belong to it; all but a list  *)
(* hold no more than was read.                                             *)
Known ==
    \A k \in Key : \A p \in entry[k].data :
        /\ Kind # "detail" /\ p \in 1..recorded /\ BelongsTo(p, k)
        /\ Kind # "list" => p <= carried

LEMMA KnownKept ==
    ASSUME Cache, Counts, Extending, PingsAreShown, Known, [QueryNext]_queryVars
    PROVE  Known'
<1>1. Kind' = Kind /\ \A p, k : BelongsTo(p, k)' <=> BelongsTo(p, k)
  <2>1. Kind' = Kind
    BY RequestStays
  <2>2. QED
    BY <2>1, Zenon DEF BelongsTo
<1>2. /\ recorded \in Nat /\ recorded' \in Nat /\ recorded <= recorded'
      /\ carried \in Nat /\ carried' \in Nat /\ carried <= carried' /\ carried <= recorded
      /\ delivered \in Nat /\ delivered <= recorded /\ recorded <= MaxPings
  <2>1. recorded' = recorded \/ recorded' = recorded + 1
    BY Zenon DEF QueryNext, FetchStep, Answer, Load, AttemptFails, RetryDelayEnds, PingIsRecorded,
       LivePing, EventIsLost, StreamReopens, IntervalEnds, RetryIsClicked, LoadOlder, Show, GrowsOld,
       IsCollected, OtherCall, serverVars, pageVars, queryVars
  <2>2. carried' = carried \/ carried' = recorded
    BY CarriedMoves
  <2>3. QED
    BY <2>1, <2>2, PageBoundsAssumption DEF Counts
<1>3. ASSUME \A k \in Key : entry'[k].data \subseteq entry[k].data
      PROVE  Known'
  BY <1>1, <1>2, <1>3 DEF Known
<1>4. CASE LivePing
  <2>1. CASE Kind = "list"
    <3>1. delivered' = delivered + 1 /\ delivered < recorded /\ recorded' = recorded
      BY <1>4, Zenon DEF LivePing
    <3>2. delivered' \in Ping /\ delivered' \in 1..recorded'
      BY <1>2, <3>1, PageBoundsAssumption DEF Ping
    <3>3. \A k \in Key : entry'[k] = WithPing(entry[k], k, delivered')
      BY <1>4, <2>1, LivePingIs
    <3>4. ASSUME NEW k \in Key, NEW p \in entry'[k].data
          PROVE  p \in entry[k].data \/ (p = delivered' /\ Matches(p, k))
      <4>1. entry[k] \in Entry
        BY DEF Cache
      <4>2. CASE entry[k].loaded /\ Matches(delivered', k)
        BY <3>2, <3>3, <3>4, <4>1, <4>2, WithPingIs
      <4>3. CASE ~(entry[k].loaded /\ Matches(delivered', k))
        BY <3>2, <3>3, <3>4, <4>1, <4>3, WithPingIs
      <4>4. QED
        BY <4>2, <4>3
    <3>5. QED
      BY <1>1, <1>2, <2>1, <3>1, <3>2, <3>4 DEF Known, BelongsTo
  <2>2. CASE Kind \in {"stats", "series"}
    BY <1>3, <1>4, <2>2, LivePingIs, InvalidateIs DEF Cache
  <2>3. CASE Kind = "detail"
    BY <1>3, <1>4, <2>3, LivePingIs
  <2>4. QED
    BY <1>4, <2>1, <2>2, <2>3, LivePingIs
<1>5. CASE EventIsLost
  BY <1>3, <1>5 DEF EventIsLost
<1>6. CASE StreamReopens
  BY <1>3, <1>6, InvalidateIs DEF StreamReopens, Cache
<1>7. CASE Load /\ ByWeb
  <2>1. /\ carried' = carried /\ recorded' = recorded /\ shown \in Key
        /\ entry'[shown].data = ReadPages
        /\ \A k \in Key : k # shown => entry'[k] = entry[k]
    BY <1>7, LoadIs
  <2>2. carried \in 0..MaxPings
    BY <1>2, PageBoundsAssumption
  <2>3. \A p \in Contents(shown, carried) :
           Kind # "detail" /\ p \in 1..carried /\ BelongsTo(p, shown)
    BY <1>7, <2>2, ContentsIs
  <2>4. \A p \in 1..carried : p \in 1..recorded /\ p <= carried
    BY <1>2
  <2>5. ReadPages = Contents(shown, carried) \/ ReadPages \subseteq entry[shown].data
    BY Zenon DEF ReadPages, Extending
  <2>6. ASSUME NEW k \in Key, NEW p \in entry'[k].data
        PROVE  /\ Kind # "detail" /\ p \in 1..recorded /\ BelongsTo(p, k)
               /\ Kind # "list" => p <= carried
    <3>1. p \in entry[k].data \/ (k = shown /\ p \in Contents(shown, carried))
      BY <2>1, <2>5, <2>6
    <3>2. CASE p \in entry[k].data
      BY <2>6, <3>2 DEF Known
    <3>3. CASE k = shown /\ p \in Contents(shown, carried)
      BY <2>3, <2>4, <3>3
    <3>4. QED
      BY <3>1, <3>2, <3>3
  <2>7. QED
    BY <1>1, <2>1, <2>6 DEF Known
<1>8. ASSUME NEW k \in Key, IsCollected(k)
      PROVE  Known'
  <2>1. entry' = [entry EXCEPT ![k] = Empty] /\ entry \in [Key -> Entry]
    BY <1>8 DEF IsCollected, Cache
  <2>2. \A j \in Key : entry'[j].data \subseteq entry[j].data
    BY <2>1, EmptyIs
  <2>3. QED
    BY <1>3, <2>2
<1>9. CASE \A k \in Key : Kept(entry[k], entry'[k])
  BY <1>3, <1>9 DEF Kept
<1>10. QED
  BY <1>4, <1>5, <1>6, <1>7, <1>8, <1>9, Moves
-----------------------------------------------------------------------------
(* What is on the screen.                                                  *)

PanelsOnly == shown # NoKey => ByWeb

LEMMA PanelsOnlyKept ==
    ASSUME PanelsOnly, PingsAreShown, [QueryNext]_queryVars
    PROVE  PanelsOnly'
<1>1. ByWeb' <=> ByWeb
  BY RequestStays
<1>2. shown' = shown \/ ByWeb
  BY Zenon DEF QueryNext, FetchStep, Answer, Load, AttemptFails, RetryDelayEnds, PingIsRecorded,
     LivePing, EventIsLost, StreamReopens, IntervalEnds, RetryIsClicked, LoadOlder, Show, GrowsOld,
     IsCollected, OtherCall, pageVars, queryVars
<1>3. QED
  BY <1>1, <1>2, Zenon DEF PanelsOnly

LEMMA PanelIs ==
    ASSUME NEW e, NEW contents \in {"data", "EmptyState"}
    PROVE  /\ Panel(e, contents) \cap {"data", "EmptyState"} # {} <=> e.loaded
           /\ e.failed /\ ~older => Panel(e, contents) \cap {"RefreshError", "ErrorState"} # {}
<1>1. CASE ~e.loaded
  BY <1>1 DEF Panel
<1>2. CASE e.loaded
  <2>1. Panel(e, contents) = {contents} \cup Notice(e)
    BY <1>2, Zenon DEF Panel
  <2>2. e.failed /\ ~older => Notice(e) = {"RefreshError"}
    BY Zenon DEF Notice
  <2>3. QED
    BY <1>2, <2>1, <2>2
<1>3. QED
  BY <1>1, <1>2

LEMMA ScreenIs ==
    ASSUME shown \in Key, ByWeb
    PROVE  /\ ShowsData <=> entry[shown].loaded
           /\ Kind # "detail" /\ entry[shown].failed /\ ~older
                 => OnScreen \cap {"RefreshError", "ErrorState"} # {}
<1>1. OnScreen = Parts(entry[shown])
  BY KeyAssumption DEF OnScreen
<1>2. CASE Kind \in {"list", "stats", "series"}
  <2>1. PICK contents \in {"data", "EmptyState"} : OnScreen = Panel(entry[shown], contents)
    BY <1>1, <1>2 DEF Parts, PingTable, StatsCards, ResponseTimeChart
  <2>2. QED
    BY <2>1, PanelIs DEF ShowsData
<1>3. CASE Kind = "detail"
  BY <1>1, <1>3 DEF Parts, PingDetailDrawer, ShowsData
<1>4. QED
  BY <1>2, <1>3 DEF ByWeb, WebRoute, Kind

LEMMA DataOnScreen == shown \in Key /\ ByWeb => (ShowsData <=> entry[shown].loaded)
  BY ScreenIs

LEMMA NothingOnScreen ==
    ASSUME shown = NoKey
    PROVE  ~ShowsData
  BY DEF ShowsData, OnScreen

LEMMA DataStays ==
    ASSUME Cache, Counts, Extending, PingsAreShown, Known, PanelsOnly, [QueryNext]_queryVars,
           ShowsData, shown' = shown
    PROVE  ShowsData' /\ (Kind = "list" \/ entry[shown].data \subseteq entry'[shown].data)
<1>1. shown \in Key /\ ByWeb /\ ByWeb'
  <2>1. shown # NoKey
    BY NothingOnScreen
  <2>2. QED
    BY <2>1, RequestStays DEF Cache, PanelsOnly
<1>2. entry[shown].loaded /\ entry[shown] \in Entry
  BY <1>1, ScreenIs DEF Cache
<1>3. ASSUME entry'[shown].loaded, Kind = "list" \/ entry[shown].data \subseteq entry'[shown].data
      PROVE  ShowsData' /\ (Kind = "list" \/ entry[shown].data \subseteq entry'[shown].data)
  <2>1. shown' \in Key /\ entry'[shown'].loaded
    BY <1>1, <1>3
  <2>2. (shown \in Key /\ ByWeb => (ShowsData <=> entry[shown].loaded))'
    BY DataOnScreen, PTL
  <2>3. QED
    BY <1>1, <1>3, <2>1, <2>2
<1>4. CASE LivePing
  <2>1. CASE Kind = "list"
    <3>1. entry'[shown] = WithPing(entry[shown], shown, delivered')
      BY <1>1, <1>4, <2>1, LivePingIs
    <3>2. delivered' \in Ping
      <4>1. delivered' = delivered + 1 /\ delivered < recorded
        BY <1>4, Zenon DEF LivePing
      <4>2. QED
        BY <4>1, PageBoundsAssumption DEF Counts, Ping
    <3>3. WithPing(entry[shown], shown, delivered').loaded = entry[shown].loaded
      BY <1>2, <3>2, WithPingIs
    <3>4. QED
      BY <1>2, <1>3, <2>1, <3>1, <3>3, Zenon
  <2>2. CASE Kind \in {"stats", "series"}
    <3>1. entry'[shown].loaded = entry[shown].loaded /\ entry'[shown].data = entry[shown].data
      BY <1>1, <1>4, <2>2, LivePingIs, InvalidateIs DEF Cache
    <3>2. QED
      BY <1>2, <1>3, <3>1
  <2>3. CASE Kind = "detail"
    BY <1>2, <1>3, <1>4, <2>3, LivePingIs
  <2>4. QED
    BY <1>4, <2>1, <2>2, <2>3, LivePingIs
<1>5. CASE EventIsLost
  BY <1>2, <1>3, <1>5 DEF EventIsLost
<1>6. CASE StreamReopens
  <2>1. entry'[shown].loaded = entry[shown].loaded /\ entry'[shown].data = entry[shown].data
    BY <1>1, <1>6, InvalidateIs DEF StreamReopens, Cache
  <2>2. QED
    BY <1>2, <1>3, <2>1
<1>7. CASE Load /\ ByWeb
  <2>1. /\ entry'[shown].loaded
        /\ Kind # "list" => entry'[shown].data = Contents(shown, carried)
    <3>1. Kind # "list" => ReadPages = Contents(shown, carried)
      BY Zenon DEF ReadPages, Extending
    <3>2. QED
      BY <1>7, <3>1, LoadIs
  <2>2. carried \in Nat /\ carried \in 0..MaxPings /\ recorded \in Nat
    BY PageBoundsAssumption DEF Counts
  <2>3. Kind # "list" => entry[shown].data \subseteq Contents(shown, carried)
    <3>1. SUFFICES ASSUME Kind # "list", NEW q \in entry[shown].data
                   PROVE  q \in Contents(shown, carried)
      OBVIOUS
    <3>2. Kind # "detail" /\ q \in 1..recorded /\ BelongsTo(q, shown) /\ q <= carried
      BY <1>1, <3>1 DEF Known
    <3>3. q \in 1..carried
      BY <2>2, <3>2
    <3>4. QED
      BY <1>1, <2>2, <3>2, <3>3, ContentsIs
  <2>4. QED
    BY <1>3, <2>1, <2>3
<1>8. ASSUME NEW k \in Key, IsCollected(k)
      PROVE  entry'[shown] = entry[shown]
  BY <1>1, <1>8 DEF IsCollected, Cache
<1>9. CASE \A k \in Key : Kept(entry[k], entry'[k])
  BY <1>1, <1>2, <1>3, <1>9 DEF Kept
<1>10. QED
  BY <1>2, <1>3, <1>4, <1>5, <1>6, <1>7, <1>8, <1>9, Moves
-----------------------------------------------------------------------------
(* What a panel may miss.                                                  *)

(* A panel at rest has data or an error, and an error if it is marked.     *)
Resting ==
    shown \in Key /\ phase = "settled" =>
        /\ entry[shown].loaded \/ entry[shown].failed
        /\ entry[shown].marked => entry[shown].failed

LEMMA RestingKept ==
    ASSUME Cache, Counts, Extending, PingsAreShown, PanelsOnly, Resting, [QueryNext]_queryVars
    PROVE  Resting'
<1>1. entry \in [Key -> Entry] /\ shown \in Key \cup {NoKey} /\ NoKey \notin Key
  BY KeyAssumption DEF Cache
<1>2. ASSUME UNCHANGED <<shown, phase>>, entry' = entry
      PROVE  Resting'
  BY <1>2 DEF Resting
<1>3. ASSUME shown' \in Key => phase' # "settled"
      PROVE  Resting'
  BY <1>3 DEF Resting
<1>4. CASE Answer \/ RetryDelayEnds
  BY <1>3, <1>4 DEF Answer, RetryDelayEnds, Answered, AskAgain
<1>5. CASE Load /\ ByWeb
  BY <1>5, LoadIs DEF Resting
<1>6. CASE AttemptFails /\ ByWeb
  <2>1. shown \in Key /\ shown' = shown /\ (phase' = "settled" => entry'[shown] = Errored(entry[shown]))
    BY <1>6, AttemptFailsIs
  <2>2. Errored(entry[shown]).failed
    BY <1>1, <2>1, ErroredIs
  <2>3. phase' = "settled" => entry'[shown].failed
    BY <2>1, <2>2
  <2>4. QED
    BY <2>1, <2>3 DEF Resting
<1>7. CASE PingIsRecorded \/ EventIsLost \/ UNCHANGED queryVars
  BY <1>2, <1>7, Zenon DEF PingIsRecorded, EventIsLost, fetchVars, queryVars
<1>8. CASE LivePing
  <2>1. CASE Kind = "list"
    <3>1. /\ UNCHANGED <<shown, phase>>
          /\ entry' = [k \in Key |-> WithPing(entry[k], k, delivered')]
      BY <1>8, <2>1, LivePingIs DEF fetchVars, LivePing
    <3>2. delivered' \in Ping
      <4>1. delivered' = delivered + 1 /\ delivered < recorded
        BY <1>8, Zenon DEF LivePing
      <4>2. QED
        BY <4>1, PageBoundsAssumption DEF Counts, Ping
    <3>3. CASE shown \in Key /\ entry[shown].loaded /\ Matches(delivered', shown)
      <4>1. entry'[shown] = WithPing(entry[shown], shown, delivered') /\ entry[shown] \in Entry
        BY <1>1, <3>1, <3>3
      <4>2. /\ WithPing(entry[shown], shown, delivered').loaded = entry[shown].loaded
            /\ ~WithPing(entry[shown], shown, delivered').marked
        BY <3>2, <3>3, <4>1, WithPingIs
      <4>3. entry'[shown].loaded /\ ~entry'[shown].marked
        BY <3>3, <4>1, <4>2, Zenon
      <4>4. QED
        BY <3>1, <4>3 DEF Resting
    <3>4. CASE ~(shown \in Key /\ entry[shown].loaded /\ Matches(delivered', shown))
      <4>1. shown \in Key => entry'[shown] = entry[shown]
        BY <1>1, <3>1, <3>2, <3>4, WithPingIs
      <4>2. QED
        BY <3>1, <4>1 DEF Resting
    <3>5. QED
      BY <3>3, <3>4
  <2>2. CASE Kind \in {"stats", "series"}
    <3>1. Invalidate /\ shown' = shown
      BY <1>8, <2>2, LivePingIs, Zenon DEF LivePing
    <3>2. QED
      BY <1>1, <1>3, <3>1, InvalidateIs
  <2>3. CASE Kind = "detail"
    <3>1. UNCHANGED <<shown, phase, entry>>
      BY <1>8, <2>3, LivePingIs DEF fetchVars, LivePing
    <3>2. QED
      BY <1>2, <3>1
  <2>4. QED
    BY <1>8, <2>1, <2>2, <2>3, LivePingIs
<1>9. CASE StreamReopens
  <2>1. Invalidate /\ shown' = shown
    BY <1>9, Zenon DEF StreamReopens
  <2>2. QED
    BY <1>1, <1>3, <2>1, InvalidateIs
<1>10. CASE IntervalEnds \/ RetryIsClicked
  <2>1. Refetch(entry) /\ shown' = shown
    BY <1>10, Zenon DEF IntervalEnds, RetryIsClicked
  <2>2. QED
    BY <1>1, <1>3, <2>1, RefetchIs
<1>11. ASSUME NEW k \in Key \cup {NoKey}, Show(k)
       PROVE  Resting'
  <2>1. /\ shown' = k
        /\ \/ phase' = "asked"
           \/ phase' = "settled" /\ (k # NoKey => entry'[k].loaded /\ ~entry'[k].marked)
    BY <1>11, ShowIs
  <2>2. k \in Key => k # NoKey
    BY <1>1
  <2>3. QED
    BY <2>1, <2>2 DEF Resting
<1>12. ASSUME NEW k \in Key, GrowsOld(k)
       PROVE  Resting'
  <2>1. /\ entry' = [entry EXCEPT ![k] = [entry[k] EXCEPT !.old = TRUE]]
        /\ UNCHANGED <<shown, phase>>
    BY <1>12, Zenon DEF GrowsOld, fetchVars
  <2>2. entry[k] \in Entry
    BY <1>1
  <2>3. LET e == [entry[k] EXCEPT !.old = TRUE] IN
          e.loaded = entry[k].loaded /\ e.marked = entry[k].marked /\ e.failed = entry[k].failed
    BY <2>2, EntryExcept
  <2>4. \A j \in Key : /\ entry'[j].loaded = entry[j].loaded
                      /\ entry'[j].marked = entry[j].marked
                      /\ entry'[j].failed = entry[j].failed
    BY <1>1, <2>1, <2>3
  <2>5. QED
    BY <2>1, <2>4 DEF Resting
<1>13. ASSUME NEW k \in Key, IsCollected(k)
       PROVE  Resting'
  <2>1. /\ k # shown /\ entry' = [entry EXCEPT ![k] = Empty] /\ UNCHANGED <<shown, phase>>
    BY <1>13, Zenon DEF IsCollected, fetchVars
  <2>2. shown \in Key => entry'[shown] = entry[shown]
    BY <1>1, <2>1
  <2>3. QED
    BY <2>1, <2>2 DEF Resting
<1>14. CASE OtherCall
  <2>1. ~ByWeb /\ shown' = shown
    BY <1>14, Zenon DEF OtherCall, TakenByOther, pageVars
  <2>2. shown' = NoKey
    BY <2>1, Zenon DEF PanelsOnly
  <2>3. QED
    BY <1>1, <1>3, <2>2
<1>15. CASE LoadOlder
  <2>1. phase' = "asked"
    BY <1>15, Zenon DEF LoadOlder, AskFor
  <2>2. QED
    BY <1>3, <2>1
<1>16. QED
  BY <1>4, <1>5, <1>6, <1>7, <1>8, <1>9, <1>10, <1>11, <1>12, <1>13, <1>14, <1>15, Zenon
     DEF QueryNext, FetchStep

(* An answer of the first page that is being read is older than an event   *)
(* only if the stream lost one or the panel is excused.                    *)
ReadingFirstPage == ~older /\ phase = "reading" /\ response[1].shape = "data"

Underway ==
    ReadingFirstPage /\ shown \in Key /\ Kind # "detail" =>
        \/ \A p \in (carried + 1)..delivered : ~BelongsTo(p, shown)
        \/ gap \/ shown \in excused

LEMMA UnderwayKept ==
    ASSUME Cache, Counts, Extending, PingsAreShown, PanelsOnly, Underway,
           [QueryNext]_queryVars
    PROVE  Underway'
<1>1. entry \in [Key -> Entry] /\ shown \in Key \cup {NoKey} /\ NoKey \notin Key
  BY KeyAssumption DEF Cache
<1>2. Kind' = Kind /\ \A p, k : BelongsTo(p, k)' <=> BelongsTo(p, k)
  <2>1. Kind' = Kind
    BY RequestStays
  <2>2. QED
    BY <2>1, Zenon DEF BelongsTo
<1>3. recorded \in Nat /\ delivered \in Nat /\ carried \in Nat /\ delivered <= recorded
  BY DEF Counts
<1>4. ASSUME phase' # "reading" \/ shown' \notin Key
      PROVE  Underway'
  BY <1>4 DEF Underway, ReadingFirstPage
<1>5. ASSUME ReadingFirstPage' => ReadingFirstPage, UNCHANGED <<shown, carried, delivered, gap>>,
             shown \in excused => shown \in excused'
      PROVE  Underway'
  BY <1>2, <1>5 DEF Underway
<1>0. UNCHANGED fetchVars =>
          (ReadingFirstPage' <=> ReadingFirstPage) /\ UNCHANGED <<phase, response, carried>>
  <2>1. UNCHANGED fetchVars => UNCHANGED <<phase, response, carried, older>>
    BY DEF fetchVars
  <2>2. ASSUME UNCHANGED <<phase, response, carried, older>>
        PROVE  ReadingFirstPage' <=> ReadingFirstPage
    <3>1. phase' = phase /\ response' = response /\ older' = older
      BY <2>2
    <3>2. older' <=> older
      BY <3>1
    <3>3. QED
      BY <3>1, <3>2, Zenon DEF ReadingFirstPage
  <2>3. QED
    BY <2>1, <2>2
<1>6. CASE Answer
  <2>1. /\ UNCHANGED <<recorded, delivered>>
        /\ ReadingFirstPage' => carried' = recorded
    BY <1>6, Zenon DEF Answer, serverVars, ReadingFirstPage
  <2>2. ReadingFirstPage' => (carried' + 1)..delivered' = {}
    BY <1>3, <2>1
  <2>3. QED
    BY <2>2 DEF Underway
<1>7. CASE ((Load \/ AttemptFails) /\ ByWeb) \/ RetryDelayEnds
  BY <1>4, <1>7, LoadIs, AttemptFailsIs DEF RetryDelayEnds, AskAgain
<1>8. CASE PingIsRecorded \/ UNCHANGED queryVars
  <2>1. UNCHANGED <<shown, delivered, gap, excused>> /\ UNCHANGED fetchVars
    BY <1>8, Zenon DEF PingIsRecorded, fetchVars, queryVars
  <2>2. QED
    BY <1>5, <1>0, <2>1
<1>9. CASE EventIsLost
  <2>1. gap'
    BY <1>9, Zenon DEF EventIsLost
  <2>2. QED
    BY <2>1, Zenon DEF Underway
<1>10. CASE LivePing
  <2>1. /\ shown' = shown /\ gap' = gap /\ delivered' = delivered + 1
    BY <1>10, Zenon DEF LivePing
  <2>2. CASE Kind = "list"
    <3>0. UNCHANGED fetchVars
      BY <1>10, <2>2, LivePingIs
    <3>1. /\ (ReadingFirstPage' <=> ReadingFirstPage) /\ carried' = carried
          /\ excused' = excused \cup {k \in Key : Matches(delivered', k) /\
                ((entry[k].loaded /\ entry[k].marked) \/ (k = shown /\ Outdated(delivered')))}
      BY <1>10, <1>0, <2>2, <3>0, LivePingIs
    <3>2. SUFFICES ASSUME ReadingFirstPage, shown \in Key, ~gap, shown \notin excused'
                   PROVE  \A p \in (carried + 1)..delivered' : ~BelongsTo(p, shown)
      BY <1>2, <2>1, <3>1 DEF Underway
    <3>3. \A p \in (carried + 1)..delivered : ~BelongsTo(p, shown)
      BY <2>2, <3>1, <3>2 DEF Underway
    <3>4. ~(Matches(delivered', shown) /\ Outdated(delivered'))
      BY <3>1, <3>2
    <3>5. carried < delivered' => ~Matches(delivered', shown)
      BY <3>2, <3>4, Zenon DEF Outdated, ReadingFirstPage
    <3>6. \A p \in (carried + 1)..delivered' :
             p \in (carried + 1)..delivered \/ (p = delivered' /\ carried < delivered')
      BY <1>3, <2>1
    <3>7. QED
      BY <2>2, <3>3, <3>5, <3>6 DEF BelongsTo
  <2>3. CASE Kind \in {"stats", "series"}
    <3>1. /\ Invalidate
          /\ excused' = excused \cup {k \in {shown} : Outdated(delivered') /\ ~entry[k].loaded}
      BY <1>10, <2>3, LivePingIs
    <3>2. CASE phase' = "asked" \/ shown \notin Key
      BY <1>4, <2>1, <3>2
    <3>3. CASE phase' # "asked" /\ shown \in Key
      <4>0. UNCHANGED fetchVars /\ ~entry[shown].loaded
        BY <1>1, <3>1, <3>3, InvalidateIs
      <4>1. (ReadingFirstPage' <=> ReadingFirstPage) /\ carried' = carried /\ ~entry[shown].loaded
        BY <1>0, <4>0, Zenon
      <4>2. SUFFICES ASSUME ReadingFirstPage, shown \notin excused'
                     PROVE  (carried + 1)..delivered' = {}
        BY <2>1, <4>1 DEF Underway
      <4>3. ~Outdated(delivered')
        BY <3>1, <4>1, <4>2
      <4>4. ~(carried < delivered')
        BY <4>2, <4>3, Zenon DEF Outdated, ReadingFirstPage
      <4>5. QED
        BY <1>3, <2>1, <4>1, <4>4
    <3>4. QED
      BY <3>2, <3>3
  <2>4. CASE Kind = "detail"
    BY <1>2, <2>4 DEF Underway
  <2>5. QED
    BY <1>10, <2>2, <2>3, <2>4, LivePingIs
<1>11. CASE StreamReopens
  <2>1. /\ Invalidate /\ shown' = shown /\ delivered' = delivered
        /\ excused' = excused \cup {k \in {shown} \ {NoKey} : Outdated(delivered) /\ ~entry[k].loaded}
    BY <1>11, Zenon DEF StreamReopens
  <2>2. CASE phase' = "asked" \/ shown \notin Key
    BY <1>4, <2>1, <2>2
  <2>3. CASE phase' # "asked" /\ shown \in Key
    <3>0. UNCHANGED fetchVars /\ ~entry[shown].loaded
      BY <1>1, <2>1, <2>3, InvalidateIs
    <3>1. (ReadingFirstPage' <=> ReadingFirstPage) /\ carried' = carried /\ ~entry[shown].loaded
      BY <1>0, <3>0, Zenon
    <3>2. SUFFICES ASSUME ReadingFirstPage, shown \notin excused'
                   PROVE  (carried + 1)..delivered' = {}
      BY <2>1, <3>1 DEF Underway
    <3>3. ~Outdated(delivered)
      BY <1>1, <2>1, <2>3, <3>1, <3>2
    <3>4. ~(carried < delivered)
      BY <3>2, <3>3, Zenon DEF Outdated, ReadingFirstPage
    <3>5. QED
      BY <1>3, <2>1, <3>1, <3>4
  <2>4. QED
    BY <2>2, <2>3
<1>12. CASE IntervalEnds \/ RetryIsClicked
  <2>1. Refetch(entry) /\ UNCHANGED <<shown, excused, delivered, gap>>
    BY <1>12, Zenon DEF IntervalEnds, RetryIsClicked, serverVars
  <2>2. phase' = "asked" \/ UNCHANGED fetchVars
    BY <1>1, <2>1, RefetchIs
  <2>3. QED
    BY <1>4, <1>5, <1>0, <2>1, <2>2
<1>13. ASSUME NEW k \in Key \cup {NoKey}, Show(k)
       PROVE  Underway'
  BY <1>4, <1>13, ShowIs
<1>14. ASSUME NEW k \in Key, GrowsOld(k) \/ IsCollected(k)
       PROVE  Underway'
  <2>1. UNCHANGED <<shown, delivered, gap>> /\ UNCHANGED fetchVars
    BY <1>14, Zenon DEF GrowsOld, IsCollected, serverVars
  <2>2. shown \in excused => shown \in excused'
    BY <1>14 DEF GrowsOld, IsCollected
  <2>3. QED
    BY <1>5, <1>0, <2>1, <2>2
<1>15. CASE OtherCall
  <2>1. ~ByWeb /\ shown' = shown
    BY <1>15, Zenon DEF OtherCall, TakenByOther, pageVars
  <2>2. shown' = NoKey
    BY <2>1, Zenon DEF PanelsOnly
  <2>3. QED
    BY <1>1, <1>4, <2>2
<1>16. CASE LoadOlder
  <2>1. phase' = "asked"
    BY <1>16, Zenon DEF LoadOlder, AskFor
  <2>2. QED
    BY <1>4, <2>1
<1>17. QED
  BY <1>6, <1>7, <1>8, <1>9, <1>10, <1>11, <1>12, <1>13, <1>14, <1>15, <1>16,
     Zenon DEF QueryNext, FetchStep
-----------------------------------------------------------------------------
(* A query that is loaded has every ping that was delivered and belongs to *)
(* it, is marked to be read again, or misses some for a known reason.      *)
Covered ==
    \A k \in Key : entry[k].loaded /\ Kind # "detail" =>
        Whole(k) \/ entry[k].marked \/ gap \/ k \in excused

LEMMA CoveredKept ==
    ASSUME Cache, Counts, Extending, PingsAreShown, Underway, Covered, [QueryNext]_queryVars
    PROVE  Covered'
<1>1. entry \in [Key -> Entry] /\ shown \in Key \cup {NoKey}
  BY DEF Cache
<1>2. Kind' = Kind /\ \A p, k : BelongsTo(p, k)' <=> BelongsTo(p, k)
  <2>1. Kind' = Kind
    BY RequestStays
  <2>2. QED
    BY <2>1, Zenon DEF BelongsTo
<1>3. recorded \in Nat /\ delivered \in Nat /\ carried \in Nat /\ delivered <= recorded
  BY DEF Counts
<1>4. CASE LivePing
  <2>1. gap' = gap /\ delivered' = delivered + 1 /\ delivered < recorded
    BY <1>4, Zenon DEF LivePing
  <2>2. delivered' \in Ping /\ 1..delivered' = (1..delivered) \cup {delivered'}
    BY <1>3, <2>1, PageBoundsAssumption DEF Counts, Ping
  <2>3. CASE Kind = "list"
    <3>1. /\ \A k \in Key : entry'[k] = WithPing(entry[k], k, delivered')
          /\ \A k \in Key : k \in excused => k \in excused'
          /\ \A k \in Key : Matches(delivered', k) /\ entry[k].loaded /\ entry[k].marked => k \in excused'
      BY <1>4, <2>3, LivePingIs
    <3>2. ASSUME NEW k \in Key, entry'[k].loaded
          PROVE  Whole(k)' \/ entry'[k].marked \/ gap' \/ k \in excused'
      <4>1. entry[k] \in Entry /\ entry[k].loaded
        <5>1. entry[k] \in Entry
          BY <1>1
        <5>2. entry'[k].loaded = entry[k].loaded
          BY <2>2, <3>1, <5>1, WithPingIs
        <5>3. QED
          BY <3>2, <5>1, <5>2, Zenon
      <4>2. Whole(k) \/ entry[k].marked \/ gap \/ k \in excused
        BY <2>3, <4>1 DEF Covered
      <4>3. CASE Matches(delivered', k)
        <5>1. entry'[k].data = entry[k].data \cup {delivered'}
          BY <2>2, <3>1, <4>1, <4>3, WithPingIs
        <5>2. Whole(k) => Whole(k)'
          BY <1>2, <2>2, <5>1 DEF Whole
        <5>3. QED
          BY <2>1, <3>1, <4>1, <4>2, <4>3, <5>2, Zenon
      <4>4. CASE ~Matches(delivered', k)
        <5>1. entry'[k] = entry[k]
          BY <2>2, <3>1, <4>1, <4>4, WithPingIs
        <5>2. ~BelongsTo(delivered', k)
          BY <2>3, <4>4 DEF BelongsTo
        <5>3. Whole(k) => Whole(k)'
          BY <1>2, <2>2, <5>1, <5>2 DEF Whole
        <5>4. QED
          BY <2>1, <3>1, <4>2, <5>1, <5>3, Zenon
      <4>5. QED
        BY <4>3, <4>4
    <3>3. QED
      BY <3>2 DEF Covered
  <2>4. CASE Kind \in {"stats", "series"}
    <3>1. \A k \in Key : entry'[k].marked
      BY <1>1, <1>4, <2>4, LivePingIs, InvalidateIs
    <3>2. QED
      BY <3>1 DEF Covered
  <2>5. CASE Kind = "detail"
    BY <1>2, <2>5 DEF Covered
  <2>6. QED
    BY <1>4, <2>3, <2>4, <2>5, LivePingIs
<1>5. CASE EventIsLost
  <2>1. gap'
    BY <1>5, Zenon DEF EventIsLost
  <2>2. QED
    BY <2>1, Zenon DEF Covered
<1>6. CASE StreamReopens
  <2>1. Invalidate
    BY <1>6, Zenon DEF StreamReopens
  <2>2. \A k \in Key : entry'[k].marked
    BY <1>1, <2>1, InvalidateIs
  <2>3. QED
    BY <2>2 DEF Covered
<1>7. CASE Load /\ ByWeb
  <2>1. /\ shown \in Key
        /\ phase = "reading" /\ response[1].shape = "data"
        /\ entry'[shown].data = ReadPages
        /\ \A k \in Key : k # shown => entry'[k] = entry[k]
        /\ UNCHANGED <<delivered, gap>>
        /\ \A k \in Key : k # shown /\ k \in excused => k \in excused'
        /\ older \/ carried < delivered => excused \subseteq excused'
        /\ Overwrites => shown \in excused'
    BY <1>7, LoadIs
  <2>2. ASSUME NEW k \in Key, k # shown, entry'[k].loaded, Kind # "detail"
        PROVE  Whole(k)' \/ entry'[k].marked \/ gap' \/ k \in excused'
    <3>1. entry'[k] = entry[k]
      BY <2>1, <2>2
    <3>2. Whole(k) \/ entry[k].marked \/ gap \/ k \in excused
      BY <2>2, <3>1 DEF Covered
    <3>3. Whole(k) => Whole(k)'
      BY <1>2, <2>1, <3>1 DEF Whole
    <3>4. k \in excused => k \in excused'
      BY <2>1, <2>2
    <3>5. QED
      BY <2>1, <3>1, <3>2, <3>3, <3>4, Zenon
  <2>3. ASSUME Kind # "detail"
        PROVE  \/ \A p \in 1..delivered : BelongsTo(p, shown) => p \in entry'[shown].data
               \/ gap \/ shown \in excused'
    <3>1. CASE older
      <4>1. shown \in excused => shown \in excused'
        BY <2>1, <3>1
      <4>2. ~Overwrites => entry'[shown].data = entry[shown].data
        BY <2>1, <3>1, Zenon DEF ReadPages, Overwrites
      <4>3. Whole(shown) \/ gap \/ shown \in excused
        BY <3>1, Zenon DEF Extending
      <4>4. QED
        BY <2>1, <4>1, <4>2, <4>3, Zenon DEF Whole
    <3>2. CASE ~older
      <4>1. carried \in 0..MaxPings
        BY PageBoundsAssumption DEF Counts
      <4>2. entry'[shown].data = Contents(shown, carried)
        BY <2>1, <3>2, Zenon DEF ReadPages
      <4>3. entry'[shown].data = {p \in 1..carried : BelongsTo(p, shown)}
        BY <1>7, <2>3, <4>1, <4>2, ContentsIs
      <4>4. CASE ~(carried < delivered)
        <5>1. \A p \in 1..delivered : p \in 1..carried
          BY <1>3, <4>4
        <5>2. QED
          BY <4>3, <5>1
      <4>5. CASE carried < delivered
        <5>1. shown \in excused => shown \in excused'
          BY <2>1, <4>5
        <5>2. ReadingFirstPage
          BY <2>1, <3>2, Zenon DEF ReadingFirstPage
        <5>3. CASE gap \/ shown \in excused
          BY <5>1, <5>3, Zenon
        <5>4. CASE \A p \in (carried + 1)..delivered : ~BelongsTo(p, shown)
          <6>1. \A p \in 1..delivered : p \in 1..carried \/ p \in (carried + 1)..delivered
            BY <1>3
          <6>2. QED
            BY <4>3, <5>4, <6>1
        <5>5. QED
          BY <2>1, <2>3, <5>2, <5>3, <5>4, Zenon DEF Underway
      <4>6. QED
        BY <4>4, <4>5
    <3>3. QED
      BY <3>1, <3>2
  <2>4. ASSUME Kind # "detail", NEW k \in Key, k = shown
        PROVE  Whole(k)' \/ gap' \/ k \in excused'
    <3>1. CASE gap \/ shown \in excused'
      BY <2>1, <2>4, <3>1, Zenon
    <3>2. CASE \A p \in 1..delivered : BelongsTo(p, shown) => p \in entry'[shown].data
      BY <1>2, <2>1, <2>4, <3>2 DEF Whole
    <3>3. QED
      BY <2>3, <2>4, <3>1, <3>2
  <2>5. QED
    BY <1>2, <2>2, <2>4 DEF Covered
<1>8. ASSUME NEW c \in Key, IsCollected(c)
      PROVE  Covered'
  <2>1. /\ entry' = [entry EXCEPT ![c] = Empty] /\ excused' = excused \ {c}
        /\ UNCHANGED <<delivered, gap>>
    BY <1>8, Zenon DEF IsCollected, serverVars
  <2>2. ~entry'[c].loaded /\ \A k \in Key : k # c => entry'[k] = entry[k]
    BY <1>1, <2>1, EmptyIs
  <2>3. ASSUME NEW k \in Key, entry'[k].loaded, Kind # "detail"
        PROVE  Whole(k)' \/ entry'[k].marked \/ gap' \/ k \in excused'
    <3>1. k # c /\ entry'[k] = entry[k]
      BY <2>2, <2>3
    <3>2. Whole(k) \/ entry[k].marked \/ gap \/ k \in excused
      BY <2>3, <3>1 DEF Covered
    <3>3. Whole(k) => Whole(k)'
      BY <1>2, <2>1, <3>1 DEF Whole
    <3>4. k \in excused => k \in excused'
      BY <2>1, <3>1
    <3>5. QED
      BY <2>1, <3>1, <3>2, <3>3, <3>4, Zenon
  <2>4. QED
    BY <1>2, <2>3 DEF Covered
<1>9. CASE /\ \A k \in Key : Kept(entry[k], entry'[k])
           /\ UNCHANGED <<delivered, gap>> /\ excused \subseteq excused'
  <2>1. ASSUME NEW k \in Key, entry'[k].loaded, Kind # "detail"
        PROVE  Whole(k)' \/ entry'[k].marked \/ gap' \/ k \in excused'
    <3>1. Kept(entry[k], entry'[k])
      BY <1>9
    <3>2. Whole(k) \/ entry[k].marked \/ gap \/ k \in excused
      <4>1. entry[k].loaded
        BY <2>1, <3>1, Zenon DEF Kept
      <4>2. QED
        BY <2>1, <4>1 DEF Covered
    <3>3. Whole(k) => Whole(k)'
      BY <1>2, <1>9, <3>1 DEF Whole, Kept
    <3>4. entry[k].marked => entry'[k].marked
      BY <3>1, Zenon DEF Kept
    <3>5. k \in excused => k \in excused'
      BY <1>9
    <3>6. QED
      BY <1>9, <3>2, <3>3, <3>4, <3>5, Zenon
  <2>2. QED
    BY <1>2, <2>1 DEF Covered
<1>10. QED
  BY <1>4, <1>5, <1>6, <1>7, <1>8, <1>9, Moves

(* A "Load older" begins, goes on or fails, or is over or has given way.   *)
LEMMA ExtendingMoves ==
    ASSUME PingsAreShown, [QueryNext]_queryVars
    PROVE  \/ LoadOlder
           \/ older' = FALSE /\ oldPages' = {}
           \/ UNCHANGED <<shown, older>> /\ (oldPages' = oldPages \/ oldPages' = {})
<1> DEFINE Over == older' = FALSE /\ oldPages' = {}
           Goes == UNCHANGED <<shown, older>> /\ (oldPages' = oldPages \/ oldPages' = {})
<1>1. Ask => Over
  BY Zenon DEF Ask, AskFor
<1>2. UNCHANGED fetchVars /\ shown' = shown => Goes
  BY Zenon DEF fetchVars
<1>3. ASSUME NEW entries, Refetch(entries)
      PROVE  Over \/ UNCHANGED fetchVars
  BY <1>1, <1>3, Zenon DEF Refetch
<1>4. Invalidate => Over \/ UNCHANGED fetchVars
  BY <1>3, Zenon DEF Invalidate
<1>5. LivePing => Over \/ Goes
  <2>1. LivePing => shown' = shown /\ (Invalidate \/ UNCHANGED fetchVars)
    BY LivePingIs, Zenon DEF LivePing
  <2>2. QED
    BY <1>2, <1>4, <2>1, Zenon
<1>6. ASSUME NEW k \in Key \cup {NoKey}, Show(k)
      PROVE  Over
  BY <1>1, <1>6, Zenon DEF Show
<1>7. Answer \/ Load \/ AttemptFails \/ RetryDelayEnds \/ PingIsRecorded \/ EventIsLost
      \/ OtherCall \/ UNCHANGED queryVars => Over \/ Goes
  BY Zenon DEF Answer, Load, AttemptFails, RetryDelayEnds, PingIsRecorded, EventIsLost,
     OtherCall, fetchVars, moreVars, pageVars, queryVars
<1>8. StreamReopens \/ IntervalEnds \/ RetryIsClicked => Over \/ Goes
  BY <1>2, <1>3, <1>4, Zenon DEF StreamReopens, IntervalEnds, RetryIsClicked
<1>9. \A k \in Key : GrowsOld(k) \/ IsCollected(k) => Goes
  BY <1>2, Zenon DEF GrowsOld, IsCollected
<1> HIDE DEF Over, Goes
<1>10. LoadOlder \/ Over \/ Goes
  BY <1>5, <1>6, <1>7, <1>8, <1>9, Zenon DEF QueryNext, FetchStep
<1>11. QED
  BY <1>10, Zenon DEF Over, Goes

LEMMA ExtendingKept ==
    ASSUME Cache, Counts, Extending, PingsAreShown, Covered, [QueryNext]_queryVars
    PROVE  Extending'
<1>1. entry \in [Key -> Entry] /\ shown \in Key \cup {NoKey} /\ NoKey \notin Key
  BY KeyAssumption DEF Cache
<1>2. Kind' = Kind /\ \A p, k : BelongsTo(p, k)' <=> BelongsTo(p, k)
  <2>1. Kind' = Kind
    BY RequestStays
  <2>2. QED
    BY <2>1, Zenon DEF BelongsTo
<1>3. recorded \in Nat /\ delivered \in Nat /\ delivered <= recorded
  BY DEF Counts
<1>4. CASE older' = FALSE /\ oldPages' = {}
  BY <1>4, Zenon DEF Extending
<1>5. CASE LoadOlder
  <2>1. /\ Kind = "list" /\ shown \in Key /\ entry[shown].loaded
        /\ UNCHANGED <<shown, entry, delivered, gap>>
        /\ older' = TRUE /\ oldPages' = entry[shown].data
    BY <1>5, KeyAssumption DEF LoadOlder, AskFor, serverVars
  <2>2. /\ shown \in excused => shown \in excused'
        /\ entry[shown].marked => shown \in excused'
    BY <1>5 DEF LoadOlder
  <2>3. Whole(shown) \/ entry[shown].marked \/ gap \/ shown \in excused
    BY <2>1 DEF Covered
  <2>4. Whole(shown) => Whole(shown)'
    BY <1>2, <2>1 DEF Whole
  <2>5. Whole(shown)' \/ gap' \/ shown' \in excused'
    BY <2>1, <2>2, <2>3, <2>4, Zenon
  <2>6. oldPages' \subseteq entry'[shown'].data
    BY <2>1
  <2>7. QED
    BY <1>2, <2>1, <2>5, <2>6, Zenon DEF Extending
<1>6. CASE UNCHANGED <<shown, older>> /\ (oldPages' = oldPages \/ oldPages' = {})
  <2>0. older' <=> older
    <3>1. older' = older
      BY <1>6
    <3>2. QED
      BY <3>1
  <2>1. CASE ~older
    BY <1>6, <2>1, Zenon DEF Extending
  <2>2. CASE older
    <3>1. /\ Kind = "list" /\ shown \in Key /\ entry[shown].loaded /\ entry[shown] \in Entry
          /\ oldPages \subseteq entry[shown].data
          /\ Whole(shown) \/ gap \/ shown \in excused
      BY <1>1, <2>2 DEF Extending
    <3>2. ASSUME entry'[shown].loaded, entry[shown].data \subseteq entry'[shown].data,
                 Whole(shown)' \/ gap' \/ shown \in excused'
          PROVE  Extending'
      <4>1. oldPages' \subseteq entry'[shown'].data
        BY <1>6, <3>1, <3>2
      <4>2. QED
        BY <1>2, <1>6, <3>1, <3>2, <4>1, Zenon DEF Extending
    <3>3. CASE LivePing
      <4>1. /\ entry'[shown] = WithPing(entry[shown], shown, delivered')
            /\ shown \in excused => shown \in excused'
        BY <3>1, <3>3, LivePingIs
      <4>2. delivered' = delivered + 1 /\ delivered < recorded /\ gap' = gap
        BY <3>3, Zenon DEF LivePing
      <4>3. delivered' \in Ping /\ 1..delivered' = (1..delivered) \cup {delivered'}
        BY <1>3, <4>2, PageBoundsAssumption DEF Counts, Ping
      <4>4. /\ entry'[shown].loaded = entry[shown].loaded
            /\ Matches(delivered', shown) => entry'[shown].data = entry[shown].data \cup {delivered'}
            /\ ~Matches(delivered', shown) => entry'[shown].data = entry[shown].data
        <5>1. CASE Matches(delivered', shown)
          <6>1. entry'[shown].loaded = entry[shown].loaded
            <7>1. entry[shown] \in Entry /\ delivered' \in Ping
              BY <3>1, <4>3
            <7>2. WithPing(entry[shown], shown, delivered').loaded = entry[shown].loaded
              BY <7>1, WithPingIs
            <7>3. QED
              BY <4>1, <7>2
          <6>2. entry'[shown].data = entry[shown].data \cup {delivered'}
            BY <3>1, <4>1, <4>3, <5>1, WithPingIs
          <6>3. QED
            BY <5>1, <6>1, <6>2, Zenon
        <5>2. CASE ~Matches(delivered', shown)
          <6>1. entry'[shown] = entry[shown]
            BY <4>1, <5>2, Zenon DEF WithPing
          <6>2. QED
            BY <5>2, <6>1
        <5>3. QED
          BY <5>1, <5>2
      <4>5. Whole(shown) => Whole(shown)'
        BY <1>2, <1>6, <3>1, <4>3, <4>4 DEF Whole, BelongsTo
      <4>6. entry[shown].data \subseteq entry'[shown].data
        BY <4>4
      <4>7. Whole(shown)' \/ gap' \/ shown \in excused'
        BY <3>1, <4>1, <4>2, <4>5, Zenon
      <4>8. entry'[shown].loaded
        BY <3>1, <4>4, Zenon
      <4>9. QED
        BY <3>2, <4>6, <4>7, <4>8
    <3>4. CASE EventIsLost
      <4>1. entry' = entry /\ gap'
        BY <3>4, Zenon DEF EventIsLost
      <4>2. QED
        BY <3>1, <3>2, <4>1
    <3>5. CASE StreamReopens
      <4>1. Ask
        BY <1>1, <3>1, <3>5, InvalidateIs DEF StreamReopens
      <4>2. ~older'
        BY <4>1, Zenon DEF Ask, AskFor
      <4>3. QED
        BY <2>0, <2>2, <4>2, Zenon
    <3>6. CASE Load /\ ByWeb
      <4>1. ~older'
        BY <3>6, Zenon DEF Load
      <4>2. QED
        BY <2>0, <2>2, <4>1, Zenon
    <3>7. ASSUME NEW k \in Key, IsCollected(k)
          PROVE  Extending'
      <4>1. /\ entry' = [entry EXCEPT ![k] = Empty] /\ excused' = excused \ {k} /\ k # shown
            /\ UNCHANGED <<delivered, gap>>
        BY <3>7, Zenon DEF IsCollected, serverVars
      <4>2. /\ entry'[shown] = entry[shown]
            /\ shown \in excused => shown \in excused'
        BY <1>1, <3>1, <4>1
      <4>3. Whole(shown) => Whole(shown)'
        BY <1>2, <1>6, <4>1, <4>2 DEF Whole
      <4>4. Whole(shown)' \/ gap' \/ shown \in excused'
        BY <3>1, <4>1, <4>2, <4>3, Zenon
      <4>5. QED
        BY <3>1, <3>2, <4>2, <4>4
    <3>8. CASE /\ \A k \in Key : Kept(entry[k], entry'[k])
               /\ UNCHANGED <<delivered, gap>> /\ excused \subseteq excused'
      <4>1. entry'[shown].loaded = entry[shown].loaded /\ entry'[shown].data = entry[shown].data
        BY <3>1, <3>8 DEF Kept
      <4>2. Whole(shown) => Whole(shown)'
        BY <1>2, <1>6, <3>8, <4>1 DEF Whole
      <4>3. Whole(shown)' \/ gap' \/ shown \in excused'
        BY <3>1, <3>8, <4>2
      <4>4. QED
        BY <3>1, <3>2, <4>1, <4>3
    <3>9. QED
      BY <3>3, <3>4, <3>5, <3>6, <3>7, <3>8, Moves
  <2>3. QED
    BY <2>1, <2>2
<1>7. QED
  BY <1>4, <1>5, <1>6, ExtendingMoves
-----------------------------------------------------------------------------
(* All of it together.                                                     *)

Flags == gap \in BOOLEAN /\ older \in BOOLEAN

Sound ==
    /\ Call /\ Cache /\ Counts /\ PingsAreShown /\ PanelsOnly /\ Known
    /\ Resting /\ Underway /\ Covered /\ Extending /\ Flags

LEMMA SoundInit == QueryInit => Sound
<1> SUFFICES ASSUME QueryInit
             PROVE  Sound
  OBVIOUS
<1>1. /\ request \in Request /\ phase = "asked" /\ answers = <<>> /\ response = <<>>
      /\ outcome = [is |-> "pending"]
  BY DEF QueryInit, Init, Pending
<1>2. /\ entry = [k \in Key |-> Empty] /\ recorded = 0 /\ delivered = 0 /\ carried = 0
      /\ excused = {} /\ disturbances = 0 /\ oldPages = {}
      /\ shown = IF ByWeb THEN CHOOSE k \in Key \ {Narrow} : TRUE ELSE NoKey
  BY Zenon DEF QueryInit
<1>3. Flags
  BY Zenon DEF QueryInit, Flags
<1>4. Call
  <2>1. Exchange
    BY <1>1 DEF Exchange, Phase
  <2>2. Blameless
    BY <1>1 DEF Blameless
  <2>3. Outcomes
    BY <1>1 DEF Outcomes, IsError
  <2>4. QED
    BY <1>1, <2>1, <2>2, <2>3 DEF Call
<1>5. IF ByWeb THEN shown \in Key ELSE shown = NoKey
  <2>1. \E k \in Key : k # Narrow
    BY KeyAssumption
  <2>2. (CHOOSE k \in Key \ {Narrow} : TRUE) \in Key \ {Narrow}
    BY <2>1
  <2>3. QED
    BY <1>2, <2>2
<1>6. \A k \in Key : entry[k] = Empty
  BY <1>2
<1>7. entry \in [Key -> Entry]
  BY <1>2, EmptyIs
<1>8. Cache
  BY <1>2, <1>5, <1>6, <1>7, EmptyIs, KeyAssumption DEF Cache
<1>9. Counts /\ PingsAreShown /\ PanelsOnly
  BY <1>2, <1>5, PageBoundsAssumption DEF Counts, PingsAreShown, PanelsOnly
<1>10. Known /\ Covered
  BY <1>6, EmptyIs DEF Known, Covered
<1>11. Resting /\ Underway
  BY <1>1 DEF Resting, Underway, ReadingFirstPage
<1>12. Extending
  BY Zenon DEF QueryInit, Extending
<1>13. QED
  BY <1>3, <1>4, <1>8, <1>9, <1>10, <1>11, <1>12, Zenon DEF Sound

LEMMA SoundKept == Sound /\ [QueryNext]_queryVars => Sound'
<1> SUFFICES ASSUME Sound, [QueryNext]_queryVars
             PROVE  Sound'
  OBVIOUS
<1>1. /\ Call /\ Cache /\ Counts /\ PingsAreShown /\ PanelsOnly /\ Known
      /\ Resting /\ Underway /\ Covered /\ Extending /\ Flags
  BY Zenon DEF Sound
<1>2. Flags'
  <2>1. gap' = gap \/ gap' = TRUE \/ gap' = FALSE
    BY Zenon DEF QueryNext, FetchStep, Answer, Load, AttemptFails, RetryDelayEnds, PingIsRecorded,
       LivePing, EventIsLost, StreamReopens, IntervalEnds, RetryIsClicked, LoadOlder, Show, GrowsOld,
       IsCollected, OtherCall, serverVars, pageVars, queryVars
  <2>2. older' = TRUE \/ older' = FALSE
    <3>1. LoadOlder => older' = TRUE
      BY Zenon DEF LoadOlder, AskFor
    <3>2. QED
      BY <1>1, <3>1, ExtendingMoves, Zenon DEF Flags
  <2>3. QED
    BY <1>1, <2>1, <2>2, Zenon DEF Flags
<1>3. Call' /\ Cache' /\ Counts' /\ PingsAreShown' /\ PanelsOnly'
  BY <1>1, CallKept, CacheKept, CountsKept, PingsAreShownKept, PanelsOnlyKept
<1>4. Known' /\ Resting' /\ Underway' /\ Covered' /\ Extending'
  BY <1>1, KnownKept, RestingKept, UnderwayKept, CoveredKept, ExtendingKept
<1>5. QED
  BY <1>2, <1>3, <1>4, Zenon DEF Sound

LEMMA SoundInvariant == QuerySpec => []Sound
  BY SoundInit, SoundKept, PTL DEF QuerySpec

(* The page and its calls are of their types; a page with nothing open has *)
(* no fetch under way (useQuery's enabled, hooks.ts).                      *)
THEOREM QueryTypeCorrect == QuerySpec => []QueryTypeOK
<1>1. Sound => QueryTypeOK
  <2>1. Sound => TypeOK /\ Cache /\ Counts /\ Flags /\ Extending
    BY CallTyped, Zenon DEF Sound
  <2>2. ASSUME Cache, Extending
        PROVE  oldPages \subseteq Ping
    <3>1. oldPages = {} \/ (shown \in Key /\ oldPages \subseteq entry[shown].data)
      BY <2>2, Zenon DEF Extending
    <3>2. shown \in Key => entry[shown].data \subseteq Ping
      BY <2>2 DEF Cache, Entry
    <3>3. QED
      BY <3>1, <3>2
  <2>3. QED
    BY <2>1, <2>2, Zenon DEF QueryTypeOK, Cache, Counts, Flags
<1>2. QED
  BY <1>1, SoundInvariant, PTL

(* Every fetch of every panel: query-client.ts:10, a 4xx is not retried,   *)
(* and nothing but a fault of the request is given up early.               *)
THEOREM OnlyFaultsAreFinalInvariant == QuerySpec => []OnlyFaultsAreFinal
<1>1. Sound => OnlyFaultsAreFinal
  BY CallImplies, Zenon DEF Sound
<1>2. QED
  BY <1>1, SoundInvariant, PTL

(* What a panel shows is not taken away by a refetch, its failure, a retry *)
(* or a reconnect, and stats, series and details never go back             *)
(* (RefreshError.tsx:8).                                                   *)
THEOREM NeverBackwardsProperty == QuerySpec => NeverBackwards
<1> DEFINE Shows ==
        ShowsData /\ shown' = shown =>
            ShowsData' /\ (Kind = "list" \/ entry[shown].data \subseteq entry'[shown].data)
<1>1. Sound /\ [QueryNext]_queryVars => Shows
  <2>1. SUFFICES ASSUME Sound, [QueryNext]_queryVars, ShowsData, shown' = shown
                 PROVE  ShowsData' /\ (Kind = "list" \/ entry[shown].data \subseteq entry'[shown].data)
    OBVIOUS
  <2>2. Cache /\ Counts /\ Extending /\ PingsAreShown /\ Known /\ PanelsOnly
    BY <2>1, Zenon DEF Sound
  <2>3. QED
    BY <2>1, <2>2, DataStays
<1>2. Sound /\ [QueryNext]_queryVars => [Shows]_queryVars
  BY <1>1
<1>3. QED
  BY <1>2, SoundInvariant, PTL DEF QuerySpec, NeverBackwards

(* A panel at rest is up to date or says that it may not be, but for what  *)
(* excused names: the races of events with answers and marks, and a "Load  *)
(* older" in place of a refetch (hooks.ts, use-live-stream.ts, cache.ts,   *)
(* PingTable.tsx).                                                         *)
THEOREM CurrentOrFlaggedInvariant == QuerySpec => []CurrentOrFlagged
<1>1. Sound => CurrentOrFlagged
  <2> SUFFICES ASSUME Sound, shown # NoKey, Kind # "detail", ~Fetching, delivered = recorded
               PROVE  \/ Current
                      \/ OnScreen \cap {"RefreshError", "ErrorState"} # {}
                      \/ gap \/ shown \in excused
    BY Zenon DEF CurrentOrFlagged
  <2>1. Cache /\ Counts /\ PanelsOnly /\ Known /\ Resting /\ Covered /\ Extending
    BY Zenon DEF Sound
  <2>2. shown \in Key /\ ByWeb /\ phase = "settled"
    BY <2>1 DEF Cache, PanelsOnly, Fetching
  <2>3. \A p : Belongs(p) <=> BelongsTo(p, shown)
    BY Zenon DEF Belongs, BelongsTo
  <2>4. Whole(shown) => Current
    BY <2>1, <2>2, <2>3 DEF Whole, Known, Current
  <2>5. CASE older
    <3>1. Whole(shown) \/ gap \/ shown \in excused
      BY <2>1, <2>5, Zenon DEF Extending
    <3>2. QED
      BY <2>4, <3>1, Zenon
  <2>6. CASE entry[shown].failed /\ ~older
    BY <2>2, <2>6, ScreenIs
  <2>7. CASE ~entry[shown].failed
    <3>1. entry[shown].loaded /\ ~entry[shown].marked
      BY <2>1, <2>2, <2>7 DEF Resting
    <3>2. Whole(shown) \/ gap \/ shown \in excused
      BY <2>1, <2>2, <3>1 DEF Covered
    <3>3. QED
      BY <2>4, <3>2, Zenon
  <2>8. QED
    BY <2>5, <2>6, <2>7
<1>2. QED
  BY <1>1, SoundInvariant, PTL
=============================================================================
