------------------------------ MODULE RestCall ------------------------------
(***************************************************************************)
(* A REST call from end to end: the middleware, the routes and the error   *)
(* handler of the API, apiGet in the browser, and the retry policy of its  *)
(* query client.  Bodies are their shape.                                  *)
(*                                                                         *)
(* External, modelled from how the code uses it: TanStack Query (it calls  *)
(* retry with the failures so far, and takes no notice of a query function *)
(* it has cancelled) and fetch (an abort or a broken connection rejects    *)
(* what is being awaited, the head or the body).  errorHandler's           *)
(* headersSent branch is left out: no route fails behind its head.         *)
(***************************************************************************)
EXTENDS Naturals, Sequences

CONSTANTS
    Proxied     \* a proxy before the API may answer 502 by itself

ASSUME ProxiedAssumption == Proxied \in BOOLEAN

WebRoute == {"list", "stats", "series", "detail"}
Internal == {"tick", "ping-now"}
Route == WebRoute \cup Internal \cup {"health", "unknown"}

(* What the request's body does to express.json. *)
Parsing == {"fine", "entity.parse.failed", "entity.too.large",
            "encoding.unsupported", "other"}
(* x-internal-token against INTERNAL_API_TOKEN. *)
Token == {"disabled", "wrong", "right"}

Request == [route : Route, valid : BOOLEAN, exists : BOOLEAN,
            parsing : Parsing, token : Token]

Code == {"VALIDATION_ERROR", "NOT_FOUND", "UNAUTHORIZED", "INTERNAL_API_DISABLED",
         "INVALID_JSON", "PAYLOAD_TOO_LARGE", "UNSUPPORTED_MEDIA_TYPE",
         "BAD_REQUEST", "INTERNAL_ERROR"}
Response == [status : Nat, shape : {"data", "health", "other"}]
       \cup [status : Nat, shape : {"envelope"}, code : Code]
ApiError == [status : Nat, code : Code \cup {"NETWORK_ERROR", "HTTP_ERROR", "INVALID_RESPONSE"}]

VARIABLES
    request,
    phase,      \* "asked", "reading" (the body), "waiting" (to retry), "settled"
    answers,    \* what came back so far: the status of each request, 0 if none
    response,   \* the response being read: a sequence of at most one
    outcome     \* of the query: "pending", "data", "cancelled" or an ApiError

vars == <<request, phase, answers, response, outcome>>

TypeOK ==
    /\ request \in Request
    /\ phase \in {"asked", "reading", "waiting", "settled"}
    /\ answers \in Seq(Nat) /\ Len(answers) <= 3
    /\ response \in Seq(Response) /\ (response # <<>> <=> phase = "reading")
    /\ phase # "settled" => outcome.is = "pending"
    /\ outcome.is = "error" => outcome.error \in ApiError

Pending == [is |-> "pending"]
Failed(error) == [is |-> "error", error |-> error]

(* The query client GETs its own routes, with parameters of the API it was *)
(* built for, deployed apart from this one; all else has other callers.    *)
Init ==
    /\ request \in Request
    /\ request.route \in WebRoute => request.parsing = "fine" /\ request.token = "disabled"
    /\ phase = "asked"
    /\ answers = <<>> /\ response = <<>>
    /\ outcome = Pending
-----------------------------------------------------------------------------
(* The API.                                                                *)

None == [type |-> "none"]
ZodError == [type |-> "zod"]
AppError(status, code) == [type |-> "app", status |-> status, code |-> code]
ClientError(kind) == [type |-> "client", kind |-> kind]
Unexpected == [type |-> "unexpected"]

(* requireInternalToken. *)
RequireInternalToken(token) ==
    CASE token = "disabled" -> AppError(503, "INTERNAL_API_DISABLED")
      [] token = "wrong" -> AppError(401, "UNAUTHORIZED")
      [] token = "right" -> None

(* What a route raises; every one but the internal two reads the database  *)
(* only after its input parsed.                                            *)
RaisedByRoute(req, database) ==
    CASE req.route = "health" -> None
      [] req.route = "unknown" -> AppError(404, "NOT_FOUND")
      [] req.route \in Internal ->
            IF req.token # "right" THEN RequireInternalToken(req.token)
            ELSE IF database = "up" THEN None ELSE Unexpected
      [] OTHER ->
            IF ~req.valid THEN ZodError
            ELSE IF database = "down" THEN Unexpected
            ELSE IF req.route = "detail" /\ ~req.exists THEN AppError(404, "NOT_FOUND")
            ELSE None

(* express.json comes before the routes. *)
Raised(req, database) ==
    IF req.parsing # "fine" THEN ClientError(req.parsing)
    ELSE RaisedByRoute(req, database)

Envelope(status, code) == [status |-> status, shape |-> "envelope", code |-> code]

(* The status http-errors gives the error, and classifyClientError. *)
ClassifyClientError(kind) ==
    CASE kind = "entity.parse.failed" -> Envelope(400, "INVALID_JSON")
      [] kind = "entity.too.large" -> Envelope(413, "PAYLOAD_TOO_LARGE")
      [] kind = "encoding.unsupported" -> Envelope(415, "UNSUPPORTED_MEDIA_TYPE")
      [] OTHER -> Envelope(400, "BAD_REQUEST")

(* Seeded bug: an unexpected error is blamed on the request. *)
Blaming == Envelope(400, "BAD_REQUEST")

InternalError == Envelope(500, "INTERNAL_ERROR")

ErrorHandler(err) ==
    CASE err.type = "zod" -> Envelope(400, "VALIDATION_ERROR")
      [] err.type = "app" -> Envelope(err.status, err.code)
      [] err.type = "client" -> ClassifyClientError(err.kind)
      [] err.type = "unexpected" -> InternalError

(* The health route tells of the database in a shape of its own. *)
Respond(req, database) ==
    LET err == Raised(req, database) IN
    IF err # None THEN ErrorHandler(err)
    ELSE IF req.route = "health"
         THEN [status |-> IF database = "up" THEN 200 ELSE 503, shape |-> "health"]
         ELSE [status |-> 200, shape |-> "data"]
-----------------------------------------------------------------------------
(* The browser.                                                            *)

ByWeb == request.route \in WebRoute

(* Seeded bug: one retry too many. *)
RetryOnceMore(failureCount, error) ==
    ~(error.status \in 400..499) /\ failureCount <= 2

(* The retry option of the query client. *)
Retry(failureCount, error) ==
    ~(error.status \in 400..499) /\ failureCount < 2

(* apiGet threw: the query tries again or gives up. *)
Fail(error, status) ==
    /\ answers' = Append(answers, status)
    /\ IF Retry(Len(answers), error)
       THEN phase' = "waiting" /\ UNCHANGED outcome
       ELSE phase' = "settled" /\ outcome' = Failed(error)
    /\ response' = <<>>
    /\ UNCHANGED request

(* What apiGet makes of a body that was read whole; null if it was not. *)
ErrorOf(resp, body) ==
    CASE resp.status \notin 200..299 /\ body = "envelope" -> [status |-> resp.status, code |-> resp.code]
      [] resp.status \notin 200..299 /\ body # "envelope" -> [status |-> resp.status, code |-> "HTTP_ERROR"]
      [] OTHER -> [status |-> resp.status, code |-> "INVALID_RESPONSE"]

(* The head of a response arrives. *)
Answered ==
    /\ phase = "asked"
    /\ phase' = "reading"
    /\ \/ \E database \in {"up", "down"} : response' = <<Respond(request, database)>>
       \/ Proxied /\ response' = <<[status |-> 502, shape |-> "other"]>>
    /\ UNCHANGED <<request, answers, outcome>>

(* A caller that is not the query client has its answer. *)
TakenByOther ==
    /\ phase = "reading" /\ ~ByWeb
    /\ phase' = "settled"
    /\ answers' = Append(answers, response[1].status)
    /\ response' = <<>>
    /\ UNCHANGED <<request, outcome>>

(* fetch rejects. *)
Unreachable ==
    /\ phase = "asked" /\ ByWeb
    /\ Fail([status |-> 0, code |-> "NETWORK_ERROR"], 0)

(* The body arrives and is what the schema wants. *)
ReadData ==
    /\ phase = "reading" /\ ByWeb
    /\ response[1].status \in 200..299 /\ response[1].shape = "data"
    /\ phase' = "settled"
    /\ outcome' = [is |-> "data"]
    /\ answers' = Append(answers, response[1].status)
    /\ response' = <<>>
    /\ UNCHANGED request

(* The body arrives and is not. *)
ReadFailure ==
    /\ phase = "reading" /\ ByWeb
    /\ response[1].status \notin 200..299 \/ response[1].shape # "data"
    /\ Fail(ErrorOf(response[1], response[1].shape), response[1].status)

(* The connection breaks in the body: response.json() rejects, body = null.*)
BodyBreaks ==
    /\ phase = "reading" /\ ByWeb
    /\ Fail(ErrorOf(response[1], "null"), response[1].status)

(* The query is cancelled (its component went, a newer fetch took over):   *)
(* whatever apiGet throws of it, the AbortError of fetch or, for a body it *)
(* was reading, an ApiError, is dropped by the query client.               *)
Cancel ==
    /\ phase # "settled" /\ ByWeb
    /\ phase' = "settled"
    /\ outcome' = [is |-> "cancelled"]
    /\ response' = <<>>
    /\ UNCHANGED <<request, answers>>

(* The retry delay is over. *)
AskAgain ==
    /\ phase = "waiting"
    /\ phase' = "asked"
    /\ UNCHANGED <<request, answers, response, outcome>>

Next ==
    \/ Answered \/ TakenByOther \/ Unreachable
    \/ ReadData \/ ReadFailure \/ BodyBreaks
    \/ Cancel \/ AskAgain

Spec == Init /\ [][Next]_vars
-----------------------------------------------------------------------------
(* Properties.                                                             *)

(* The request itself is wrong, whatever state the API is in. *)
AtFault ==
    \/ request.parsing # "fine"
    \/ request.route = "unknown"
    \/ request.route \in Internal /\ request.token = "wrong"
    \/ request.route \in WebRoute /\ ~request.valid
    \/ request.route = "detail" /\ ~request.exists

(* query-client.ts:10, "Retry transient failures only; a 4xx won't fix     *)
(* itself": no request is sent after a 4xx, and a call is given up early   *)
(* only if its request is at fault: a failure of the database, the proxy   *)
(* or the network is never taken for one of the caller.                    *)
IsError == outcome.is = "error"
OnlyFaultsAreFinal ==
    /\ \A k \in 1..(Len(answers) - 1) : answers[k] \notin 400..499
    /\ IsError /\ ~AtFault => Len(answers) = 3
    /\ phase \in {"asked", "reading"} => \A k \in DOMAIN answers : answers[k] \notin 400..499
=============================================================================
