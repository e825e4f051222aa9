-------------------------------- MODULE Probe --------------------------------
(***************************************************************************)
(* One probe: HttpbinClient.send, from its fetch to the ProbeResult, and   *)
(* the INSERT of what came of it.  The target answers, hangs or breaks at  *)
(* any point; one timeout covers the head and the body.                    *)
(*                                                                         *)
(* External: fetch and AbortSignal.timeout as send uses them, and the      *)
(* jsonb columns of Postgres, which take no string with a NUL in it.       *)
(***************************************************************************)
EXTENDS Naturals

CONSTANTS
    Status,     \* statuses the target answers with
    Body        \* bodies it sends (a subset of BodyKind)

(* "nul": a NUL in the text itself; "escaped nul": JSON with \u0000 in it. *)
BodyKind == {"empty", "json", "garbage", "nul", "escaped nul"}
Parses == {"json", "escaped nul"}

ASSUME StatusAssumption == Status \subseteq 200..599
ASSUME BodyAssumption == Body \subseteq BodyKind

VARIABLES
    answer,     \* what the target sends: status, its body, declared JSON or not
    phase,      \* "fetching", "reading", "settled", "stored", "rejected"
    got,        \* how much of it arrived: "nothing", "head", "all"
    cause,      \* why send stopped waiting: "none", "timeout", "network"
    result      \* the ProbeResult

vars == <<answer, phase, got, cause, result>>

ErrorCode == {"TIMEOUT", "NETWORK_ERROR", "HTTP_ERROR", "INVALID_RESPONSE"}
Null == "null"
NoStatus == 0

(* body: "null", "text" (as it came) or "value" (parsed). *)
Result == [ok : BOOLEAN, statusCode : Status \cup {NoStatus},
           errorCode : ErrorCode \cup {Null}, body : {Null, "text", "value"}]
NoResult == [ok |-> FALSE, statusCode |-> NoStatus, errorCode |-> Null, body |-> Null]

TypeOK ==
    /\ answer \in [status : Status, json : BOOLEAN, body : Body]
    /\ phase \in {"fetching", "reading", "settled", "stored", "rejected"}
    /\ got \in {"nothing", "head", "all"}
    /\ cause \in {"none", "timeout", "network"}
    /\ result \in Result
    /\ (phase \in {"fetching", "reading"}) <=> (result = NoResult)

Init ==
    /\ answer \in [status : Status, json : BOOLEAN, body : Body]
    /\ phase = "fetching"
    /\ got = "nothing" /\ cause = "none"
    /\ result = NoResult
-----------------------------------------------------------------------------
HeadArrives ==
    /\ phase = "fetching"
    /\ phase' = "reading"
    /\ got' = "head"
    /\ UNCHANGED <<answer, cause, result>>

(* The declared JSON that is not empty is parsed; text it stays if that fails. *)
JsonParse ==
    IF answer.json /\ answer.body # "empty"
    THEN [body |-> IF answer.body \in Parses THEN "value" ELSE "text",
          failed |-> answer.body \notin Parses]
    ELSE [body |-> "text", failed |-> FALSE]

(* Seeded bug: a body that cannot be parsed hides the status. *)
CodeParseFirst(failed) ==
    IF failed THEN "INVALID_RESPONSE"
    ELSE IF answer.status \notin 200..299 THEN "HTTP_ERROR" ELSE Null

(* What is wrong with an answer: the status comes first. *)
Code(failed) ==
    IF answer.status \notin 200..299 THEN "HTTP_ERROR"
    ELSE IF failed THEN "INVALID_RESPONSE" ELSE Null

(* The result of an answer that was read whole. *)
Classify ==
    LET errorCode == Code(JsonParse.failed) IN
    [ok |-> errorCode = Null, statusCode |-> answer.status,
     errorCode |-> errorCode, body |-> JsonParse.body]

BodyArrives ==
    /\ phase = "reading"
    /\ got' = "all"
    /\ phase' = "settled"
    /\ result' = Classify
    /\ UNCHANGED <<answer, cause>>

(* Seeded bug: a rejection is thrown on. *)
Unclassified(errorCode) == NoResult

(* The result of a request that rejected: nothing of the answer is kept. *)
Failure(errorCode) == [NoResult EXCEPT !.errorCode = errorCode]

(* AbortSignal.timeout: fetch or text() rejects with a TimeoutError. *)
TimesOut ==
    /\ phase \in {"fetching", "reading"}
    /\ cause' = "timeout"
    /\ phase' = "settled"
    /\ result' = Failure("TIMEOUT")
    /\ UNCHANGED <<answer, got>>

(* No connection, or one that breaks in the head or in the body. *)
NetworkFails ==
    /\ phase \in {"fetching", "reading"}
    /\ cause' = "network"
    /\ phase' = "settled"
    /\ result' = Failure("NETWORK_ERROR")
    /\ UNCHANGED <<answer, got>>
-----------------------------------------------------------------------------
(* The body column as jsonb sees it. *)
HasNul ==
    \/ result.body = "text" /\ answer.body = "nul"
    \/ result.body = "value" /\ answer.body = "escaped nul"

(* execute inserts the row of the result; Postgres takes it or not. *)
Insert ==
    /\ phase = "settled"
    /\ phase' = IF HasNul THEN "rejected" ELSE "stored"
    /\ UNCHANGED <<answer, got, cause, result>>

Next == HeadArrives \/ BodyArrives \/ TimesOut \/ NetworkFails \/ Insert

Spec == Init /\ [][Next]_vars
-----------------------------------------------------------------------------
(* Properties.                                                             *)

Settled == phase \notin {"fetching", "reading"}

(* What a probe is recorded as is what happened: ok means that a 2xx came  *)
(* whole and readable; a status is recorded exactly if an answer came      *)
(* whole; whatever the body, a whole answer that is not a 2xx is an        *)
(* HTTP_ERROR ("Non-2xx always wins", httpbin-client.ts:75); and a timeout *)
(* is one even if the head had arrived.                                    *)
Readable == answer.json => answer.body \in Parses \cup {"empty"}
RecordedAsItWas ==
    Settled =>
        /\ result.ok <=> got = "all" /\ answer.status \in 200..299 /\ Readable
        /\ result.ok <=> result.errorCode = Null
        /\ result.statusCode = (IF got = "all" THEN answer.status ELSE NoStatus)
        /\ result.errorCode = "HTTP_ERROR" <=> got = "all" /\ answer.status \notin 200..299
        /\ result.errorCode = "TIMEOUT" <=> cause = "timeout"
        /\ (result.body = Null) <=> (got # "all")

(* httpbin-client.ts:24-25, "every failure mode is classified into a       *)
(* ProbeResult so the caller can always persist what happened".            *)
CanAlwaysPersist == phase # "rejected"
=============================================================================
