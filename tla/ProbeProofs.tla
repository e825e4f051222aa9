---------------------------- MODULE ProbeProofs ----------------------------
(***************************************************************************)
(* Safety of Probe for every set of statuses and bodies a target answers   *)
(* with.                                                                   *)
(***************************************************************************)
EXTENDS Probe, TLAPS

(* How the phases, what arrived and why the wait ended go together; what a *)
(* settled probe has for its result.                                       *)
Arrived ==
    /\ phase = "fetching" => got = "nothing" /\ cause = "none"
    /\ phase = "reading" => got = "head" /\ cause = "none"
    /\ Settled =>
         \/ got = "all" /\ cause = "none" /\ result = Classify
         \/ got # "all" /\ cause = "timeout" /\ result = Failure("TIMEOUT")
         \/ got # "all" /\ cause = "network" /\ result = Failure("NETWORK_ERROR")

(* What send makes of a whole answer: readable says whether its body was.  *)
LEMMA Classified ==
    ASSUME answer \in [status : Status, json : BOOLEAN, body : Body]
    PROVE  /\ Classify \in Result /\ Classify # NoResult
           /\ Classify.ok <=> answer.status \in 200..299 /\ Readable
           /\ Classify.ok <=> Classify.errorCode = Null
           /\ Classify.statusCode = answer.status
           /\ Classify.errorCode = "HTTP_ERROR" <=> answer.status \notin 200..299
           /\ Classify.errorCode # "TIMEOUT" /\ Classify.body # Null
<1>1. /\ JsonParse.body \in {"text", "value"} /\ JsonParse.failed \in BOOLEAN
      /\ ~JsonParse.failed <=> Readable
  BY BodyAssumption DEF JsonParse, Readable, Parses
<1> DEFINE code == Code(JsonParse.failed)
<1>2. /\ code \in {"HTTP_ERROR", "INVALID_RESPONSE", Null}
      /\ code = "HTTP_ERROR" <=> answer.status \notin 200..299
      /\ code = Null <=> answer.status \in 200..299 /\ Readable
  BY <1>1 DEF Code, Null
<1> HIDE DEF code
<1>3. Classify = [ok |-> code = Null, statusCode |-> answer.status,
                  errorCode |-> code, body |-> JsonParse.body]
  BY DEF Classify, code
<1>4. answer.status \in Status /\ (code = Null) \in BOOLEAN
  OBVIOUS
<1>5. Classify \in Result
  BY <1>1, <1>2, <1>3, <1>4 DEF Result, ErrorCode, Null
<1>6. Classify.body # Null /\ NoResult.body = Null
  BY <1>1, <1>3 DEF Null, NoResult
<1>7. QED
  BY <1>2, <1>3, <1>5, <1>6 DEF Null

LEMMA Failures ==
    ASSUME NEW errorCode \in ErrorCode
    PROVE  /\ Failure(errorCode) \in Result /\ Failure(errorCode) # NoResult
           /\ Failure(errorCode) =
                [ok |-> FALSE, statusCode |-> NoStatus, errorCode |-> errorCode, body |-> Null]
<1> DEFINE failure == [ok |-> FALSE, statusCode |-> NoStatus,
                       errorCode |-> errorCode, body |-> Null]
<1>1. Failure(errorCode) = failure
  <2>1. NoResult \in Result
    BY Zenon DEF NoResult, Result
  <2>2. \A r \in Result :
          [r EXCEPT !.errorCode = errorCode]
            = [ok |-> r.ok, statusCode |-> r.statusCode,
               errorCode |-> errorCode, body |-> r.body]
    BY DEF Result
  <2>3. NoResult.ok = FALSE /\ NoResult.statusCode = NoStatus /\ NoResult.body = Null
    BY DEF NoResult
  <2>4. QED
    BY <2>1, <2>2, <2>3 DEF Failure
<1>2. failure \in Result
  BY Zenon DEF Result
<1>3. errorCode # Null
  BY DEF ErrorCode, Null
<1>4. failure # NoResult
  <2>1. failure.errorCode = errorCode /\ NoResult.errorCode = Null
    BY DEF NoResult
  <2>2. QED
    BY <1>3, <2>1
<1>5. QED
  BY <1>1, <1>2, <1>4

LEMMA ArrivedInvariant == Spec => [](TypeOK /\ Arrived)
<1>1. Init => TypeOK /\ Arrived
  BY DEF Init, TypeOK, Arrived, Settled, NoResult, Result, Null
<1>2. TypeOK /\ Arrived /\ [Next]_vars => TypeOK' /\ Arrived'
  <2> SUFFICES ASSUME TypeOK, Arrived, [Next]_vars PROVE TypeOK' /\ Arrived'
    OBVIOUS
  <2>1. Classify \in Result /\ Classify # NoResult
    BY Classified DEF TypeOK
  <2>2. /\ Failure("TIMEOUT") \in Result /\ Failure("TIMEOUT") # NoResult
        /\ Failure("NETWORK_ERROR") \in Result /\ Failure("NETWORK_ERROR") # NoResult
    BY Failures DEF ErrorCode
  <2>3. CASE HeadArrives
    BY <2>3 DEF HeadArrives, TypeOK, Arrived, Settled
  <2>4. CASE BodyArrives
    <3>1. Classify' = Classify
      BY <2>4 DEF BodyArrives, Classify, Code, JsonParse
    <3>2. QED
      BY <2>1, <2>4, <3>1 DEF BodyArrives, TypeOK, Arrived, Settled
  <2>5. CASE TimesOut
    BY <2>2, <2>5 DEF TimesOut, TypeOK, Arrived, Settled, Failure
  <2>6. CASE NetworkFails
    BY <2>2, <2>6 DEF NetworkFails, TypeOK, Arrived, Settled
  <2>7. CASE Insert
    <3>1. Classify' = Classify
      BY <2>7 DEF Insert, Classify, Code, JsonParse
    <3>2. QED
      BY <2>7, <3>1 DEF Insert, TypeOK, Arrived, Settled
  <2>8. CASE UNCHANGED vars
    <3>1. Classify' = Classify
      BY <2>8 DEF vars, Classify, Code, JsonParse
    <3>2. QED
      BY <2>8, <3>1 DEF vars, TypeOK, Arrived, Settled
  <2>9. QED
    BY <2>3, <2>4, <2>5, <2>6, <2>7, <2>8 DEF Next
<1>3. QED
  BY <1>1, <1>2, PTL DEF Spec

(* Type correctness of the probe: it has a result exactly when it settled. *)
THEOREM TypeCorrect == Spec => []TypeOK
  BY ArrivedInvariant, PTL

(* What is recorded of a probe is what happened to it, whatever the target *)
(* sends, for every status and body (httpbin-client.ts:75).                *)
THEOREM RecordedAsItWasInvariant == Spec => []RecordedAsItWas
<1>1. TypeOK /\ Arrived => RecordedAsItWas
  <2> SUFFICES ASSUME TypeOK, Arrived, Settled
               PROVE  /\ result.ok <=> got = "all" /\ answer.status \in 200..299 /\ Readable
                      /\ result.ok <=> result.errorCode = Null
                      /\ result.statusCode = (IF got = "all" THEN answer.status ELSE NoStatus)
                      /\ result.errorCode = "HTTP_ERROR"
                           <=> got = "all" /\ answer.status \notin 200..299
                      /\ result.errorCode = "TIMEOUT" <=> cause = "timeout"
                      /\ (result.body = Null) <=> (got # "all")
    BY DEF RecordedAsItWas
  <2>1. CASE got = "all"
    <3>1. cause = "none" /\ result = Classify
      BY <2>1 DEF Arrived
    <3>2. QED
      BY <2>1, <3>1, Classified DEF TypeOK
  <2>2. CASE got # "all"
    <3>1. \/ cause = "timeout" /\ result = Failure("TIMEOUT")
          \/ cause = "network" /\ result = Failure("NETWORK_ERROR")
      BY <2>2 DEF Arrived
    <3>2. QED
      BY <2>2, <3>1, Failures DEF ErrorCode, Null
  <2>3. QED
    BY <2>1, <2>2
<1>2. QED
  BY <1>1, ArrivedInvariant, PTL
=============================================================================
