------------------------------- MODULE Answers -------------------------------
(***************************************************************************)
(* How an answer travels from the RPC's end to what a person is shown: the *)
(* failure it is translated to (gateway/status.ts), the response it leaves *)
(* in (http/answer.ts), the value or error the Console makes of that       *)
(* (api/client.ts, api/apiError.ts), and the words for it                  *)
(* (domain/acknowledgementMessage.ts).  The words of a code are the code.  *)
(***************************************************************************)
EXTENDS Contract

None == [kind |-> "none"]

-----------------------------------------------------------------------------
(* In the Console API *)

(* A status the Gateway sent has trailers; one grpc-js made up has none.   *)
Status(name, trailers) == [kind |-> "status", name |-> name, trailers |-> trailers]

(* Mutant: a status is whoever's it says it is. *)
AnyStatusWasSent(error) == TRUE

(* Only UNAVAILABLE is sent by the one and made up by the other. *)
wasSentByTheGateway(error) == error.name = "UNAVAILABLE" => error.trailers

(* `failureFrom`. *)
failureFrom(error, call) ==
    errorCodeForGatewayFailure(
        IF wasSentByTheGateway(error) THEN error.name ELSE "CHANNEL_DOWN", call)

(* `refuse`. *)
refuse(code) ==
    [kind |-> "response", status |-> ERRORS[code].httpStatus,
     retryAfter |-> ERRORS[code].retryAfter, json |-> [code |-> code]]

(* `relay`, of what the Gateway answered. *)
relay(value) ==
    [kind |-> "response", status |-> 200, retryAfter |-> FALSE, json |-> value]

(* What a proxy in front of the Console API says when it cannot reach it:  *)
(* a page of its own, which is not JSON.                                   *)
ProxyPage == [kind |-> "response", status |-> 502, retryAfter |-> FALSE, json |-> None]

-----------------------------------------------------------------------------
(* In the Console *)

(* `fetch` rejects when there is no answer. *)
TypeError == [kind |-> "TypeError"]

ApiError(code) == [kind |-> "ApiError", code |-> code]

(* `apiErrorFrom`: what is not the envelope is a code of the Console's own. *)
apiErrorFrom(response) ==
    ApiError(IF response.json = None THEN "GATEWAY_ERROR" ELSE response.json.code)

(* `request`, once there is a response. *)
ResultOf(response) ==
    IF response.status = 200 THEN [kind |-> "value", value |-> response.json]
    ELSE apiErrorFrom(response)

(* `classifyOutage`, of what a read failed with. *)
classifyOutage(error) ==
    IF error.kind = "TypeError" THEN "console_api_unreachable"
    ELSE IF error.code = "GATEWAY_UNREACHABLE" THEN "gateway_unreachable"
    ELSE IF error.code \in {"BRIDGE_UNREACHABLE", "GATEWAY_NOT_PAIRED"}
         THEN "bridge_unreachable"
    ELSE "other"

CouldNotConfirm == "couldn't confirm"
NoMessage == "no message"

(* `messageForOutcome`; a partial success quotes the Bridge. *)
messageForOutcome(outcome) ==
    CASE outcome = "success" -> NoMessage
      [] outcome = "partial" -> "the Bridge's errors"
      [] outcome = "rejected" -> "BRIDGE_REJECTED_COMMAND"
      [] outcome = "unknown" -> CouldNotConfirm

(* `messageForError`. *)
messageForError(code) ==
    IF code = "MUTATION_OUTCOME_UNKNOWN" THEN CouldNotConfirm ELSE code

(* What LightControls says of how an update ended: nothing at all when     *)
(* there was no answer, for the error is not an ApiError then.             *)
MessageOf(result) ==
    CASE result.kind = "ApiError" -> messageForError(result.code)
      [] result.kind = "value" -> messageForOutcome(result.value.outcome)
      [] result.kind = "TypeError" -> NoMessage
=============================================================================
