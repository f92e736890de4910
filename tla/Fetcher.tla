------------------------------ MODULE Fetcher ------------------------------
(***************************************************************************)
(* What the interface Fetcher of internal/upstream/dsv/client.go promises: *)
(* one call of FetchJSON ends once, with the body of a response that was   *)
(* asked for, with the error such a response stands for, or with           *)
(* "unavailable", and it does end.                                         *)
(***************************************************************************)
EXTENDS Integers

CONSTANTS
  Requests,     \* the requests the page may make
  None

VARIABLES
  resp,         \* the response to each request; the page decides it
  outcome       \* what the call returned, or None

vars == <<resp, outcome>>

Codes == {"none", "SHIPMENT_NOT_FOUND"}

Response == [match : BOOLEAN,   \* XHR or fetch whose URL contains the substring
             status : Nat, empty : BOOLEAN, code : Codes]

Body(r) == [kind |-> "body", req |-> r]

Error(e) == [kind |-> e, req |-> None]

(* The sentinel a 4xx or 5xx response stands for. *)
MapError(x) ==
  CASE x.code = "SHIPMENT_NOT_FOUND" \/ x.status = 404 -> "ErrShipmentNotFound"
    [] x.code # "SHIPMENT_NOT_FOUND" /\ x.status = 429 -> "ErrThrottled"
    [] x.code # "SHIPMENT_NOT_FOUND" /\ x.status >= 500 -> "ErrUpstreamUnavailable"
    [] OTHER -> "ErrInvalidReference"

Init == resp \in [Requests -> Response] /\ outcome = None

AnswerBody(r) ==
  /\ outcome = None
  /\ resp[r].match /\ ~resp[r].empty /\ resp[r].status < 400
  /\ outcome' = Body(r)
  /\ UNCHANGED resp

AnswerError(r) ==
  /\ outcome = None
  /\ resp[r].match /\ ~resp[r].empty /\ resp[r].status >= 400
  /\ outcome' = Error(MapError(resp[r]))
  /\ UNCHANGED resp

Unavailable ==
  /\ outcome = None
  /\ outcome' = Error("ErrUpstreamUnavailable")
  /\ UNCHANGED resp

Next == Unavailable \/ \E r \in Requests : AnswerBody(r) \/ AnswerError(r)

Spec == Init /\ [][Next]_vars

FairSpec == Spec /\ WF_vars(Next)
=============================================================================
