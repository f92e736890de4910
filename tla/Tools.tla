------------------------------- MODULE Tools -------------------------------
(***************************************************************************)
(* The tools of internal/mcp/tools.go over their two caches and DSV.       *)
(*                                                                         *)
(* track_shipment asks the search cache.  get_shipment_details asks the    *)
(* detail cache; when that is unavailable it asks the search cache for the *)
(* STT of the id, to tell an outage from a typo; a live answer about a     *)
(* delivered shipment is stored again for a day.  Each cache is taken from *)
(* ReadThrough, which TTLCache implements: a tool call asks each of them   *)
(* at most once.  The two share the clock and the contexts of the calls.   *)
(*                                                                         *)
(* A reference is trimmed and case-folded into an STT; a shipment_id is    *)
(* the sequence of its colon-separated segments.                           *)
(***************************************************************************)
EXTENDS Integers, Sequences

CONSTANTS
  Requests,     \* tool calls
  Stts,         \* STT numbers
  Shared,       \* those by which a search may find a second shipment too
  Types,        \* reference_type codes of the catalog; "" if omitted
  Inputs,       \* what the tools are called with
  Impatient,    \* calls whose client may withdraw them
  Errors,       \* how the browser or the mapper may fail, whatever DSV knows
  SearchTTL, SearchStale, DetailTTL, DetailStale, DayTTL,
  MaxTime,      \* bound on the clock
  None

ASSUME TimeAssumption ==
  {SearchTTL, SearchStale, DetailTTL, DetailStale, DayTTL} \subseteq Int /\ MaxTime \in Nat

(* Any fetch may run into the deadline of the browser.  "browser_fetch" is *)
(* the UpstreamError that wraps ErrUpstreamUnavailable without a response; *)
(* the plain ErrUpstreamUnavailable is that of a failed navigation or 5xx. *)
ASSUME ErrorAssumption ==
  /\ "browser_fetch" \in Errors
  /\ Errors \subseteq {"browser_fetch", "ErrUpstreamUnavailable", "ErrThrottled",
                       "ErrInvalidReference", "ErrMalformedResponse"}

VARIABLES
  now, cancelled,                         \* the clock, the contexts that are done
  dsv,                                    \* what DSV knows of each STT
  dItems, dRound, dClient, dOffer, dWire, \* DetailCache; what DSV has answered its rounds
  sItems, sRound, sClient, sOffer, sWire, \* SearchCache; likewise
  req,                                    \* the handler of each call
  always                                  \* history: the STTs known from the start

dVars == <<dItems, dRound, dClient, dOffer, dWire>>
sVars == <<sItems, sRound, sClient, sOffer, sWire>>
vars == <<now, cancelled, dsv, dVars, sVars, req, always>>

Id(s, mode) == <<"LandStt", s, "CTTS", mode>>
Exact(s) == Id(s, "LAND")

(* Another shipment that bears the same number, as a reference say. *)
Namesake(s) == Id(s, "AIR")

(* The detail XHR is found by substring: a shortened mode finds it too. *)
Finds(id, s) == id \in {Id(s, m) : m \in {"L", "LA", "LAN", "LAND"}}

ShipmentIds == {i.arg : i \in {j \in Inputs : j.tool = "get_shipment_details"}}

ValidShipmentID(id) == Len(id) = 4 /\ \A n \in 1..4 : id[n] # ""

Sids == {id \in ShipmentIds : ValidShipmentID(id)}

SearchKeys == Stts \X Types

Shipments == [id : {Exact(s) : s \in Stts}, stage : {"transit", "delivered"}]
Summaries ==
  {<<>>} \cup {<<Exact(s)>> : s \in Stts} \cup {<<Namesake(s), Exact(s)>> : s \in Shared}

CtxErr == "context.Canceled"

(* fault: the browser passes on the error of the context *)
AbortedAsCtx == CtxErr

(* A fetch whose context is done ends like one whose deadline has passed:  *)
(* FetchJSON does not return ctx.Err().                                    *)
Aborted == "browser_fetch"

(* What the caches keep and answer, for each of the two kinds of values. *)
Entry(V) == [value : V, fetchedAt : Nat, expiresAt : Int]
Response(V) == [tag : {"live", "cached", "stale_fallback"}, data : V, fetchedAt : Nat]
Fault == [tag : {"error"}, data : Errors \cup {"ErrShipmentNotFound", CtxErr}, fetchedAt : Nat]

(* What DSV has put on the wire: a body, or an error response. *)
Sent(x) == [ok |-> TRUE, body |-> x]
Refused == [ok |-> FALSE, body |-> None]

Codes == {"success", "INVALID_INPUT", "INVALID_REFERENCE_TYPE", "INVALID_SHIPMENT_ID",
          "SHIPMENT_NOT_FOUND", "UPSTREAM_TIMEOUT", "UPSTREAM_UNAVAILABLE", "UPSTREAM_ERROR"}

ASSUME NoneAssumption ==
  /\ None \notin Inputs /\ None \notin Codes /\ None \notin Fault /\ None # Refused
  /\ None \notin Entry(Shipments) /\ None \notin Response(Shipments)
  /\ None \notin Entry(Summaries) /\ None \notin Response(Summaries)

(* The type may be omitted, and whatever an id has as its second segment   *)
(* can be searched for.                                                    *)
ASSUME InputAssumption ==
  /\ "" \in Types
  /\ \A id \in Sids : id[2] \in Stts

D == INSTANCE ReadThrough WITH
       Callers <- Requests, Keys <- Sids, Values <- Shipments,
       Errors <- Errors \cup {"ErrShipmentNotFound"}, AbortErr <- Aborted, CtxErr <- CtxErr,
       Setters <- Requests, TTL <- DetailTTL, StaleWindow <- DetailStale, LongTTL <- DayTTL,
       items <- dItems, round <- dRound, client <- dClient, offer <- dOffer

S == INSTANCE ReadThrough WITH
       Callers <- Requests, Keys <- SearchKeys, Values <- Summaries,
       Errors <- Errors \cup {"ErrShipmentNotFound"}, AbortErr <- Aborted, CtxErr <- CtxErr,
       Setters <- {}, TTL <- SearchTTL, StaleWindow <- SearchStale, LongTTL <- SearchTTL,
       items <- sItems, round <- sRound, client <- sClient, offer <- sOffer

Idle == [pc |-> "new", input |-> None, code |-> None]

Init ==
  /\ D!Init /\ S!Init
  /\ dsv \in [Stts -> {"unknown", "transit"}]
  /\ dWire = [k \in Sids |-> None]
  /\ sWire = [k \in SearchKeys |-> None]
  /\ req = [q \in Requests |-> Idle]
  /\ always = {s \in Stts : dsv[s] # "unknown"}

-----------------------------------------------------------------------------
(* DSV: shipments are registered and delivered, requests answered. *)
Register(s) ==
  /\ dsv[s] = "unknown"
  /\ dsv' = [dsv EXCEPT ![s] = "transit"]
  /\ UNCHANGED <<now, cancelled, dVars, sVars, req, always>>

Deliver(s) ==
  /\ dsv[s] = "transit"
  /\ dsv' = [dsv EXCEPT ![s] = "delivered"]
  /\ UNCHANGED <<now, cancelled, dVars, sVars, req, always>>

(* The page asks for the details of a shipment that exists.  For one that  *)
(* does not it asks for nothing, or it is answered with an error.          *)
AnswerDetail(k) ==
  /\ D!Undecided(k) /\ dWire[k] = None
  /\ \E s \in Stts :
       /\ Finds(k, s)
       /\ dWire' = [dWire EXCEPT ![k] = IF dsv[s] = "unknown" THEN Refused
                                        ELSE Sent([id |-> Exact(s), stage |-> dsv[s]])]
  /\ UNCHANGED <<now, cancelled, dsv, dItems, dRound, dClient, dOffer, sVars, req, always>>

(* Search passes the reference and not its type.  DSV may answer an        *)
(* unknown reference with an empty list or with an error, and list another *)
(* shipment before the one that was meant.                                 *)
SearchAnswers(s) ==
  IF dsv[s] = "unknown" THEN {Sent(<<>>), Refused}
  ELSE {Sent(x) : x \in {y \in Summaries : y # <<>> /\ y[Len(y)] = Exact(s)}}

AnswerSearch(k) ==
  /\ S!Undecided(k) /\ sWire[k] = None
  /\ \E a \in SearchAnswers(k[1]) : sWire' = [sWire EXCEPT ![k] = a]
  /\ UNCHANGED <<now, cancelled, dsv, sItems, sRound, sClient, sOffer, dVars, req, always>>

-----------------------------------------------------------------------------
(* fault: the fetch has no deadline *)
DetailRoundUnbounded(k) ==
  /\ dWire[k] # None /\ dWire[k].ok
  /\ \E t \in 0..MaxTime : D!Land(k, dWire[k].body, t)
  /\ dWire' = [dWire EXCEPT ![k] = None]
  /\ UNCHANGED <<dsv, sVars, req, always>>

(* The rounds of the caches, with the fetchers the handlers give them: the *)
(* client, the browser and the mapper.  A fetch may fail although DSV has  *)
(* answered.                                                               *)
DetailRound(k) ==
  /\ \E t \in 0..MaxTime :
       \/ dWire[k] # None /\ dWire[k].ok /\ D!Land(k, dWire[k].body, t)
       \/ D!Fallback(k, t)
       \/ \E e \in Errors \cup {Aborted} : D!Fail(k, e, t)
       \/ dWire[k] = Refused /\ D!Fail(k, "ErrShipmentNotFound", t)
  /\ dWire' = [dWire EXCEPT ![k] = None]
  /\ UNCHANGED <<dsv, sVars, req, always>>

CloseDetail(k) == D!Close(k) /\ UNCHANGED <<dsv, dWire, sVars, req, always>>

SearchRound(k) ==
  /\ \E t \in 0..MaxTime :
       \/ sWire[k] # None /\ sWire[k].ok /\ S!Land(k, sWire[k].body, t)
       \/ S!Fallback(k, t)
       \/ \E e \in Errors \cup {Aborted} : S!Fail(k, e, t)
       \/ sWire[k] = Refused /\ S!Fail(k, "ErrShipmentNotFound", t)
  /\ sWire' = [sWire EXCEPT ![k] = None]
  /\ UNCHANGED <<dsv, dVars, req, always>>

CloseSearch(k) == S!Close(k) /\ UNCHANGED <<dsv, sWire, dVars, req, always>>

-----------------------------------------------------------------------------
(* The error codes.                                                        *)
ErrFromUpstream(e) ==
  CASE e = CtxErr -> "UPSTREAM_TIMEOUT"
    [] e \in {"ErrShipmentNotFound", "ErrInvalidReference"} -> "SHIPMENT_NOT_FOUND"
    [] e \in {"browser_fetch", "ErrUpstreamUnavailable", "ErrThrottled"} -> "UPSTREAM_UNAVAILABLE"
    [] OTHER -> "UPSTREAM_ERROR"

(* fault: any failed search denies the shipment *)
VerdictHasty(id, r) ==
  IF r.tag = "error" \/ r.data = <<>> \/ Head(r.data) # id
  THEN "SHIPMENT_NOT_FOUND"
  ELSE "UPSTREAM_UNAVAILABLE"

(* fault: an id that DSV lists leaves the handler without an error *)
VerdictSilent(id, r) ==
  IF r.tag = "error"
  THEN IF r.data \in {"ErrShipmentNotFound", "ErrInvalidReference"}
       THEN "SHIPMENT_NOT_FOUND" ELSE "UPSTREAM_UNAVAILABLE"
  ELSE IF r.data = <<>> \/ Head(r.data) # id THEN "SHIPMENT_NOT_FOUND" ELSE None

(* The detail is unavailable: what the search r for its STT makes of that. *)
Verdict(id, r) ==
  IF r.tag = "error"
  THEN IF r.data \in {"ErrShipmentNotFound", "ErrInvalidReference"}
       THEN "SHIPMENT_NOT_FOUND" ELSE "UPSTREAM_UNAVAILABLE"
  ELSE IF r.data = <<>> \/ Head(r.data) # id
       THEN "SHIPMENT_NOT_FOUND" ELSE "UPSTREAM_UNAVAILABLE"

-----------------------------------------------------------------------------
(* The handlers.                                                           *)
Input(q) == req[q].input

Goto(q, pc) == req' = [req EXCEPT ![q].pc = pc]

Answer(q, code) == req' = [req EXCEPT ![q] = [@ EXCEPT !.pc = "done", !.code = code]]

Delivered(r) == r.tag # "error" /\ r.data.stage = "delivered"

Call(q, i, pc) ==
  /\ req[q].pc = "new"
  /\ req' = [req EXCEPT ![q] = [@ EXCEPT !.pc = pc, !.input = i]]

(* What needs neither the caches nor DSV. *)
AnswerAtOnce(q, i, code) ==
  /\ req[q].pc = "new"
  /\ req' = [req EXCEPT ![q] = [@ EXCEPT !.pc = "done", !.input = i, !.code = code]]
  /\ UNCHANGED <<now, cancelled, dsv, dVars, sVars, always>>

RejectReference(q, i) ==
  /\ i.tool = "track_shipment" /\ i.arg[1] = ""
  /\ AnswerAtOnce(q, i, "INVALID_INPUT")

RejectType(q, i) ==
  /\ i.tool = "track_shipment" /\ i.arg[1] # "" /\ i.arg[2] \notin Types
  /\ AnswerAtOnce(q, i, "INVALID_REFERENCE_TYPE")

RejectID(q, i) ==
  /\ i.tool = "get_shipment_details" /\ ~ValidShipmentID(i.arg)
  /\ AnswerAtOnce(q, i, "INVALID_SHIPMENT_ID")

(* The catalog is embedded in the program. *)
ListReferenceTypes(q, i) ==
  /\ i.tool = "list_reference_types"
  /\ AnswerAtOnce(q, i, "success")

Track(q, i) ==
  /\ i.tool = "track_shipment" /\ i.arg \in SearchKeys
  /\ Call(q, i, "searchLookup")
  /\ S!Ask(q, i.arg)
  /\ UNCHANGED <<dsv, sWire, dVars, always>>

Details(q, i) ==
  /\ i.tool = "get_shipment_details" /\ ValidShipmentID(i.arg)
  /\ Call(q, i, "detailLookup")
  /\ D!Ask(q, i.arg)
  /\ UNCHANGED <<dsv, dWire, sVars, always>>

(* Fetch misses, and only then asks singleflight. *)
Fresh(items, client, q) ==
  LET e == items[client[q].key] IN e # None /\ client[q].since < e.expiresAt

MissDetail(q) ==
  /\ req[q].pc = "detailLookup"
  /\ ~Fresh(dItems, dClient, q)
  /\ Goto(q, "detailMissed")
  /\ UNCHANGED <<now, cancelled, dsv, dVars, sVars, always>>

MissSearch(q) ==
  /\ req[q].pc = "searchLookup"
  /\ ~Fresh(sItems, sClient, q)
  /\ Goto(q, "searchMissed")
  /\ UNCHANGED <<now, cancelled, dsv, dVars, sVars, always>>

EnterDetail(q) ==
  /\ req[q].pc = "detailMissed"
  /\ D!Enter(q)
  /\ Goto(q, "detail")
  /\ UNCHANGED <<dsv, dWire, sVars, always>>

EnterSearch(q) ==
  /\ req[q].pc = "searchMissed"
  /\ S!Enter(q)
  /\ Goto(q, "search")
  /\ UNCHANGED <<dsv, sWire, dVars, always>>

(* fault: every live answer is stored for a day *)
AnyLive(r) == r.tag = "live"

(* The answers that are stored for a day. *)
Upgraded(r) == r.tag = "live" /\ Delivered(r)

(* The detail cache has answered. *)
DetailReturns(q) ==
  LET r == dClient'[q].reply IN
  /\ \/ req[q].pc = "detailLookup" /\ D!Hit(q)
     \/ req[q].pc = "detail" /\ (D!Accept(q) \/ D!GiveUp(q))
  /\ IF r.tag = "error"
     THEN IF ErrFromUpstream(r.data) = "UPSTREAM_UNAVAILABLE"
          THEN Goto(q, "resolve")
          ELSE Answer(q, ErrFromUpstream(r.data))
     ELSE IF Upgraded(r) THEN Goto(q, "upgrade") ELSE Answer(q, "success")
  /\ UNCHANGED <<dsv, dWire, sVars, always>>

(* The day's entry is stamped when it is stored, not when it was fetched. *)
Upgrade(q) ==
  /\ req[q].pc = "upgrade"
  /\ \E t \in 0..now : D!Extend(q, t)
  /\ Answer(q, "success")
  /\ UNCHANGED <<dsv, dWire, sVars, always>>

(* The STT is the second segment; the search is one without a type. *)
Resolve(q) ==
  /\ req[q].pc = "resolve"
  /\ S!Ask(q, <<Input(q).arg[2], "">>)
  /\ Goto(q, "searchLookup")
  /\ UNCHANGED <<dsv, sWire, dVars, always>>

(* The search cache has answered track_shipment or the above. *)
SearchReturns(q) ==
  LET r == sClient'[q].reply IN
  /\ \/ req[q].pc = "searchLookup" /\ S!Hit(q)
     \/ req[q].pc = "search" /\ (S!Accept(q) \/ S!GiveUp(q))
  /\ Answer(q, IF Input(q).tool = "get_shipment_details" THEN Verdict(Input(q).arg, r)
               ELSE IF r.tag = "error" THEN ErrFromUpstream(r.data) ELSE "success")
  /\ UNCHANGED <<dsv, sWire, dVars, always>>

Cancel(q) ==
  /\ q \in Impatient
  /\ req[q].pc \notin {"new", "done"} /\ q \notin cancelled
  /\ cancelled' = cancelled \cup {q}
  /\ UNCHANGED <<now, dsv, dVars, sVars, req, always>>

Tick ==
  /\ now < MaxTime
  /\ now' = now + 1
  /\ UNCHANGED <<cancelled, dsv, dVars, sVars, req, always>>

-----------------------------------------------------------------------------
Begin(q) ==
  \E i \in Inputs :
    RejectReference(q, i) \/ RejectType(q, i) \/ RejectID(q, i) \/ ListReferenceTypes(q, i)
    \/ Track(q, i) \/ Details(q, i)

Step(q) ==
  \/ MissDetail(q) \/ EnterDetail(q) \/ DetailReturns(q) \/ Upgrade(q)
  \/ Resolve(q) \/ MissSearch(q) \/ EnterSearch(q) \/ SearchReturns(q)

Fetching ==
  \/ \E k \in Sids : DetailRound(k) \/ CloseDetail(k)
  \/ \E k \in SearchKeys : SearchRound(k) \/ CloseSearch(k)

Next ==
  \/ \E q \in Requests : Begin(q) \/ Step(q) \/ Cancel(q)
  \/ Fetching
  \/ \E k \in Sids : AnswerDetail(k)
  \/ \E k \in SearchKeys : AnswerSearch(k)
  \/ \E s \in Stts : Register(s) \/ Deliver(s)
  \/ Tick

Spec == Init /\ [][Next]_vars

(* Handlers and fetches run; each fetch has a deadline.  Nobody else has   *)
(* to do anything: DSV may never answer.                                   *)
FairSpec ==
  /\ Spec
  /\ \A q \in Requests : WF_vars(Step(q))
  /\ \A k \in Sids : WF_vars(DetailRound(k) \/ CloseDetail(k))
  /\ \A k \in SearchKeys : WF_vars(SearchRound(k) \/ CloseSearch(k))

-----------------------------------------------------------------------------
Handler == [pc : {"new", "detailLookup", "detailMissed", "detail", "upgrade", "resolve",
                  "searchLookup", "searchMissed", "search", "done"},
            input : Inputs \cup {None}, code : Codes \cup {None}]

TypeOK ==
  /\ now \in 0..MaxTime /\ cancelled \subseteq Requests
  /\ dsv \in [Stts -> {"unknown", "transit", "delivered"}]
  /\ dWire \in [Sids -> {Sent(x) : x \in Shipments} \cup {Refused, None}]
  /\ sWire \in [SearchKeys -> {Sent(x) : x \in Summaries} \cup {Refused, None}]
  /\ \A k \in Sids : dItems[k] # None => dItems[k].value \in Shipments
  /\ \A k \in SearchKeys : sItems[k] # None => sItems[k].value \in Summaries
  /\ req \in [Requests -> Handler]
  /\ \A q \in Requests :
       /\ (req[q].pc = "new") = (req[q].input = None)
       /\ (req[q].pc = "done") = (req[q].code # None)

Detailed(q) ==
  /\ req[q].pc = "done" /\ req[q].code = "success"
  /\ Input(q).tool = "get_shipment_details"

(* q has been told that the shipment with this id is delivered. *)
ToldDelivered(q, id) == Detailed(q) /\ Input(q).arg = id /\ Delivered(dClient[q].reply)

(* Delivery is final: once a call was told that a shipment is delivered,   *)
(* neither its entry nor what its open round is about to answer says       *)
(* otherwise, although calls that still hold an older answer store again   *)
(* at any moment and expired entries are served when DSV is down.          *)
DeliveredIsFinal ==
  \A q \in Requests, id \in Sids : ToldDelivered(q, id) =>
    /\ dItems[id] # None /\ dItems[id].value.stage = "delivered"
    /\ dWire[id] # None => dWire[id].ok /\ dWire[id].body.stage = "delivered"
    /\ dRound[id].outcome # None => dRound[id].outcome.tag = "error" \/ Delivered(dRound[id].outcome)

(* Only what cannot change is kept for longer than the TTL: a status that  *)
(* was fetched a TTL or more before the call began is a delivery, or it is *)
(* labelled stale.                                                         *)
OldStatusIsFinal ==
  \A q \in Requests :
    LET r == dClient[q].reply IN
    Detailed(q) /\ r.tag = "cached" /\ dClient[q].since >= r.fetchedAt + DetailTTL
      => Delivered(r)

(* p and q have asked a cache for the same key: they may share a fetch. *)
SameKey(p, q) ==
  \/ dClient[p].key # None /\ dClient[p].key = dClient[q].key
  \/ sClient[p].key # None /\ sClient[p].key = sClient[q].key

(* The client of one call may withdraw it while others wait for the fetch  *)
(* it has started: it alone times out, and none of the others is told that *)
(* its own time was up, whichever of them come, join or leave when.        *)
LeaderTimesOutAlone ==
  \A p, q \in Requests :
    p \in cancelled /\ SameKey(p, q) /\ req[q].code = "UPSTREAM_TIMEOUT" => q \in cancelled

(* q was told that a shipment which DSV has known from the start, and      *)
(* which q named exactly, does not exist.                                  *)
DeniedKnown(q) ==
  /\ req[q].code = "SHIPMENT_NOT_FOUND"
  /\ \E s \in always :
       \/ Input(q).tool = "track_shipment" /\ Input(q).arg[1] = s
       \/ Input(q).tool = "get_shipment_details" /\ Input(q).arg = Exact(s)

GotError(reply, e) == reply # None /\ reply.tag = "error" /\ reply.data = e

Got(q, e) == GotError(dClient[q].reply, e) \/ GotError(sClient[q].reply, e)

(* The search of q found its shipment, but listed another one first. *)
ListedSecond(q) ==
  /\ Input(q).tool = "get_shipment_details" /\ Input(q).arg[2] \in Shared
  /\ sClient[q].reply # None /\ sClient[q].reply.tag # "error"
  /\ sClient[q].reply.data = <<Namesake(Input(q).arg[2]), Input(q).arg>>

(* Whatever times out, is cancelled or is served stale on the way, a known *)
(* shipment is denied only to a call that got ErrInvalidReference, or that *)
(* compared its id with the first of several shipments: none of the other  *)
(* failures of the two fetches passes for an answer of DSV's.              *)
KnownNeverDenied ==
  \A q \in Requests : DeniedKnown(q) => Got(q, "ErrInvalidReference") \/ ListedSecond(q)

(* Every tool call is answered, one that asks both caches and joins the    *)
(* fetches of others included, even if DSV never answers.                  *)
EveryCallAnswered ==
  \A q \in Requests : req[q].pc # "new" ~> req[q].pc = "done"

-----------------------------------------------------------------------------
(* What errors.go and main.go say and the code does not do.                *)

(* SHIPMENT_NOT_FOUND means that DSV confirmed it.  Any 4xx but 404 and    *)
(* 429, a refusal to serve included, is taken for an invalid reference.    *)
NotFoundIsConfirmed == \A q \in Requests : ~DeniedKnown(q)

(* A fetch that exceeds the deadline of the browser is told as such, as    *)
(* UPSTREAM_TIMEOUT.  The browser reports it as unavailability, though; so *)
(* it does for a cancelled call, which is not what is meant here.          *)
DeadlineIsTimeout ==
  cancelled = {} =>
    \A q \in Requests :
      GotError(sClient[q].reply, "browser_fetch") => req[q].code = "UPSTREAM_TIMEOUT"

(* Of these two entries of the catalog of error codes at least one holds:  *)
(* a state in which this is false refutes both of them.                    *)
CatalogHoldsOnce == NotFoundIsConfirmed \/ DeadlineIsTimeout

(* A delivered shipment that was fetched live is kept for a day: when no   *)
(* handler is running, its entry is a day's entry.  The entry is upgraded  *)
(* by the handler, though, and a cancelled handler does not get there.     *)
DeliveredKeptADay ==
  (\A p \in Requests : req[p].pc \in {"new", "done"}) =>
    \A q \in Requests, id \in Sids :
      ToldDelivered(q, id) /\ dClient[q].reply.tag = "live"
        => dItems[id].expiresAt >= dItems[id].fetchedAt + DayTTL
=============================================================================
