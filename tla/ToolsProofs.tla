----------------------------- MODULE ToolsProofs -----------------------------
(***************************************************************************)
(* Proofs about Tools, for any tool calls, shipments, inputs and times.    *)
(*                                                                         *)
(* Each cache keeps what the read-through contract keeps (RInv), whatever  *)
(* the handlers do with it; CallOK says where the caches find a handler    *)
(* at each of its points and what a finished call has been told.  On these *)
(* two rest that a delivery is final (Final), that an old status is a      *)
(* final one (Dated), and that a known shipment is not denied (Known).     *)
(***************************************************************************)
EXTENDS Tools, TLAPS

DP == INSTANCE ReadThroughProofs WITH
       Callers <- Requests, Keys <- Sids, Values <- Shipments,
       Errors <- Errors \cup {"ErrShipmentNotFound"}, AbortErr <- Aborted, CtxErr <- CtxErr,
       Setters <- Requests, TTL <- DetailTTL, StaleWindow <- DetailStale, LongTTL <- DayTTL,
       items <- dItems, round <- dRound, client <- dClient, offer <- dOffer

SP == INSTANCE ReadThroughProofs WITH
       Callers <- Requests, Keys <- SearchKeys, Values <- Summaries,
       Errors <- Errors \cup {"ErrShipmentNotFound"}, AbortErr <- Aborted, CtxErr <- CtxErr,
       Setters <- {}, TTL <- SearchTTL, StaleWindow <- SearchStale, LongTTL <- SearchTTL,
       items <- sItems, round <- sRound, client <- sClient, offer <- sOffer

(* The key an id is searched for by. *)
SttKey(id) == <<id[2], "">>

Detailing(q) ==
  /\ Input(q).tool = "get_shipment_details"
  /\ Input(q).arg \in Sids
  /\ dClient[q].key = Input(q).arg

Tracking(q) ==
  /\ Input(q).tool = "track_shipment"
  /\ Input(q).arg \in SearchKeys
  /\ sClient[q].key = Input(q).arg
  /\ dClient[q].status = "idle"

(* The detail was unavailable and the search for its STT has to tell why. *)
Resolving(q) ==
  /\ Detailing(q)
  /\ sClient[q].key = SttKey(Input(q).arg)
  /\ dClient[q].status = "answered"
  /\ dClient[q].reply.tag = "error"

Ended == {"idle", "answered", "written"}

(* Where the caches find a handler at each of its points. *)
Placed(q) ==
  /\ req[q].pc = "new" => dClient[q].status = "idle" /\ sClient[q].status = "idle"
  /\ req[q].pc \in {"detailLookup", "detailMissed"} =>
       Detailing(q) /\ dClient[q].status = "asking" /\ sClient[q].status = "idle"
  /\ req[q].pc = "detail" =>
       Detailing(q) /\ dClient[q].status = "waiting" /\ sClient[q].status = "idle"
  /\ req[q].pc = "upgrade" =>
       /\ Detailing(q) /\ dClient[q].status = "answered" /\ sClient[q].status = "idle"
       /\ Upgraded(dClient[q].reply)
  /\ req[q].pc = "resolve" =>
       /\ Detailing(q) /\ dClient[q].status = "answered" /\ sClient[q].status = "idle"
       /\ dClient[q].reply.tag = "error"
  /\ req[q].pc \in {"searchLookup", "searchMissed"} =>
       (Tracking(q) \/ Resolving(q)) /\ sClient[q].status = "asking"
  /\ req[q].pc = "search" =>
       (Tracking(q) \/ Resolving(q)) /\ sClient[q].status = "waiting"
  /\ req[q].pc = "done" =>
       dClient[q].status \in Ended /\ sClient[q].status \in Ended

(* What a call was told of a shipment is what its cache answered. *)
Told(q) ==
  Detailed(q) => /\ Detailing(q) /\ dClient[q].status \in {"answered", "written"}
                 /\ dClient[q].reply.tag # "error"

TimedOut(q) == req[q].code = "UPSTREAM_TIMEOUT" => q \in cancelled

Opened(q) ==
  /\ (req[q].pc = "new") = (req[q].input = None)
  /\ (req[q].pc = "done") = (req[q].code # None)

(* The cache denies the shipment, or so the handlers take it. *)
Denies(r) == r.tag = "error" /\ r.data \in {"ErrShipmentNotFound", "ErrInvalidReference"}

(* On what a call may have said that there is no such shipment.            *)
Judged(q) ==
  req[q].code = "SHIPMENT_NOT_FOUND" =>
    \/ Detailing(q) /\ dClient[q].status = "answered" /\ Denies(dClient[q].reply)
    \/ Tracking(q) /\ sClient[q].status = "answered" /\ Denies(sClient[q].reply)
    \/ /\ Resolving(q) /\ sClient[q].status = "answered"
       /\ \/ Denies(sClient[q].reply)
          \/ /\ sClient[q].reply.tag # "error"
             /\ sClient[q].reply.data = <<>> \/ Head(sClient[q].reply.data) # Input(q).arg

CallOK(q) == Opened(q) /\ Placed(q) /\ Told(q) /\ TimedOut(q) /\ Judged(q)

Wires ==
  /\ dWire \in [Sids -> {Sent(x) : x \in Shipments} \cup {Refused, None}]
  /\ sWire \in [SearchKeys -> {Sent(x) : x \in Summaries} \cup {Refused, None}]

Typed ==
  /\ dsv \in [Stts -> {"unknown", "transit", "delivered"}]
  /\ Wires
  /\ req \in [Requests -> Handler]

Caches == DP!RInv /\ SP!RInv

CallsOK == \A q \in Requests : CallOK(q)

IInv == Typed /\ Caches /\ CallsOK

-----------------------------------------------------------------------------
(* The detail cache knows that the shipment has been delivered. *)
Arrived(id) == dItems[id] # None /\ dItems[id].value.stage = "delivered"

IsDelivery(r) == r # None /\ Delivered(r)

SentDelivery(id) ==
  dWire[id] # None /\ dWire[id].ok /\ dWire[id].body.stage = "delivered"

(* A delivery somebody may be told of is in the cache; DSV knows of one    *)
(* that is in the cache or under way, and nothing under way takes it back. *)
Final ==
  /\ \A id \in Sids :
       /\ IsDelivery(dRound[id].outcome) => Arrived(id)
       /\ Arrived(id) =>
            /\ dWire[id] # None => SentDelivery(id)
            /\ dRound[id].outcome # None =>
                 dRound[id].outcome.tag = "error" \/ Delivered(dRound[id].outcome)
       /\ Arrived(id) \/ SentDelivery(id) =>
            \A s \in Stts : Finds(id, s) => dsv[s] = "delivered"
  /\ \A q \in Requests :
       IsDelivery(dOffer[q]) \/ IsDelivery(dClient[q].reply) => Arrived(dClient[q].key)

(* Only a delivery is kept, and answered, for longer than the TTL. *)
Dated ==
  /\ \A id \in Sids : dItems[id] # None /\ ~Arrived(id) =>
       dItems[id].expiresAt = dItems[id].fetchedAt + DetailTTL
  /\ \A q \in Requests :
       LET r == dClient[q].reply IN
       r # None /\ r.tag = "cached" /\ ~Delivered(r) =>
         dClient[q].since < r.fetchedAt + DetailTTL

(* The shipment of this id has been known from the start. *)
Named(id) == \E s \in always : id = Exact(s)

Denial(r) == r # None /\ r.tag = "error" /\ r.data = "ErrShipmentNotFound"

(* The result of a search for s lists it; what it lists first need not be  *)
(* what was meant.                                                         *)
Lists(s, x) == x # <<>> /\ x[Len(x)] = Exact(s)

(* What a search for s may come to. *)
Finding(s, r) == ~Denial(r) /\ (r # None /\ r.tag # "error" => Lists(s, r.data))

(* Nothing DSV has sent, and nothing a cache keeps or answers, denies a    *)
(* shipment that has been known from the start.                            *)
AlwaysKnown == always \subseteq Stts /\ \A s \in always : dsv[s] # "unknown"

DetailsKnown ==
  /\ \A id \in Sids : Named(id) => dWire[id] # Refused /\ ~Denial(dRound[id].outcome)
  /\ \A q \in Requests : Named(dClient[q].key) =>
       ~Denial(dOffer[q]) /\ ~Denial(dClient[q].reply)

SearchesKnown ==
  /\ \A k \in SearchKeys : k[1] \in always =>
       /\ sWire[k] # Refused
       /\ sWire[k] # None => Lists(k[1], sWire[k].body)
       /\ sItems[k] # None => Lists(k[1], sItems[k].value)
       /\ Finding(k[1], sRound[k].outcome)
  /\ \A q \in Requests :
       sClient[q].key \in SearchKeys /\ sClient[q].key[1] \in always =>
         Finding(sClient[q].key[1], sOffer[q]) /\ Finding(sClient[q].key[1], sClient[q].reply)

Known == AlwaysKnown /\ DetailsKnown /\ SearchesKnown

-----------------------------------------------------------------------------
(* The constants of Tools are such as the contract can be used with. *)
LEMMA DetailSound == DP!Sound
<1>1. Aborted \in Errors
  BY ErrorAssumption DEF Aborted
<1>2. None \notin DP!Entries
  BY NoneAssumption DEF DP!Entries, Entry
<1>3. None \notin DP!Replies
  BY <1>1, NoneAssumption DEF DP!Replies, DP!Responses, DP!Failed, DP!Faults, Response, Fault
<1> QED BY <1>2, <1>3, TimeAssumption DEF DP!Sound

(* And so are those of the search cache. *)
LEMMA SearchSound == SP!Sound
<1>1. Aborted \in Errors
  BY ErrorAssumption DEF Aborted
<1>2. None \notin SP!Entries
  BY NoneAssumption DEF SP!Entries, Entry
<1>3. None \notin SP!Replies
  BY <1>1, NoneAssumption DEF SP!Replies, SP!Responses, SP!Failed, SP!Faults, Response, Fault
<1> QED BY <1>2, <1>3, TimeAssumption DEF SP!Sound

(* What Tools takes from the contract is what was proved about. *)
LEMMA DetailContract ==
  /\ D!Init => DP!Init
  /\ D!Next => DP!Next
  /\ UNCHANGED D!vars => UNCHANGED DP!vars
<1>1. D!Next => DP!Next
  BY DEF D!Next, D!Ask, D!ClientStep, D!Hit, D!Enter, D!Accept, D!GiveUp, D!Answered, D!FromEntry,
         D!Failure, D!Cancel, D!Extend, D!RoundStep, D!Land, D!Fallback, D!Fail, D!Close, D!Undecided,
         D!Decide, D!During, D!Usable, D!NoRound, D!Drop, D!Tick,
         DP!Next, DP!Ask, DP!ClientStep, DP!Hit, DP!Enter, DP!Accept, DP!GiveUp, DP!Answered,
         DP!FromEntry, DP!Failure, DP!Cancel, DP!Extend, DP!RoundStep, DP!Land, DP!Fallback, DP!Fail,
         DP!Close, DP!Undecided, DP!Decide, DP!During, DP!Usable, DP!NoRound, DP!Drop, DP!Tick
<1> QED BY <1>1 DEF D!Init, DP!Init, D!NoRound, DP!NoRound, D!vars, DP!vars

(* And so does the search cache. *)
LEMMA SearchContract ==
  /\ S!Init => SP!Init
  /\ S!Next => SP!Next
  /\ UNCHANGED S!vars => UNCHANGED SP!vars
<1>1. S!Next => SP!Next
  BY DEF S!Next, S!Ask, S!ClientStep, S!Hit, S!Enter, S!Accept, S!GiveUp, S!Answered, S!FromEntry,
         S!Failure, S!Cancel, S!Extend, S!RoundStep, S!Land, S!Fallback, S!Fail, S!Close, S!Undecided,
         S!Decide, S!During, S!Usable, S!NoRound, S!Drop, S!Tick,
         SP!Next, SP!Ask, SP!ClientStep, SP!Hit, SP!Enter, SP!Accept, SP!GiveUp, SP!Answered,
         SP!FromEntry, SP!Failure, SP!Cancel, SP!Extend, SP!RoundStep, SP!Land, SP!Fallback, SP!Fail,
         SP!Close, SP!Undecided, SP!Decide, SP!During, SP!Usable, SP!NoRound, SP!Drop, SP!Tick
<1> QED BY <1>1 DEF S!Init, SP!Init, S!NoRound, SP!NoRound, S!vars, SP!vars

(* The same step by step. *)
LEMMA DetailActions ==
  /\ \A q : (\E k \in Sids : D!Ask(q, k)) \/ D!ClientStep(q) => DP!Takes(q)
  /\ \A q, t : D!Extend(q, t) => DP!Extend(q, t)
  /\ \A k, v, t : D!Land(k, v, t) => DP!Land(k, v, t)
  /\ \A k, t : D!Fallback(k, t) => DP!Fallback(k, t)
  /\ \A k, e, t : D!Fail(k, e, t) => DP!Fail(k, e, t)
  /\ \A k : D!Close(k) => DP!Close(k)
  BY DEF D!Ask, D!ClientStep, D!Hit, D!Enter, D!Accept, D!GiveUp, D!Answered, D!FromEntry, D!Failure,
         D!Extend, D!Land, D!Fallback, D!Fail, D!Close, D!Undecided, D!Decide, D!During, D!Usable,
         D!NoRound,
         DP!Takes, DP!Ask, DP!ClientStep, DP!Hit, DP!Enter, DP!Accept, DP!GiveUp, DP!Answered,
         DP!FromEntry, DP!Failure, DP!Extend, DP!Land, DP!Fallback, DP!Fail, DP!Close, DP!Undecided,
         DP!Decide, DP!During, DP!Usable, DP!NoRound

(* And for the search cache, which nobody extends. *)
LEMMA SearchActions ==
  /\ \A q : (\E k \in SearchKeys : S!Ask(q, k)) \/ S!ClientStep(q) => SP!Takes(q)
  /\ \A k, v, t : S!Land(k, v, t) => SP!Land(k, v, t)
  /\ \A k, t : S!Fallback(k, t) => SP!Fallback(k, t)
  /\ \A k, e, t : S!Fail(k, e, t) => SP!Fail(k, e, t)
  /\ \A k : S!Close(k) => SP!Close(k)
  BY DEF S!Ask, S!ClientStep, S!Hit, S!Enter, S!Accept, S!GiveUp, S!Answered, S!FromEntry, S!Failure,
         S!Land, S!Fallback, S!Fail, S!Close, S!Undecided, S!Decide, S!During, S!Usable,
         S!NoRound,
         SP!Takes, SP!Ask, SP!ClientStep, SP!Hit, SP!Enter, SP!Accept, SP!GiveUp, SP!Answered,
         SP!FromEntry, SP!Failure, SP!Land, SP!Fallback, SP!Fail, SP!Close, SP!Undecided,
         SP!Decide, SP!During, SP!Usable, SP!NoRound

-----------------------------------------------------------------------------
(* The ways a call may begin. *)
LEMMA BeginCases ==
  ASSUME NEW q \in Requests, Begin(q)
  PROVE  \E i \in Inputs :
           \/ AnswerAtOnce(q, i, "INVALID_INPUT")
           \/ AnswerAtOnce(q, i, "INVALID_REFERENCE_TYPE")
           \/ AnswerAtOnce(q, i, "INVALID_SHIPMENT_ID")
           \/ i.tool = "list_reference_types" /\ AnswerAtOnce(q, i, "success")
           \/ Track(q, i)
           \/ Details(q, i)
  BY Zenon DEF Begin, RejectReference, RejectType, RejectID, ListReferenceTypes

(* Details asks for an id that Sids has. *)
LEMMA DetailsAsks ==
  ASSUME NEW q \in Requests, NEW i \in Inputs, Details(q, i)
  PROVE  i.arg \in Sids /\ i.tool = "get_shipment_details" /\ D!Ask(q, i.arg)
  BY DEF Details, Sids, ShipmentIds

(* Resolve searches for the STT of its id. *)
LEMMA ResolveAsks ==
  ASSUME NEW q \in Requests, Resolve(q)
  PROVE  /\ req[q].pc = "resolve" /\ S!Ask(q, SttKey(Input(q).arg)) /\ Goto(q, "searchLookup")
         /\ UNCHANGED <<dsv, sWire, dVars, always>>
  BY Zenon DEF Resolve, SttKey

(* Every id can be searched for. *)
LEMMA SttKeyOfId ==
  ASSUME NEW id \in Sids
  PROVE  SttKey(id) \in SearchKeys
  BY InputAssumption, Zenon DEF SttKey, SearchKeys

-----------------------------------------------------------------------------
(* Each step of Tools is, for each of the caches, one of the contract, or  *)
(* nothing, or the withdrawal of a call.                                   *)
Withdraws == cancelled \subseteq cancelled' /\ cancelled' \in SUBSET Requests /\ now' = now

(* For the detail cache. *)
LEMMA DetailStep ==
  ASSUME IInv, [Next]_vars
  PROVE  \/ D!Next
         \/ UNCHANGED D!vars
         \/ Withdraws /\ UNCHANGED <<dItems, dRound, dClient, dOffer>>
<1> USE DEF dVars, D!vars
<1>1. ASSUME NEW q \in Requests, Begin(q) PROVE D!Next \/ UNCHANGED D!vars
  <2>1. PICK i \in Inputs :
           \/ \E code \in Codes : AnswerAtOnce(q, i, code)
           \/ Track(q, i)
           \/ Details(q, i)
    BY <1>1, BeginCases DEF Codes
  <2>2. CASE \E code \in Codes : AnswerAtOnce(q, i, code)
    BY <2>2 DEF AnswerAtOnce
  <2>3. CASE Track(q, i)
    BY <2>3 DEF Track, S!Ask
  <2>4. CASE Details(q, i)
    BY <2>4, DetailsAsks DEF D!Next
  <2> QED BY <2>1, <2>2, <2>3, <2>4
<1>2. ASSUME NEW q \in Requests, Step(q) PROVE D!Next \/ UNCHANGED D!vars
  <2>1. MissDetail(q) \/ MissSearch(q) => UNCHANGED D!vars
    BY DEF MissDetail, MissSearch
  <2>2. EnterDetail(q) => D!Next
    BY DEF EnterDetail, D!Next, D!ClientStep
  <2>3. DetailReturns(q) => D!Next
    BY DEF DetailReturns, D!Next, D!ClientStep
  <2>4. Upgrade(q) => D!Next
    <3>1. now \in 0..MaxTime
      BY DEF IInv, Caches, DP!RInv, DP!RTypeOK
    <3>2. \A t \in 0..now : t \in 0..MaxTime
      BY <3>1, TimeAssumption
    <3> QED BY <3>2 DEF Upgrade, D!Next
  <2>5. Resolve(q) => UNCHANGED D!vars
    BY ResolveAsks DEF S!Ask
  <2>6. EnterSearch(q) => UNCHANGED D!vars
    BY DEF EnterSearch, S!Enter
  <2>7. SearchReturns(q) => UNCHANGED D!vars
    BY DEF SearchReturns, S!Hit, S!Accept, S!GiveUp
  <2> QED BY <1>2, <2>1, <2>2, <2>3, <2>4, <2>5, <2>6, <2>7 DEF Step
<1>3. ASSUME NEW q \in Requests, Cancel(q)
      PROVE  Withdraws /\ UNCHANGED <<dItems, dRound, dClient, dOffer>>
  BY <1>3 DEF Cancel, Withdraws, IInv, Caches, DP!RInv, DP!RTypeOK
<1>4. ASSUME NEW k \in Sids, DetailRound(k) \/ CloseDetail(k) PROVE D!Next
  <2>1. Aborted \in Errors
    BY ErrorAssumption DEF Aborted
  <2>2. DetailRound(k) => D!RoundStep(k)
    BY <2>1 DEF DetailRound, D!RoundStep, IInv, Typed, Wires, Sent, Refused
  <2>3. CloseDetail(k) => D!RoundStep(k)
    BY DEF CloseDetail, D!RoundStep
  <2> QED BY <1>4, <2>2, <2>3 DEF D!Next
<1>5. ASSUME NEW k \in SearchKeys, SearchRound(k) \/ CloseSearch(k) PROVE UNCHANGED D!vars
  BY <1>5 DEF SearchRound, CloseSearch, S!Land, S!Fallback, S!Fail, S!Close
<1>6. ASSUME NEW k, AnswerDetail(k) \/ AnswerSearch(k) PROVE UNCHANGED D!vars
  BY <1>6 DEF AnswerDetail, AnswerSearch
<1>7. ASSUME NEW s, Register(s) \/ Deliver(s) PROVE UNCHANGED D!vars
  BY <1>7 DEF Register, Deliver
<1>8. CASE Tick
  BY <1>8 DEF Tick, D!Next, D!Tick
<1>9. CASE UNCHANGED vars
  BY <1>9 DEF vars
<1> QED BY <1>1, <1>2, <1>3, <1>4, <1>5, <1>6, <1>7, <1>8, <1>9 DEF Next, Fetching

(* For the search cache. *)
LEMMA SearchStep ==
  ASSUME IInv, [Next]_vars
  PROVE  \/ S!Next
         \/ UNCHANGED S!vars
         \/ Withdraws /\ UNCHANGED <<sItems, sRound, sClient, sOffer>>
<1> USE DEF sVars, S!vars
<1>1. ASSUME NEW q \in Requests, Begin(q) PROVE S!Next \/ UNCHANGED S!vars
  <2>1. PICK i \in Inputs :
           \/ \E code \in Codes : AnswerAtOnce(q, i, code)
           \/ Track(q, i)
           \/ Details(q, i)
    BY <1>1, BeginCases DEF Codes
  <2>2. CASE \E code \in Codes : AnswerAtOnce(q, i, code)
    BY <2>2 DEF AnswerAtOnce
  <2>3. CASE Track(q, i)
    BY <2>3 DEF Track, S!Next
  <2>4. CASE Details(q, i)
    BY <2>4, DetailsAsks DEF Details, D!Ask
  <2> QED BY <2>1, <2>2, <2>3, <2>4
<1>2. ASSUME NEW q \in Requests, Step(q) PROVE S!Next \/ UNCHANGED S!vars
  <2>1. MissDetail(q) \/ MissSearch(q) => UNCHANGED S!vars
    BY DEF MissDetail, MissSearch
  <2>2. EnterDetail(q) => UNCHANGED S!vars
    BY DEF EnterDetail, D!Enter
  <2>3. DetailReturns(q) => UNCHANGED S!vars
    BY DEF DetailReturns, D!Hit, D!Accept, D!GiveUp
  <2>4. Upgrade(q) => UNCHANGED S!vars
    BY DEF Upgrade, D!Extend
  <2>5. Resolve(q) => S!Next
    <3>1. Resolve(q) => SttKey(Input(q).arg) \in SearchKeys
      BY ResolveAsks, SttKeyOfId DEF IInv, CallsOK, CallOK, Placed, Detailing
    <3> QED BY <3>1, ResolveAsks DEF S!Next
  <2>6. EnterSearch(q) => S!Next
    BY DEF EnterSearch, S!Next, S!ClientStep
  <2>7. SearchReturns(q) => S!Next
    BY DEF SearchReturns, S!Next, S!ClientStep
  <2> QED BY <1>2, <2>1, <2>2, <2>3, <2>4, <2>5, <2>6, <2>7 DEF Step
<1>3. ASSUME NEW q \in Requests, Cancel(q)
      PROVE  Withdraws /\ UNCHANGED <<sItems, sRound, sClient, sOffer>>
  BY <1>3 DEF Cancel, Withdraws, IInv, Caches, SP!RInv, SP!RTypeOK
<1>4. ASSUME NEW k \in SearchKeys, SearchRound(k) \/ CloseSearch(k) PROVE S!Next
  <2>1. Aborted \in Errors
    BY ErrorAssumption DEF Aborted
  <2>2. SearchRound(k) => S!RoundStep(k)
    BY <2>1 DEF SearchRound, S!RoundStep, IInv, Typed, Wires, Sent, Refused
  <2>3. CloseSearch(k) => S!RoundStep(k)
    BY DEF CloseSearch, S!RoundStep
  <2> QED BY <1>4, <2>2, <2>3 DEF S!Next
<1>5. ASSUME NEW k \in Sids, DetailRound(k) \/ CloseDetail(k) PROVE UNCHANGED S!vars
  BY <1>5 DEF DetailRound, CloseDetail, D!Land, D!Fallback, D!Fail, D!Close
<1>6. ASSUME NEW k, AnswerDetail(k) \/ AnswerSearch(k) PROVE UNCHANGED S!vars
  BY <1>6 DEF AnswerDetail, AnswerSearch
<1>7. ASSUME NEW s, Register(s) \/ Deliver(s) PROVE UNCHANGED S!vars
  BY <1>7 DEF Register, Deliver
<1>8. CASE Tick
  BY <1>8 DEF Tick, S!Next, S!Tick
<1>9. CASE UNCHANGED vars
  BY <1>9 DEF vars
<1> QED BY <1>1, <1>2, <1>3, <1>4, <1>5, <1>6, <1>7, <1>8, <1>9 DEF Next, Fetching

(* Whatever Tools does, its caches keep what the contract keeps. *)
LEMMA CachesKept ==
  ASSUME IInv, [Next]_vars
  PROVE  Caches'
<1> USE DEF IInv, Caches
<1>1. DP!RInv'
  <2>1. CASE D!Next
    BY <2>1, DetailContract, DetailSound, DP!RNext
  <2>2. CASE UNCHANGED D!vars
    BY <2>2, DetailContract, DetailSound, DP!RNext
  <2>3. CASE Withdraws /\ UNCHANGED <<dItems, dRound, dClient, dOffer>>
    BY <2>3, DP!ROther DEF Withdraws, DP!RInv, DP!RTypeOK
  <2> QED BY <2>1, <2>2, <2>3, DetailStep
<1>2. SP!RInv'
  <2>1. CASE S!Next
    BY <2>1, SearchContract, SearchSound, SP!RNext
  <2>2. CASE UNCHANGED S!vars
    BY <2>2, SearchContract, SearchSound, SP!RNext
  <2>3. CASE Withdraws /\ UNCHANGED <<sItems, sRound, sClient, sOffer>>
    BY <2>3, SP!ROther DEF Withdraws, SP!RInv, SP!RTypeOK
  <2> QED BY <2>1, <2>2, <2>3, SearchStep
<1> QED BY <1>1, <1>2

-----------------------------------------------------------------------------
(* What the steps of a call do to its record in a cache. *)
LEMMA DetailMoves ==
  ASSUME IInv, NEW q \in Requests
  PROVE  /\ \A k : D!Ask(q, k) =>
              /\ dClient[q].status = "idle" /\ dClient'[q].status = "asking"
              /\ dClient'[q].key = k /\ dClient'[q].reply = dClient[q].reply
         /\ D!Hit(q) => dClient[q].status = "asking"
         /\ D!Accept(q) \/ D!GiveUp(q) => dClient[q].status = "waiting"
         /\ D!Hit(q) \/ D!Accept(q) \/ D!GiveUp(q) =>
              dClient'[q].status = "answered" /\ dClient'[q].key = dClient[q].key
         /\ D!Enter(q) =>
              /\ dClient[q].status = "asking" /\ dClient'[q].status = "waiting"
              /\ dClient'[q].key = dClient[q].key /\ dClient'[q].reply = dClient[q].reply
         /\ \A t : D!Extend(q, t) =>
              /\ dClient[q].status = "answered" /\ dClient'[q].status = "written"
              /\ dClient'[q].key = dClient[q].key /\ dClient'[q].reply = dClient[q].reply
         /\ (\E k : D!Ask(q, k)) \/ D!ClientStep(q) \/ (\E t : D!Extend(q, t)) =>
              \A p \in Requests : p # q => dClient'[p] = dClient[p]
<1> USE DEF IInv, Caches, DP!RInv, DP!RTypeOK, DP!Clients
<1>1. ASSUME NEW k, D!Ask(q, k)
      PROVE  /\ dClient[q].status = "idle" /\ dClient'[q].status = "asking"
             /\ dClient'[q].key = k /\ dClient'[q].reply = dClient[q].reply
             /\ \A p \in Requests : p # q => dClient'[p] = dClient[p]
  BY <1>1 DEF D!Ask
<1>2. ASSUME D!Hit(q) \/ D!Accept(q) \/ D!GiveUp(q)
      PROVE  /\ dClient'[q].status = "answered" /\ dClient'[q].key = dClient[q].key
             /\ \A p \in Requests : p # q => dClient'[p] = dClient[p]
  <2>1. ASSUME NEW r, D!Answered(q, r)
        PROVE  /\ dClient'[q].status = "answered" /\ dClient'[q].key = dClient[q].key
               /\ \A p \in Requests : p # q => dClient'[p] = dClient[p]
    BY <2>1 DEF D!Answered
  <2> QED BY <1>2, <2>1 DEF D!Hit, D!Accept, D!GiveUp
<1>3. ASSUME D!Enter(q)
      PROVE  /\ dClient[q].status = "asking" /\ dClient'[q].status = "waiting"
             /\ dClient'[q].key = dClient[q].key /\ dClient'[q].reply = dClient[q].reply
             /\ \A p \in Requests : p # q => dClient'[p] = dClient[p]
  BY <1>3 DEF D!Enter
<1>4. ASSUME NEW t, D!Extend(q, t)
      PROVE  /\ dClient[q].status = "answered" /\ dClient'[q].status = "written"
             /\ dClient'[q].key = dClient[q].key /\ dClient'[q].reply = dClient[q].reply
             /\ \A p \in Requests : p # q => dClient'[p] = dClient[p]
  BY <1>4 DEF D!Extend
<1>5. D!Hit(q) => dClient[q].status = "asking"
  BY DEF D!Hit
<1>6. D!Accept(q) \/ D!GiveUp(q) => dClient[q].status = "waiting"
  BY DEF D!Accept, D!GiveUp
<1> QED BY <1>1, <1>2, <1>3, <1>4, <1>5, <1>6 DEF D!ClientStep

(* And of a step of the contract in the search cache. *)
LEMMA SearchMoves ==
  ASSUME IInv, NEW q \in Requests
  PROVE  /\ \A k : S!Ask(q, k) =>
              /\ sClient[q].status = "idle" /\ sClient'[q].status = "asking"
              /\ sClient'[q].key = k /\ sClient'[q].reply = sClient[q].reply
         /\ S!Hit(q) => sClient[q].status = "asking"
         /\ S!Accept(q) \/ S!GiveUp(q) => sClient[q].status = "waiting"
         /\ S!Hit(q) \/ S!Accept(q) \/ S!GiveUp(q) =>
              sClient'[q].status = "answered" /\ sClient'[q].key = sClient[q].key
         /\ S!Enter(q) =>
              /\ sClient[q].status = "asking" /\ sClient'[q].status = "waiting"
              /\ sClient'[q].key = sClient[q].key /\ sClient'[q].reply = sClient[q].reply
         /\ (\E k : S!Ask(q, k)) \/ S!ClientStep(q) =>
              \A p \in Requests : p # q => sClient'[p] = sClient[p]
<1> USE DEF IInv, Caches, SP!RInv, SP!RTypeOK, SP!Clients
<1>1. ASSUME NEW k, S!Ask(q, k)
      PROVE  /\ sClient[q].status = "idle" /\ sClient'[q].status = "asking"
             /\ sClient'[q].key = k /\ sClient'[q].reply = sClient[q].reply
             /\ \A p \in Requests : p # q => sClient'[p] = sClient[p]
  BY <1>1 DEF S!Ask
<1>2. ASSUME S!Hit(q) \/ S!Accept(q) \/ S!GiveUp(q)
      PROVE  /\ sClient'[q].status = "answered" /\ sClient'[q].key = sClient[q].key
             /\ \A p \in Requests : p # q => sClient'[p] = sClient[p]
  <2>1. ASSUME NEW r, S!Answered(q, r)
        PROVE  /\ sClient'[q].status = "answered" /\ sClient'[q].key = sClient[q].key
               /\ \A p \in Requests : p # q => sClient'[p] = sClient[p]
    BY <2>1 DEF S!Answered
  <2> QED BY <1>2, <2>1 DEF S!Hit, S!Accept, S!GiveUp
<1>3. ASSUME S!Enter(q)
      PROVE  /\ sClient[q].status = "asking" /\ sClient'[q].status = "waiting"
             /\ sClient'[q].key = sClient[q].key /\ sClient'[q].reply = sClient[q].reply
             /\ \A p \in Requests : p # q => sClient'[p] = sClient[p]
  BY <1>3 DEF S!Enter
<1>5. S!Hit(q) => sClient[q].status = "asking"
  BY DEF S!Hit
<1>6. S!Accept(q) \/ S!GiveUp(q) => sClient[q].status = "waiting"
  BY DEF S!Accept, S!GiveUp
<1> QED BY <1>1, <1>2, <1>3, <1>5, <1>6 DEF S!ClientStep

-----------------------------------------------------------------------------
(* A call that a step does not touch is as it was. *)
LEMMA Untouched ==
  ASSUME NEW p \in Requests, CallOK(p),
         req'[p] = req[p], dClient'[p] = dClient[p], sClient'[p] = sClient[p],
         cancelled \subseteq cancelled'
  PROVE  CallOK(p)'
  BY DEF CallOK, Opened, Placed, Told, TimedOut, Judged, Detailing, Tracking, Resolving, Detailed, Input

(* A step of one call leaves the others as they were. *)
LEMMA OneCall ==
  ASSUME IInv, NEW q \in Requests, CallOK(q)',
         \A p \in Requests : p # q => req'[p] = req[p],
         \A p \in Requests : p # q => dClient'[p] = dClient[p],
         \A p \in Requests : p # q => sClient'[p] = sClient[p],
         cancelled' = cancelled
  PROVE  CallsOK'
  BY Untouched DEF IInv, CallsOK

(* A step of no call leaves them all as they were. *)
LEMMA NoCall ==
  ASSUME IInv, UNCHANGED <<req, dClient, sClient>>, cancelled \subseteq cancelled'
  PROVE  CallsOK'
  BY Untouched DEF IInv, CallsOK

(* Replacing the record of one call keeps the type of req. *)
LEMMA ReqUpdate ==
  ASSUME req \in [Requests -> Handler], NEW q \in Requests, NEW r \in Handler,
         req' = [req EXCEPT ![q] = r]
  PROVE  req' \in [Requests -> Handler]
  OBVIOUS

(* The points of a handler. *)
Points == {"detailLookup", "detailMissed", "detail", "upgrade", "resolve",
           "searchLookup", "searchMissed", "search"}

(* What Goto, Answer, Call and AnswerAtOnce do to req. *)
LEMMA HandlerMoves ==
  ASSUME IInv, NEW q \in Requests
  PROVE  /\ \A pc \in Points : req[q].pc # "new" /\ req[q].pc # "done" /\ Goto(q, pc) =>
              /\ req' \in [Requests -> Handler]
              /\ req'[q].pc = pc /\ req'[q].input = req[q].input /\ req'[q].code = req[q].code
         /\ \A code \in Codes : Answer(q, code) =>
              /\ req' \in [Requests -> Handler]
              /\ req'[q].pc = "done" /\ req'[q].input = req[q].input /\ req'[q].code = code
         /\ \A i \in Inputs, pc \in Points : Call(q, i, pc) =>
              /\ req' \in [Requests -> Handler]
              /\ req'[q].pc = pc /\ req'[q].input = i /\ req'[q].code = req[q].code
         /\ \A i \in Inputs, code \in Codes : AnswerAtOnce(q, i, code) =>
              /\ req' \in [Requests -> Handler]
              /\ req'[q].pc = "done" /\ req'[q].input = i /\ req'[q].code = code
         /\ \/ \E pc : Goto(q, pc)
            \/ \E code : Answer(q, code)
            \/ \E i, pc : Call(q, i, pc)
            \/ \E i, code : AnswerAtOnce(q, i, code)
            => \A p \in Requests : p # q => req'[p] = req[p]
<1>0. req \in [Requests -> Handler] /\ req[q] \in Handler
  BY DEF IInv, Typed
<1>1. ASSUME NEW pc \in Points, Goto(q, pc)
      PROVE  /\ req' \in [Requests -> Handler]
             /\ req'[q].pc = pc /\ req'[q].input = req[q].input /\ req'[q].code = req[q].code
  <2>1. [req[q] EXCEPT !.pc = pc] \in Handler
    BY ONLY <1>0, pc \in Points DEF Handler, Points
  <2>2. req' \in [Requests -> Handler]
    BY <2>1, <1>0, <1>1, ReqUpdate DEF Goto
  <2> QED BY <1>0, <1>1, <2>2 DEF Goto, Handler
<1>2. ASSUME NEW code \in Codes, Answer(q, code)
      PROVE  /\ req' \in [Requests -> Handler]
             /\ req'[q].pc = "done" /\ req'[q].input = req[q].input /\ req'[q].code = code
  <2>1. [req[q] EXCEPT !.pc = "done", !.code = code] \in Handler
    BY ONLY <1>0, code \in Codes DEF Handler
  <2>2. req' \in [Requests -> Handler]
    BY <2>1, <1>0, <1>2, ReqUpdate DEF Answer
  <2> QED BY <1>0, <1>2, <2>2 DEF Answer, Handler
<1>3. ASSUME NEW i \in Inputs, NEW pc \in Points, Call(q, i, pc)
      PROVE  /\ req' \in [Requests -> Handler]
             /\ req'[q].pc = pc /\ req'[q].input = i /\ req'[q].code = req[q].code
  <2>1. [req[q] EXCEPT !.pc = pc, !.input = i] \in Handler
    BY ONLY <1>0, pc \in Points, i \in Inputs DEF Handler, Points
  <2>2. req' \in [Requests -> Handler]
    BY <2>1, <1>0, <1>3, ReqUpdate DEF Call
  <2> QED BY <1>0, <1>3, <2>2 DEF Call, Handler
<1>4. ASSUME NEW i \in Inputs, NEW code \in Codes, AnswerAtOnce(q, i, code)
      PROVE  /\ req' \in [Requests -> Handler]
             /\ req'[q].pc = "done" /\ req'[q].input = i /\ req'[q].code = code
  <2>1. [req[q] EXCEPT !.pc = "done", !.input = i, !.code = code] \in Handler
    BY ONLY <1>0, code \in Codes, i \in Inputs DEF Handler
  <2>2. req' \in [Requests -> Handler]
    BY <2>1, <1>0, <1>4, ReqUpdate DEF AnswerAtOnce
  <2> QED BY <1>0, <1>4, <2>2 DEF AnswerAtOnce, Handler
<1>5. /\ \A pc : Goto(q, pc) => \A p \in Requests : p # q => req'[p] = req[p]
      /\ \A code : Answer(q, code) => \A p \in Requests : p # q => req'[p] = req[p]
      /\ \A i, pc : Call(q, i, pc) => \A p \in Requests : p # q => req'[p] = req[p]
      /\ \A i, code : AnswerAtOnce(q, i, code) => \A p \in Requests : p # q => req'[p] = req[p]
  BY <1>0 DEF Goto, Answer, Call, AnswerAtOnce
<1> QED BY <1>1, <1>2, <1>3, <1>4, <1>5

-----------------------------------------------------------------------------
(* One lemma per step of a handler: every call stays where it belongs.     *)

(* What such a step has to leave behind. *)
Kept == req' \in [Requests -> Handler] /\ CallsOK'

(* The calls that are answered at once. *)
LEMMA AtOnceKeeps ==
  ASSUME IInv, NEW q \in Requests, NEW i \in Inputs, NEW code \in Codes,
         code \notin {"UPSTREAM_TIMEOUT", "SHIPMENT_NOT_FOUND"},
         code = "success" => i.tool # "get_shipment_details",
         AnswerAtOnce(q, i, code)
  PROVE  Kept
<1>1. CallOK(q) /\ req[q].pc = "new"
  BY DEF IInv, CallsOK, AnswerAtOnce
<1>2. req' \in [Requests -> Handler]
      /\ req'[q].pc = "done" /\ req'[q].input = i /\ req'[q].code = code
      /\ \A p \in Requests : p # q => req'[p] = req[p]
  BY HandlerMoves
<1>3. UNCHANGED <<dClient, sClient, cancelled>>
  BY DEF AnswerAtOnce, dVars, sVars
<1>4. CallOK(q)'
  BY <1>1, <1>2, <1>3, NoneAssumption
     DEF CallOK, Opened, Placed, Told, TimedOut, Judged, Detailed, Input, Ended
<1> QED BY <1>2, <1>3, <1>4, OneCall DEF Kept

(* track_shipment asks the search cache. *)
LEMMA TrackKeeps ==
  ASSUME IInv, NEW q \in Requests, NEW i \in Inputs, Track(q, i)
  PROVE  Kept
<1>1. CallOK(q) /\ req[q].pc = "new"
  BY DEF IInv, CallsOK, Track, Call
<1>2. req' \in [Requests -> Handler]
      /\ req'[q].pc = "searchLookup" /\ req'[q].input = i /\ req'[q].code = req[q].code
      /\ \A p \in Requests : p # q => req'[p] = req[p]
  BY HandlerMoves DEF Track, Points
<1>3. /\ i.tool = "track_shipment" /\ i.arg \in SearchKeys
      /\ S!Ask(q, i.arg) /\ UNCHANGED <<dClient, cancelled>>
  BY DEF Track, dVars, S!Ask
<1>4. /\ sClient'[q].status = "asking" /\ sClient'[q].key = i.arg
      /\ \A p \in Requests : p # q => sClient'[p] = sClient[p]
  BY <1>3, SearchMoves
<1>5. CallOK(q)'
  BY <1>1, <1>2, <1>3, <1>4, NoneAssumption
     DEF CallOK, Opened, Placed, Told, TimedOut, Judged, Detailed, Input, Tracking
<1> QED BY <1>2, <1>3, <1>4, <1>5, OneCall DEF Kept

(* get_shipment_details asks the detail cache. *)
LEMMA DetailsKeeps ==
  ASSUME IInv, NEW q \in Requests, NEW i \in Inputs, Details(q, i)
  PROVE  Kept
<1>1. CallOK(q) /\ req[q].pc = "new"
  BY DEF IInv, CallsOK, Details, Call
<1>2. req' \in [Requests -> Handler]
      /\ req'[q].pc = "detailLookup" /\ req'[q].input = i /\ req'[q].code = req[q].code
      /\ \A p \in Requests : p # q => req'[p] = req[p]
  BY HandlerMoves DEF Details, Points
<1>3. /\ i.tool = "get_shipment_details" /\ i.arg \in Sids
      /\ D!Ask(q, i.arg) /\ UNCHANGED <<sClient, cancelled>>
  BY DetailsAsks DEF Details, sVars, D!Ask
<1>4. /\ dClient'[q].status = "asking" /\ dClient'[q].key = i.arg
      /\ \A p \in Requests : p # q => dClient'[p] = dClient[p]
  BY <1>3, DetailMoves
<1>5. CallOK(q)'
  BY <1>1, <1>2, <1>3, <1>4, NoneAssumption
     DEF CallOK, Opened, Placed, Told, TimedOut, Judged, Detailed, Input, Detailing
<1> QED BY <1>2, <1>3, <1>4, <1>5, OneCall DEF Kept

(* However a call begins. *)
LEMMA BeginKeeps ==
  ASSUME IInv, NEW q \in Requests, Begin(q)
  PROVE  Kept
<1>1. {"success", "INVALID_INPUT", "INVALID_REFERENCE_TYPE", "INVALID_SHIPMENT_ID"} \subseteq Codes
  BY DEF Codes
<1> QED BY <1>1, BeginCases, AtOnceKeeps, TrackKeeps, DetailsKeeps

(* A miss leads on to singleflight. *)
LEMMA MissKeeps ==
  ASSUME IInv, NEW q \in Requests, MissDetail(q) \/ MissSearch(q)
  PROVE  Kept
<1>1. CallOK(q) /\ UNCHANGED <<dClient, sClient, cancelled>>
  BY DEF IInv, CallsOK, MissDetail, MissSearch, dVars, sVars
<1>2. PICK pc \in Points :
        /\ Goto(q, pc)
        /\ \/ req[q].pc = "detailLookup" /\ pc = "detailMissed"
           \/ req[q].pc = "searchLookup" /\ pc = "searchMissed"
  BY DEF MissDetail, MissSearch, Points
<1>3. req' \in [Requests -> Handler]
      /\ req'[q].pc = pc /\ req'[q].input = req[q].input /\ req'[q].code = req[q].code
      /\ \A p \in Requests : p # q => req'[p] = req[p]
  BY <1>2, HandlerMoves
<1>4. CallOK(q)'
  BY <1>1, <1>2, <1>3
     DEF CallOK, Opened, Placed, Told, TimedOut, Judged, Detailed, Input, Detailing, Tracking, Resolving
<1> QED BY <1>1, <1>3, <1>4, OneCall DEF Kept

(* A call enters a round of the detail cache. *)
LEMMA EnterDetailKeeps ==
  ASSUME IInv, NEW q \in Requests, EnterDetail(q)
  PROVE  Kept
<1>1. CallOK(q) /\ req[q].pc = "detailMissed"
      /\ D!Enter(q) /\ UNCHANGED <<sClient, cancelled>>
  BY DEF IInv, CallsOK, EnterDetail, D!Enter, sVars
<1>2. req' \in [Requests -> Handler]
      /\ req'[q].pc = "detail" /\ req'[q].input = req[q].input /\ req'[q].code = req[q].code
      /\ \A p \in Requests : p # q => req'[p] = req[p]
  BY <1>1, HandlerMoves DEF EnterDetail, Points
<1>3. /\ dClient'[q].status = "waiting" /\ dClient'[q].key = dClient[q].key
      /\ \A p \in Requests : p # q => dClient'[p] = dClient[p]
  BY <1>1, DetailMoves DEF D!ClientStep
<1>4. CallOK(q)'
  BY <1>1, <1>2, <1>3 DEF CallOK, Opened, Placed, Told, TimedOut, Judged, Detailed, Input, Detailing
<1> QED BY <1>1, <1>2, <1>3, <1>4, OneCall DEF Kept

(* Or of the search cache. *)
LEMMA EnterSearchKeeps ==
  ASSUME IInv, NEW q \in Requests, EnterSearch(q)
  PROVE  Kept
<1>1. CallOK(q) /\ req[q].pc = "searchMissed"
      /\ S!Enter(q) /\ UNCHANGED <<dClient, cancelled>>
  BY DEF IInv, CallsOK, EnterSearch, S!Enter, dVars
<1>2. req' \in [Requests -> Handler]
      /\ req'[q].pc = "search" /\ req'[q].input = req[q].input /\ req'[q].code = req[q].code
      /\ \A p \in Requests : p # q => req'[p] = req[p]
  BY <1>1, HandlerMoves DEF EnterSearch, Points
<1>3. /\ sClient'[q].status = "waiting" /\ sClient'[q].key = sClient[q].key
      /\ \A p \in Requests : p # q => sClient'[p] = sClient[p]
  BY <1>1, SearchMoves DEF S!ClientStep
<1>4. CallOK(q)'
  BY <1>1, <1>2, <1>3
     DEF CallOK, Opened, Placed, Told, TimedOut, Judged, Detailed, Input, Detailing, Tracking, Resolving
<1> QED BY <1>1, <1>2, <1>3, <1>4, OneCall DEF Kept

(* The code of an error is one of the codes, and the one for a timeout     *)
(* only if the error is that of a context.                                 *)
LEMMA CodeOfError ==
  ASSUME NEW e
  PROVE  /\ ErrFromUpstream(e) \in Codes \ {"success"}
         /\ ErrFromUpstream(e) = "UPSTREAM_TIMEOUT" => e = CtxErr
         /\ ErrFromUpstream(e) = "SHIPMENT_NOT_FOUND" =>
              e \in {"ErrShipmentNotFound", "ErrInvalidReference"}
  BY DEF ErrFromUpstream, Codes, CtxErr

(* The search for the STT of an id tells an outage from a typo, no more.   *)
LEMMA CodeOfVerdict ==
  ASSUME NEW id, NEW r
  PROVE  /\ Verdict(id, r) \in {"SHIPMENT_NOT_FOUND", "UPSTREAM_UNAVAILABLE"}
         /\ Verdict(id, r) = "SHIPMENT_NOT_FOUND" =>
              \/ Denies(r)
              \/ r.tag # "error" /\ (r.data = <<>> \/ Head(r.data) # id)
<1>1. CASE r.tag = "error"
  BY <1>1 DEF Verdict, Denies
<1>2. CASE r.tag # "error" /\ (r.data = <<>> \/ Head(r.data) # id)
  BY <1>2 DEF Verdict
<1>3. CASE r.tag # "error" /\ r.data # <<>> /\ Head(r.data) = id
  BY <1>3 DEF Verdict
<1> QED BY <1>1, <1>2, <1>3

(* The error of a context reaches only a call whose context is done.       *)
LEMMA DetailAnswer ==
  ASSUME Caches', NEW q \in Requests, dClient'[q].status = "answered"
  PROVE  /\ dClient'[q].reply.tag = "error" /\ dClient'[q].reply.data = CtxErr => q \in cancelled'
         /\ dClient'[q].reply.tag # "error" => dClient'[q].reply.data \in Shipments
<1>1. CtxErr \notin DP!Faults
  BY ErrorAssumption DEF DP!Faults, CtxErr, Aborted
<1>2. (dClient[q].reply # None /\ DP!IsAnswer(q, dClient[q].reply))'
  BY DEF Caches, DP!RInv, DP!ClientsOK, DP!Ended
<1> QED BY <1>1, <1>2 DEF DP!IsAnswer

(* The same of the search cache. *)
LEMMA SearchAnswer ==
  ASSUME Caches', NEW q \in Requests, sClient'[q].status = "answered"
  PROVE  /\ sClient'[q].reply.tag = "error" /\ sClient'[q].reply.data = CtxErr => q \in cancelled'
         /\ sClient'[q].reply.tag # "error" => sClient'[q].reply.data \in Summaries
<1>1. CtxErr \notin SP!Faults
  BY ErrorAssumption DEF SP!Faults, CtxErr, Aborted
<1>2. (sClient[q].reply # None /\ SP!IsAnswer(q, sClient[q].reply))'
  BY DEF Caches, SP!RInv, SP!ClientsOK, SP!Ended
<1> QED BY <1>1, <1>2 DEF SP!IsAnswer

(* The detail cache has answered: the handler is done, it stores the       *)
(* answer for a day, or it has to search.                                  *)
LEMMA DetailReturnsKeeps ==
  ASSUME IInv, Caches', NEW q \in Requests, DetailReturns(q)
  PROVE  Kept
<1> DEFINE r == dClient'[q].reply
<1>1. /\ CallOK(q) /\ UNCHANGED <<sClient, cancelled>>
      /\ req[q].pc \in {"detailLookup", "detail"}
      /\ D!Hit(q) \/ D!Accept(q) \/ D!GiveUp(q)
  BY DEF IInv, CallsOK, DetailReturns, D!Hit, D!Accept, D!GiveUp, sVars
<1>2. /\ dClient'[q].status = "answered" /\ dClient'[q].key = dClient[q].key
      /\ \A p \in Requests : p # q => dClient'[p] = dClient[p]
  BY <1>1, DetailMoves DEF D!ClientStep
<1>3. r.tag = "error" /\ r.data = CtxErr => q \in cancelled'
  BY <1>2, DetailAnswer
<1>4. /\ Detailing(q) /\ dClient[q].status \in {"asking", "waiting"}
      /\ sClient[q].status = "idle" /\ req[q].code = None
  BY <1>1 DEF CallOK, Placed, Opened
<1>5. CASE r.tag = "error" /\ ErrFromUpstream(r.data) = "UPSTREAM_UNAVAILABLE"
  <2>1. Goto(q, "resolve")
    BY <1>5 DEF DetailReturns
  <2>2. req' \in [Requests -> Handler]
        /\ req'[q].pc = "resolve" /\ req'[q].input = req[q].input /\ req'[q].code = req[q].code
        /\ \A p \in Requests : p # q => req'[p] = req[p]
    BY <1>1, <2>1, HandlerMoves DEF Points
  <2>3. CallOK(q)'
    BY <1>1, <1>2, <1>4, <1>5, <2>2
       DEF CallOK, Opened, Placed, Told, TimedOut, Judged, Detailed, Input, Detailing
  <2> QED BY <1>1, <1>2, <2>2, <2>3, OneCall DEF Kept
<1>6. CASE r.tag # "error" /\ Upgraded(r)
  <2>1. Goto(q, "upgrade")
    BY <1>6 DEF DetailReturns
  <2>2. req' \in [Requests -> Handler]
        /\ req'[q].pc = "upgrade" /\ req'[q].input = req[q].input /\ req'[q].code = req[q].code
        /\ \A p \in Requests : p # q => req'[p] = req[p]
    BY <1>1, <2>1, HandlerMoves DEF Points
  <2>3. CallOK(q)'
    BY <1>1, <1>2, <1>4, <1>6, <2>2
       DEF CallOK, Opened, Placed, Told, TimedOut, Judged, Detailed, Input, Detailing
  <2> QED BY <1>1, <1>2, <2>2, <2>3, OneCall DEF Kept
<1>7. ASSUME NEW code \in Codes, Answer(q, code),
             code = "success" => r.tag # "error",
             code = "UPSTREAM_TIMEOUT" => r.tag = "error" /\ r.data = CtxErr,
             code = "SHIPMENT_NOT_FOUND" => Denies(r)
      PROVE  Kept
  <2>1. req' \in [Requests -> Handler]
        /\ req'[q].pc = "done" /\ req'[q].input = req[q].input /\ req'[q].code = code
        /\ \A p \in Requests : p # q => req'[p] = req[p]
    BY <1>7, HandlerMoves
  <2>2. CallOK(q)'
    BY <1>1, <1>2, <1>3, <1>4, <1>7, <2>1, NoneAssumption
       DEF CallOK, Opened, Placed, Told, TimedOut, Judged, Detailed, Input, Detailing, Ended
  <2> QED BY <1>1, <1>2, <2>1, <2>2, OneCall DEF Kept
<1>8. CASE r.tag = "error" /\ ErrFromUpstream(r.data) # "UPSTREAM_UNAVAILABLE"
  <2>1. Answer(q, ErrFromUpstream(r.data))
    BY <1>8 DEF DetailReturns
  <2> QED BY <1>7, <1>8, <2>1, CodeOfError DEF Denies
<1>9. CASE r.tag # "error" /\ ~Upgraded(r)
  <2>1. Answer(q, "success")
    BY <1>9 DEF DetailReturns
  <2> QED BY <1>7, <1>9, <2>1 DEF Codes
<1> QED BY <1>5, <1>6, <1>8, <1>9

(* The answer has been stored for a day. *)
LEMMA UpgradeKeeps ==
  ASSUME IInv, NEW q \in Requests, Upgrade(q)
  PROVE  Kept
<1>1. /\ CallOK(q) /\ UNCHANGED <<sClient, cancelled>>
      /\ req[q].pc = "upgrade" /\ Answer(q, "success")
  BY DEF IInv, CallsOK, Upgrade, D!Extend, sVars
<1>2. /\ dClient'[q].status = "written"
      /\ dClient'[q].key = dClient[q].key /\ dClient'[q].reply = dClient[q].reply
      /\ \A p \in Requests : p # q => dClient'[p] = dClient[p]
  <2>1. PICK t : D!Extend(q, t)
    BY DEF Upgrade
  <2> QED BY <2>1, DetailMoves
<1>3. req' \in [Requests -> Handler]
      /\ req'[q].pc = "done" /\ req'[q].input = req[q].input /\ req'[q].code = "success"
      /\ \A p \in Requests : p # q => req'[p] = req[p]
  BY <1>1, HandlerMoves DEF Codes
<1>4. CallOK(q)'
  BY <1>1, <1>2, <1>3, NoneAssumption
     DEF CallOK, Opened, Placed, Told, TimedOut, Judged, Detailed, Input, Detailing, Ended, Upgraded,
         Delivered, Codes
<1> QED BY <1>1, <1>2, <1>3, <1>4, OneCall DEF Kept

(* The search for the STT begins. *)
LEMMA ResolveKeeps ==
  ASSUME IInv, NEW q \in Requests, Resolve(q)
  PROVE  Kept
<1>1. /\ CallOK(q) /\ req[q].pc = "resolve" /\ S!Ask(q, SttKey(Input(q).arg))
      /\ Goto(q, "searchLookup") /\ UNCHANGED <<dClient, cancelled>>
  BY ResolveAsks DEF IInv, CallsOK, dVars, S!Ask
<1>2. req' \in [Requests -> Handler]
      /\ req'[q].pc = "searchLookup" /\ req'[q].input = req[q].input /\ req'[q].code = req[q].code
      /\ \A p \in Requests : p # q => req'[p] = req[p]
  BY <1>1, HandlerMoves DEF Points
<1>3. /\ sClient'[q].status = "asking" /\ sClient'[q].key = SttKey(Input(q).arg)
      /\ \A p \in Requests : p # q => sClient'[p] = sClient[p]
  BY <1>1, SearchMoves
<1>4. CallOK(q)'
  BY <1>1, <1>2, <1>3
     DEF CallOK, Opened, Placed, Told, TimedOut, Judged, Detailed, Input, Detailing, Resolving
<1> QED BY <1>1, <1>2, <1>3, <1>4, OneCall DEF Kept

(* The search cache has answered. *)
LEMMA SearchReturnsKeeps ==
  ASSUME IInv, Caches', NEW q \in Requests, SearchReturns(q)
  PROVE  Kept
<1> DEFINE r == sClient'[q].reply
<1>1. /\ CallOK(q) /\ UNCHANGED <<dClient, cancelled>>
      /\ req[q].pc \in {"searchLookup", "search"}
      /\ S!Hit(q) \/ S!Accept(q) \/ S!GiveUp(q)
  BY DEF IInv, CallsOK, SearchReturns, S!Hit, S!Accept, S!GiveUp, dVars
<1>2. /\ sClient'[q].status = "answered" /\ sClient'[q].key = sClient[q].key
      /\ \A p \in Requests : p # q => sClient'[p] = sClient[p]
  BY <1>1, SearchMoves DEF S!ClientStep
<1>3. r.tag = "error" /\ r.data = CtxErr => q \in cancelled'
  BY <1>2, SearchAnswer
<1>4. PICK code \in Codes :
        /\ Answer(q, code)
        /\ code = "success" => Input(q).tool # "get_shipment_details"
        /\ code = "UPSTREAM_TIMEOUT" => r.tag = "error" /\ r.data = CtxErr
        /\ code = "SHIPMENT_NOT_FOUND" =>
             \/ Denies(r)
             \/ /\ Input(q).tool = "get_shipment_details"
                /\ r.tag # "error" /\ (r.data = <<>> \/ Head(r.data) # Input(q).arg)
  BY CodeOfError, CodeOfVerdict DEF SearchReturns, Codes, Denies
<1>5. req' \in [Requests -> Handler]
      /\ req'[q].pc = "done" /\ req'[q].input = req[q].input /\ req'[q].code = code
      /\ \A p \in Requests : p # q => req'[p] = req[p]
  BY <1>4, HandlerMoves
<1>6. (Tracking(q) \/ Resolving(q)) /\ req[q].input # None /\ req[q].code = None
  BY <1>1 DEF CallOK, Placed, Opened
<1>7. (Opened(q) /\ Placed(q) /\ Told(q) /\ TimedOut(q))'
  BY <1>1, <1>2, <1>3, <1>4, <1>5, <1>6, NoneAssumption
     DEF CallOK, Opened, Placed, Told, TimedOut, Detailed, Input, Ended, Tracking, Resolving
<1>8. Judged(q)'
  <2>1. CASE Tracking(q)
    BY <1>1, <1>2, <1>4, <1>5, <2>1 DEF Judged, Input, Tracking, Denies
  <2>2. CASE Resolving(q)
    BY <1>1, <1>2, <1>4, <1>5, <2>2 DEF Judged, Input, Resolving, Detailing, Denies
  <2> QED BY <1>6, <2>1, <2>2
<1> QED BY <1>1, <1>2, <1>5, <1>7, <1>8, OneCall DEF Kept, CallOK

(* Any step of a handler. *)
LEMMA StepKeeps ==
  ASSUME IInv, Caches', NEW q \in Requests, Step(q)
  PROVE  Kept
  BY MissKeeps, EnterDetailKeeps, DetailReturnsKeeps, UpgradeKeeps, ResolveKeeps, EnterSearchKeeps,
     SearchReturnsKeeps DEF Step

-----------------------------------------------------------------------------
(* What DSV knows and has sent keeps its type. *)
LEMMA WiresKept ==
  ASSUME IInv, [Next]_vars
  PROVE  Wires' /\ (dsv \in [Stts -> {"unknown", "transit", "delivered"}])'
<1> USE DEF IInv, Typed, Wires
<1>1. ASSUME NEW q \in Requests, Begin(q)
      PROVE  UNCHANGED <<dWire, sWire, dsv>>
  BY <1>1, BeginCases DEF AnswerAtOnce, Track, Details, dVars, sVars
<1>2. ASSUME NEW q \in Requests, Step(q) \/ Cancel(q)
      PROVE  UNCHANGED <<dWire, sWire, dsv>>
  BY <1>2, ResolveAsks DEF Step, Cancel, MissDetail, EnterDetail, DetailReturns, Upgrade, MissSearch,
     EnterSearch, SearchReturns, dVars, sVars
<1>3. ASSUME NEW k \in Sids, DetailRound(k) \/ CloseDetail(k)
      PROVE  UNCHANGED <<sWire, dsv>> /\ (dWire' = dWire \/ dWire' = [dWire EXCEPT ![k] = None])
  BY <1>3 DEF DetailRound, CloseDetail, sVars
<1>4. ASSUME NEW k \in SearchKeys, SearchRound(k) \/ CloseSearch(k)
      PROVE  UNCHANGED <<dWire, dsv>> /\ (sWire' = sWire \/ sWire' = [sWire EXCEPT ![k] = None])
  BY <1>4 DEF SearchRound, CloseSearch, dVars
<1>5. ASSUME NEW k \in Sids, AnswerDetail(k)
      PROVE  /\ UNCHANGED <<sWire, dsv>>
             /\ \E x \in {Sent(y) : y \in Shipments} \cup {Refused} : dWire' = [dWire EXCEPT ![k] = x]
  <2>1. PICK s \in Stts :
          dWire' = [dWire EXCEPT ![k] = IF dsv[s] = "unknown" THEN Refused
                                        ELSE Sent([id |-> Exact(s), stage |-> dsv[s]])]
    BY <1>5 DEF AnswerDetail
  <2>2. dsv[s] # "unknown" => [id |-> Exact(s), stage |-> dsv[s]] \in Shipments
    BY DEF Shipments
  <2> QED BY <1>5, <2>1, <2>2 DEF AnswerDetail, sVars
<1>6. ASSUME NEW k \in SearchKeys, AnswerSearch(k)
      PROVE  /\ UNCHANGED <<dWire, dsv>>
             /\ \E x \in {Sent(y) : y \in Summaries} \cup {Refused} : sWire' = [sWire EXCEPT ![k] = x]
  <2>1. SearchAnswers(k[1]) \subseteq {Sent(y) : y \in Summaries} \cup {Refused}
    BY DEF SearchAnswers, Summaries
  <2> QED BY <1>6, <2>1 DEF AnswerSearch, dVars
<1>7. ASSUME NEW s \in Stts, Register(s) \/ Deliver(s)
      PROVE  /\ UNCHANGED <<dWire, sWire>>
             /\ \E x \in {"transit", "delivered"} : dsv' = [dsv EXCEPT ![s] = x]
  BY <1>7 DEF Register, Deliver, dVars, sVars
<1>8. CASE Tick \/ UNCHANGED vars
  BY <1>8 DEF Tick, vars, dVars, sVars
<1> QED BY <1>1, <1>2, <1>3, <1>4, <1>5, <1>6, <1>7, <1>8 DEF Next, Fetching

(* Neither do the steps of the caches, of DSV and of the clock move a      *)
(* handler.                                                                *)
LEMMA OthersKeep ==
  ASSUME IInv, [Next]_vars
  PROVE  Kept \/ \E q \in Requests : Begin(q) \/ Step(q)
<1>1. ASSUME UNCHANGED <<req, dClient, sClient>>, cancelled \subseteq cancelled'
      PROVE  Kept
  BY <1>1, NoCall DEF Kept, IInv, Typed
<1>2. ASSUME NEW q \in Requests, Cancel(q) PROVE Kept
  BY <1>1, <1>2 DEF Cancel, dVars, sVars
<1>3. ASSUME NEW k, DetailRound(k) \/ CloseDetail(k) PROVE Kept
  BY <1>1, <1>3 DEF DetailRound, CloseDetail, D!Land, D!Fallback, D!Fail, D!Close, sVars
<1>4. ASSUME NEW k, SearchRound(k) \/ CloseSearch(k) PROVE Kept
  BY <1>1, <1>4 DEF SearchRound, CloseSearch, S!Land, S!Fallback, S!Fail, S!Close, dVars
<1>5. ASSUME NEW k, AnswerDetail(k) \/ AnswerSearch(k) PROVE Kept
  BY <1>1, <1>5 DEF AnswerDetail, AnswerSearch, dVars, sVars
<1>6. ASSUME NEW s, Register(s) \/ Deliver(s) PROVE Kept
  BY <1>1, <1>6 DEF Register, Deliver, dVars, sVars
<1>7. ASSUME Tick \/ UNCHANGED vars PROVE Kept
  BY <1>1, <1>7 DEF Tick, vars, dVars, sVars
<1> QED BY <1>2, <1>3, <1>4, <1>5, <1>6, <1>7 DEF Next, Fetching

(* IInv holds initially... *)
LEMMA Initially ==
  ASSUME Init
  PROVE  IInv
<1>1. Caches
  BY DetailContract, DetailSound, DP!RInit, SearchContract, SearchSound, SP!RInit DEF Init, Caches
<1>2. Typed
  BY DEF Init, Typed, Wires, Idle, Handler
<1>3. CallsOK
  BY NoneAssumption
     DEF Init, D!Init, S!Init, Idle, CallsOK, CallOK, Opened, Placed, Told, TimedOut, Judged, Detailed, Codes
<1> QED BY <1>1, <1>2, <1>3 DEF IInv

(* ... and every step keeps it. *)
LEMMA Inductive ==
  ASSUME IInv, [Next]_vars
  PROVE  IInv'
<1>1. Caches'
  BY CachesKept
<1>2. Kept
  BY <1>1, OthersKeep, BeginKeeps, StepKeeps
<1> QED BY <1>1, <1>2, WiresKept DEF IInv, Typed, Kept

(* In every reachable state the caches keep their contract and find every  *)
(* handler where it belongs.                                               *)
THEOREM Invariance == Spec => []IInv
<1>1. Init => IInv
  BY Initially
<1>2. IInv /\ [Next]_vars => IInv'
  BY Inductive
<1> QED BY <1>1, <1>2, PTL DEF Spec

(* The handlers, the caches, DSV and what is under way between them have   *)
(* the shapes their operations rely on.                                    *)
THEOREM TypesKept == Spec => []TypeOK
<1>1. IInv => TypeOK
  <2> SUFFICES ASSUME IInv PROVE TypeOK
    OBVIOUS
  <2>1. now \in 0..MaxTime /\ cancelled \subseteq Requests
    BY DEF IInv, Caches, DP!RInv, DP!RTypeOK
  <2>2. \A k \in Sids : dItems[k] # None => dItems[k].value \in Shipments
    BY DEF IInv, Caches, DP!RInv, DP!RTypeOK, DP!Entries
  <2>3. \A k \in SearchKeys : sItems[k] # None => sItems[k].value \in Summaries
    BY DEF IInv, Caches, SP!RInv, SP!RTypeOK, SP!Entries
  <2> QED BY <2>1, <2>2, <2>3 DEF IInv, Typed, Wires, CallsOK, CallOK, Opened, TypeOK
<1> QED BY <1>1, Invariance, PTL

(* However many calls share a fetch, and whoever of them leads it: a call  *)
(* whose client withdraws it gives none of the others UPSTREAM_TIMEOUT,    *)
(* for the one is detached from the contexts of the others (Fetch in       *)
(* internal/cache/cache.go, errFromUpstream in internal/mcp/errors.go).    *)
THEOREM LeaderTimesOut == Spec => []LeaderTimesOutAlone
<1>1. IInv => LeaderTimesOutAlone
  BY DEF IInv, CallsOK, CallOK, TimedOut, LeaderTimesOutAlone
<1> QED BY <1>1, Invariance, PTL

-----------------------------------------------------------------------------
(* What a step may do about details: in their cache, on the wire, at DSV.  *)
LEMMA DetailCases ==
  ASSUME IInv, [Next]_vars
  PROVE  \/ UNCHANGED <<dItems, dRound, dClient, dOffer, dWire, dsv>>
         \/ \E q \in Requests :
              /\ UNCHANGED <<dWire, dsv>>
              /\ \/ DP!Takes(q)
                 \/ \E t \in Nat : DP!Extend(q, t) /\ Upgraded(dClient[q].reply)
         \/ \E k \in Sids : DetailRound(k) \/ CloseDetail(k) \/ AnswerDetail(k)
         \/ \E s \in Stts : Register(s) \/ Deliver(s)
<1> USE DEF dVars
<1>1. ASSUME NEW q \in Requests, Begin(q)
      PROVE  \/ UNCHANGED <<dItems, dRound, dClient, dOffer, dWire, dsv>>
             \/ UNCHANGED <<dWire, dsv>> /\ \E k \in Sids : D!Ask(q, k)
  <2>1. PICK i \in Inputs :
           \/ \E code \in Codes : AnswerAtOnce(q, i, code)
           \/ Track(q, i)
           \/ Details(q, i)
    BY <1>1, BeginCases DEF Codes
  <2>2. CASE \E code \in Codes : AnswerAtOnce(q, i, code)
    BY <2>2 DEF AnswerAtOnce
  <2>3. CASE Track(q, i)
    BY <2>3 DEF Track
  <2>4. CASE Details(q, i)
    BY <2>4, DetailsAsks DEF Details
  <2> QED BY <2>1, <2>2, <2>3, <2>4
<1>2. ASSUME NEW q \in Requests, Step(q)
      PROVE  \/ UNCHANGED <<dItems, dRound, dClient, dOffer, dWire, dsv>>
             \/ /\ UNCHANGED <<dWire, dsv>>
                /\ \/ D!Hit(q) \/ D!Enter(q) \/ D!Accept(q) \/ D!GiveUp(q)
                   \/ \E t \in Nat : D!Extend(q, t) /\ Upgraded(dClient[q].reply)
  <2>1. Upgrade(q) => Upgraded(dClient[q].reply) /\ \E t \in Nat : D!Extend(q, t)
    <3>1. now \in Nat
      BY DEF IInv, Caches, DP!RInv, DP!RTypeOK
    <3> QED BY <3>1 DEF Upgrade, IInv, CallsOK, CallOK, Placed
  <2>2. Upgrade(q) => UNCHANGED <<dWire, dsv>>
    BY DEF Upgrade
  <2> QED BY <1>2, <2>1, <2>2, ResolveAsks
          DEF Step, MissDetail, EnterDetail, DetailReturns, MissSearch, EnterSearch, SearchReturns
<1>3. ASSUME NEW q, Cancel(q) \/ Tick \/ UNCHANGED vars
      PROVE  UNCHANGED <<dItems, dRound, dClient, dOffer, dWire, dsv>>
  BY <1>3 DEF Cancel, Tick, vars
<1>4. ASSUME NEW k, SearchRound(k) \/ CloseSearch(k) \/ AnswerSearch(k)
      PROVE  UNCHANGED <<dItems, dRound, dClient, dOffer, dWire, dsv>>
  BY <1>4 DEF SearchRound, CloseSearch, AnswerSearch
<1> QED BY <1>1, <1>2, <1>3, <1>4, DetailActions DEF Next, Fetching, D!ClientStep

(* The same about searches. *)
LEMMA SearchCases ==
  ASSUME IInv, [Next]_vars
  PROVE  \/ UNCHANGED <<sItems, sRound, sClient, sOffer, sWire, dsv>>
         \/ \E q \in Requests :
              UNCHANGED <<sWire, dsv>> /\ SP!Takes(q)
         \/ \E k \in SearchKeys : SearchRound(k) \/ CloseSearch(k) \/ AnswerSearch(k)
         \/ \E s \in Stts : Register(s) \/ Deliver(s)
<1> USE DEF sVars
<1>1. ASSUME NEW q \in Requests, Begin(q)
      PROVE  \/ UNCHANGED <<sItems, sRound, sClient, sOffer, sWire, dsv>>
             \/ UNCHANGED <<sWire, dsv>> /\ \E k \in SearchKeys : S!Ask(q, k)
  <2>1. PICK i \in Inputs :
           \/ \E code \in Codes : AnswerAtOnce(q, i, code)
           \/ Track(q, i)
           \/ Details(q, i)
    BY <1>1, BeginCases DEF Codes
  <2>2. CASE \E code \in Codes : AnswerAtOnce(q, i, code)
    BY <2>2 DEF AnswerAtOnce
  <2>3. CASE Track(q, i)
    BY <2>3 DEF Track
  <2>4. CASE Details(q, i)
    BY <2>4 DEF Details
  <2> QED BY <2>1, <2>2, <2>3, <2>4
<1>2. ASSUME NEW q \in Requests, Step(q)
      PROVE  \/ UNCHANGED <<sItems, sRound, sClient, sOffer, sWire, dsv>>
             \/ /\ UNCHANGED <<sWire, dsv>>
                /\ \/ \E k \in SearchKeys : S!Ask(q, k)
                   \/ S!Hit(q) \/ S!Enter(q) \/ S!Accept(q) \/ S!GiveUp(q)
  <2>1. Resolve(q) => UNCHANGED <<sWire, dsv>> /\ \E k \in SearchKeys : S!Ask(q, k)
    <3>1. Resolve(q) => SttKey(Input(q).arg) \in SearchKeys
      BY ResolveAsks, SttKeyOfId DEF IInv, CallsOK, CallOK, Placed, Detailing
    <3> QED BY <3>1, ResolveAsks
  <2> QED BY <1>2, <2>1
          DEF Step, MissDetail, EnterDetail, DetailReturns, Upgrade, MissSearch, EnterSearch,
              SearchReturns
<1>3. ASSUME NEW q, Cancel(q) \/ Tick \/ UNCHANGED vars
      PROVE  UNCHANGED <<sItems, sRound, sClient, sOffer, sWire, dsv>>
  BY <1>3 DEF Cancel, Tick, vars
<1>4. ASSUME NEW k, DetailRound(k) \/ CloseDetail(k) \/ AnswerDetail(k)
      PROVE  UNCHANGED <<sItems, sRound, sClient, sOffer, sWire, dsv>>
  BY <1>4 DEF DetailRound, CloseDetail, AnswerDetail
<1> QED BY <1>1, <1>2, <1>3, <1>4, SearchActions DEF Next, Fetching, S!ClientStep

-----------------------------------------------------------------------------
(* The caches have the shape that the lemmas about their steps ask for. *)
LEMMA ShapeOfDetails ==
  ASSUME IInv
  PROVE  DP!Shape
  BY DP!Shaped DEF IInv, Caches

(* The XHR of an id is found by it on the page of one shipment only. *)
LEMMA FindsOne ==
  ASSUME NEW id, NEW s, NEW t, Finds(id, s), Finds(id, t)
  PROVE  s = t
<1>1. PICK m : id = Id(s, m)
  BY DEF Finds
<1>2. PICK n : id = Id(t, n)
  BY DEF Finds
<1> QED BY <1>1, <1>2 DEF Id

(* What a call is told comes from the entry or from its round. *)
LEMMA FinalClient ==
  ASSUME DP!Shape, Final, NEW q \in Requests, UNCHANGED <<dWire, dsv>>, DP!Takes(q)
  PROVE  Final'
<1>1. dItems' = dItems /\ \A k \in Sids : dRound'[k].outcome = dRound[k].outcome
  BY DP!ClientMoves
<1>2. \A p \in Requests : IsDelivery(dOffer'[p]) \/ IsDelivery(dClient'[p].reply)
        => Arrived(dClient[p].key) /\ dClient'[p].key = dClient[p].key
  <2>1. \A p \in Requests : IsDelivery(dOffer[p]) \/ IsDelivery(dClient[p].reply)
          => Arrived(dClient[p].key)
    BY DEF Final
  <2>2. \A p \in Requests : p # q => dClient'[p] = dClient[p] /\ dOffer'[p] = dOffer[p]
    BY DP!ClientMoves
  <2>3. IsDelivery(dOffer'[q]) => IsDelivery(dOffer[q]) /\ DP!Begun(q)
    BY DP!ClientMoves DEF IsDelivery, DP!Shape
  <2>4. IsDelivery(dClient'[q].reply) =>
          /\ DP!Begun(q)
          /\ \/ IsDelivery(dOffer[q]) \/ IsDelivery(dClient[q].reply)
             \/ Arrived(dClient[q].key)
    <3>1. ~IsDelivery(None) /\ ~IsDelivery(DP!Failure(CtxErr))
      BY DEF IsDelivery, Delivered, DP!Failure
    <3>2. \A k \in Sids : dItems[k] # None /\ IsDelivery(DP!FromEntry(dItems[k], "cached")) => Arrived(k)
      BY DEF IsDelivery, Delivered, DP!FromEntry, Arrived
    <3>3. DP!Begun(q) => dClient[q].key \in Sids
      BY DEF DP!Shape
    <3> QED BY <3>1, <3>2, <3>3, DP!ClientMoves
  <2>5. DP!Begun(q) => dClient'[q].key = dClient[q].key
    BY DP!ClientMoves
  <2> QED BY <2>1, <2>2, <2>3, <2>4, <2>5
<1> QED BY <1>1, <1>2 DEF Final, Arrived, SentDelivery, IsDelivery, Delivered

(* What is stored for a day is a delivery. *)
LEMMA ExtendArrives ==
  ASSUME DP!Shape, NEW q \in Requests, NEW t \in Nat,
         DP!Extend(q, t), Upgraded(dClient[q].reply)
  PROVE  \A id \in Sids : IF id = dClient[q].key THEN Arrived(id)'
                          ELSE dItems'[id] = dItems[id] /\ Arrived(id)' = Arrived(id)
<1> DEFINE e == [value |-> dClient[q].reply.data, fetchedAt |-> t, expiresAt |-> t + DayTTL]
<1>1. /\ e # None /\ dItems'[dClient[q].key] = e
      /\ \A id \in Sids : id # dClient[q].key => dItems'[id] = dItems[id]
  BY DetailSound, DP!ExtendMoves
<1>2. \A id \in Sids : id = dClient[q].key => Arrived(id)'
  BY <1>1 DEF Arrived, Upgraded, Delivered
<1>3. \A id \in Sids : id # dClient[q].key => dItems'[id] = dItems[id] /\ Arrived(id)' = Arrived(id)
  BY <1>1 DEF Arrived
<1> QED BY <1>2, <1>3

(* What is stored for a day was a delivery already. *)
LEMMA FinalExtend ==
  ASSUME DP!Shape, Final, NEW q \in Requests, NEW t \in Nat,
         DP!Extend(q, t), Upgraded(dClient[q].reply), UNCHANGED <<dWire, dsv>>
  PROVE  Final'
<1>1. /\ UNCHANGED <<dRound, dOffer>>
      /\ \A p \in Requests : dClient'[p].key = dClient[p].key /\ dClient'[p].reply = dClient[p].reply
  BY DetailSound, DP!ExtendMoves
<1>2. dClient[q].key \in Sids /\ dClient[q].reply # None
  BY DetailSound, DP!ExtendMoves
<1>3. Arrived(dClient[q].key)
  BY <1>2 DEF Final, IsDelivery, Upgraded
<1>4. \A id \in Sids : Arrived(id)' <=> Arrived(id)
  BY <1>2, <1>3, ExtendArrives
<1>5. \A id \in Sids : /\ dRound'[id] = dRound[id]
                       /\ SentDelivery(id)' = SentDelivery(id)
                       /\ IsDelivery(dRound[id].outcome)' = IsDelivery(dRound[id].outcome)
                       /\ Delivered(dRound[id].outcome)' = Delivered(dRound[id].outcome)
  BY <1>1 DEF SentDelivery, IsDelivery, Delivered
<1>6. \A p \in Requests :
        IsDelivery(dOffer'[p]) \/ IsDelivery(dClient'[p].reply)
          => dClient'[p].key \in Sids /\ Arrived(dClient'[p].key)
  BY <1>1 DEF Final, DP!Shape, IsDelivery
<1> QED BY <1>1, <1>4, <1>5, <1>6 DEF Final

(* What a round of the detail cache does when it is decided. *)
LEMMA DetailRoundMoves ==
  ASSUME IInv, DP!Shape, NEW k \in Sids, DetailRound(k)
  PROVE  /\ UNCHANGED <<dsv, dClient, dOffer, always>> /\ dWire'[k] = None
         /\ \A j \in Sids : j # k =>
              dWire'[j] = dWire[j] /\ dItems'[j] = dItems[j] /\ dRound'[j] = dRound[j]
         /\ \/ \E t \in Nat :
                 LET e == [value |-> dWire[k].body, fetchedAt |-> t, expiresAt |-> t + DetailTTL] IN
                 /\ dWire[k] # None /\ dWire[k].ok /\ e # None
                 /\ dItems'[k] = e /\ dRound'[k].outcome = DP!FromEntry(e, "live")
            \/ /\ dItems[k] # None /\ dItems'[k] = dItems[k]
               /\ dRound'[k].outcome = DP!FromEntry(dItems[k], "stale_fallback")
            \/ /\ dItems'[k] = dItems[k]
               /\ \E e \in Errors \cup {"ErrShipmentNotFound"} :
                    /\ dRound'[k].outcome = DP!Failure(e)
                    /\ e = "ErrShipmentNotFound" => dWire[k] = Refused
<1>1. /\ UNCHANGED <<dsv, always>> /\ dWire'[k] = None
      /\ \A j \in Sids : j # k => dWire'[j] = dWire[j]
  BY DEF DetailRound, IInv, Typed, Wires
<1>2. Aborted \in Errors /\ "ErrShipmentNotFound" \notin Errors
  BY ErrorAssumption DEF Aborted
<1>3. PICK t \in 0..MaxTime :
        \/ dWire[k] # None /\ dWire[k].ok /\ DP!Land(k, dWire[k].body, t)
        \/ DP!Fallback(k, t)
        \/ \E e \in Errors \cup {"ErrShipmentNotFound"} :
             DP!Fail(k, e, t) /\ (e = "ErrShipmentNotFound" => dWire[k] = Refused)
  BY <1>2, DetailActions DEF DetailRound
<1>4. t \in Nat
  BY TimeAssumption
<1>5. dWire[k] # None /\ dWire[k].ok => dWire[k].body \in Shipments
  BY DEF IInv, Typed, Wires, Sent, Refused
<1>6. UNCHANGED <<dClient, dOffer>> /\ \A j \in Sids : j # k => dItems'[j] = dItems[j] /\ dRound'[j] = dRound[j]
  BY <1>3, <1>4, <1>5, DetailSound, DP!RoundMoves
<1>7. CASE dWire[k] # None /\ dWire[k].ok /\ DP!Land(k, dWire[k].body, t)
  BY <1>1, <1>4, <1>5, <1>6, <1>7, DetailSound, DP!RoundMoves
<1>8. CASE DP!Fallback(k, t)
  BY <1>1, <1>4, <1>6, <1>8, DetailSound, DP!RoundMoves
<1>9. CASE \E e \in Errors \cup {"ErrShipmentNotFound"} :
             DP!Fail(k, e, t) /\ (e = "ErrShipmentNotFound" => dWire[k] = Refused)
  BY <1>1, <1>4, <1>6, <1>9, DetailSound, DP!RoundMoves
<1> QED BY <1>3, <1>7, <1>8, <1>9

(* What a round is decided on is no news of the shipment but what DSV has  *)
(* sent.                                                                   *)
LEMMA FinalRound ==
  ASSUME IInv, DP!Shape, Final, NEW k \in Sids, DetailRound(k)
  PROVE  Final'
<1>1. /\ UNCHANGED <<dsv, dClient, dOffer>> /\ dWire'[k] = None
      /\ \A j \in Sids : j # k =>
           dWire'[j] = dWire[j] /\ dItems'[j] = dItems[j] /\ dRound'[j] = dRound[j]
  BY DetailRoundMoves
<1>2. /\ Arrived(k) => Arrived(k)'
      /\ Arrived(k)' => Arrived(k) \/ SentDelivery(k)
      /\ IsDelivery(dRound[k].outcome)' => Arrived(k)'
      /\ Arrived(k)' => \/ (dRound[k].outcome = None)'
                        \/ (dRound[k].outcome.tag = "error")'
                        \/ Delivered(dRound[k].outcome)'
  <2>1. Arrived(k) /\ dWire[k] # None => SentDelivery(k)
    BY DEF Final
  <2> USE DEF Arrived, SentDelivery, IsDelivery, Delivered
  <2>2. ASSUME NEW t, NEW e, e = [value |-> dWire[k].body, fetchedAt |-> t, expiresAt |-> t + DetailTTL],
               dWire[k] # None, dWire[k].ok, e # None,
               dItems'[k] = e, dRound'[k].outcome = DP!FromEntry(e, "live")
        PROVE  /\ Arrived(k)' <=> SentDelivery(k)
               /\ IsDelivery(dRound[k].outcome)' => Arrived(k)'
               /\ Arrived(k)' => Delivered(dRound[k].outcome)'
    BY <2>2 DEF DP!FromEntry
  <2>3. ASSUME dItems[k] # None, dItems'[k] = dItems[k],
               dRound'[k].outcome = DP!FromEntry(dItems[k], "stale_fallback")
        PROVE  /\ Arrived(k)' = Arrived(k)
               /\ IsDelivery(dRound[k].outcome)' => Arrived(k)'
               /\ Arrived(k)' => Delivered(dRound[k].outcome)'
    BY <2>3 DEF DP!FromEntry
  <2>4. ASSUME NEW e, dItems'[k] = dItems[k], dRound'[k].outcome = DP!Failure(e)
        PROVE  /\ Arrived(k)' = Arrived(k)
               /\ ~IsDelivery(dRound[k].outcome)' /\ (dRound[k].outcome.tag = "error")'
    BY <2>4 DEF DP!Failure
  <2> HIDE DEF Arrived, SentDelivery, IsDelivery, Delivered
  <2>5. CASE \E t \in Nat :
               LET e == [value |-> dWire[k].body, fetchedAt |-> t, expiresAt |-> t + DetailTTL] IN
               /\ dWire[k] # None /\ dWire[k].ok /\ e # None
               /\ dItems'[k] = e /\ dRound'[k].outcome = DP!FromEntry(e, "live")
    <3>1. Arrived(k) => SentDelivery(k)
      BY <2>1, <2>5
    <3> QED BY <2>2, <2>5, <3>1
  <2> QED BY <2>3, <2>4, <2>5, DetailRoundMoves
<1>3. \A j \in Sids : j # k => /\ Arrived(j)' = Arrived(j) /\ SentDelivery(j)' = SentDelivery(j)
                               /\ dRound'[j] = dRound[j] /\ dWire'[j] = dWire[j]
  BY <1>1 DEF Arrived, SentDelivery
<1>4. ~SentDelivery(k)'
  BY <1>1 DEF SentDelivery
<1>5. \A j \in Sids : Arrived(j) => Arrived(j)'
  BY <1>2, <1>3
<1>6. \A j \in Sids : Arrived(j)' \/ SentDelivery(j)' => Arrived(j) \/ SentDelivery(j)
  BY <1>2, <1>3, <1>4
<1>7. \A p \in Requests : (IsDelivery(dOffer[p]) \/ IsDelivery(dClient[p].reply) => Arrived(dClient[p].key))'
  <2>1. \A p \in Requests : IsDelivery(dOffer[p]) \/ IsDelivery(dClient[p].reply)
          => dClient[p].key \in Sids /\ Arrived(dClient[p].key)
    BY DEF Final, DP!Shape, IsDelivery
  <2> QED BY <1>1, <1>5, <2>1 DEF IsDelivery, Delivered
<1>8. \A j \in Sids : IsDelivery(dRound[j].outcome)' => Arrived(j)'
  BY <1>2, <1>3 DEF Final, IsDelivery, Delivered
<1>9. \A j \in Sids : Arrived(j)' =>
        /\ (dWire[j] # None)' => SentDelivery(j)'
        /\ (dRound[j].outcome # None)' =>
             (dRound[j].outcome.tag = "error")' \/ Delivered(dRound[j].outcome)'
  BY <1>1, <1>2, <1>3 DEF Final, Delivered
<1>10. \A j \in Sids : Arrived(j)' \/ SentDelivery(j)' =>
         \A s \in Stts : Finds(j, s) => dsv'[s] = "delivered"
  BY <1>1, <1>6 DEF Final
<1> QED BY <1>7, <1>8, <1>9, <1>10 DEF Final

(* What a round of the detail cache does when it closes. *)
LEMMA DetailCloses ==
  ASSUME DP!Shape, NEW k \in Sids, CloseDetail(k)
  PROVE  /\ UNCHANGED <<dsv, dItems, dClient, dWire, always>>
         /\ dRound'[k].outcome = None
         /\ \A j \in Sids : j # k => dRound'[j] = dRound[j]
         /\ \A p \in Requests :
              \/ dOffer'[p] = dOffer[p]
              \/ dClient[p].key = k /\ dOffer'[p] = dRound[k].outcome
  BY DetailActions, DP!CloseMoves DEF CloseDetail

(* It was in the cache by then if it was a delivery. *)
LEMMA FinalClose ==
  ASSUME DP!Shape, Final, NEW k \in Sids, CloseDetail(k)
  PROVE  Final'
<1>1. \A j \in Sids : Arrived(j)' = Arrived(j) /\ SentDelivery(j)' = SentDelivery(j)
  BY DetailCloses DEF Arrived, SentDelivery
<1>2. \A p \in Requests : (IsDelivery(dOffer[p]) \/ IsDelivery(dClient[p].reply) => Arrived(dClient[p].key))'
  <2>1. \A p \in Requests : dOffer'[p] = dOffer[p] => IsDelivery(dOffer[p])' = IsDelivery(dOffer[p])
    BY DEF IsDelivery, Delivered
  <2>2. \A p \in Requests : dOffer'[p] = dRound[k].outcome =>
          IsDelivery(dOffer[p])' = IsDelivery(dRound[k].outcome)
    BY DEF IsDelivery, Delivered
  <2>3. \A p \in Requests : IsDelivery(dClient[p].reply)' = IsDelivery(dClient[p].reply)
                            /\ Arrived(dClient[p].key)' = Arrived(dClient[p].key)
    BY DetailCloses DEF IsDelivery, Delivered, Arrived
  <2> QED BY <2>1, <2>2, <2>3, DetailCloses DEF Final
<1>3. \A j \in Sids : dRound'[j] = dRound[j] \/ (dRound[j].outcome = None)'
  BY DetailCloses
<1>4. \A j \in Sids : /\ IsDelivery(dRound[j].outcome)' => IsDelivery(dRound[j].outcome)
                      /\ \/ (dRound[j].outcome = None)'
                         \/ /\ dRound'[j].outcome = dRound[j].outcome
                            /\ Delivered(dRound[j].outcome)' = Delivered(dRound[j].outcome)
  BY <1>3 DEF IsDelivery, Delivered
<1>5. UNCHANGED <<dsv, dWire>>
  BY DetailCloses
<1> QED BY <1>1, <1>2, <1>4, <1>5 DEF Final

(* DSV answers with what it knows, and knows no shipment to be under way   *)
(* again that it has delivered.                                            *)
LEMMA FinalDSV ==
  ASSUME IInv, Final,
         \/ \E k \in Sids : AnswerDetail(k)
         \/ \E s \in Stts : Register(s) \/ Deliver(s)
  PROVE  Final'
<1>1. UNCHANGED <<dItems, dRound, dClient, dOffer>>
  BY DEF AnswerDetail, Register, Deliver, dVars
<1>2. dsv \in [Stts -> {"unknown", "transit", "delivered"}]
      /\ dWire \in [Sids -> {Sent(x) : x \in Shipments} \cup {Refused, None}]
  BY DEF IInv, Typed, Wires
<1>3. /\ \A s \in Stts : dsv[s] = "delivered" => dsv'[s] = "delivered"
      /\ \A j \in Sids : \/ dWire'[j] = dWire[j]
                         \/ \E s \in Stts :
                              /\ Finds(j, s) /\ dsv'[s] = dsv[s]
                              /\ dWire'[j] = IF dsv[s] = "unknown" THEN Refused
                                             ELSE Sent([id |-> Exact(s), stage |-> dsv[s]])
  BY <1>2 DEF AnswerDetail, Register, Deliver, dVars
<1>4. \A j \in Sids : Arrived(j)' = Arrived(j)
  BY <1>1 DEF Arrived
<1>5. \A j \in Sids : Arrived(j) /\ dWire'[j] # None => SentDelivery(j)'
  <2> SUFFICES ASSUME NEW j \in Sids, Arrived(j), dWire'[j] # None PROVE SentDelivery(j)'
    OBVIOUS
  <2>1. CASE dWire'[j] = dWire[j]
    BY <2>1 DEF Final, SentDelivery
  <2>2. CASE \E s \in Stts : /\ Finds(j, s)
                             /\ dWire'[j] = IF dsv[s] = "unknown" THEN Refused
                                            ELSE Sent([id |-> Exact(s), stage |-> dsv[s]])
    <3>1. PICK s \in Stts : Finds(j, s) /\ dWire'[j] = IF dsv[s] = "unknown" THEN Refused
                                                       ELSE Sent([id |-> Exact(s), stage |-> dsv[s]])
      BY <2>2
    <3>2. dsv[s] = "delivered"
      BY <3>1 DEF Final
    <3> QED BY <3>1, <3>2 DEF SentDelivery, Sent
  <2> QED BY <1>3, <2>1, <2>2
<1>6. \A j \in Sids, s \in Stts : SentDelivery(j)' /\ Finds(j, s) => dsv'[s] = "delivered"
  <2> SUFFICES ASSUME NEW j \in Sids, NEW s \in Stts, SentDelivery(j)', Finds(j, s)
               PROVE  dsv'[s] = "delivered"
    OBVIOUS
  <2>1. CASE dWire'[j] = dWire[j]
    BY <1>3, <2>1 DEF Final, SentDelivery
  <2>2. CASE \E t \in Stts : /\ Finds(j, t) /\ dsv'[t] = dsv[t]
                             /\ dWire'[j] = IF dsv[t] = "unknown" THEN Refused
                                            ELSE Sent([id |-> Exact(t), stage |-> dsv[t]])
    <3>1. PICK t \in Stts : /\ Finds(j, t) /\ dsv'[t] = dsv[t]
                            /\ dWire'[j] = IF dsv[t] = "unknown" THEN Refused
                                           ELSE Sent([id |-> Exact(t), stage |-> dsv[t]])
      BY <2>2
    <3>2. t = s
      BY <3>1, FindsOne
    <3> QED BY <3>1, <3>2 DEF SentDelivery, Sent, Refused
  <2> QED BY <1>3, <2>1, <2>2
<1>7. \A j \in Sids, s \in Stts : Arrived(j)' /\ Finds(j, s) => dsv'[s] = "delivered"
  BY <1>3, <1>4 DEF Final
<1>8. \A p \in Requests : (IsDelivery(dOffer[p]) \/ IsDelivery(dClient[p].reply) => Arrived(dClient[p].key))'
  BY <1>1 DEF Final, IsDelivery, Delivered, Arrived
<1>9. \A j \in Sids : /\ (IsDelivery(dRound[j].outcome) => Arrived(j))'
                      /\ (Arrived(j) /\ dRound[j].outcome # None =>
                           dRound[j].outcome.tag = "error" \/ Delivered(dRound[j].outcome))'
  BY <1>1 DEF Final, IsDelivery, Delivered, Arrived
<1> QED BY <1>4, <1>5, <1>6, <1>7, <1>8, <1>9 DEF Final

(* Every step keeps what is known of deliveries. *)
LEMMA FinalStep ==
  ASSUME IInv, Final, [Next]_vars
  PROVE  Final'
<1>1. DP!Shape
  BY ShapeOfDetails
<1>2. CASE UNCHANGED <<dItems, dRound, dClient, dOffer, dWire, dsv>>
  BY <1>2 DEF Final, Arrived, SentDelivery, IsDelivery, Delivered
<1>3. CASE \E q \in Requests : UNCHANGED <<dWire, dsv>> /\ DP!Takes(q)
  BY <1>1, <1>3, FinalClient
<1>4. CASE \E q \in Requests : /\ UNCHANGED <<dWire, dsv>>
                               /\ \E t \in Nat : DP!Extend(q, t) /\ Upgraded(dClient[q].reply)
  BY <1>1, <1>4, FinalExtend
<1>5. CASE \E k \in Sids : DetailRound(k) \/ CloseDetail(k) \/ AnswerDetail(k)
  BY <1>1, <1>5, FinalRound, FinalClose, FinalDSV
<1>6. CASE \E s \in Stts : Register(s) \/ Deliver(s)
  BY <1>6, FinalDSV
<1> QED BY <1>2, <1>3, <1>4, <1>5, <1>6, DetailCases

(* Once a call was told that a shipment is delivered, neither the entry of *)
(* that shipment nor its open round takes it back: not by a handler that   *)
(* stores an older answer again (SetWithTTL at the end of                  *)
(* getShipmentDetails), not by an expired entry that is served because DSV *)
(* is down (Fetch).                                                        *)
THEOREM DeliveryIsFinal == Spec => []DeliveredIsFinal
<1>1. Init => IInv /\ Final
  <2> SUFFICES ASSUME Init PROVE Final
    BY Initially
  <2>1. /\ \A k \in Sids : dItems[k] = None /\ dWire[k] = None /\ dRound[k].outcome = None
        /\ \A q \in Requests : dOffer[q] = None /\ dClient[q].reply = None
    BY DEF Init, D!Init, D!NoRound
  <2> QED BY <2>1 DEF Final, Arrived, SentDelivery, IsDelivery
<1>2. IInv /\ Final /\ [Next]_vars => (IInv /\ Final)'
  BY Inductive, FinalStep
<1>3. IInv /\ Final => DeliveredIsFinal
  <2> SUFFICES ASSUME IInv, Final, NEW q \in Requests, NEW id \in Sids, ToldDelivered(q, id)
               PROVE  /\ Arrived(id)
                      /\ dWire[id] # None => SentDelivery(id)
                      /\ dRound[id].outcome # None =>
                           dRound[id].outcome.tag = "error" \/ Delivered(dRound[id].outcome)
    BY DEF DeliveredIsFinal, Arrived, SentDelivery
  <2>1. /\ dClient[q].key = id /\ dClient[q].status \in {"answered", "written"}
        /\ Delivered(dClient[q].reply)
    BY DEF ToldDelivered, IInv, CallsOK, CallOK, Told, Detailing
  <2>2. IsDelivery(dClient[q].reply)
    BY <2>1, ShapeOfDetails DEF IsDelivery, DP!Shape, DP!Ended
  <2> QED BY <2>1, <2>2 DEF Final
<1> QED BY <1>1, <1>2, <1>3, PTL DEF Spec

-----------------------------------------------------------------------------
(* Every step keeps what is known of the age of entries and answers. *)
LEMMA DatedStep ==
  ASSUME IInv, Dated, [Next]_vars
  PROVE  Dated'
<1>1. DP!Shape
  BY ShapeOfDetails
<1>2. ASSUME UNCHANGED <<dItems, dClient>> PROVE Dated'
  BY <1>2 DEF Dated, Arrived, Delivered
<1>3. ASSUME NEW q \in Requests, DP!Takes(q)
      PROVE  Dated'
  <2>1. /\ dItems' = dItems
        /\ \A p \in Requests : p # q => dClient'[p] = dClient[p]
    BY <1>1, <1>3, DP!ClientMoves
  <2> DEFINE r == dClient'[q].reply
  <2>2. r # None /\ r.tag = "cached" /\ ~(r.tag # "error" /\ r.data.stage = "delivered") =>
          dClient'[q].since < r.fetchedAt + DetailTTL
    <3> SUFFICES ASSUME r # None, r.tag = "cached", ~(r.tag # "error" /\ r.data.stage = "delivered")
                 PROVE  dClient'[q].since < r.fetchedAt + DetailTTL
      OBVIOUS
    <3>1. /\ DP!Begun(q) /\ dClient'[q].since = dClient[q].since
          /\ \/ r = dClient[q].reply
             \/ /\ dItems[dClient[q].key] # None
                /\ dClient[q].since < dItems[dClient[q].key].expiresAt
                /\ r = DP!FromEntry(dItems[dClient[q].key], "cached")
             \/ dOffer[q] # None /\ r = dOffer[q]
             \/ r = DP!Failure(CtxErr)
      BY <1>1, <1>3, DP!ClientMoves
    <3>2. CASE r = dClient[q].reply
      BY <3>1, <3>2 DEF Dated, Delivered
    <3>3. CASE /\ dItems[dClient[q].key] # None
               /\ dClient[q].since < dItems[dClient[q].key].expiresAt
               /\ r = DP!FromEntry(dItems[dClient[q].key], "cached")
      <4>1. PICK k \in Sids : k = dClient[q].key
        BY <1>1, <3>1 DEF DP!Shape
      <4>2. /\ r.fetchedAt = dItems[k].fetchedAt /\ ~Arrived(k)
            /\ dItems[k] # None /\ dClient[q].since < dItems[k].expiresAt
        BY <3>3, <4>1 DEF DP!FromEntry, Arrived
      <4> QED BY <3>1, <4>2 DEF Dated
    <3>4. r.tag # "cached" \/ ~(dOffer[q] # None /\ r = dOffer[q])
      BY <1>1 DEF DP!Shape, DP!IsOutcome
    <3>5. r # DP!Failure(CtxErr)
      BY DEF DP!Failure
    <3> QED BY <3>1, <3>2, <3>3, <3>4, <3>5
  <2> HIDE DEF r
  <2> QED BY <2>1, <2>2 DEF Dated, Arrived, Delivered, r
<1>4. ASSUME NEW q \in Requests, NEW t \in Nat, DP!Extend(q, t), Upgraded(dClient[q].reply)
      PROVE  Dated'
  <2>1. \A p \in Requests : /\ dClient'[p].reply = dClient[p].reply
                            /\ dClient'[p].since = dClient[p].since
    BY <1>1, <1>4, DetailSound, DP!ExtendMoves
  <2>2. \A id \in Sids : Arrived(id)' \/ (dItems'[id] = dItems[id] /\ Arrived(id)' = Arrived(id))
    BY <1>1, <1>4, ExtendArrives
  <2> QED BY <2>1, <2>2 DEF Dated, Delivered
<1>5. ASSUME NEW k \in Sids, DetailRound(k)
      PROVE  Dated'
  <2>1. /\ UNCHANGED dClient
        /\ \A j \in Sids : j # k => dItems'[j] = dItems[j]
        /\ \/ dItems'[k] = dItems[k]
           \/ \E t \in Nat : dItems'[k] = [value |-> dWire[k].body, fetchedAt |-> t,
                                          expiresAt |-> t + DetailTTL]
    BY <1>1, <1>5, DetailRoundMoves
  <2>2. \A j \in Sids : (dItems[j] # None /\ ~Arrived(j) =>
                          dItems[j].expiresAt = dItems[j].fetchedAt + DetailTTL)'
    <3>1. ASSUME NEW t \in Nat, NEW e,
                 e = [value |-> dWire[k].body, fetchedAt |-> t, expiresAt |-> t + DetailTTL]
          PROVE  e.expiresAt = e.fetchedAt + DetailTTL
      BY <3>1
    <3>2. dItems'[k] = dItems[k] \/ dItems'[k].expiresAt = dItems'[k].fetchedAt + DetailTTL
      BY <2>1, <3>1
    <3> QED BY <2>1, <3>2 DEF Dated, Arrived
  <2> QED BY <2>1, <2>2 DEF Dated, Delivered
<1>6. ASSUME NEW k \in Sids, CloseDetail(k) \/ AnswerDetail(k) PROVE Dated'
  BY <1>2, <1>6 DEF CloseDetail, D!Close, AnswerDetail
<1>7. ASSUME NEW s \in Stts, Register(s) \/ Deliver(s) PROVE Dated'
  BY <1>2, <1>7 DEF Register, Deliver, dVars
<1> QED BY <1>2, <1>3, <1>4, <1>5, <1>6, <1>7, DetailCases

(* A status that was fetched a TTL or more before the call began, and that *)
(* is not labelled stale, is a delivery: only a delivery is kept for       *)
(* longer, by the upgrade at the end of getShipmentDetails.                *)
THEOREM OldStatusesAreFinal == Spec => []OldStatusIsFinal
<1>1. Init => IInv /\ Dated
  <2> SUFFICES ASSUME Init PROVE Dated
    BY Initially
  <2>1. /\ \A k \in Sids : dItems[k] = None
        /\ \A q \in Requests : dClient[q].reply = None
    BY DEF Init, D!Init
  <2> QED BY <2>1 DEF Dated
<1>2. IInv /\ Dated /\ [Next]_vars => (IInv /\ Dated)'
  BY Inductive, DatedStep
<1>3. IInv /\ Dated => OldStatusIsFinal
  <2> SUFFICES ASSUME IInv, Dated, NEW q \in Requests, Detailed(q),
                      dClient[q].reply.tag = "cached",
                      dClient[q].since >= dClient[q].reply.fetchedAt + DetailTTL
               PROVE  Delivered(dClient[q].reply)
    BY DEF OldStatusIsFinal
  <2>1. dClient[q].reply # None /\ dClient[q] \in DP!Clients
    BY ShapeOfDetails DEF IInv, CallsOK, CallOK, Told, DP!Shape, DP!Ended
  <2>2. dClient[q].since \in Int /\ dClient[q].reply.fetchedAt + DetailTTL \in Int
    BY <2>1, TimeAssumption DEF DP!Clients, DP!Replies, DP!Responses, DP!Failed
  <2>3. ~(dClient[q].since < dClient[q].reply.fetchedAt + DetailTTL)
    BY <2>2
  <2> QED BY <2>1, <2>3 DEF Dated
<1> QED BY <1>1, <1>2, <1>3, PTL DEF Spec

-----------------------------------------------------------------------------
(* DSV forgets no shipment. *)
LEMMA AlwaysKept ==
  ASSUME IInv, [Next]_vars
  PROVE  /\ always' = always
         /\ \A s \in Stts : dsv[s] # "unknown" => dsv'[s] # "unknown"
<1>1. always' = always
  <2>1. ASSUME NEW q \in Requests, Begin(q) PROVE always' = always
    BY <2>1, BeginCases DEF AnswerAtOnce, Track, Details
  <2>2. ASSUME NEW q \in Requests, Step(q) \/ Cancel(q) PROVE always' = always
    BY <2>2, ResolveAsks DEF Step, Cancel, MissDetail, EnterDetail, DetailReturns, Upgrade,
       MissSearch, EnterSearch, SearchReturns
  <2>3. Fetching => always' = always
    BY DEF Fetching, DetailRound, CloseDetail, SearchRound, CloseSearch
  <2>4. ASSUME NEW k, AnswerDetail(k) \/ AnswerSearch(k) PROVE always' = always
    BY <2>4 DEF AnswerDetail, AnswerSearch
  <2>5. ASSUME NEW s, Register(s) \/ Deliver(s) \/ Tick \/ UNCHANGED vars PROVE always' = always
    BY <2>5 DEF Register, Deliver, Tick, vars
  <2> QED BY <2>1, <2>2, <2>3, <2>4, <2>5 DEF Next
<1>2. \A s \in Stts : dsv[s] # "unknown" => dsv'[s] # "unknown"
  <2>1. dsv \in [Stts -> {"unknown", "transit", "delivered"}]
    BY DEF IInv, Typed
  <2>2. ASSUME NEW s \in Stts, Register(s) \/ Deliver(s)
        PROVE  \E x \in {"transit", "delivered"} : dsv' = [dsv EXCEPT ![s] = x]
    BY <2>2 DEF Register, Deliver
  <2>3. ASSUME NEW k, DetailRound(k) \/ CloseDetail(k) \/ AnswerDetail(k) PROVE dsv' = dsv
    BY <2>3 DEF DetailRound, CloseDetail, AnswerDetail
  <2> QED BY <2>1, <2>2, <2>3, DetailCases
<1> QED BY <1>1, <1>2

(* No step denies the details of a known shipment. *)
LEMMA DetailsKnownStep ==
  ASSUME IInv, AlwaysKnown, DetailsKnown, [Next]_vars
  PROVE  DetailsKnown'
<1>0. DP!Shape /\ always' = always
  BY ShapeOfDetails, AlwaysKept
<1>2. ~Denial(None) /\ ~Denial(DP!Failure(CtxErr))
      /\ \A e, tag : tag # "error" => ~Denial(DP!FromEntry(e, tag))
  BY DEF Denial, DP!Failure, DP!FromEntry, CtxErr
<1>3. ASSUME UNCHANGED <<dRound, dClient, dOffer, dWire>> PROVE DetailsKnown'
  BY <1>0, <1>3 DEF DetailsKnown, Named, Denial
<1>4. ASSUME NEW q \in Requests, dWire' = dWire, DP!Takes(q) PROVE DetailsKnown'
  <2>1. \A k \in Sids : dRound'[k].outcome = dRound[k].outcome
    BY <1>0, <1>4, DP!ClientMoves
  <2>2. \A p \in Requests : p # q => dClient'[p] = dClient[p] /\ dOffer'[p] = dOffer[p]
    BY <1>0, <1>4, DP!ClientMoves
  <2>3. /\ Denial(dOffer'[q]) => Denial(dOffer[q])
        /\ Denial(dClient'[q].reply) => DP!Begun(q) /\ (Denial(dOffer[q]) \/ Denial(dClient[q].reply))
    BY <1>0, <1>2, <1>4, DP!ClientMoves
  <2>4. Denial(dOffer[q]) => DP!Begun(q)
    BY <1>0, <1>2 DEF DP!Shape
  <2>5. DP!Begun(q) => dClient'[q].key = dClient[q].key
    BY <1>0, <1>4, DP!ClientMoves
  <2> QED BY <1>0, <1>4, <2>1, <2>2, <2>3, <2>4, <2>5 DEF DetailsKnown, Named, Denial
<1>5. ASSUME NEW q \in Requests, NEW t \in Nat, dWire' = dWire, DP!Extend(q, t) PROVE DetailsKnown'
  <2>1. /\ UNCHANGED <<dRound, dOffer>>
        /\ \A p \in Requests : dClient'[p].key = dClient[p].key /\ dClient'[p].reply = dClient[p].reply
    BY <1>0, <1>5, DetailSound, DP!ExtendMoves
  <2> QED BY <1>0, <1>5, <2>1 DEF DetailsKnown, Named, Denial
<1>6. ASSUME NEW k \in Sids, DetailRound(k) PROVE DetailsKnown'
  <2>1. /\ UNCHANGED <<dClient, dOffer>> /\ dWire'[k] = None
        /\ \A j \in Sids : j # k => dWire'[j] = dWire[j] /\ dRound'[j] = dRound[j]
    BY <1>0, <1>6, DetailRoundMoves
  <2>2. Denial(dRound'[k].outcome) => dWire[k] = Refused
    <3>1. \A e : Denial(DP!Failure(e)) => e = "ErrShipmentNotFound"
      BY DEF Denial, DP!Failure
    <3> QED BY <1>0, <1>2, <1>6, <3>1, DetailRoundMoves
  <2>3. None # Refused
    BY NoneAssumption
  <2> QED BY <1>0, <2>1, <2>2, <2>3 DEF DetailsKnown, Named, Denial
<1>7. ASSUME NEW k \in Sids, CloseDetail(k) PROVE DetailsKnown'
  <2>1. \A p \in Requests : Denial(dOffer'[p]) =>
          Denial(dOffer[p]) \/ (dClient[p].key \in Sids /\ Denial(dRound[dClient[p].key].outcome))
    BY <1>0, <1>7, DetailCloses
  <2>2. \A j \in Sids : Denial(dRound'[j].outcome) => Denial(dRound[j].outcome)
    BY <1>0, <1>2, <1>7, DetailCloses
  <2>3. UNCHANGED <<dClient, dWire>>
    BY <1>0, <1>7, DetailCloses
  <2> QED BY <1>0, <2>1, <2>2, <2>3 DEF DetailsKnown, Named, Denial
<1>8. ASSUME NEW k \in Sids, AnswerDetail(k) PROVE DetailsKnown'
  <2>1. UNCHANGED <<dRound, dClient, dOffer>>
    BY <1>8 DEF AnswerDetail
  <2>2. \A j \in Sids : j # k => dWire'[j] = dWire[j]
    BY <1>8 DEF AnswerDetail, IInv, Typed, Wires
  <2>3. Named(k) => dWire'[k] # Refused
    <3> SUFFICES ASSUME NEW s \in always, k = Exact(s) PROVE dWire'[k] # Refused
      BY DEF Named
    <3>1. Finds(k, s)
      BY DEF Finds, Exact
    <3>2. dsv[s] # "unknown"
      BY DEF AlwaysKnown
    <3>3. PICK t \in Stts : Finds(k, t) /\ dWire'[k] = IF dsv[t] = "unknown" THEN Refused
                                            ELSE Sent([id |-> Exact(t), stage |-> dsv[t]])
      BY <1>8 DEF AnswerDetail, IInv, Typed, Wires
    <3>4. t = s
      BY <3>1, <3>3, FindsOne
    <3> QED BY <3>2, <3>3, <3>4 DEF Sent, Refused
  <2> QED BY <1>0, <2>1, <2>2, <2>3 DEF DetailsKnown, Named, Denial
<1>9. ASSUME NEW s \in Stts, Register(s) \/ Deliver(s) PROVE DetailsKnown'
  BY <1>3, <1>9 DEF Register, Deliver, dVars
<1> QED BY <1>3, <1>4, <1>5, <1>6, <1>7, <1>8, <1>9, DetailCases

-----------------------------------------------------------------------------
(* The same of the search cache. *)
LEMMA ShapeOfSearches ==
  ASSUME IInv
  PROVE  SP!Shape
  BY SP!Shaped DEF IInv, Caches

(* What a round of the search cache does when it is decided. *)
LEMMA SearchRoundMoves ==
  ASSUME IInv, SP!Shape, NEW k \in SearchKeys, SearchRound(k)
  PROVE  /\ UNCHANGED <<sClient, sOffer, always>> /\ sWire'[k] = None
         /\ \A j \in SearchKeys : j # k =>
              sWire'[j] = sWire[j] /\ sItems'[j] = sItems[j] /\ sRound'[j] = sRound[j]
         /\ \/ \E t \in Nat :
                 LET e == [value |-> sWire[k].body, fetchedAt |-> t, expiresAt |-> t + SearchTTL] IN
                 /\ sWire[k] # None /\ sWire[k].ok /\ e # None
                 /\ sItems'[k] = e /\ sRound'[k].outcome = SP!FromEntry(e, "live")
            \/ /\ sItems[k] # None /\ sItems'[k] = sItems[k]
               /\ sRound'[k].outcome = SP!FromEntry(sItems[k], "stale_fallback")
            \/ /\ sItems'[k] = sItems[k]
               /\ \E e \in Errors \cup {"ErrShipmentNotFound"} :
                    /\ sRound'[k].outcome = SP!Failure(e)
                    /\ e = "ErrShipmentNotFound" => sWire[k] = Refused
<1>1. /\ UNCHANGED <<always>> /\ sWire'[k] = None
      /\ \A j \in SearchKeys : j # k => sWire'[j] = sWire[j]
  BY DEF SearchRound, IInv, Typed, Wires
<1>2. Aborted \in Errors /\ "ErrShipmentNotFound" \notin Errors
  BY ErrorAssumption DEF Aborted
<1>3. PICK t \in 0..MaxTime :
        \/ sWire[k] # None /\ sWire[k].ok /\ SP!Land(k, sWire[k].body, t)
        \/ SP!Fallback(k, t)
        \/ \E e \in Errors \cup {"ErrShipmentNotFound"} :
             SP!Fail(k, e, t) /\ (e = "ErrShipmentNotFound" => sWire[k] = Refused)
  BY <1>2, SearchActions DEF SearchRound
<1>4. t \in Nat
  BY TimeAssumption
<1>5. sWire[k] # None /\ sWire[k].ok => sWire[k].body \in Summaries
  BY DEF IInv, Typed, Wires, Sent, Refused
<1>6. UNCHANGED <<sClient, sOffer>> /\ \A j \in SearchKeys : j # k => sItems'[j] = sItems[j] /\ sRound'[j] = sRound[j]
  BY <1>3, <1>4, <1>5, SearchSound, SP!RoundMoves
<1>7. CASE sWire[k] # None /\ sWire[k].ok /\ SP!Land(k, sWire[k].body, t)
  BY <1>1, <1>4, <1>5, <1>6, <1>7, SearchSound, SP!RoundMoves
<1>8. CASE SP!Fallback(k, t)
  BY <1>1, <1>4, <1>6, <1>8, SearchSound, SP!RoundMoves
<1>9. CASE \E e \in Errors \cup {"ErrShipmentNotFound"} :
             SP!Fail(k, e, t) /\ (e = "ErrShipmentNotFound" => sWire[k] = Refused)
  BY <1>1, <1>4, <1>6, <1>9, SearchSound, SP!RoundMoves
<1> QED BY <1>3, <1>7, <1>8, <1>9

(* What a round of the search cache does when it closes. *)
LEMMA SearchCloses ==
  ASSUME SP!Shape, NEW k \in SearchKeys, CloseSearch(k)
  PROVE  /\ UNCHANGED <<sItems, sClient, sWire, always>>
         /\ sRound'[k].outcome = None
         /\ \A j \in SearchKeys : j # k => sRound'[j] = sRound[j]
         /\ \A p \in Requests :
              \/ sOffer'[p] = sOffer[p]
              \/ sClient[p].key = k /\ sOffer'[p] = sRound[k].outcome
  BY SearchActions, SP!CloseMoves DEF CloseSearch

(* What a search for s may come to from what it has kept, or from an error *)
(* that is not a denial.                                                   *)
LEMMA Findings ==
  ASSUME NEW s
  PROVE  /\ Finding(s, None)
         /\ \A e, tag : tag # "error" => (Finding(s, SP!FromEntry(e, tag)) <=>
                                           (SP!FromEntry(e, tag) # None => Lists(s, e.value)))
         /\ \A e : e # "ErrShipmentNotFound" => Finding(s, SP!Failure(e))
<1>1. Finding(s, None)
  BY DEF Finding, Denial
<1>2. \A e, tag : tag # "error" => (Finding(s, SP!FromEntry(e, tag)) <=>
                                     (SP!FromEntry(e, tag) # None => Lists(s, e.value)))
  BY DEF Finding, Denial, SP!FromEntry
<1>3. \A e : e # "ErrShipmentNotFound" => Finding(s, SP!Failure(e))
  BY DEF Finding, Denial, SP!Failure
<1> QED BY <1>1, <1>2, <1>3

(* No step denies a search for a known shipment. *)
LEMMA SearchesKnownStep ==
  ASSUME IInv, AlwaysKnown, SearchesKnown, [Next]_vars
  PROVE  SearchesKnown'
<1>0. SP!Shape /\ always' = always
  BY ShapeOfSearches, AlwaysKept
<1>1. ASSUME UNCHANGED <<sItems, sRound, sClient, sOffer, sWire>> PROVE SearchesKnown'
  BY <1>0, <1>1 DEF SearchesKnown, Finding, Denial, Lists, Exact, Id
<1>3. ASSUME NEW q \in Requests, sWire' = sWire, SP!Takes(q) PROVE SearchesKnown'
  <2>1. sItems' = sItems /\ \A k \in SearchKeys : sRound'[k].outcome = sRound[k].outcome
    BY <1>0, <1>3, SP!ClientMoves
  <2>2. \A p \in Requests : p # q => sClient'[p] = sClient[p] /\ sOffer'[p] = sOffer[p]
    BY <1>0, <1>3, SP!ClientMoves
  <2>3. ASSUME sClient'[q].key \in SearchKeys, sClient'[q].key[1] \in always
        PROVE  Finding(sClient'[q].key[1], sOffer'[q]) /\ Finding(sClient'[q].key[1], sClient'[q].reply)
    <3>1. CASE ~SP!Begun(q)
      <4>1. sClient'[q].reply = None /\ sOffer'[q] = None
        BY <1>0, <1>3, <3>1, SP!ClientMoves DEF SP!Shape
      <4> QED BY <4>1, Findings
    <3>2. CASE SP!Begun(q)
      <4>1. sClient'[q].key = sClient[q].key
        BY <1>0, <1>3, <3>2, SP!ClientMoves
      <4>2. PICK k \in SearchKeys : k = sClient[q].key
        BY <2>3, <4>1
      <4>3. Finding(k[1], sOffer[q]) /\ Finding(k[1], sClient[q].reply)
        BY <2>3, <4>1, <4>2 DEF SearchesKnown
      <4>4. sOffer'[q] = sOffer[q] \/ sOffer'[q] = None
        BY <1>0, <1>3, SP!ClientMoves
      <4>5. \/ sClient'[q].reply = sClient[q].reply
            \/ sItems[k] # None /\ sClient'[q].reply = SP!FromEntry(sItems[k], "cached")
            \/ sClient'[q].reply = sOffer[q]
            \/ sClient'[q].reply = SP!Failure(CtxErr)
        BY <1>0, <1>3, <3>2, <4>2, SP!ClientMoves
      <4>6. sItems[k] # None => Lists(k[1], sItems[k].value)
        BY <2>3, <4>1, <4>2 DEF SearchesKnown
      <4>7. Finding(k[1], sOffer'[q])
        BY <4>3, <4>4, Findings
      <4>8. Finding(k[1], sClient'[q].reply)
        BY <4>3, <4>5, <4>6, Findings DEF CtxErr
      <4> QED BY <4>1, <4>2, <4>7, <4>8
    <3> QED BY <3>1, <3>2
  <2>4. \A k \in SearchKeys : k[1] \in always => Finding(k[1], sRound'[k].outcome)
    BY <2>1 DEF SearchesKnown
  <2>5. \A p \in Requests : sClient'[p].key \in SearchKeys /\ sClient'[p].key[1] \in always =>
          Finding(sClient'[p].key[1], sOffer'[p]) /\ Finding(sClient'[p].key[1], sClient'[p].reply)
    BY <2>2, <2>3 DEF SearchesKnown
  <2> QED BY <1>0, <1>3, <2>1, <2>4, <2>5 DEF SearchesKnown, Finding, Denial, Lists, Exact, Id
<1>4. ASSUME NEW k \in SearchKeys, SearchRound(k) PROVE SearchesKnown'
  <2>1. /\ UNCHANGED <<sClient, sOffer>> /\ sWire'[k] = None
        /\ \A j \in SearchKeys : j # k =>
             sWire'[j] = sWire[j] /\ sItems'[j] = sItems[j] /\ sRound'[j] = sRound[j]
    BY <1>0, <1>4, SearchRoundMoves
  <2>2. ASSUME k[1] \in always
        PROVE  /\ sItems'[k] # None => Lists(k[1], sItems'[k].value)
               /\ Finding(k[1], sRound'[k].outcome)
    <3>1. /\ sWire[k] # Refused
          /\ sWire[k] # None => Lists(k[1], sWire[k].body)
          /\ sItems[k] # None => Lists(k[1], sItems[k].value)
      BY <2>2 DEF SearchesKnown
    <3>2. ASSUME NEW t, NEW e,
                 e = [value |-> sWire[k].body, fetchedAt |-> t, expiresAt |-> t + SearchTTL],
                 sWire[k] # None, sItems'[k] = e, sRound'[k].outcome = SP!FromEntry(e, "live")
          PROVE  /\ Lists(k[1], sItems'[k].value)
                 /\ Finding(k[1], sRound'[k].outcome)
      <4>1. e.value = sWire[k].body
        BY <3>2
      <4> QED BY <3>1, <3>2, <4>1, Findings
    <3>3. CASE /\ sItems[k] # None /\ sItems'[k] = sItems[k]
               /\ sRound'[k].outcome = SP!FromEntry(sItems[k], "stale_fallback")
      BY <3>1, <3>3, Findings
    <3>4. CASE /\ sItems'[k] = sItems[k]
               /\ \E e \in Errors \cup {"ErrShipmentNotFound"} :
                    /\ sRound'[k].outcome = SP!Failure(e)
                    /\ e = "ErrShipmentNotFound" => sWire[k] = Refused
      BY <3>1, <3>4, Findings
    <3> QED BY <1>0, <1>4, <3>2, <3>3, <3>4, SearchRoundMoves
  <2>3. None # Refused
    BY NoneAssumption
  <2>4. \A j \in SearchKeys : j[1] \in always =>
          /\ sWire'[j] # Refused
          /\ sWire'[j] # None => Lists(j[1], sWire'[j].body)
          /\ sItems'[j] # None => Lists(j[1], sItems'[j].value)
          /\ Finding(j[1], sRound'[j].outcome)
    BY <2>1, <2>2, <2>3 DEF SearchesKnown
  <2> QED BY <1>0, <2>1, <2>4 DEF SearchesKnown, Finding, Denial, Lists, Exact, Id
<1>5. ASSUME NEW k \in SearchKeys, CloseSearch(k) PROVE SearchesKnown'
  <2>1. \A p \in Requests : sClient[p].key \in SearchKeys /\ sClient[p].key[1] \in always =>
          Finding(sClient[p].key[1], sOffer'[p])
    BY <1>0, <1>5, SearchCloses DEF SearchesKnown
  <2>2. \A j \in SearchKeys : j[1] \in always => Finding(j[1], sRound'[j].outcome)
    BY <1>0, <1>5, SearchCloses, Findings DEF SearchesKnown
  <2>3. UNCHANGED <<sItems, sClient, sWire>>
    BY <1>0, <1>5, SearchCloses
  <2> QED BY <1>0, <2>1, <2>2, <2>3 DEF SearchesKnown, Finding, Denial, Lists, Exact, Id
<1>6. ASSUME NEW k \in SearchKeys, AnswerSearch(k) PROVE SearchesKnown'
  <2>1. UNCHANGED <<sItems, sRound, sClient, sOffer>>
    BY <1>6 DEF AnswerSearch
  <2>2. \A j \in SearchKeys : j # k => sWire'[j] = sWire[j]
    BY <1>6 DEF AnswerSearch, IInv, Typed, Wires
  <2>3. ASSUME k[1] \in always
        PROVE  sWire'[k] # Refused /\ Lists(k[1], sWire'[k].body)
    <3>1. dsv[k[1]] # "unknown"
      BY <2>3 DEF AlwaysKnown
    <3>2. sWire'[k] \in SearchAnswers(k[1])
      BY <1>6 DEF AnswerSearch, IInv, Typed, Wires
    <3>3. PICK x \in Summaries : x # <<>> /\ x[Len(x)] = Exact(k[1]) /\ sWire'[k] = Sent(x)
      BY <3>1, <3>2 DEF SearchAnswers
    <3> QED BY <3>3 DEF Sent, Refused, Lists
  <2>4. \A j \in SearchKeys : j[1] \in always =>
          sWire'[j] # Refused /\ (sWire'[j] # None => Lists(j[1], sWire'[j].body))
    BY <2>2, <2>3 DEF SearchesKnown
  <2> QED BY <1>0, <2>1, <2>4 DEF SearchesKnown, Finding, Denial, Lists, Exact, Id
<1>7. ASSUME NEW s \in Stts, Register(s) \/ Deliver(s) PROVE SearchesKnown'
  BY <1>1, <1>7 DEF Register, Deliver, sVars
<1> QED BY <1>1, <1>3, <1>4, <1>5, <1>6, <1>7, SearchCases

-----------------------------------------------------------------------------
(* A result that lists a shipment lists it first, or second after its      *)
(* namesake.                                                               *)
LEMMA ListedFirstOrSecond ==
  ASSUME NEW s, NEW x \in Summaries, Lists(s, x)
  PROVE  Head(x) = Exact(s) \/ (s \in Shared /\ x = <<Namesake(s), Exact(s)>>)
<1>1. CASE x = <<>>
  BY <1>1 DEF Lists
<1>2. CASE \E t \in Stts : x = <<Exact(t)>>
  <2>1. PICK y : x = <<y>>
    BY <1>2
  <2>2. Len(x) = 1 /\ x[1] = y /\ Head(x) = y
    BY <2>1
  <2> QED BY <2>2 DEF Lists
<1>3. CASE \E t \in Shared : x = <<Namesake(t), Exact(t)>>
  <2>1. PICK t \in Shared : x = <<Namesake(t), Exact(t)>>
    BY <1>3
  <2>2. Len(x) = 2 /\ x[2] = Exact(t)
    BY <2>1
  <2>3. Exact(t) = Exact(s)
    BY <2>2 DEF Lists
  <2>4. t = s
    BY <2>3 DEF Exact, Id
  <2> QED BY <2>1, <2>4
<1> QED BY <1>1, <1>2, <1>3 DEF Summaries

(* The key of an id is a search for its second segment. *)
LEMMA SttOfKey ==
  ASSUME NEW id
  PROVE  SttKey(id)[1] = id[2]
<1>1. \A x, y : <<x, y>>[1] = x
  OBVIOUS
<1> QED BY <1>1, Zenon DEF SttKey

(* A known shipment, named exactly, is denied only to a call that got      *)
(* ErrInvalidReference, or that compared its id with the first of several  *)
(* shipments in getShipmentDetails: no timeout, no cancelled leader and no *)
(* stale answer on the way through both caches passes for DSV's denial.    *)
THEOREM NeverDenied == Spec => []KnownNeverDenied
<1>1. Init => IInv /\ Known
  <2> SUFFICES ASSUME Init PROVE Known
    BY Initially
  <2>1. AlwaysKnown
    BY DEF Init, AlwaysKnown
  <2>2. None # Refused
    BY NoneAssumption
  <2>3. DetailsKnown
    <3>1. /\ \A k \in Sids : dWire[k] = None /\ dRound[k].outcome = None
          /\ \A q \in Requests : dOffer[q] = None /\ dClient[q].reply = None
      BY DEF Init, D!Init, D!NoRound
    <3> QED BY <2>2, <3>1 DEF DetailsKnown, Denial
  <2>4. SearchesKnown
    <3>1. /\ \A k \in SearchKeys : sItems[k] = None /\ sWire[k] = None /\ sRound[k].outcome = None
          /\ \A q \in Requests : sOffer[q] = None /\ sClient[q].reply = None
      BY DEF Init, S!Init, S!NoRound
    <3> QED BY <2>2, <3>1, Findings DEF SearchesKnown
  <2> QED BY <2>1, <2>3, <2>4 DEF Known
<1>2. IInv /\ Known /\ [Next]_vars => (IInv /\ Known)'
  <2> SUFFICES ASSUME IInv, Known, [Next]_vars PROVE Known'
    BY Inductive
  <2>1. AlwaysKnown'
    BY AlwaysKept DEF Known, AlwaysKnown
  <2> QED BY <2>1, DetailsKnownStep, SearchesKnownStep DEF Known
<1>3. IInv /\ Known => KnownNeverDenied
  <2> SUFFICES ASSUME IInv, Known, NEW q \in Requests, DeniedKnown(q)
               PROVE  Got(q, "ErrInvalidReference") \/ ListedSecond(q)
    BY DEF KnownNeverDenied
  <2>1. Judged(q) /\ req[q].code = "SHIPMENT_NOT_FOUND"
    BY DEF IInv, CallsOK, CallOK, DeniedKnown
  <2>2. PICK s \in always :
          \/ Input(q).tool = "track_shipment" /\ Input(q).arg[1] = s
          \/ Input(q).tool = "get_shipment_details" /\ Input(q).arg = Exact(s)
    BY DEF DeniedKnown
  <2>3. \A r : Denies(r) /\ r # None /\ ~Denial(r) => GotError(r, "ErrInvalidReference")
    BY DEF Denies, Denial, GotError
  <2>4. CASE Detailing(q) /\ dClient[q].status = "answered" /\ Denies(dClient[q].reply)
    <3>1. Named(dClient[q].key)
      BY <2>2, <2>4 DEF Detailing, Named
    <3>2. ~Denial(dClient[q].reply)
      BY <3>1 DEF Known, DetailsKnown
    <3>3. dClient[q].reply # None
      BY <2>4, ShapeOfDetails DEF DP!Shape, DP!Ended
    <3> QED BY <2>3, <2>4, <3>2, <3>3 DEF Got
  <2>5. ASSUME sClient[q].key \in SearchKeys, sClient[q].key[1] = s, sClient[q].status = "answered"
        PROVE  /\ sClient[q].reply # None /\ ~Denial(sClient[q].reply)
               /\ sClient[q].reply.tag # "error" =>
                    sClient[q].reply.data \in Summaries /\ Lists(s, sClient[q].reply.data)
    <3>1. Finding(s, sClient[q].reply)
      BY <2>5 DEF Known, SearchesKnown
    <3>2. sClient[q].reply # None
      BY <2>5, ShapeOfSearches DEF SP!Shape, SP!Ended
    <3>3. sClient[q].reply \in SP!Replies
      BY <3>2, ShapeOfSearches DEF SP!Shape, SP!Clients
    <3>4. sClient[q].reply.tag # "error" => sClient[q].reply.data \in Summaries
      BY <3>3 DEF SP!Replies, SP!Responses, SP!Failed
    <3> QED BY <3>1, <3>2, <3>4 DEF Finding
  <2>6. CASE Tracking(q) /\ sClient[q].status = "answered" /\ Denies(sClient[q].reply)
    <3>1. sClient[q].key \in SearchKeys /\ sClient[q].key[1] = s
      BY <2>2, <2>6 DEF Tracking
    <3> QED BY <2>3, <2>5, <2>6, <3>1 DEF Got
  <2>7. CASE /\ Resolving(q) /\ sClient[q].status = "answered"
             /\ \/ Denies(sClient[q].reply)
                \/ /\ sClient[q].reply.tag # "error"
                   /\ sClient[q].reply.data = <<>> \/ Head(sClient[q].reply.data) # Input(q).arg
    <3>1. Input(q).arg = Exact(s) /\ Input(q).arg \in Sids /\ Input(q).tool = "get_shipment_details"
      BY <2>2, <2>7 DEF Resolving, Detailing
    <3>2. Input(q).arg[2] = s
      BY <3>1 DEF Exact, Id
    <3>3. sClient[q].key \in SearchKeys /\ sClient[q].key[1] = s
      BY <2>7, <3>1, <3>2, SttKeyOfId, SttOfKey DEF Resolving
    <3>4. CASE Denies(sClient[q].reply)
      BY <2>3, <2>5, <2>7, <3>3, <3>4 DEF Got
    <3>5. CASE /\ sClient[q].reply.tag # "error"
               /\ sClient[q].reply.data = <<>> \/ Head(sClient[q].reply.data) # Input(q).arg
      <4>1. /\ sClient[q].reply # None /\ sClient[q].reply.data \in Summaries
            /\ Lists(s, sClient[q].reply.data)
        BY <2>5, <2>7, <3>3, <3>5
      <4>2. s \in Shared /\ sClient[q].reply.data = <<Namesake(s), Exact(s)>>
        BY <3>1, <3>5, <4>1, ListedFirstOrSecond DEF Lists
      <4> QED BY <3>1, <3>2, <3>5, <4>1, <4>2 DEF ListedSecond
    <3> QED BY <2>7, <3>4, <3>5
  <2> QED BY <2>1, <2>4, <2>6, <2>7 DEF Judged
<1> QED BY <1>1, <1>2, <1>3, PTL DEF Spec
=============================================================================
