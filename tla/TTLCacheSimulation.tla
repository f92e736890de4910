------------------------- MODULE TTLCacheSimulation -------------------------
(***************************************************************************)
(* The proof that TTLCache implements ReadThrough: every step of a         *)
(* goroutine, a caller or the clock is a step of the contract or changes   *)
(* nothing the contract sees.                                              *)
(*                                                                         *)
(* What the contract asks of a step and its guard does not say is what the *)
(* invariant SInv keeps: the round of a running goroutine has its leader   *)
(* as a member and no outcome yet, the moment the goroutine read the clock *)
(* is one of the round, and an abort is the fault of a member.             *)
(***************************************************************************)
EXTENDS TTLCacheRefinement, TTLCacheProofs

Clock ==
  /\ now <= MaxTime
  /\ \A c \in Callers : call[c].at <= now

(* A goroutine has its leader's channel, and no result until it settles. *)
Rounds ==
  \A l \in Callers :
    /\ Active(l) => l \in flight[l].waiters
    /\ flight[l].stage # "settled" => flight[l].out = None
    /\ flight[l].stage = "unborn" => flight[l].waiters = {}

(* The clock was read after the leader's call began, and an abort is due   *)
(* to the leader's context.                                                *)
Ended ==
  \A l \in Callers :
    /\ flight[l].stage \in {"fetched", "failed"} =>
         call[l].at <= flight[l].ts /\ flight[l].ts <= now
    /\ flight[l].stage = "failed" =>
         flight[l].got \in Errors \/ (flight[l].got = AbortErr /\ l \in cancelled)

(* No answer is dated later than now. *)
Answers ==
  /\ \A k \in Keys : items[k] # None => items[k].fetchedAt <= now
  /\ \A l \in Callers : flight[l].stage = "settled" => flight[l].out.fetchedAt <= now
  /\ \A c \in Callers : chan[c] # None => chan[c].fetchedAt <= now
  /\ \A c \in Callers :
       call[c].pc \in {"returned", "stamped"} => call[c].reply.fetchedAt <= now

(* SetWithTTL is called after the answer, by those who do. *)
Stamps ==
  \A c \in Callers :
    call[c].pc = "stamped" =>
      c \in Setters /\ call[c].reply.fetchedAt <= call[c].stamp /\ call[c].stamp <= now

SInv == Clock /\ Rounds /\ Ended /\ Answers /\ Stamps

-----------------------------------------------------------------------------
(* Initially the clock stands at zero and nothing runs. *)
LEMMA SInit == Init => SInv
  BY TimeAssumption
  DEF Init, SInv, Clock, Rounds, Ended, Answers, Stamps, Active, Unborn

(* SInv is preserved when a call of Fetch reads the clock. *)
LEMMA SBegin ==
  ASSUME IInv, SInv, NEW c \in Callers, NEW k \in Keys, Begin(c, k)
  PROVE  SInv'
  BY DEF IInv, SInv, Clock, Rounds, Ended, Answers, Stamps, Active, Begin, TypeOK, Call, NotYetLeading

(* SInv is preserved when a call is answered from an unexpired entry. *)
LEMMA SLookupHit ==
  ASSUME IInv, SInv, NEW c \in Callers, LookupHit(c)
  PROVE  SInv'
  BY DEF IInv, SInv, Clock, Rounds, Ended, Answers, Stamps, Active, LookupHit, Return, Fresh, FromEntry,
         TypeOK, Call, CallData

(* SInv is preserved when a call finds no unexpired entry. *)
LEMMA SLookupMiss ==
  ASSUME IInv, SInv, NEW c \in Callers, LookupMiss(c)
  PROVE  SInv'
  BY DEF IInv, SInv, Clock, Rounds, Ended, Answers, Stamps, Active, LookupMiss, TypeOK, Call

(* SInv is preserved when a call joins the flight registered for its key. *)
LEMMA SJoinFlight ==
  ASSUME IInv, SInv, NEW c \in Callers, JoinFlight(c)
  PROVE  SInv'
  BY DEF IInv, SInv, Clock, Rounds, Ended, Answers, Stamps, Active, JoinFlight, TypeOK, Call, Flight,
         CallData, Registered

(* SInv is preserved when a call registers a flight and starts its goroutine. *)
LEMMA SStartFlight ==
  ASSUME IInv, SInv, NEW c \in Callers, StartFlight(c)
  PROVE  SInv'
  BY DEF IInv, SInv, Clock, Rounds, Ended, Answers, Stamps, Active, StartFlight, TypeOK, Call, Flight,
         NotYetLeading

(* SInv is preserved when the fetcher returns a value or an error. *)
LEMMA SFetcherEnds ==
  ASSUME IInv, SInv, NEW l \in Callers, NEW stage \in {"fetched", "failed"}, NEW x,
         stage = "failed" => x \in Errors \/ (x = AbortErr /\ l \in cancelled),
         FetcherEnds(l, stage, x)
  PROVE  SInv'
  BY DEF IInv, SInv, Clock, Rounds, Ended, Answers, Stamps, Active, FetcherEnds, TypeOK, Call, Flight

(* SInv is preserved when a goroutine stores what it fetched. *)
LEMMA SStore ==
  ASSUME IInv, SInv, NEW l \in Callers, Store(l)
  PROVE  SInv'
  BY DEF IInv, SInv, Clock, Rounds, Ended, Answers, Stamps, Active, Store, Settle, FromEntry,
         TypeOK, Call, Flight

(* SInv is preserved when a goroutine falls back on an expired entry. *)
LEMMA SServeStale ==
  ASSUME IInv, SInv, NEW l \in Callers, ServeStale(l)
  PROVE  SInv'
  BY DEF IInv, SInv, Clock, Rounds, Ended, Answers, Stamps, Active, ServeStale, InStaleWindow, Settle,
         FromEntry, TypeOK, Call, Flight, CallData, NotYetLeading

(* SInv is preserved when a goroutine has nothing to fall back on. *)
LEMMA SServeError ==
  ASSUME IInv, SInv, NEW l \in Callers, ServeError(l)
  PROVE  SInv'
  BY DEF IInv, SInv, Clock, Rounds, Ended, Answers, Stamps, Active, ServeError, Settle, Failure,
         TypeOK, Call, Flight

(* SInv is preserved when a flight is unregistered and its channels filled. *)
LEMMA SDeliver ==
  ASSUME IInv, SInv, NEW l \in Callers, Deliver(l)
  PROVE  SInv'
  BY DEF IInv, SInv, Clock, Rounds, Ended, Answers, Stamps, Active, Deliver, Unborn,
         TypeOK, Call, Flight

(* SInv is preserved when a call takes its answer from its channel. *)
LEMMA SReceive ==
  ASSUME IInv, SInv, NEW c \in Callers, Receive(c)
  PROVE  SInv'
  BY DEF IInv, SInv, Clock, Rounds, Ended, Answers, Stamps, Active, Receive, Return, TypeOK, Call

(* SInv is preserved when a cancelled call gives up. *)
LEMMA SReturnCtxErr ==
  ASSUME IInv, SInv, NEW c \in Callers, ReturnCtxErr(c)
  PROVE  SInv'
  BY DEF IInv, SInv, Clock, Rounds, Ended, Answers, Stamps, Active, ReturnCtxErr, Return, Failure,
         TypeOK, Call

(* SInv is preserved when SetWithTTL reads the clock. *)
LEMMA SSetStamp ==
  ASSUME IInv, SInv, NEW c \in Callers, SetStamp(c)
  PROVE  SInv'
  BY DEF IInv, SInv, Clock, Rounds, Ended, Answers, Stamps, Active, SetStamp, TypeOK, Call

(* SInv is preserved when SetWithTTL writes the entry. *)
LEMMA SSetStore ==
  ASSUME IInv, SInv, NEW c \in Callers, SetStore(c)
  PROVE  SInv'
  BY DEF IInv, SInv, Clock, Rounds, Ended, Answers, Stamps, Active, SetStore, TypeOK, Call

(* SInv is preserved by a withdrawal, an invalidation and the clock. *)
LEMMA SOther ==
  ASSUME IInv, SInv,
         \/ \E c \in Callers : Cancel(c)
         \/ \E k \in Keys : Invalidate(k)
         \/ Tick
         \/ UNCHANGED vars
  PROVE  SInv'
<1> USE DEF IInv, SInv, Clock, Rounds, Ended, Answers, Stamps, Active, TypeOK, Call, Flight
<1>1. ASSUME NEW c \in Callers, Cancel(c) PROVE SInv'
  BY <1>1 DEF Cancel
<1>2. ASSUME NEW k \in Keys, Invalidate(k) PROVE SInv'
  BY <1>2 DEF Invalidate
<1>3. CASE Tick
  BY <1>3, TimeAssumption DEF Tick, Entry, Reply, CallData, FlightData, ReplyOK
<1>4. CASE UNCHANGED vars
  BY <1>4 DEF vars
<1> QED BY <1>1, <1>2, <1>3, <1>4

-----------------------------------------------------------------------------
(* The contract's view of the cache.                                       *)
rounds == [k \in Keys |-> RoundOf(k)]
clients == [c \in Callers |-> ClientOf(c)]

(* The contract's status at each point of Fetch and SetWithTTL. *)
LEMMA Statuses ==
  /\ Status("idle") = "idle"
  /\ Status("lookup") = "asking" /\ Status("dochan") = "asking"
  /\ Status("select") = "waiting"
  /\ Status("returned") = "answered" /\ Status("stamped") = "answered"
  /\ Status("done") = "written"
  BY DEF Status

(* What a running goroutine is in the contract: the round of its key. *)
LEMMA RoundOfActive ==
  ASSUME IInv, NEW l \in Callers, Active(l)
  PROVE  /\ call[l].key \in Keys
         /\ rounds[call[l].key] = [members |-> flight[l].waiters, outcome |-> flight[l].out]
  BY NoneAssumption DEF IInv, NotYetLeading, CallData, Registered, Active, rounds, RoundOf, TypeOK, Call

(* Rounds are made of registrations and goroutines. *)
LEMMA SameRounds ==
  ASSUME UNCHANGED <<group, flight>>
  PROVE  rounds' = rounds
  BY DEF rounds, RoundOf

(* A step about one key changes only its round. *)
LEMMA OneRound ==
  ASSUME NEW k \in Keys, NEW r, RoundOf(k)' = r,
         \A j \in Keys : j # k => RoundOf(j)' = RoundOf(j)
  PROVE  rounds' = [rounds EXCEPT ![k] = r]
  BY DEF rounds

(* A goroutine that changes without settling leaves its round as it was. *)
LEMMA SilentRound ==
  ASSUME IInv, NEW l \in Callers, NEW f, group' = group,
         flight' = [flight EXCEPT ![l] = f],
         f.waiters = flight[l].waiters, f.out = flight[l].out
  PROVE  rounds' = rounds
<1>1. \A m \in Callers : flight'[m].waiters = flight[m].waiters /\ flight'[m].out = flight[m].out
  BY DEF IInv, TypeOK
<1>2. \A k \in Keys : RoundOf(k)' = RoundOf(k)
  BY <1>1 DEF IInv, TypeOK, RoundOf
<1> QED BY <1>2 DEF rounds

(* What a call is in the contract. *)
LEMMA ClientAt ==
  ASSUME NEW c \in Callers
  PROVE  clients[c] = [status |-> Status(call[c].pc), key |-> call[c].key,
                       since |-> call[c].at, reply |-> call[c].reply]
  BY DEF clients, ClientOf

(* The contract's record of a call whose status changes. *)
LEMMA SetStatus ==
  ASSUME NEW c \in Callers, NEW s
  PROVE  [clients[c] EXCEPT !.status = s]
           = [status |-> s, key |-> call[c].key, since |-> call[c].at, reply |-> call[c].reply]
<1>1. clients[c] = [status |-> Status(call[c].pc), key |-> call[c].key,
                    since |-> call[c].at, reply |-> call[c].reply]
  BY ClientAt, Zenon
<1> QED BY <1>1

(* The contract's record of a call that asks. *)
LEMMA SetAsking ==
  ASSUME NEW c \in Callers, NEW k
  PROVE  [clients[c] EXCEPT !.status = "asking", !.key = k, !.since = now]
           = [status |-> "asking", key |-> k, since |-> now, reply |-> call[c].reply]
<1> DEFINE y == [clients[c] EXCEPT !.status = "asking"]
           z == [y EXCEPT !.key = k]
<1>1. y = [status |-> "asking", key |-> call[c].key, since |-> call[c].at, reply |-> call[c].reply]
  BY SetStatus
<1> HIDE DEF y
<1>2. z = [status |-> "asking", key |-> k, since |-> call[c].at, reply |-> call[c].reply]
  BY <1>1
<1> HIDE DEF z
<1>3. [z EXCEPT !.since = now] = [status |-> "asking", key |-> k, since |-> now, reply |-> call[c].reply]
  BY <1>2
<1> QED BY <1>3, Zenon DEF y, z

(* The contract's record of a call that is answered. *)
LEMMA SetAnswered ==
  ASSUME NEW c \in Callers, NEW s, NEW r
  PROVE  [clients[c] EXCEPT !.status = s, !.reply = r]
           = [status |-> s, key |-> call[c].key, since |-> call[c].at, reply |-> r]
<1> DEFINE y == [clients[c] EXCEPT !.status = s]
<1>1. y = [status |-> s, key |-> call[c].key, since |-> call[c].at, reply |-> call[c].reply]
  BY SetStatus
<1> HIDE DEF y
<1>2. [y EXCEPT !.reply = r] = [status |-> s, key |-> call[c].key, since |-> call[c].at, reply |-> r]
  BY <1>1
<1> QED BY <1>2, Zenon DEF y

(* A call that moves changes only itself among the clients. *)
LEMMA OneClient ==
  ASSUME IInv, NEW c \in Callers, NEW r, call' = [call EXCEPT ![c] = r]
  PROVE  clients' = [clients EXCEPT ![c] = [status |-> Status(r.pc), key |-> r.key,
                                            since |-> r.at, reply |-> r.reply]]
<1>1. ClientOf(c)' = [status |-> Status(r.pc), key |-> r.key, since |-> r.at, reply |-> r.reply]
  BY DEF IInv, TypeOK, ClientOf
<1>2. \A d \in Callers : d # c => ClientOf(d)' = ClientOf(d)
  BY DEF IInv, TypeOK, ClientOf
<1> QED BY <1>1, <1>2 DEF clients

(* A call that begins is a client that asks. *)
LEMMA Asking ==
  ASSUME IInv, NEW c \in Callers, NEW k, NEW f,
         call' = [call EXCEPT ![c] = [@ EXCEPT !.pc = "lookup", !.key = k, !.at = now, !.floor = f]]
  PROVE  clients' = [clients EXCEPT ![c] = [@ EXCEPT !.status = "asking", !.key = k, !.since = now]]
<1> DEFINE r == [call[c] EXCEPT !.pc = "lookup", !.key = k, !.at = now, !.floor = f]
<1>1. r.pc = "lookup" /\ r.key = k /\ r.at = now /\ r.reply = call[c].reply
  BY DEF IInv, TypeOK, Call
<1>2. call' = [call EXCEPT ![c] = r]
  OBVIOUS
<1> HIDE DEF r
<1>3. clients' = [clients EXCEPT ![c] = [status |-> "asking", key |-> k,
                                         since |-> now, reply |-> call[c].reply]]
  <2>1. clients' = [clients EXCEPT ![c] = [status |-> Status(r.pc), key |-> r.key,
                                           since |-> r.at, reply |-> r.reply]]
    BY <1>2, OneClient
  <2> QED BY <1>1, <2>1, Statuses, Zenon
<1>4. [clients[c] EXCEPT !.status = "asking", !.key = k, !.since = now]
        = [status |-> "asking", key |-> k, since |-> now, reply |-> call[c].reply]
  BY SetAsking, Zenon
<1> QED BY <1>3, <1>4, Zenon

(* A call that returns is a client that is answered. *)
LEMMA Answering ==
  ASSUME IInv, NEW c \in Callers, NEW x,
         call' = [call EXCEPT ![c] = [@ EXCEPT !.pc = "returned", !.reply = x]]
  PROVE  clients' = [clients EXCEPT ![c] = [@ EXCEPT !.status = "answered", !.reply = x]]
<1> DEFINE r == [call[c] EXCEPT !.pc = "returned", !.reply = x]
<1>1. r.pc = "returned" /\ r.key = call[c].key /\ r.at = call[c].at /\ r.reply = x
  BY DEF IInv, TypeOK, Call
<1>2. call' = [call EXCEPT ![c] = r]
  OBVIOUS
<1> HIDE DEF r
<1>3. clients' = [clients EXCEPT ![c] = [status |-> "answered", key |-> call[c].key,
                                         since |-> call[c].at, reply |-> x]]
  <2>1. clients' = [clients EXCEPT ![c] = [status |-> Status(r.pc), key |-> r.key,
                                           since |-> r.at, reply |-> r.reply]]
    BY <1>2, OneClient
  <2> QED BY <1>1, <2>1, Statuses, Zenon
<1>4. [clients[c] EXCEPT !.status = "answered", !.reply = x]
        = [status |-> "answered", key |-> call[c].key, since |-> call[c].at, reply |-> x]
  BY SetAnswered, Zenon
<1> QED BY <1>3, <1>4, Zenon

(* A call that only moves is a client whose status changes. *)
LEMMA Moving ==
  ASSUME IInv, NEW c \in Callers, NEW r,
         call' = [call EXCEPT ![c] = r],
         r.key = call[c].key, r.at = call[c].at, r.reply = call[c].reply
  PROVE  clients' = [clients EXCEPT ![c].status = Status(r.pc)]
<1>1. clients' = [clients EXCEPT ![c] = [status |-> Status(r.pc), key |-> call[c].key,
                                         since |-> call[c].at, reply |-> call[c].reply]]
  BY OneClient
<1>2. [clients[c] EXCEPT !.status = Status(r.pc)]
        = [status |-> Status(r.pc), key |-> call[c].key, since |-> call[c].at, reply |-> call[c].reply]
  BY SetStatus, Zenon
<1> QED BY <1>1, <1>2, Zenon

(* A call that moves within a status of the contract changes no client. *)
LEMMA StayingPut ==
  ASSUME IInv, NEW c \in Callers, NEW r,
         call' = [call EXCEPT ![c] = r],
         r.key = call[c].key, r.at = call[c].at, r.reply = call[c].reply,
         Status(r.pc) = Status(call[c].pc)
  PROVE  clients' = clients
<1>1. clients' = [clients EXCEPT ![c] = [status |-> Status(r.pc), key |-> call[c].key,
                                         since |-> call[c].at, reply |-> call[c].reply]]
  BY OneClient
<1> QED BY <1>1 DEF clients, ClientOf

(* Calls make the clients. *)
LEMMA SameClients ==
  ASSUME UNCHANGED call
  PROVE  clients' = clients
  BY DEF clients, ClientOf

-----------------------------------------------------------------------------
(* One lemma per action: it is a step of the contract, or a stutter. *)

(* A call of Fetch that begins asks. *)
LEMMA BeginAsks ==
  ASSUME IInv, NEW c \in Callers, NEW k \in Keys, Begin(c, k)
  PROVE  RT!Ask(c, k)
<1>1. clients' = [clients EXCEPT ![c] = [@ EXCEPT !.status = "asking", !.key = k, !.since = now]]
  BY Asking DEF Begin
<1>2. rounds' = rounds
  BY SameRounds DEF Begin
<1>3. clients[c].status = "idle"
  BY Statuses DEF Begin, clients, ClientOf
<1> QED BY <1>1, <1>2, <1>3, Zenon DEF RT!Ask, Begin, clients, rounds
(* A call answered from an unexpired entry is a hit. *)
LEMMA LookupHitHits ==
  ASSUME IInv, NEW c \in Callers, LookupHit(c)
  PROVE  RT!Hit(c)
<1> DEFINE x == FromEntry(items[call[c].key], "cached")
<1>1. clients' = [clients EXCEPT ![c] = [@ EXCEPT !.status = "answered", !.reply = x]]
  BY Answering DEF LookupHit, Return
<1>2. rounds' = rounds
  BY SameRounds DEF LookupHit
<1>3. /\ clients[c].status = "asking" /\ clients[c].key = call[c].key
      /\ clients[c].since = call[c].at
  BY Statuses DEF LookupHit, clients, ClientOf
<1>4. x = [tag |-> "cached", data |-> items[call[c].key].value,
           fetchedAt |-> items[call[c].key].fetchedAt]
  BY DEF FromEntry
<1>5. /\ items[clients[c].key] # None /\ clients[c].since < items[clients[c].key].expiresAt
      /\ UNCHANGED <<now, items, chan, cancelled>>
  BY <1>3 DEF LookupHit, Fresh
<1> HIDE DEF x
<1> QED BY <1>1, <1>2, <1>3, <1>4, <1>5, Zenon
        DEF RT!Hit, RT!Answered, RT!FromEntry, clients, rounds

(* A call that finds no unexpired entry still asks. *)
LEMMA LookupMissStutters ==
  ASSUME IInv, NEW c \in Callers, LookupMiss(c)
  PROVE  UNCHANGED RT!vars
<1> DEFINE r == [call[c] EXCEPT !.pc = "dochan"]
<1>1. /\ call' = [call EXCEPT ![c] = r]
      /\ r.pc = "dochan" /\ r.key = call[c].key /\ r.at = call[c].at /\ r.reply = call[c].reply
  BY DEF LookupMiss, IInv, TypeOK, Call
<1>2. Status(r.pc) = Status(call[c].pc)
  BY <1>1, Statuses DEF LookupMiss
<1> HIDE DEF r
<1>3. clients' = clients
  BY <1>1, <1>2, StayingPut
<1>4. rounds' = rounds
  BY SameRounds DEF LookupMiss
<1> QED BY <1>3, <1>4 DEF RT!vars, LookupMiss, clients, rounds

(* A call that joins a flight, or registers its own, enters the round. *)
LEMMA Entering ==
  ASSUME IInv, NEW c \in Callers,
         call[c].pc = "dochan",
         call' = [call EXCEPT ![c].pc = "select"],
         rounds' = [rounds EXCEPT ![call[c].key].members = @ \cup {c}],
         UNCHANGED <<now, items, chan, cancelled>>
  PROVE  RT!Enter(c)
<1> DEFINE r == [call[c] EXCEPT !.pc = "select"]
<1>1. /\ call' = [call EXCEPT ![c] = r]
      /\ r.pc = "select" /\ r.key = call[c].key /\ r.at = call[c].at /\ r.reply = call[c].reply
  BY DEF IInv, TypeOK, Call
<1> HIDE DEF r
<1>2. clients' = [clients EXCEPT ![c].status = "waiting"]
  <2>1. clients' = [clients EXCEPT ![c].status = Status(r.pc)]
    BY <1>1, Moving
  <2> QED BY <2>1, <1>1, Statuses, Zenon
<1>3. clients[c].status = "asking" /\ clients[c].key = call[c].key
  BY Statuses DEF clients, ClientOf
<1>4. rounds' = [rounds EXCEPT ![clients[c].key].members = @ \cup {c}]
  BY <1>3, Zenon
<1> QED BY <1>2, <1>3, <1>4, Zenon DEF RT!Enter, clients, rounds

(* Joining the registered flight adds the call to its round. *)
LEMMA JoinFlightEnters ==
  ASSUME IInv, NEW c \in Callers, JoinFlight(c)
  PROVE  RT!Enter(c)
<1>k. PICK k \in Keys : k = call[c].key
  BY DEF JoinFlight, IInv, CallData
<1>l. PICK l \in Callers :
        /\ group[k] = l /\ l # None
        /\ flight' = [flight EXCEPT ![l].waiters = @ \cup {c}] /\ group' = group
  BY <1>k DEF JoinFlight, IInv, TypeOK
<1>1. rounds[k] = [members |-> flight[l].waiters, outcome |-> flight[l].out]
  BY <1>l DEF rounds, RoundOf
<1>2. [rounds[k] EXCEPT !.members = @ \cup {c}]
        = [members |-> flight[l].waiters \cup {c}, outcome |-> flight[l].out]
  BY <1>1
<1>3. RoundOf(k)' = [members |-> flight[l].waiters \cup {c}, outcome |-> flight[l].out]
  <2>1. flight'[l].waiters = flight[l].waiters \cup {c} /\ flight'[l].out = flight[l].out
    BY <1>l DEF IInv, TypeOK, Flight
  <2> QED BY <1>l, <2>1 DEF RoundOf
<1>4. ASSUME NEW j \in Keys, j # k PROVE RoundOf(j)' = RoundOf(j)
  <2>1. group[j] # None => group[j] # l /\ group[j] \in Callers
    BY <1>4, <1>l DEF IInv, TypeOK, Registered
  <2> QED BY <2>1, <1>l DEF RoundOf, IInv, TypeOK
<1>5. rounds' = [rounds EXCEPT ![k] = [members |-> flight[l].waiters \cup {c}, outcome |-> flight[l].out]]
  BY <1>l, <1>3, <1>4, OneRound, Zenon
<1>6. rounds' = [rounds EXCEPT ![k].members = @ \cup {c}]
  BY <1>5, <1>2, Zenon
<1> QED BY <1>k, <1>6, Entering, Zenon DEF JoinFlight
(* Registering a flight opens the round with the call as its only member. *)
LEMMA StartFlightEnters ==
  ASSUME IInv, SInv, NEW c \in Callers, StartFlight(c)
  PROVE  RT!Enter(c)
<1>k. PICK k \in Keys : k = call[c].key
  BY DEF StartFlight, IInv, CallData
<1>l. /\ group[k] = None /\ group' = [group EXCEPT ![k] = c]
      /\ flight[c].stage = "unborn" /\ flight[c].waiters = {} /\ flight[c].out = None
      /\ flight' = [flight EXCEPT ![c] = [@ EXCEPT !.stage = "fetching", !.waiters = {c}]]
  BY <1>k DEF StartFlight, IInv, NotYetLeading, SInv, Rounds
<1>1. rounds[k] = [members |-> {}, outcome |-> None]
  BY <1>l DEF rounds, RoundOf
<1>2. [rounds[k] EXCEPT !.members = @ \cup {c}] = [members |-> {c}, outcome |-> None]
  BY <1>1
<1>3. RoundOf(k)' = [members |-> {c}, outcome |-> None]
  <2>1. flight'[c].waiters = {c} /\ flight'[c].out = None /\ group'[k] = c /\ c # None
    BY <1>l, NoneAssumption DEF IInv, TypeOK, Flight
  <2> QED BY <2>1 DEF RoundOf
<1>4. ASSUME NEW j \in Keys, j # k PROVE RoundOf(j)' = RoundOf(j)
  <2>1. group'[j] = group[j] /\ (group[j] # None => group[j] # c /\ group[j] \in Callers)
    BY <1>4, <1>l DEF IInv, TypeOK, Registered, Active
  <2> QED BY <2>1, <1>l DEF RoundOf, IInv, TypeOK
<1>5. rounds' = [rounds EXCEPT ![k] = [members |-> {c}, outcome |-> None]]
  BY <1>3, <1>4, OneRound, Zenon
<1>6. rounds' = [rounds EXCEPT ![k].members = @ \cup {c}]
  BY <1>5, <1>2, Zenon
<1> QED BY <1>k, <1>6, Entering, Zenon DEF StartFlight

(* What the fetcher returns is not yet known to anyone. *)
LEMMA FetcherEndsStutters ==
  ASSUME IInv, NEW l \in Callers, NEW stage, NEW x, FetcherEnds(l, stage, x)
  PROVE  UNCHANGED RT!vars
<1> DEFINE f == [flight[l] EXCEPT !.stage = stage, !.got = x, !.ts = now]
<1>1. /\ flight' = [flight EXCEPT ![l] = f] /\ group' = group
      /\ f.waiters = flight[l].waiters /\ f.out = flight[l].out
  BY DEF FetcherEnds, IInv, TypeOK, Flight
<1> HIDE DEF f
<1>2. rounds' = rounds
  BY <1>1, SilentRound
<1>3. clients' = clients
  BY SameClients DEF FetcherEnds
<1> QED BY <1>2, <1>3 DEF RT!vars, FetcherEnds, clients, rounds

(* A goroutine that settles decides the round of its key, which was open   *)
(* and undecided.                                                          *)
LEMMA Deciding ==
  ASSUME IInv, SInv, NEW l \in Callers, NEW k \in Keys, NEW r,
         flight[l].stage \in {"fetched", "failed"}, k = call[l].key,
         Settle(l, r), UNCHANGED <<group, call>>
  PROVE  /\ RT!Undecided(k) /\ RT!Decide(k, r)
         /\ RT!During(k, flight[l].ts) /\ flight[l].ts \in 0..MaxTime
         /\ l \in rounds[k].members
         /\ clients' = clients
<1>l. /\ group[k] = l /\ l # None /\ group' = group
      /\ flight' = [flight EXCEPT ![l] = [@ EXCEPT !.stage = "settled", !.out = r]]
      /\ l \in flight[l].waiters /\ flight[l].out = None
  BY NoneAssumption DEF IInv, Registered, SInv, Rounds, Active, Settle
<1>1. rounds[k] = [members |-> flight[l].waiters, outcome |-> None]
  BY <1>l DEF rounds, RoundOf
<1>2. [rounds[k] EXCEPT !.outcome = r] = [members |-> flight[l].waiters, outcome |-> r]
  BY <1>1
<1>3. RoundOf(k)' = [members |-> flight[l].waiters, outcome |-> r]
  <2>1. flight'[l].waiters = flight[l].waiters /\ flight'[l].out = r
    BY <1>l DEF IInv, TypeOK, Flight
  <2> QED BY <1>l, <2>1 DEF RoundOf
<1>4. ASSUME NEW j \in Keys, j # k PROVE RoundOf(j)' = RoundOf(j)
  <2>1. group[j] # None => group[j] # l /\ group[j] \in Callers
    BY <1>4, <1>l DEF IInv, TypeOK, Registered
  <2> QED BY <2>1, <1>l DEF RoundOf, IInv, TypeOK
<1>5. rounds' = [rounds EXCEPT ![k] = [members |-> flight[l].waiters, outcome |-> r]]
  BY <1>3, <1>4, OneRound, Zenon
<1>6. rounds' = [rounds EXCEPT ![k].outcome = r]
  BY <1>5, <1>2, Zenon
<1>7. RT!Decide(k, r)
  BY <1>6 DEF RT!Decide, rounds
<1>8. RT!Undecided(k)
  BY <1>1, <1>l DEF RT!Undecided, rounds
<1>9. /\ flight[l].ts \in Nat /\ now \in Nat /\ flight[l].ts <= now /\ now <= MaxTime
      /\ call[l].at \in Nat /\ call[l].at <= flight[l].ts
  BY DEF IInv, TypeOK, SInv, Ended, Clock, Flight, Call
<1>10. clients[l].since = call[l].at /\ l \in rounds[k].members
  BY <1>1, <1>l DEF clients, ClientOf
<1>11. RT!During(k, flight[l].ts)
  BY <1>9, <1>10 DEF RT!During, rounds, clients
<1>12. clients' = clients
  BY SameClients
<1>13. flight[l].ts \in 0..MaxTime
  BY <1>9, TimeAssumption
<1> QED BY <1>7, <1>8, <1>10, <1>11, <1>12, <1>13

(* A stored value lands. *)
LEMMA StoreLands ==
  ASSUME IInv, SInv, NEW l \in Callers, Store(l)
  PROVE  \E k \in Keys, t \in 0..MaxTime, v \in Values : RT!Land(k, v, t)
<1>k. PICK k \in Keys : k = call[l].key
  BY DEF Store, IInv, CallData, NotYetLeading
<1>t. PICK t \in 0..MaxTime : t = flight[l].ts
  BY <1>k, Deciding DEF Store
<1>v. PICK v \in Values : v = flight[l].got
  BY DEF Store, IInv, FlightData
<1> DEFINE e == [value |-> v, fetchedAt |-> t, expiresAt |-> t + TTL]
<1>1. /\ items' = [items EXCEPT ![k] = e] /\ Settle(l, FromEntry(e, "live"))
      /\ flight[l].stage = "fetched" /\ UNCHANGED <<now, group, call, chan, cancelled>>
  BY <1>k, <1>t, <1>v DEF Store
<1>2. /\ RT!Undecided(k) /\ RT!During(k, t) /\ clients' = clients
      /\ RT!Decide(k, FromEntry(e, "live"))
  BY <1>k, <1>t, <1>1, Deciding
<1>3. RT!FromEntry(e, "live") = FromEntry(e, "live")
  BY DEF RT!FromEntry, FromEntry
<1> HIDE DEF e
<1>4. RT!Land(k, v, t)
  BY <1>1, <1>2, <1>3, Zenon DEF RT!Land, e, clients
<1> QED BY <1>4
(* An expired entry within its window is a fallback. *)
LEMMA ServeStaleFallsBack ==
  ASSUME IInv, SInv, NEW l \in Callers, ServeStale(l)
  PROVE  \E k \in Keys, t \in 0..MaxTime : RT!Fallback(k, t)
<1>k. PICK k \in Keys : k = call[l].key
  BY DEF ServeStale, IInv, CallData, NotYetLeading
<1>t. PICK t \in 0..MaxTime : t = flight[l].ts
  BY <1>k, Deciding DEF ServeStale
<1>1. /\ Settle(l, FromEntry(items[k], "stale_fallback")) /\ InStaleWindow(k, t)
      /\ flight[l].stage = "failed" /\ UNCHANGED <<now, items, group, call, chan, cancelled>>
  BY <1>k, <1>t DEF ServeStale
<1>2. /\ RT!Undecided(k) /\ RT!During(k, t) /\ clients' = clients
      /\ RT!Decide(k, FromEntry(items[k], "stale_fallback"))
  BY <1>k, <1>t, <1>1, Deciding
<1>3. RT!FromEntry(items[k], "stale_fallback") = FromEntry(items[k], "stale_fallback")
  BY DEF RT!FromEntry, FromEntry
<1>4. RT!Usable(k, t)
  BY <1>1 DEF RT!Usable, InStaleWindow
<1>5. RT!Fallback(k, t)
  BY <1>1, <1>2, <1>3, <1>4, Zenon DEF RT!Fallback, clients
<1> QED BY <1>5

(* An error with nothing to fall back on fails the round, and if it is an  *)
(* abort a member was cancelled: the leader.                               *)
LEMMA ServeErrorFails ==
  ASSUME IInv, SInv, NEW l \in Callers, ServeError(l)
  PROVE  \E k \in Keys, t \in 0..MaxTime, e \in Errors \cup {AbortErr} : RT!Fail(k, e, t)
<1>k. PICK k \in Keys : k = call[l].key
  BY DEF ServeError, IInv, CallData, NotYetLeading
<1>t. PICK t \in 0..MaxTime : t = flight[l].ts
  BY <1>k, Deciding DEF ServeError
<1>e. PICK e \in Errors \cup {AbortErr} : e = flight[l].got
  BY DEF ServeError, SInv, Ended
<1>1. /\ Settle(l, Failure(e)) /\ ~InStaleWindow(k, t)
      /\ flight[l].stage = "failed" /\ UNCHANGED <<now, items, group, call, chan, cancelled>>
  BY <1>k, <1>t, <1>e DEF ServeError
<1>2. /\ RT!Undecided(k) /\ RT!During(k, t) /\ clients' = clients
      /\ RT!Decide(k, Failure(e)) /\ l \in rounds[k].members
  BY <1>k, <1>t, <1>1, Deciding
<1>3. RT!Failure(e) = Failure(e)
  BY DEF RT!Failure, Failure
<1>4. ~RT!Usable(k, t)
  BY <1>1 DEF RT!Usable, InStaleWindow
<1>5. e \in Errors \/ (e = AbortErr /\ rounds[k].members \cap cancelled # {})
  BY <1>e, <1>1, <1>2 DEF SInv, Ended
<1>6. RT!Fail(k, e, t)
  BY <1>1, <1>2, <1>3, <1>4, <1>5, Zenon DEF RT!Fail, clients, rounds
<1> QED BY <1>6

(* Delivering to the channels closes the round. *)
LEMMA DeliverCloses ==
  ASSUME IInv, SInv, NEW l \in Callers, Deliver(l)
  PROVE  \E k \in Keys : RT!Close(k)
<1>k. PICK k \in Keys : k = call[l].key
  BY DEF Deliver, IInv, CallData, NotYetLeading
<1>l. /\ group[k] = l /\ l # None /\ l \in flight[l].waiters /\ flight[l].out # None
      /\ group' = [group EXCEPT ![k] = None]
      /\ flight' = [flight EXCEPT ![l] = [Unborn EXCEPT !.stage = "over"]]
      /\ chan' = [c \in Callers |-> IF c \in flight[l].waiters THEN flight[l].out ELSE chan[c]]
      /\ UNCHANGED <<now, items, call, cancelled>>
  BY <1>k, NoneAssumption
  DEF Deliver, IInv, Registered, FlightData, ReplyOK, SInv, Rounds, Active
<1>1. rounds[k] = [members |-> flight[l].waiters, outcome |-> flight[l].out]
  BY <1>l DEF rounds, RoundOf
<1>2. RoundOf(k)' = [members |-> {}, outcome |-> None]
  BY <1>l DEF RoundOf, IInv, TypeOK
<1>3. ASSUME NEW j \in Keys, j # k PROVE RoundOf(j)' = RoundOf(j)
  <2>1. group'[j] = group[j] /\ (group[j] # None => group[j] # l /\ group[j] \in Callers)
    BY <1>3, <1>k, <1>l DEF IInv, TypeOK, Registered
  <2> QED BY <2>1, <1>l DEF RoundOf, IInv, TypeOK
<1>4. rounds' = [rounds EXCEPT ![k] = [members |-> {}, outcome |-> None]]
  BY <1>2, <1>3, OneRound, Zenon
<1>5. RT!NoRound = [members |-> {}, outcome |-> None]
  BY DEF RT!NoRound
<1>6. /\ rounds[k].members # {} /\ rounds[k].outcome # None
      /\ chan' = [c \in Callers |-> IF c \in rounds[k].members THEN rounds[k].outcome ELSE chan[c]]
  BY <1>l, <1>1
<1>7. clients' = clients
  BY <1>l, SameClients
<1>8. RT!Close(k)
  BY <1>l, <1>4, <1>5, <1>6, <1>7, Zenon DEF RT!Close, rounds, clients
<1> QED BY <1>8

(* A call that takes its answer from its channel accepts. *)
LEMMA ReceiveAccepts ==
  ASSUME IInv, NEW c \in Callers, Receive(c)
  PROVE  RT!Accept(c)
<1>1. clients' = [clients EXCEPT ![c] = [@ EXCEPT !.status = "answered", !.reply = chan[c]]]
  BY Answering DEF Receive, Return
<1>2. rounds' = rounds
  BY SameRounds DEF Receive
<1>3. clients[c].status = "waiting"
  BY Statuses DEF Receive, clients, ClientOf
<1> QED BY <1>1, <1>2, <1>3, Zenon DEF RT!Accept, RT!Answered, Receive, clients, rounds

(* A cancelled call gives up. *)
LEMMA ReturnCtxErrGivesUp ==
  ASSUME IInv, NEW c \in Callers, ReturnCtxErr(c)
  PROVE  RT!GiveUp(c)
<1>1. clients' = [clients EXCEPT ![c] = [@ EXCEPT !.status = "answered", !.reply = Failure(CtxErr)]]
  BY Answering DEF ReturnCtxErr, Return
<1>2. rounds' = rounds
  BY SameRounds DEF ReturnCtxErr
<1>3. clients[c].status = "waiting"
  BY Statuses DEF ReturnCtxErr, clients, ClientOf
<1>4. RT!Failure(CtxErr) = Failure(CtxErr)
  BY DEF RT!Failure, Failure
<1> QED BY <1>1, <1>2, <1>3, <1>4, Zenon
        DEF RT!GiveUp, RT!Answered, ReturnCtxErr, clients, rounds

(* A withdrawn call is a cancelled client. *)
LEMMA CancelCancels ==
  ASSUME NEW c \in Callers, Cancel(c)
  PROVE  RT!Cancel(c)
<1>1. clients' = clients /\ rounds' = rounds
  BY SameClients, SameRounds DEF Cancel
<1>2. clients[c].status \in {"asking", "waiting"}
  BY Statuses DEF Cancel, clients, ClientOf
<1> QED BY <1>1, <1>2 DEF RT!Cancel, Cancel, clients, rounds

(* The clock that SetWithTTL reads is not seen before it writes. *)
LEMMA SetStampStutters ==
  ASSUME IInv, NEW c \in Callers, SetStamp(c)
  PROVE  UNCHANGED RT!vars
<1> DEFINE r == [call[c] EXCEPT !.pc = "stamped", !.stamp = now]
<1>1. /\ call' = [call EXCEPT ![c] = r]
      /\ r.pc = "stamped" /\ r.key = call[c].key /\ r.at = call[c].at /\ r.reply = call[c].reply
  BY DEF SetStamp, IInv, TypeOK, Call
<1>2. Status(r.pc) = Status(call[c].pc)
  BY <1>1, Statuses DEF SetStamp
<1> HIDE DEF r
<1>3. clients' = clients
  BY <1>1, <1>2, StayingPut
<1>4. rounds' = rounds
  BY SameRounds DEF SetStamp
<1> QED BY <1>3, <1>4 DEF RT!vars, SetStamp, clients, rounds

(* SetWithTTL extends the entry, dated when it read the clock. *)
LEMMA SetStoreExtends ==
  ASSUME IInv, SInv, NEW c \in Callers, SetStore(c)
  PROVE  \E t \in 0..MaxTime : RT!Extend(c, t)
<1>0. /\ call[c].stamp \in Nat /\ now \in Nat /\ now <= MaxTime /\ c \in Setters
      /\ call[c].reply.fetchedAt <= call[c].stamp /\ call[c].stamp <= now
      /\ call[c].pc = "stamped" /\ call[c].reply.tag = "live"
  BY DEF SetStore, IInv, TypeOK, Call, CallData, SInv, Clock, Stamps
<1>t. PICK t \in 0..MaxTime : t = call[c].stamp
  BY <1>0, TimeAssumption
<1> DEFINE r == [call[c] EXCEPT !.pc = "done"]
<1>1. /\ call' = [call EXCEPT ![c] = r]
      /\ r.pc = "done" /\ r.key = call[c].key /\ r.at = call[c].at /\ r.reply = call[c].reply
  BY DEF SetStore, IInv, TypeOK, Call
<1> HIDE DEF r
<1>2. clients' = [clients EXCEPT ![c].status = "written"]
  <2>1. clients' = [clients EXCEPT ![c].status = Status(r.pc)]
    BY <1>1, Moving
  <2> QED BY <2>1, <1>1, Statuses, Zenon
<1>3. rounds' = rounds
  BY SameRounds DEF SetStore
<1>4. /\ clients[c].status = "answered" /\ clients[c].key = call[c].key
      /\ clients[c].reply = call[c].reply
  BY <1>0, Statuses DEF clients, ClientOf
<1>5. /\ items' = [items EXCEPT ![clients[c].key] =
           [value |-> clients[c].reply.data, fetchedAt |-> t, expiresAt |-> t + LongTTL]]
      /\ UNCHANGED <<now, chan, cancelled>>
  BY <1>4, <1>t DEF SetStore
<1>6. clients[c].reply.tag = "live" /\ clients[c].reply.fetchedAt <= t /\ t <= now
  BY <1>0, <1>t, <1>4
<1>7. RT!Extend(c, t)
  BY <1>0, <1>2, <1>3, <1>4, <1>5, <1>6, Zenon DEF RT!Extend, clients, rounds
<1> QED BY <1>7

-----------------------------------------------------------------------------
(* The contract's initial states include the cache's. *)
LEMMA InitRefines == Init => RT!Init
<1> SUFFICES ASSUME Init PROVE RT!Init
  OBVIOUS
<1>1. \A k \in Keys : RoundOf(k) = [members |-> {}, outcome |-> None]
  BY DEF Init, RoundOf
<1>2. \A c \in Callers : ClientOf(c) = [status |-> "idle", key |-> None, since |-> 0, reply |-> None]
  BY Statuses DEF Init, ClientOf
<1> QED BY <1>1, <1>2 DEF Init, RT!Init, RT!NoRound

(* Every step of the cache is a step of the contract or a stutter. *)
LEMMA StepRefines ==
  ASSUME IInv, SInv, [Next]_vars
  PROVE  [RT!Next]_(RT!vars)
<1>1. ASSUME NEW c \in Callers, NEW k \in Keys, Begin(c, k) PROVE RT!Next
  BY <1>1, BeginAsks DEF RT!Next
<1>2. ASSUME NEW c \in Callers, CallerStep(c) PROVE RT!Next \/ UNCHANGED RT!vars
  <2>1. RT!ClientStep(c) \/ UNCHANGED RT!vars
    BY <1>2, LookupHitHits, LookupMissStutters, JoinFlightEnters, StartFlightEnters,
       ReceiveAccepts, ReturnCtxErrGivesUp
    DEF CallerStep, RT!ClientStep
  <2> QED BY <2>1 DEF RT!Next
<1>3. ASSUME NEW l \in Callers, GoroutineStep(l) PROVE RT!Next \/ UNCHANGED RT!vars
  <2>1. FetcherStep(l) => UNCHANGED RT!vars
    BY FetcherEndsStutters DEF FetcherStep, FetcherReturns, FetcherFails, FetcherAborts
  <2>2. Store(l) \/ ServeStale(l) \/ ServeError(l) \/ Deliver(l) => \E k \in Keys : RT!RoundStep(k)
    BY StoreLands, ServeStaleFallsBack, ServeErrorFails, DeliverCloses DEF RT!RoundStep
  <2> QED BY <1>3, <2>1, <2>2 DEF GoroutineStep, RT!Next
<1>4. ASSUME NEW c \in Callers, Cancel(c) \/ SetStamp(c) \/ SetStore(c)
      PROVE  RT!Next \/ UNCHANGED RT!vars
  BY <1>4, CancelCancels, SetStampStutters, SetStoreExtends DEF RT!Next
<1>5. ASSUME NEW k \in Keys, Invalidate(k) PROVE RT!Next
  <2>1. clients' = clients /\ rounds' = rounds
    BY <1>5, SameClients, SameRounds DEF Invalidate
  <2>2. RT!Drop(k)
    BY <1>5, <2>1 DEF RT!Drop, Invalidate, clients, rounds
  <2> QED BY <2>2 DEF RT!Next
<1>6. ASSUME Tick PROVE RT!Next
  <2>1. clients' = clients /\ rounds' = rounds
    BY <1>6, SameClients, SameRounds DEF Tick
  <2>2. RT!Tick
    BY <1>6, <2>1 DEF RT!Tick, Tick, clients, rounds
  <2> QED BY <2>2 DEF RT!Next
<1>7. CASE UNCHANGED vars
  <2>1. clients' = clients /\ rounds' = rounds
    BY <1>7, SameClients, SameRounds DEF vars
  <2> QED BY <1>7, <2>1 DEF RT!vars, vars, clients, rounds
<1> QED BY <1>1, <1>2, <1>3, <1>4, <1>5, <1>6, <1>7 DEF Next

(* SInv is preserved by every step. *)
LEMMA SNext ==
  ASSUME IInv, SInv, [Next]_vars
  PROVE  SInv'
<1>1. ASSUME NEW c \in Callers, NEW k \in Keys, Begin(c, k) PROVE SInv'
  BY <1>1, SBegin
<1>2. ASSUME NEW c \in Callers, CallerStep(c) PROVE SInv'
  BY <1>2, SLookupHit, SLookupMiss, SJoinFlight, SStartFlight, SReceive, SReturnCtxErr
  DEF CallerStep
<1>3. ASSUME NEW l \in Callers, FetcherStep(l) PROVE SInv'
  BY <1>3, SFetcherEnds DEF FetcherStep, FetcherReturns, FetcherFails, FetcherAborts
<1>4. ASSUME NEW l \in Callers, Store(l) \/ ServeStale(l) \/ ServeError(l) \/ Deliver(l)
      PROVE  SInv'
  BY <1>4, SStore, SServeStale, SServeError, SDeliver
<1>5. ASSUME NEW c \in Callers, SetStamp(c) \/ SetStore(c) PROVE SInv'
  BY <1>5, SSetStamp, SSetStore
<1> QED BY <1>1, <1>2, <1>3, <1>4, <1>5, SOther DEF Next, GoroutineStep

(* The moments, members and dates of the contract hold in every state. *)
THEOREM Simulable == Spec => []SInv
<1>1. Init => SInv
  BY SInit
<1>2. IInv /\ SInv /\ [Next]_vars => SInv'
  BY SNext
<1> QED BY <1>1, <1>2, Invariance, PTL DEF Spec

(* The cache, with its goroutines, leaders, singleflight and separate      *)
(* readings of the clock, implements the read-through contract.            *)
THEOREM Implements == Spec => ImplementsReadThrough
<1>1. Init => RT!Init
  BY InitRefines
<1>2. IInv /\ SInv /\ [Next]_vars => [RT!Next]_(RT!vars)
  BY StepRefines
<1> QED BY <1>1, <1>2, Invariance, Simulable, PTL DEF Spec, ImplementsReadThrough, RT!Spec

-----------------------------------------------------------------------------
(* What is proved of the contract, read of the cache. *)
CP == INSTANCE ReadThroughProofs WITH
        round <- [k \in Keys |-> RoundOf(k)],
        client <- [c \in Callers |-> ClientOf(c)],
        offer <- chan

(* The assumptions of the cache are those the contract needs. *)
LEMMA ContractSound == CP!Sound
<1>1. None \notin CP!Entries
  BY NoneAssumption DEF CP!Entries, Entry
<1>2. ASSUME NEW r \in CP!Replies PROVE r \in Reply
  <2>1. CASE r \in CP!Responses
    BY <2>1 DEF CP!Responses, Reply
  <2>2. CASE r \in CP!Failed
    BY <2>2 DEF CP!Failed, CP!Faults, Reply, Failures
  <2> QED BY <2>1, <2>2 DEF CP!Replies
<1> QED BY <1>1, <1>2, TimeAssumption, NoneAssumption DEF CP!Sound

(* The contract that is implemented is the one that was proved about. *)
LEMMA SameContract ==
  /\ RT!Init => CP!Init
  /\ RT!Next => CP!Next
  /\ UNCHANGED RT!vars => UNCHANGED CP!vars
<1>1. RT!Next => CP!Next
  BY DEF RT!Next, RT!Ask, RT!ClientStep, RT!Hit, RT!Enter, RT!Accept, RT!GiveUp, RT!Answered,
         RT!FromEntry, RT!Failure, RT!Cancel, RT!Extend, RT!RoundStep, RT!Land, RT!Fallback,
         RT!Fail, RT!Close, RT!Undecided, RT!Decide, RT!During, RT!Usable, RT!NoRound, RT!Drop,
         RT!Tick,
         CP!Next, CP!Ask, CP!ClientStep, CP!Hit, CP!Enter, CP!Accept, CP!GiveUp, CP!Answered,
         CP!FromEntry, CP!Failure, CP!Cancel, CP!Extend, CP!RoundStep, CP!Land, CP!Fallback,
         CP!Fail, CP!Close, CP!Undecided, CP!Decide, CP!During, CP!Usable, CP!NoRound, CP!Drop,
         CP!Tick
<1> QED BY <1>1 DEF RT!Init, CP!Init, RT!NoRound, CP!NoRound, RT!vars, CP!vars

(* The cache keeps what the contract keeps: those in a round have asked    *)
(* for its key, what they are offered is a value or an error of the        *)
(* upstream, and nobody gets the error of a context but his own.           *)
THEOREM KeepsContract == Spec => []CP!RInv
<1>1. RT!Init => CP!RInv
  BY SameContract, ContractSound, CP!RInit
<1>2. CP!RInv /\ [RT!Next]_(RT!vars) => CP!RInv'
  BY SameContract, ContractSound, CP!RNext
<1> QED BY <1>1, <1>2, Implements, PTL DEF ImplementsReadThrough, RT!Spec
=============================================================================
