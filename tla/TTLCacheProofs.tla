-------------------------- MODULE TTLCacheProofs --------------------------
(***************************************************************************)
(* Proofs about TTLCache, for every number of callers and keys and for any *)
(* durations.                                                              *)
(***************************************************************************)
EXTENDS TTLCache, TLAPS

(* A success carries a value of the fetcher. *)
ReplyOK(r) == r \in Reply /\ (r.tag # "error" => r.data \in Values)

(* What a goroutine holds at each of its stages. *)
FlightData ==
  \A l \in Callers :
    /\ flight[l].stage = "fetched" => flight[l].got \in Values
    /\ flight[l].stage = "failed" => flight[l].got \in Failures
    /\ flight[l].stage = "settled" => ReplyOK(flight[l].out)

(* What a call holds at each of its points. *)
CallData ==
  \A c \in Callers :
    /\ call[c].pc # "idle" => call[c].key \in Keys
    /\ call[c].pc \in {"returned", "stamped"} => ReplyOK(call[c].reply)
    /\ call[c].pc = "stamped" => call[c].reply.tag = "live"
    /\ chan[c] # None => ReplyOK(chan[c])

(* A call that has not come to DoChan leads nothing: starting a goroutine  *)
(* under its name replaces none.                                           *)
NotYetLeading ==
  \A c \in Callers :
    call[c].pc \in {"idle", "lookup", "dochan"} => flight[c].stage = "unborn"

(* singleflight's map names the running goroutines and only those. *)
Registered ==
  /\ \A l \in Callers : Active(l) => group[call[l].key] = l
  /\ \A k \in Keys : group[k] # None => Active(group[k]) /\ call[group[k]].key = k

IInv ==
  /\ TypeOK
  /\ FlightData
  /\ CallData
  /\ NotYetLeading
  /\ Registered
  /\ NoOrphanWaiter

-----------------------------------------------------------------------------
(* The initial states satisfy the inductive invariant. *)
LEMMA InitInv == Init => IInv
  BY TimeAssumption, NoneAssumption
  DEF Init, IInv, TypeOK, FlightData, CallData, NotYetLeading, Registered,
      NoOrphanWaiter, Active, Unborn, Flight, Stages, Call

(* Replacing the record of one call keeps the type of call. *)
LEMMA CallUpdate ==
  ASSUME call \in [Callers -> Call], NEW c \in Callers, NEW r \in Call,
         call' = [call EXCEPT ![c] = r]
  PROVE  call' \in [Callers -> Call]
  OBVIOUS

(* The same for one goroutine. *)
LEMMA FlightUpdate ==
  ASSUME flight \in [Callers -> Flight], NEW l \in Callers, NEW f \in Flight,
         flight' = [flight EXCEPT ![l] = f]
  PROVE  flight' \in [Callers -> Flight]
  OBVIOUS

-----------------------------------------------------------------------------
(* One lemma per action: it preserves the inductive invariant. *)

(* IInv is preserved when a call of Fetch reads the clock. *)
LEMMA BeginInv ==
  ASSUME IInv, NEW c \in Callers, NEW k \in Keys, Begin(c, k)
  PROVE  IInv'
<1> USE DEF IInv
<1>1. TypeOK'
  <2>1. call[c] \in Call /\ now \in Nat /\ high[k] \in Nat /\ k \in Keys
    BY NoneAssumption DEF TypeOK
  <2>2. [call[c] EXCEPT !.pc = "lookup", !.key = k, !.at = now, !.floor = high[k]] \in Call
    BY ONLY <2>1 DEF Call
  <2>3. call' \in [Callers -> Call]
    BY <2>2, CallUpdate DEF Begin, TypeOK
  <2> QED BY <2>3 DEF Begin, TypeOK, CallData
<1>2. FlightData'
  BY DEF Begin, TypeOK, FlightData, Flight
<1>3. CallData'
  BY DEF Begin, TypeOK, CallData, Call
<1>4. NotYetLeading'
  BY DEF Begin, TypeOK, NotYetLeading, Call, Flight
<1>5. Registered'
  BY
  DEF Begin, TypeOK, Registered, Active, CallData, Call, Flight,
      NotYetLeading, Stages
<1>6. NoOrphanWaiter'
  BY
  DEF Begin, TypeOK, NoOrphanWaiter, Registered, Active, CallData, Call,
      Flight
<1> QED BY <1>1, <1>2, <1>3, <1>4, <1>5, <1>6

(* IInv is preserved when a call is answered from an unexpired entry. *)
LEMMA LookupHitInv ==
  ASSUME IInv, NEW c \in Callers, LookupHit(c)
  PROVE  IInv'
<1> USE DEF IInv
<1>1. TypeOK'
  <2>1. call[c] \in Call /\ FromEntry(items[call[c].key], "cached") \in Reply
    BY NoneAssumption DEF TypeOK, CallData, LookupHit, Fresh, FromEntry, Entry, Reply
  <2>2. [call[c] EXCEPT !.pc = "returned", !.reply = FromEntry(items[call[c].key], "cached")] \in Call
    BY ONLY <2>1 DEF Call
  <2>3. call' \in [Callers -> Call]
    BY <2>2, CallUpdate DEF LookupHit, Return, Fresh, FromEntry, TypeOK
  <2>4. high' \in [Keys -> Nat]
    BY NoneAssumption DEF LookupHit, Return, Fresh, FromEntry, TypeOK, CallData, ReplyOK, Reply, Entry
  <2> QED BY <2>3, <2>4 DEF LookupHit, Return, Fresh, FromEntry, TypeOK
<1>2. FlightData'
  BY DEF LookupHit, Return, Fresh, FromEntry, TypeOK, FlightData, Flight
<1>3. CallData'
  BY NoneAssumption
  DEF LookupHit, Return, Fresh, FromEntry, TypeOK, CallData, Call, ReplyOK,
      Reply, Entry
<1>4. NotYetLeading'
  BY
  DEF LookupHit, Return, Fresh, FromEntry, TypeOK, NotYetLeading, Call,
      Flight
<1>5. Registered'
  BY
  DEF LookupHit, Return, Fresh, FromEntry, TypeOK, Registered, Active,
      CallData, Call, Flight
<1>6. NoOrphanWaiter'
  BY
  DEF LookupHit, Return, Fresh, FromEntry, TypeOK, NoOrphanWaiter,
      Registered, Active, CallData, Call, Flight
<1> QED BY <1>1, <1>2, <1>3, <1>4, <1>5, <1>6

(* IInv is preserved when a call finds no unexpired entry. *)
LEMMA LookupMissInv ==
  ASSUME IInv, NEW c \in Callers, LookupMiss(c)
  PROVE  IInv'
<1> USE DEF IInv
<1>1. TypeOK'
  <2>1. call[c] \in Call
    BY NoneAssumption DEF TypeOK
  <2>2. [call[c] EXCEPT !.pc = "dochan"] \in Call
    BY ONLY <2>1 DEF Call
  <2>3. call' \in [Callers -> Call]
    BY <2>2, CallUpdate DEF LookupMiss, TypeOK
  <2> QED BY <2>3 DEF LookupMiss, TypeOK
<1>2. FlightData'
  BY DEF LookupMiss, TypeOK, FlightData, Flight
<1>3. CallData'
  BY DEF LookupMiss, TypeOK, CallData, Call
<1>4. NotYetLeading'
  BY DEF LookupMiss, TypeOK, NotYetLeading, Call, Flight
<1>5. Registered'
  BY DEF LookupMiss, TypeOK, Registered, Active, CallData, Call, Flight
<1>6. NoOrphanWaiter'
  BY
  DEF LookupMiss, TypeOK, NoOrphanWaiter, Registered, Active, CallData, Call,
      Flight
<1> QED BY <1>1, <1>2, <1>3, <1>4, <1>5, <1>6

(* IInv is preserved when a call joins the flight registered for its key. *)
LEMMA JoinFlightInv ==
  ASSUME IInv, NEW c \in Callers, JoinFlight(c)
  PROVE  IInv'
<1> USE DEF IInv
<1> DEFINE l == group[call[c].key]
<1>l. /\ l \in Callers /\ Active(l) /\ call[l].key = call[c].key
      /\ call[c].key \in Keys /\ group[call[c].key] = l /\ l # None
  BY DEF JoinFlight, TypeOK, CallData, Registered
<1>f. /\ flight' = [flight EXCEPT ![l].waiters = @ \cup {c}]
      /\ call' = [call EXCEPT ![c].pc = "select"]
      /\ call[c].pc = "dochan" /\ UNCHANGED <<items, group, chan>>
  BY DEF JoinFlight
<1> HIDE DEF l
<1>1. TypeOK'
  <2>1. call[c] \in Call
    BY <1>l, <1>f, NoneAssumption DEF TypeOK
  <2>2. [call[c] EXCEPT !.pc = "select"] \in Call
    BY ONLY <2>1 DEF Call
  <2>3. call' \in [Callers -> Call]
    BY <1>l, <1>f, <2>2, CallUpdate DEF TypeOK
  <2>4. flight[l] \in Flight /\ c \in Callers
    BY <1>l, <1>f, NoneAssumption DEF TypeOK
  <2>5. [flight[l] EXCEPT !.waiters = @ \cup {c}] \in Flight
    BY ONLY <2>4 DEF Flight
  <2>6. flight' \in [Callers -> Flight]
    BY <1>l, <1>f, <2>5, FlightUpdate DEF TypeOK
  <2> QED BY <2>3, <2>6 DEF JoinFlight, TypeOK
<1>2. FlightData'
  BY <1>l, <1>f DEF TypeOK, FlightData, Flight
<1>3. CallData'
  BY <1>l, <1>f DEF TypeOK, CallData, Call
<1>4. NotYetLeading'
  BY <1>l, <1>f DEF TypeOK, NotYetLeading, Call, Flight
<1>5. Registered'
  BY <1>l, <1>f DEF TypeOK, Registered, Active, CallData, Call, Flight
<1>6. NoOrphanWaiter'
  BY <1>l, <1>f
  DEF TypeOK, NoOrphanWaiter, Registered, Active, CallData, Call, Flight
<1> QED BY <1>1, <1>2, <1>3, <1>4, <1>5, <1>6

(* IInv is preserved when a call registers a flight and starts its goroutine. *)
LEMMA StartFlightInv ==
  ASSUME IInv, NEW c \in Callers, StartFlight(c)
  PROVE  IInv'
<1> USE DEF IInv
<1>1. TypeOK'
  <2>1. call[c] \in Call
    BY NoneAssumption DEF TypeOK
  <2>2. [call[c] EXCEPT !.pc = "select"] \in Call
    BY ONLY <2>1 DEF Call
  <2>3. call' \in [Callers -> Call]
    BY <2>2, CallUpdate DEF StartFlight, TypeOK
  <2>4. flight[c] \in Flight /\ c \in Callers
    BY NoneAssumption DEF TypeOK
  <2>5. [flight[c] EXCEPT !.stage = "fetching", !.waiters = {c}] \in Flight
    BY ONLY <2>4 DEF Flight, Stages
  <2>6. flight' \in [Callers -> Flight]
    BY <2>5, FlightUpdate DEF StartFlight, TypeOK
  <2> QED BY <2>3, <2>6 DEF StartFlight, TypeOK
<1>2. FlightData'
  BY DEF StartFlight, TypeOK, FlightData, Flight
<1>3. CallData'
  BY DEF StartFlight, TypeOK, CallData, Call
<1>4. NotYetLeading'
  BY DEF StartFlight, TypeOK, NotYetLeading, Call, Flight
<1>5. Registered'
  BY NoneAssumption
  DEF StartFlight, TypeOK, Registered, Active, CallData, Call, Flight,
      NotYetLeading
<1>6. NoOrphanWaiter'
  BY NoneAssumption
  DEF StartFlight, TypeOK, NoOrphanWaiter, Registered, Active, CallData,
      Call, Flight, NotYetLeading
<1> QED BY <1>1, <1>2, <1>3, <1>4, <1>5, <1>6

(* IInv is preserved when the fetcher returns a value or an error. *)
LEMMA FetcherEndsInv ==
  ASSUME IInv, NEW l \in Callers, NEW stage \in {"fetched", "failed"}, NEW x,
         stage = "fetched" => x \in Values, stage = "failed" => x \in Failures,
         FetcherEnds(l, stage, x)
  PROVE  IInv'
<1> USE DEF IInv
<1>1. TypeOK'
  <2>1. flight[l] \in Flight /\ now \in Nat /\ stage \in {"fetched", "failed"}
         /\ x \in Values \cup Failures
    BY NoneAssumption DEF TypeOK
  <2>2. [flight[l] EXCEPT !.stage = stage, !.got = x, !.ts = now] \in Flight
    BY ONLY <2>1 DEF Flight, Stages
  <2>3. flight' \in [Callers -> Flight]
    BY <2>2, FlightUpdate DEF FetcherEnds, TypeOK
  <2> QED BY <2>3 DEF FetcherEnds, TypeOK
<1>2. FlightData'
  BY DEF FetcherEnds, TypeOK, FlightData, Flight
<1>3. CallData'
  BY DEF FetcherEnds, TypeOK, CallData, Call
<1>4. NotYetLeading'
  BY DEF FetcherEnds, TypeOK, NotYetLeading, Call, Flight
<1>5. Registered'
  BY DEF FetcherEnds, TypeOK, Registered, Active, CallData, Call, Flight
<1>6. NoOrphanWaiter'
  BY
  DEF FetcherEnds, TypeOK, NoOrphanWaiter, Registered, Active, CallData,
      Call, Flight
<1> QED BY <1>1, <1>2, <1>3, <1>4, <1>5, <1>6

(* IInv is preserved when a goroutine stores what it fetched. *)
LEMMA StoreInv ==
  ASSUME IInv, NEW l \in Callers, Store(l)
  PROVE  IInv'
<1> USE DEF IInv
<1> DEFINE r == FromEntry([value |-> flight[l].got, fetchedAt |-> flight[l].ts,
                    expiresAt |-> flight[l].ts + TTL], "live")
<1>r. ReplyOK(r)
  BY TimeAssumption DEF ReplyOK, Store, FlightData, TypeOK, FromEntry, Reply, Flight
<1>s. flight' = [flight EXCEPT ![l] = [@ EXCEPT !.stage = "settled", !.out = r]]
  BY DEF Store, Settle
<1> HIDE DEF r
<1>1. TypeOK'
  <2>1. flight[l] \in Flight /\ r \in Reply
    BY <1>r DEF TypeOK, ReplyOK
  <2>2. [flight[l] EXCEPT !.stage = "settled", !.out = r] \in Flight
    BY ONLY <2>1 DEF Flight, Stages
  <2>3. flight' \in [Callers -> Flight]
    BY <2>2, <1>s, FlightUpdate DEF TypeOK
  <2>4. [value |-> flight[l].got, fetchedAt |-> flight[l].ts,
         expiresAt |-> flight[l].ts + TTL] \in Entry
    BY <2>1, TimeAssumption DEF Store, FlightData, Entry, Flight
  <2>5. items' \in [Keys -> Entry \cup {None}]
    BY <2>4 DEF Store, TypeOK
  <2> QED BY <2>3, <2>5 DEF Store, TypeOK
<1>2. FlightData'
  BY <1>r, <1>s DEF Store, TypeOK, FlightData, Flight
<1>3. CallData'
  BY <1>r, <1>s DEF Store, TypeOK, CallData, Call
<1>4. NotYetLeading'
  BY <1>r, <1>s DEF Store, TypeOK, NotYetLeading, Call, Flight
<1>5. Registered'
  BY <1>r, <1>s DEF Store, TypeOK, Registered, Active, CallData, Call, Flight
<1>6. NoOrphanWaiter'
  BY <1>r, <1>s
  DEF Store, TypeOK, NoOrphanWaiter, Registered, Active, CallData, Call,
      Flight
<1> QED BY <1>1, <1>2, <1>3, <1>4, <1>5, <1>6

(* IInv is preserved when a goroutine falls back on an expired entry. *)
LEMMA ServeStaleInv ==
  ASSUME IInv, NEW l \in Callers, ServeStale(l)
  PROVE  IInv'
<1> USE DEF IInv
<1> DEFINE r == FromEntry(items[call[l].key], "stale_fallback")
<1>r. ReplyOK(r)
  BY TimeAssumption DEF ReplyOK, ServeStale, InStaleWindow, TypeOK, CallData, FromEntry, Reply,
         Entry, NotYetLeading
<1>s. flight' = [flight EXCEPT ![l] = [@ EXCEPT !.stage = "settled", !.out = r]]
  BY DEF ServeStale, Settle
<1> HIDE DEF r
<1>1. TypeOK'
  <2>1. flight[l] \in Flight /\ r \in Reply
    BY <1>r DEF TypeOK, ReplyOK
  <2>2. [flight[l] EXCEPT !.stage = "settled", !.out = r] \in Flight
    BY ONLY <2>1 DEF Flight, Stages
  <2>3. flight' \in [Callers -> Flight]
    BY <2>2, <1>s, FlightUpdate DEF TypeOK
  <2> QED BY <2>3 DEF ServeStale, TypeOK
<1>2. FlightData'
  BY <1>r, <1>s DEF ServeStale, TypeOK, FlightData, Flight
<1>3. CallData'
  BY <1>r, <1>s DEF ServeStale, TypeOK, CallData, Call
<1>4. NotYetLeading'
  BY <1>r, <1>s DEF ServeStale, TypeOK, NotYetLeading, Call, Flight
<1>5. Registered'
  BY <1>r, <1>s
  DEF ServeStale, TypeOK, Registered, Active, CallData, Call, Flight
<1>6. NoOrphanWaiter'
  BY <1>r, <1>s
  DEF ServeStale, TypeOK, NoOrphanWaiter, Registered, Active, CallData, Call,
      Flight
<1> QED BY <1>1, <1>2, <1>3, <1>4, <1>5, <1>6

(* IInv is preserved when a goroutine has nothing to fall back on. *)
LEMMA ServeErrorInv ==
  ASSUME IInv, NEW l \in Callers, ServeError(l)
  PROVE  IInv'
<1> USE DEF IInv
<1> DEFINE r == Failure(flight[l].got)
<1>r. ReplyOK(r)
  BY TimeAssumption DEF ReplyOK, ServeError, FlightData, Failure, Reply
<1>s. flight' = [flight EXCEPT ![l] = [@ EXCEPT !.stage = "settled", !.out = r]]
  BY DEF ServeError, Settle
<1> HIDE DEF r
<1>1. TypeOK'
  <2>1. flight[l] \in Flight /\ r \in Reply
    BY <1>r DEF TypeOK, ReplyOK
  <2>2. [flight[l] EXCEPT !.stage = "settled", !.out = r] \in Flight
    BY ONLY <2>1 DEF Flight, Stages
  <2>3. flight' \in [Callers -> Flight]
    BY <2>2, <1>s, FlightUpdate DEF TypeOK
  <2> QED BY <2>3 DEF ServeError, TypeOK
<1>2. FlightData'
  BY <1>r, <1>s DEF ServeError, TypeOK, FlightData, Flight
<1>3. CallData'
  BY <1>r, <1>s DEF ServeError, TypeOK, CallData, Call
<1>4. NotYetLeading'
  BY <1>r, <1>s DEF ServeError, TypeOK, NotYetLeading, Call, Flight
<1>5. Registered'
  BY <1>r, <1>s
  DEF ServeError, TypeOK, Registered, Active, CallData, Call, Flight
<1>6. NoOrphanWaiter'
  BY <1>r, <1>s
  DEF ServeError, TypeOK, NoOrphanWaiter, Registered, Active, CallData, Call,
      Flight
<1> QED BY <1>1, <1>2, <1>3, <1>4, <1>5, <1>6

(* IInv is preserved when a flight is unregistered and its channels filled. *)
LEMMA DeliverInv ==
  ASSUME IInv, NEW l \in Callers, Deliver(l)
  PROVE  IInv'
<1> USE DEF IInv
<1>1. TypeOK'
  <2>1. [Unborn EXCEPT !.stage = "over"] \in Flight
    BY DEF Unborn, Flight, Stages
  <2>2. flight' \in [Callers -> Flight]
    BY <2>1, FlightUpdate DEF Deliver, TypeOK
  <2> QED BY <2>2 DEF Deliver, TypeOK, FlightData, ReplyOK
<1>2. FlightData'
  BY DEF Deliver, TypeOK, FlightData, Flight
<1>3. CallData'
  BY NoneAssumption DEF Deliver, TypeOK, CallData, Call, FlightData, ReplyOK
<1>4. NotYetLeading'
  BY DEF Deliver, TypeOK, NotYetLeading, Call, Flight
<1>5. Registered'
  BY DEF Deliver, TypeOK, Registered, Active, CallData, Call, Flight
<1>6. NoOrphanWaiter'
  BY NoneAssumption
  DEF Deliver, TypeOK, NoOrphanWaiter, Registered, Active, CallData, Call,
      Flight, FlightData, ReplyOK
<1> QED BY <1>1, <1>2, <1>3, <1>4, <1>5, <1>6

(* IInv is preserved when a call takes its answer from its channel. *)
LEMMA ReceiveInv ==
  ASSUME IInv, NEW c \in Callers, Receive(c)
  PROVE  IInv'
<1> USE DEF IInv
<1>1. TypeOK'
  <2>1. call[c] \in Call /\ chan[c] \in Reply
    BY NoneAssumption DEF TypeOK, Receive, CallData, ReplyOK
  <2>2. [call[c] EXCEPT !.pc = "returned", !.reply = chan[c]] \in Call
    BY ONLY <2>1 DEF Call
  <2>3. call' \in [Callers -> Call]
    BY <2>2, CallUpdate DEF Receive, Return, TypeOK
  <2>4. high' \in [Keys -> Nat]
    BY NoneAssumption DEF Receive, Return, TypeOK, CallData, ReplyOK, Reply, Entry
  <2> QED BY <2>3, <2>4 DEF Receive, Return, TypeOK
<1>2. FlightData'
  BY DEF Receive, Return, TypeOK, FlightData, Flight
<1>3. CallData'
  BY DEF Receive, Return, TypeOK, CallData, Call
<1>4. NotYetLeading'
  BY DEF Receive, Return, TypeOK, NotYetLeading, Call, Flight
<1>5. Registered'
  BY DEF Receive, Return, TypeOK, Registered, Active, CallData, Call, Flight
<1>6. NoOrphanWaiter'
  BY
  DEF Receive, Return, TypeOK, NoOrphanWaiter, Registered, Active, CallData,
      Call, Flight
<1> QED BY <1>1, <1>2, <1>3, <1>4, <1>5, <1>6

(* IInv is preserved when a cancelled call gives up. *)
LEMMA ReturnCtxErrInv ==
  ASSUME IInv, NEW c \in Callers, ReturnCtxErr(c)
  PROVE  IInv'
<1> USE DEF IInv
<1>1. TypeOK'
  <2>1. call[c] \in Call /\ Failure(CtxErr) \in Reply
    BY NoneAssumption DEF TypeOK, Failure, Failures, Reply
  <2>2. [call[c] EXCEPT !.pc = "returned", !.reply = Failure(CtxErr)] \in Call
    BY ONLY <2>1 DEF Call
  <2>3. call' \in [Callers -> Call]
    BY <2>2, CallUpdate DEF ReturnCtxErr, Return, Failure, TypeOK
  <2>4. high' \in [Keys -> Nat]
    BY NoneAssumption DEF ReturnCtxErr, Return, Failure, TypeOK, CallData, ReplyOK, Reply, Entry
  <2> QED BY <2>3, <2>4 DEF ReturnCtxErr, Return, Failure, TypeOK
<1>2. FlightData'
  BY DEF ReturnCtxErr, Return, Failure, TypeOK, FlightData, Flight
<1>3. CallData'
  BY
  DEF ReturnCtxErr, Return, Failure, TypeOK, CallData, Call, ReplyOK, Reply,
      Failures
<1>4. NotYetLeading'
  BY DEF ReturnCtxErr, Return, Failure, TypeOK, NotYetLeading, Call, Flight
<1>5. Registered'
  BY
  DEF ReturnCtxErr, Return, Failure, TypeOK, Registered, Active, CallData,
      Call, Flight
<1>6. NoOrphanWaiter'
  BY
  DEF ReturnCtxErr, Return, Failure, TypeOK, NoOrphanWaiter, Registered,
      Active, CallData, Call, Flight
<1> QED BY <1>1, <1>2, <1>3, <1>4, <1>5, <1>6

(* IInv is preserved when SetWithTTL reads the clock. *)
LEMMA SetStampInv ==
  ASSUME IInv, NEW c \in Callers, SetStamp(c)
  PROVE  IInv'
<1> USE DEF IInv
<1>1. TypeOK'
  <2>1. call[c] \in Call /\ now \in Nat
    BY NoneAssumption DEF TypeOK
  <2>2. [call[c] EXCEPT !.pc = "stamped", !.stamp = now] \in Call
    BY ONLY <2>1 DEF Call
  <2>3. call' \in [Callers -> Call]
    BY <2>2, CallUpdate DEF SetStamp, TypeOK
  <2> QED BY <2>3 DEF SetStamp, TypeOK
<1>2. FlightData'
  BY DEF SetStamp, TypeOK, FlightData, Flight
<1>3. CallData'
  BY DEF SetStamp, TypeOK, CallData, Call
<1>4. NotYetLeading'
  BY DEF SetStamp, TypeOK, NotYetLeading, Call, Flight
<1>5. Registered'
  BY DEF SetStamp, TypeOK, Registered, Active, CallData, Call, Flight
<1>6. NoOrphanWaiter'
  BY
  DEF SetStamp, TypeOK, NoOrphanWaiter, Registered, Active, CallData, Call,
      Flight
<1> QED BY <1>1, <1>2, <1>3, <1>4, <1>5, <1>6

(* IInv is preserved when SetWithTTL writes the entry. *)
LEMMA SetStoreInv ==
  ASSUME IInv, NEW c \in Callers, SetStore(c)
  PROVE  IInv'
<1> USE DEF IInv
<1>1. TypeOK'
  <2>1. call[c] \in Call
    BY NoneAssumption DEF TypeOK
  <2>2. [call[c] EXCEPT !.pc = "done"] \in Call
    BY ONLY <2>1 DEF Call
  <2>3. call' \in [Callers -> Call]
    BY <2>2, CallUpdate DEF SetStore, TypeOK
  <2>4. items' \in [Keys -> Entry \cup {None}]
    BY TimeAssumption DEF SetStore, TypeOK, CallData, ReplyOK, Entry, Call
  <2> QED BY <2>3, <2>4 DEF SetStore, TypeOK
<1>2. FlightData'
  BY DEF SetStore, TypeOK, FlightData, Flight
<1>3. CallData'
  BY DEF SetStore, TypeOK, CallData, Call
<1>4. NotYetLeading'
  BY DEF SetStore, TypeOK, NotYetLeading, Call, Flight
<1>5. Registered'
  BY DEF SetStore, TypeOK, Registered, Active, CallData, Call, Flight
<1>6. NoOrphanWaiter'
  BY
  DEF SetStore, TypeOK, NoOrphanWaiter, Registered, Active, CallData, Call,
      Flight
<1> QED BY <1>1, <1>2, <1>3, <1>4, <1>5, <1>6

(* IInv is preserved by every way the fetcher may end. *)
LEMMA FetcherStepInv ==
  ASSUME IInv, NEW l \in Callers, FetcherStep(l)
  PROVE  IInv'
<1>1. CASE \E v \in Values : FetcherReturns(l, v)
  BY <1>1, FetcherEndsInv DEF FetcherReturns
<1>2. CASE \E e \in Errors : FetcherFails(l, e)
  BY <1>2, FetcherEndsInv DEF FetcherFails, Failures
<1>3. CASE FetcherAborts(l)
  BY <1>3, FetcherEndsInv DEF FetcherAborts, Failures
<1> QED BY <1>1, <1>2, <1>3 DEF FetcherStep

(* A step that leaves calls, goroutines, channels and the registrations alone. *)
LEMMA OtherInv ==
  ASSUME IInv, UNCHANGED <<group, flight, call, chan>>, TypeOK'
  PROVE  IInv'
  BY DEF IInv, FlightData, CallData, NotYetLeading, Registered,
         NoOrphanWaiter, Active

(* Every step preserves the inductive invariant. *)
LEMMA NextInv ==
  ASSUME IInv, [Next]_vars
  PROVE  IInv'
<1>1. ASSUME NEW c \in Callers, NEW k \in Keys, Begin(c, k) PROVE IInv'
  BY <1>1, BeginInv
<1>2. ASSUME NEW c \in Callers, CallerStep(c) PROVE IInv'
  BY <1>2, LookupHitInv, LookupMissInv, JoinFlightInv, StartFlightInv,
     ReceiveInv, ReturnCtxErrInv
  DEF CallerStep
<1>3. ASSUME NEW l \in Callers, GoroutineStep(l) PROVE IInv'
  BY <1>3, FetcherStepInv, StoreInv, ServeStaleInv, ServeErrorInv, DeliverInv
  DEF GoroutineStep
<1>4. ASSUME NEW c \in Callers, Cancel(c) PROVE IInv'
  BY <1>4, OtherInv DEF Cancel, IInv, TypeOK
<1>5. ASSUME NEW c \in Callers, SetStamp(c) \/ SetStore(c) PROVE IInv'
  BY <1>5, SetStampInv, SetStoreInv
<1>6. ASSUME NEW k \in Keys, Invalidate(k) PROVE IInv'
  BY <1>6, OtherInv DEF Invalidate, IInv, TypeOK
<1>7. CASE Tick
  BY <1>7, OtherInv DEF Tick, IInv, TypeOK
<1>8. CASE UNCHANGED vars
  BY <1>8, OtherInv DEF vars, IInv, TypeOK
<1> QED
  BY <1>1, <1>2, <1>3, <1>4, <1>5, <1>6, <1>7, <1>8 DEF Next

-----------------------------------------------------------------------------
(* The inductive invariant holds in every reachable state. *)
THEOREM Invariance == Spec => []IInv
<1>1. Init => IInv
  BY InitInv
<1>2. IInv /\ [Next]_vars => IInv'
  BY NextInv
<1> QED BY <1>1, <1>2, PTL DEF Spec

(* Every variable of the cache keeps its type. *)
THEOREM TypeCorrect == Spec => []TypeOK
  BY Invariance, PTL DEF IInv

(* However many calls miss, join, are cancelled and are answered, a key is *)
(* never fetched by two goroutines at a time.                              *)
THEOREM Coalesced == Spec => []OneFetchPerKey
<1>1. IInv => OneFetchPerKey
  BY DEF IInv, Registered, OneFetchPerKey
<1> QED BY <1>1, Invariance, PTL

(* A waiting call always has its answer or a running goroutine that owes   *)
(* it one.                                                                 *)
THEOREM NobodyOrphaned == Spec => []NoOrphanWaiter
  BY Invariance, PTL DEF IInv
=============================================================================
