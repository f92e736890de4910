------------------------- MODULE TTLCacheMonotonic -------------------------
(***************************************************************************)
(* The proof that a cache nobody calls SetWithTTL on never answers with    *)
(* data older than a call could already have seen (MonotonicReads).        *)
(*                                                                         *)
(* FetchedAt is read before the lock is taken, so that the order of the    *)
(* entries is not the order of their dates by itself.  What orders them is *)
(* that a key has one goroutine at a time: while it runs, everything else  *)
(* that can be answered for the key dates from before it.                  *)
(***************************************************************************)
EXTENDS TTLCacheProofs

(* Nothing answered so far for k, nor waiting in a channel, is newer than t. *)
NoneNewer(k, t) ==
  /\ high[k] <= t
  /\ \A c \in Callers :
       call[c].pc = "select" /\ call[c].key = k /\ chan[c] # None
         => chan[c].fetchedAt <= t

EntryNoNewer(k, t) == items[k] # None => items[k].fetchedAt <= t

Past == \A k \in Keys : NoneNewer(k, now) /\ EntryNoNewer(k, now)

EntryNewest == \A k \in Keys : items[k] # None => NoneNewer(k, items[k].fetchedAt)

FetchedNewest ==
  \A l \in Callers :
    flight[l].stage = "fetched" =>
      /\ flight[l].ts <= now
      /\ NoneNewer(call[l].key, flight[l].ts)
      /\ EntryNoNewer(call[l].key, flight[l].ts)

SettledNewest ==
  \A l \in Callers :
    flight[l].stage = "settled" =>
      LET k == call[l].key  r == flight[l].out IN
      IF r.tag = "error"
      THEN r.fetchedAt = 0
      ELSE /\ r.fetchedAt <= now
           /\ NoneNewer(k, r.fetchedAt)
           /\ items[k] # None => items[k].fetchedAt = r.fetchedAt

Floors ==
  \A c \in Callers :
    /\ call[c].pc # "idle" => call[c].floor <= high[call[c].key]
    /\ call[c].pc = "select" /\ chan[c] # None /\ chan[c].tag # "error"
         => chan[c].fetchedAt >= call[c].floor

SameKey ==
  \A l \in Callers :
    Active(l) => \A c \in flight[l].waiters :
                   call[c].pc \in {"select", "returned"} /\ call[c].key = call[l].key

EmptyChan ==
  \A c \in Callers : call[c].pc \in {"idle", "lookup", "dochan"} => chan[c] = None

NoSetter == \A c \in Callers : call[c].pc \notin {"stamped", "done"}

MInv ==
  /\ Past /\ EntryNewest /\ FetchedNewest /\ SettledNewest
  /\ Floors /\ SameKey /\ EmptyChan /\ NoSetter /\ MonotonicReads

-----------------------------------------------------------------------------
(* Initially nothing has been answered. *)
LEMMA MInit == Init => MInv
  BY DEF Init, MInv, Past, EntryNewest, FetchedNewest, SettledNewest, Floors,
         SameKey, EmptyChan, NoSetter, MonotonicReads, NoneNewer, EntryNoNewer, Unborn, Active

(* MInv is preserved when a call of Fetch reads the clock. *)
LEMMA MBegin ==
  ASSUME IInv, IInv', MInv, NEW c \in Callers, NEW k \in Keys, Begin(c, k)
  PROVE  MInv'
<1> USE DEF IInv, MInv
<1>1. Past'
  BY DEF Begin, Past, NoneNewer, EntryNoNewer, TypeOK, Call
<1>2. EntryNewest'
  BY DEF Begin, EntryNewest, NoneNewer, TypeOK, Call
<1>3. FetchedNewest'
  BY DEF Begin, FetchedNewest, NoneNewer, EntryNoNewer, TypeOK, Call,
         NotYetLeading, Registered, Active, CallData
<1>4. SettledNewest'
  BY DEF Begin, SettledNewest, NoneNewer, TypeOK, Call, NotYetLeading,
         Registered, Active, CallData
<1>5. Floors'
  BY DEF Begin, Floors, TypeOK, Call
<1>6. SameKey'
  BY DEF Begin, SameKey, Active, TypeOK, Call, NotYetLeading, Registered,
         CallData
<1>7. EmptyChan'
  BY DEF Begin, EmptyChan, TypeOK, Call
<1>8. NoSetter'
  BY DEF Begin, NoSetter, TypeOK, Call
<1>9. MonotonicReads'
  BY DEF Begin, MonotonicReads, TypeOK, Call
<1> QED BY <1>1, <1>2, <1>3, <1>4, <1>5, <1>6, <1>7, <1>8, <1>9

(* MInv is preserved when a call is answered from an unexpired entry. *)
LEMMA MLookupHit ==
  ASSUME IInv, IInv', MInv, NEW c \in Callers, LookupHit(c)
  PROVE  MInv'
<1> USE DEF IInv, MInv
<1> DEFINE k == call[c].key
           t == items[k].fetchedAt
<1>k. /\ k \in Keys /\ k = call[c].key
      /\ items[k] \in Entry /\ items[k] # None
      /\ t \in Nat /\ t = items[k].fetchedAt
  BY DEF LookupHit, Fresh, TypeOK, CallData, Entry
<1>h. high[k] <= t /\ high[k] \in Nat
  BY <1>k DEF EntryNewest, NoneNewer, TypeOK
<1>f. /\ call[c].pc = "lookup"
      /\ call' = [call EXCEPT ![c] = [@ EXCEPT !.pc = "returned",
                    !.reply = [tag |-> "cached", data |-> items[k].value, fetchedAt |-> t]]]
      /\ high' = [high EXCEPT ![k] = IF t > high[k] THEN t ELSE high[k]]
      /\ UNCHANGED <<now, items, group, flight, chan, cancelled>>
  BY DEF LookupHit, Return, FromEntry
<1>g. \A j \in Keys : high'[j] = IF j = k THEN t ELSE high[j]
  <2>1. (IF t > high[k] THEN t ELSE high[k]) = t
    BY <1>k, <1>h
  <2> QED BY <1>f, <2>1 DEF TypeOK
<1>c. \A d \in Callers :
        /\ call'[d].key = call[d].key
        /\ call'[d].pc = "select" => call[d].pc = "select"
  BY <1>f DEF TypeOK, Call
<1>u. UNCHANGED <<now, items, flight, chan>>
  BY <1>f
<1> HIDE DEF k, t
<1>1. Past'
  BY <1>k, <1>g, <1>c, <1>u DEF Past, NoneNewer, EntryNoNewer, TypeOK
<1>2. EntryNewest'
  BY <1>k, <1>g, <1>c, <1>u DEF EntryNewest, NoneNewer, TypeOK
<1>3. FetchedNewest'
  BY <1>k, <1>g, <1>c, <1>u
  DEF FetchedNewest, NoneNewer, EntryNoNewer, TypeOK, NotYetLeading, CallData
<1>4. SettledNewest'
  BY <1>k, <1>g, <1>c, <1>u
  DEF SettledNewest, NoneNewer, TypeOK, EntryNoNewer, NotYetLeading, CallData
<1>5. Floors'
  BY <1>k, <1>f, <1>h, <1>g DEF Floors, TypeOK, Call
<1>6. SameKey'
  BY <1>k, <1>f, <1>h, <1>g DEF SameKey, Active, TypeOK, Call
<1>7. EmptyChan'
  BY <1>k, <1>f, <1>h, <1>g DEF EmptyChan, TypeOK, Call
<1>8. NoSetter'
  BY <1>k, <1>f, <1>h, <1>g DEF NoSetter, TypeOK, Call
<1>9. MonotonicReads'
  BY <1>k, <1>f, <1>h, <1>g
  DEF MonotonicReads, TypeOK, Call, Floors, EntryNewest, NoneNewer
<1> QED BY <1>1, <1>2, <1>3, <1>4, <1>5, <1>6, <1>7, <1>8, <1>9

(* MInv is preserved when a call finds no unexpired entry. *)
LEMMA MLookupMiss ==
  ASSUME IInv, IInv', MInv, NEW c \in Callers, LookupMiss(c)
  PROVE  MInv'
<1> USE DEF IInv, MInv
<1>1. Past'
  BY DEF LookupMiss, Past, NoneNewer, EntryNoNewer, TypeOK, Call
<1>2. EntryNewest'
  BY DEF LookupMiss, EntryNewest, NoneNewer, TypeOK, Call
<1>3. FetchedNewest'
  BY DEF LookupMiss, FetchedNewest, NoneNewer, EntryNoNewer, TypeOK, Call
<1>4. SettledNewest'
  BY DEF LookupMiss, SettledNewest, NoneNewer, TypeOK, Call
<1>5. Floors'
  BY DEF LookupMiss, Floors, TypeOK, Call
<1>6. SameKey'
  BY DEF LookupMiss, SameKey, Active, TypeOK, Call
<1>7. EmptyChan'
  BY DEF LookupMiss, EmptyChan, TypeOK, Call
<1>8. NoSetter'
  BY DEF LookupMiss, NoSetter, TypeOK, Call
<1>9. MonotonicReads'
  BY DEF LookupMiss, MonotonicReads, TypeOK, Call
<1> QED BY <1>1, <1>2, <1>3, <1>4, <1>5, <1>6, <1>7, <1>8, <1>9

(* MInv is preserved when a call joins the flight registered for its key. *)
LEMMA MJoinFlight ==
  ASSUME IInv, IInv', MInv, NEW c \in Callers, JoinFlight(c)
  PROVE  MInv'
<1> USE DEF IInv, MInv
<1> DEFINE l == group[call[c].key]
<1>k. l \in Callers /\ call[l].key = call[c].key /\ flight[l].stage \in
        {"fetching", "fetched", "failed", "settled"}
  BY DEF JoinFlight, TypeOK, CallData, Registered, Active
<1>f. /\ flight' = [flight EXCEPT ![l].waiters = @ \cup {c}]
      /\ call' = [call EXCEPT ![c].pc = "select"]
      /\ call[c].pc = "dochan"
      /\ UNCHANGED <<now, items, group, chan, cancelled, high>>
  BY DEF JoinFlight
<1> HIDE DEF l
<1>1. Past'
  BY <1>k, <1>f
  DEF Past, NoneNewer, EntryNoNewer, TypeOK, Call, Flight, EmptyChan
<1>2. EntryNewest'
  BY <1>k, <1>f DEF EntryNewest, NoneNewer, TypeOK, Call, Flight, EmptyChan
<1>3. FetchedNewest'
  BY <1>k, <1>f
  DEF FetchedNewest, NoneNewer, EntryNoNewer, TypeOK, Call, Flight, EmptyChan
<1>4. SettledNewest'
  BY <1>k, <1>f DEF SettledNewest, NoneNewer, TypeOK, Call, Flight, EmptyChan
<1>5. Floors'
  BY <1>k, <1>f DEF Floors, TypeOK, Call, Flight, EmptyChan
<1>6. SameKey'
  BY <1>k, <1>f DEF SameKey, Active, TypeOK, Call, Flight, EmptyChan
<1>7. EmptyChan'
  BY <1>k, <1>f DEF EmptyChan, TypeOK, Call, Flight
<1>8. NoSetter'
  BY <1>k, <1>f DEF NoSetter, TypeOK, Call, Flight, EmptyChan
<1>9. MonotonicReads'
  BY <1>k, <1>f DEF MonotonicReads, TypeOK, Call, Flight, EmptyChan
<1> QED BY <1>1, <1>2, <1>3, <1>4, <1>5, <1>6, <1>7, <1>8, <1>9

(* MInv is preserved when a call registers a flight and starts its goroutine. *)
LEMMA MStartFlight ==
  ASSUME IInv, IInv', MInv, NEW c \in Callers, StartFlight(c)
  PROVE  MInv'
<1> USE DEF IInv, MInv
<1>1. Past'
  BY DEF StartFlight, Past, NoneNewer, EntryNoNewer, TypeOK, Call, Flight,
         EmptyChan, CallData
<1>2. EntryNewest'
  BY DEF StartFlight, EntryNewest, NoneNewer, TypeOK, Call, Flight, EmptyChan,
         CallData
<1>3. FetchedNewest'
  BY DEF StartFlight, FetchedNewest, NoneNewer, EntryNoNewer, TypeOK, Call,
         Flight, EmptyChan, CallData
<1>4. SettledNewest'
  BY DEF StartFlight, SettledNewest, NoneNewer, TypeOK, Call, Flight,
         EmptyChan, CallData
<1>5. Floors'
  BY DEF StartFlight, Floors, TypeOK, Call, Flight, EmptyChan, CallData
<1>6. SameKey'
  BY DEF StartFlight, SameKey, Active, TypeOK, Call, Flight
<1>7. EmptyChan'
  BY DEF StartFlight, EmptyChan, TypeOK, Call, Flight
<1>8. NoSetter'
  BY DEF StartFlight, NoSetter, TypeOK, Call, Flight
<1>9. MonotonicReads'
  BY DEF StartFlight, MonotonicReads, TypeOK, Call, Flight
<1> QED BY <1>1, <1>2, <1>3, <1>4, <1>5, <1>6, <1>7, <1>8, <1>9

(* MInv is preserved when the fetcher returns a value or an error. *)
LEMMA MFetcherEnds ==
  ASSUME IInv, IInv', MInv, NEW l \in Callers, NEW stage \in {"fetched", "failed"}, NEW x, FetcherEnds(l, stage, x)
  PROVE  MInv'
<1> USE DEF IInv, MInv
<1>1. Past'
  BY DEF FetcherEnds, Past, NoneNewer, EntryNoNewer, TypeOK, Flight
<1>2. EntryNewest'
  BY DEF FetcherEnds, EntryNewest, NoneNewer, TypeOK, Flight
<1>3. FetchedNewest'
  BY DEF FetcherEnds, FetchedNewest, NoneNewer, EntryNoNewer, TypeOK, Flight,
         Past, CallData, Registered, Active, NotYetLeading
<1>4. SettledNewest'
  BY DEF FetcherEnds, SettledNewest, NoneNewer, TypeOK, Flight
<1>5. Floors'
  BY DEF FetcherEnds, Floors, TypeOK, Flight
<1>6. SameKey'
  BY DEF FetcherEnds, SameKey, Active, TypeOK, Flight
<1>7. EmptyChan'
  BY DEF FetcherEnds, EmptyChan, TypeOK, Flight
<1>8. NoSetter'
  BY DEF FetcherEnds, NoSetter, TypeOK, Flight
<1>9. MonotonicReads'
  BY DEF FetcherEnds, MonotonicReads, TypeOK, Flight
<1> QED BY <1>1, <1>2, <1>3, <1>4, <1>5, <1>6, <1>7, <1>8, <1>9

(* MInv is preserved when a goroutine stores what it fetched. *)
LEMMA MStore ==
  ASSUME IInv, IInv', MInv, NEW l \in Callers, Store(l)
  PROVE  MInv'
<1> USE DEF IInv, MInv
<1>1. Past'
  BY NoneAssumption
  DEF Store, Settle, FromEntry, Past, NoneNewer, EntryNoNewer, TypeOK, Flight,
      FetchedNewest, Registered, Active, CallData
<1>2. EntryNewest'
  BY NoneAssumption
  DEF Store, Settle, FromEntry, EntryNewest, NoneNewer, TypeOK, Flight,
      FetchedNewest, Registered, Active, CallData
<1>3. FetchedNewest'
  BY NoneAssumption
  DEF Store, Settle, FromEntry, FetchedNewest, NoneNewer, EntryNoNewer,
      TypeOK, Flight, Registered, Active, CallData
<1>4. SettledNewest'
  BY NoneAssumption
  DEF Store, Settle, FromEntry, SettledNewest, NoneNewer, TypeOK, Flight,
      FetchedNewest, Registered, Active, CallData
<1>5. Floors'
  BY DEF Store, Settle, FromEntry, Floors, TypeOK, Flight
<1>6. SameKey'
  BY DEF Store, Settle, FromEntry, SameKey, Active, TypeOK, Flight
<1>7. EmptyChan'
  BY DEF Store, Settle, FromEntry, EmptyChan, TypeOK, Flight
<1>8. NoSetter'
  BY DEF Store, Settle, FromEntry, NoSetter, TypeOK, Flight
<1>9. MonotonicReads'
  BY DEF Store, Settle, FromEntry, MonotonicReads, TypeOK, Flight
<1> QED BY <1>1, <1>2, <1>3, <1>4, <1>5, <1>6, <1>7, <1>8, <1>9

(* MInv is preserved when a goroutine falls back on an expired entry. *)
LEMMA MServeStale ==
  ASSUME IInv, IInv', MInv, NEW l \in Callers, ServeStale(l)
  PROVE  MInv'
<1> USE DEF IInv, MInv
<1>1. Past'
  BY DEF ServeStale, Settle, FromEntry, InStaleWindow, Past, NoneNewer,
         EntryNoNewer, TypeOK, Flight
<1>2. EntryNewest'
  BY DEF ServeStale, Settle, FromEntry, InStaleWindow, EntryNewest, NoneNewer,
         TypeOK, Flight
<1>3. FetchedNewest'
  BY DEF ServeStale, Settle, FromEntry, InStaleWindow, FetchedNewest,
         NoneNewer, EntryNoNewer, TypeOK, Flight
<1>4. SettledNewest'
  BY DEF ServeStale, Settle, FromEntry, InStaleWindow, SettledNewest,
         NoneNewer, TypeOK, Flight, EntryNewest, Past, CallData,
         NotYetLeading, EntryNoNewer, Entry
<1>5. Floors'
  BY DEF ServeStale, Settle, FromEntry, InStaleWindow, Floors, TypeOK, Flight
<1>6. SameKey'
  BY DEF ServeStale, Settle, FromEntry, InStaleWindow, SameKey, Active,
         TypeOK, Flight
<1>7. EmptyChan'
  BY DEF ServeStale, Settle, FromEntry, InStaleWindow, EmptyChan, TypeOK,
         Flight
<1>8. NoSetter'
  BY DEF ServeStale, Settle, FromEntry, InStaleWindow, NoSetter, TypeOK,
         Flight
<1>9. MonotonicReads'
  BY DEF ServeStale, Settle, FromEntry, InStaleWindow, MonotonicReads, TypeOK,
         Flight
<1> QED BY <1>1, <1>2, <1>3, <1>4, <1>5, <1>6, <1>7, <1>8, <1>9

(* MInv is preserved when a goroutine has nothing to fall back on. *)
LEMMA MServeError ==
  ASSUME IInv, IInv', MInv, NEW l \in Callers, ServeError(l)
  PROVE  MInv'
<1> USE DEF IInv, MInv
<1>1. Past'
  BY DEF ServeError, Settle, Failure, Past, NoneNewer, EntryNoNewer, TypeOK,
         Flight
<1>2. EntryNewest'
  BY DEF ServeError, Settle, Failure, EntryNewest, NoneNewer, TypeOK, Flight
<1>3. FetchedNewest'
  BY DEF ServeError, Settle, Failure, FetchedNewest, NoneNewer, EntryNoNewer,
         TypeOK, Flight
<1>4. SettledNewest'
  BY DEF ServeError, Settle, Failure, SettledNewest, NoneNewer, TypeOK, Flight
<1>5. Floors'
  BY DEF ServeError, Settle, Failure, Floors, TypeOK, Flight
<1>6. SameKey'
  BY DEF ServeError, Settle, Failure, SameKey, Active, TypeOK, Flight
<1>7. EmptyChan'
  BY DEF ServeError, Settle, Failure, EmptyChan, TypeOK, Flight
<1>8. NoSetter'
  BY DEF ServeError, Settle, Failure, NoSetter, TypeOK, Flight
<1>9. MonotonicReads'
  BY DEF ServeError, Settle, Failure, MonotonicReads, TypeOK, Flight
<1> QED BY <1>1, <1>2, <1>3, <1>4, <1>5, <1>6, <1>7, <1>8, <1>9

(* MInv is preserved when a flight is unregistered and its channels filled. *)
LEMMA MDeliver ==
  ASSUME IInv, IInv', MInv, NEW l \in Callers, Deliver(l)
  PROVE  MInv'
<1> USE DEF IInv, MInv
<1>1. Past'
  BY DEF Deliver, Unborn, Past, NoneNewer, EntryNoNewer, TypeOK,
         SettledNewest, SameKey, Registered, Active, CallData
<1>2. EntryNewest'
  BY DEF Deliver, Unborn, EntryNewest, NoneNewer, TypeOK, SettledNewest,
         SameKey, Registered, Active, CallData, Entry
<1>3. FetchedNewest'
  BY DEF Deliver, Unborn, FetchedNewest, NoneNewer, EntryNoNewer, TypeOK,
         SettledNewest, SameKey, Registered, Active, CallData
<1>4. SettledNewest'
  BY DEF Deliver, Unborn, SettledNewest, NoneNewer, TypeOK, SameKey,
         Registered, Active, CallData
<1>5. Floors'
  <2>1. \A c \in Callers : call'[c] = call[c] /\ high' = high
    BY DEF Deliver
  <2>2. ASSUME NEW c \in Callers, call[c].pc = "select", c \in flight[l].waiters,
               flight[l].out.tag # "error"
        PROVE  flight[l].out.fetchedAt >= call[c].floor
    <3>1. call[l].key \in Keys /\ call[c].key = call[l].key
      BY <2>2 DEF Deliver, SameKey, Active, CallData, NotYetLeading
    <3>2. call[c].floor <= high[call[l].key]
      BY <2>2, <3>1 DEF Floors
    <3>3. high[call[l].key] <= flight[l].out.fetchedAt
      BY <2>2 DEF Deliver, SettledNewest, NoneNewer
    <3>4. /\ call[c].floor \in Nat /\ high[call[l].key] \in Nat
          /\ flight[l].out.fetchedAt \in Nat
      BY <3>1 DEF TypeOK, Call, Deliver, FlightData, ReplyOK, Reply
    <3> QED BY <3>2, <3>3, <3>4
  <2> QED BY <2>1, <2>2 DEF Deliver, Floors
<1>6. SameKey'
  BY DEF Deliver, Unborn, SameKey, Active, TypeOK
<1>7. EmptyChan'
  BY DEF Deliver, Unborn, EmptyChan, TypeOK, SettledNewest, SameKey,
         Registered, Active, NoneNewer, CallData
<1>8. NoSetter'
  BY DEF Deliver, Unborn, NoSetter, TypeOK
<1>9. MonotonicReads'
  BY DEF Deliver, Unborn, MonotonicReads, TypeOK
<1> QED BY <1>1, <1>2, <1>3, <1>4, <1>5, <1>6, <1>7, <1>8, <1>9

(* MInv is preserved when a call takes its answer from its channel. *)
LEMMA MReceive ==
  ASSUME IInv, IInv', MInv, NEW c \in Callers, Receive(c)
  PROVE  MInv'
<1> USE DEF IInv, MInv
<1>1. Past'
  BY DEF Receive, Return, Past, NoneNewer, EntryNoNewer, TypeOK, Call
<1>2. EntryNewest'
  BY DEF Receive, Return, EntryNewest, NoneNewer, TypeOK, Call
<1>3. FetchedNewest'
  BY DEF Receive, Return, FetchedNewest, NoneNewer, EntryNoNewer, TypeOK, Call
<1>4. SettledNewest'
  BY DEF Receive, Return, SettledNewest, NoneNewer, TypeOK, Call
<1>5. Floors'
  BY DEF Receive, Return, Floors, TypeOK, Call
<1>6. SameKey'
  BY DEF Receive, Return, SameKey, Active, TypeOK, Call
<1>7. EmptyChan'
  BY DEF Receive, Return, EmptyChan, TypeOK, Call
<1>8. NoSetter'
  BY DEF Receive, Return, NoSetter, TypeOK, Call
<1>9. MonotonicReads'
  BY DEF Receive, Return, MonotonicReads, TypeOK, Call, Floors
<1> QED BY <1>1, <1>2, <1>3, <1>4, <1>5, <1>6, <1>7, <1>8, <1>9

(* MInv is preserved when a cancelled call gives up. *)
LEMMA MReturnCtxErr ==
  ASSUME IInv, IInv', MInv, NEW c \in Callers, ReturnCtxErr(c)
  PROVE  MInv'
<1> USE DEF IInv, MInv
<1>1. Past'
  BY DEF ReturnCtxErr, Return, Failure, Past, NoneNewer, EntryNoNewer, TypeOK,
         Call
<1>2. EntryNewest'
  BY DEF ReturnCtxErr, Return, Failure, EntryNewest, NoneNewer, TypeOK, Call
<1>3. FetchedNewest'
  BY DEF ReturnCtxErr, Return, Failure, FetchedNewest, NoneNewer,
         EntryNoNewer, TypeOK, Call
<1>4. SettledNewest'
  BY DEF ReturnCtxErr, Return, Failure, SettledNewest, NoneNewer, TypeOK, Call
<1>5. Floors'
  BY DEF ReturnCtxErr, Return, Failure, Floors, TypeOK, Call
<1>6. SameKey'
  BY DEF ReturnCtxErr, Return, Failure, SameKey, Active, TypeOK, Call
<1>7. EmptyChan'
  BY DEF ReturnCtxErr, Return, Failure, EmptyChan, TypeOK, Call
<1>8. NoSetter'
  BY DEF ReturnCtxErr, Return, Failure, NoSetter, TypeOK, Call
<1>9. MonotonicReads'
  BY DEF ReturnCtxErr, Return, Failure, MonotonicReads, TypeOK, Call
<1> QED BY <1>1, <1>2, <1>3, <1>4, <1>5, <1>6, <1>7, <1>8, <1>9

(* MInv is preserved when a call is cancelled. *)
LEMMA MCancel ==
  ASSUME IInv, IInv', MInv, NEW c \in Callers, Cancel(c)
  PROVE  MInv'
<1> USE DEF IInv, MInv
<1>1. Past'
  BY DEF Cancel, Past, NoneNewer, EntryNoNewer, TypeOK
<1>2. EntryNewest'
  BY DEF Cancel, EntryNewest, NoneNewer, TypeOK
<1>3. FetchedNewest'
  BY DEF Cancel, FetchedNewest, NoneNewer, EntryNoNewer, TypeOK
<1>4. SettledNewest'
  BY DEF Cancel, SettledNewest, NoneNewer, TypeOK
<1>5. Floors'
  BY DEF Cancel, Floors, TypeOK
<1>6. SameKey'
  BY DEF Cancel, SameKey, Active, TypeOK
<1>7. EmptyChan'
  BY DEF Cancel, EmptyChan, TypeOK
<1>8. NoSetter'
  BY DEF Cancel, NoSetter, TypeOK
<1>9. MonotonicReads'
  BY DEF Cancel, MonotonicReads, TypeOK
<1> QED BY <1>1, <1>2, <1>3, <1>4, <1>5, <1>6, <1>7, <1>8, <1>9

(* MInv is preserved when an entry is removed. *)
LEMMA MInvalidate ==
  ASSUME IInv, IInv', MInv, NEW k \in Keys, Invalidate(k)
  PROVE  MInv'
<1> USE DEF IInv, MInv
<1>1. Past'
  BY DEF Invalidate, Past, NoneNewer, EntryNoNewer, TypeOK
<1>2. EntryNewest'
  BY DEF Invalidate, EntryNewest, NoneNewer, TypeOK
<1>3. FetchedNewest'
  BY DEF Invalidate, FetchedNewest, NoneNewer, EntryNoNewer, TypeOK
<1>4. SettledNewest'
  BY DEF Invalidate, SettledNewest, NoneNewer, TypeOK
<1>5. Floors'
  BY DEF Invalidate, Floors, TypeOK
<1>6. SameKey'
  BY DEF Invalidate, SameKey, Active, TypeOK
<1>7. EmptyChan'
  BY DEF Invalidate, EmptyChan, TypeOK
<1>8. NoSetter'
  BY DEF Invalidate, NoSetter, TypeOK
<1>9. MonotonicReads'
  BY DEF Invalidate, MonotonicReads, TypeOK
<1> QED BY <1>1, <1>2, <1>3, <1>4, <1>5, <1>6, <1>7, <1>8, <1>9

(* MInv is preserved when time passes. *)
LEMMA MTick ==
  ASSUME IInv, IInv', MInv, Tick
  PROVE  MInv'
<1> USE DEF IInv, MInv
<1>1. Past'
  BY DEF Tick, Past, NoneNewer, EntryNoNewer, TypeOK, CallData, ReplyOK,
         Reply, Entry, Flight, FlightData
<1>2. EntryNewest'
  BY DEF Tick, EntryNewest, NoneNewer, TypeOK
<1>3. FetchedNewest'
  BY DEF Tick, FetchedNewest, NoneNewer, EntryNoNewer, TypeOK, CallData,
         ReplyOK, Reply, Entry, Flight, FlightData
<1>4. SettledNewest'
  BY DEF Tick, SettledNewest, NoneNewer, TypeOK, CallData, ReplyOK, Reply,
         Entry, Flight, FlightData
<1>5. Floors'
  BY DEF Tick, Floors, TypeOK
<1>6. SameKey'
  BY DEF Tick, SameKey, Active, TypeOK
<1>7. EmptyChan'
  BY DEF Tick, EmptyChan, TypeOK
<1>8. NoSetter'
  BY DEF Tick, NoSetter, TypeOK
<1>9. MonotonicReads'
  BY DEF Tick, MonotonicReads, TypeOK
<1> QED BY <1>1, <1>2, <1>3, <1>4, <1>5, <1>6, <1>7, <1>8, <1>9

(* MInv is preserved by every way the fetcher may end. *)
LEMMA MFetcherStep ==
  ASSUME IInv, IInv', MInv, NEW l \in Callers, FetcherStep(l)
  PROVE  MInv'
<1>1. CASE \E v \in Values : FetcherReturns(l, v)
  BY <1>1, MFetcherEnds DEF FetcherReturns
<1>2. CASE \E e \in Errors : FetcherFails(l, e)
  BY <1>2, MFetcherEnds DEF FetcherFails
<1>3. CASE FetcherAborts(l)
  BY <1>3, MFetcherEnds DEF FetcherAborts
<1> QED BY <1>1, <1>2, <1>3 DEF FetcherStep

(* MInv is preserved by every step if nobody calls SetWithTTL. *)
LEMMA MNext ==
  ASSUME IInv, IInv', MInv, Setters = {}, [Next]_vars
  PROVE  MInv'
<1>1. ASSUME NEW c \in Callers, NEW k \in Keys, Begin(c, k) PROVE MInv'
  BY <1>1, MBegin
<1>2. ASSUME NEW c \in Callers, CallerStep(c) PROVE MInv'
  BY <1>2, MLookupHit, MLookupMiss, MJoinFlight, MStartFlight, MReceive, MReturnCtxErr
  DEF CallerStep
<1>3. ASSUME NEW l \in Callers, GoroutineStep(l) PROVE MInv'
  BY <1>3, MFetcherStep, MStore, MServeStale, MServeError, MDeliver DEF GoroutineStep
<1>4. ASSUME NEW c \in Callers, Cancel(c) PROVE MInv'
  BY <1>4, MCancel
<1>5. ASSUME NEW c \in Callers, SetStamp(c) \/ SetStore(c) PROVE FALSE
  BY <1>5 DEF SetStamp, SetStore, MInv, NoSetter
<1>6. ASSUME NEW k \in Keys, Invalidate(k) PROVE MInv'
  BY <1>6, MInvalidate
<1>7. CASE Tick
  BY <1>7, MTick
<1>8. CASE UNCHANGED vars
  BY <1>8
  DEF vars, MInv, Past, EntryNewest, FetchedNewest, SettledNewest, Floors, SameKey,
      EmptyChan, NoSetter, MonotonicReads, NoneNewer, EntryNoNewer, Active
<1> QED
  BY <1>1, <1>2, <1>3, <1>4, <1>5, <1>6, <1>7, <1>8 DEF Next

(* As long as nobody calls SetWithTTL (the search cache's use of Cache),   *)
(* answers never go back in time.                                          *)
THEOREM AnswersMonotonic ==
  ASSUME Setters = {}
  PROVE  Spec => []MonotonicReads
<1>1. Init => MInv
  BY MInit
<1>2. IInv /\ IInv' /\ MInv /\ [Next]_vars => MInv'
  BY MNext
<1>3. MInv => MonotonicReads
  BY DEF MInv
<1> QED BY <1>1, <1>2, <1>3, Invariance, PTL DEF Spec
=============================================================================
