------------------------------ MODULE TTLCache ------------------------------
(***************************************************************************)
(* The generic TTL cache of internal/cache/cache.go: Fetch, SetWithTTL and *)
(* Invalidate, with the singleflight group it coalesces fetches through.   *)
(*                                                                         *)
(* A caller is one call of Fetch.  When a call misses it asks singleflight *)
(* for the key: either it joins the call registered for that key or it     *)
(* registers one of its own and a goroutine is started.  A goroutine is    *)
(* named by the caller that started it (its leader), because it runs with  *)
(* that caller's context.  Callers, goroutines and the clock interleave    *)
(* freely; an action is what happens between two points where another      *)
(* goroutine can get in between (a read of the clock, a critical section   *)
(* of c.mu, one of singleflight's mutex, a channel operation).             *)
(***************************************************************************)
EXTENDS Integers

CONSTANTS
  Callers,      \* calls of Fetch, each made at most once
  Keys,         \* cache keys
  Values,       \* what the fetcher may return
  Errors,       \* errors the upstream may answer with; {} if it never fails
  AbortErr,     \* what the fetcher returns when its context is cancelled
  CtxErr,       \* ctx.Err()
  Setters,      \* callers that call SetWithTTL after a live answer
  TTL,          \* Config.TTL
  StaleWindow,  \* Config.StaleWindow
  LongTTL,      \* the ttl given to SetWithTTL
  MaxTime,      \* bound on the clock
  None          \* an absent entry, leader, key or reply

(* Config is not validated: a window may be zero or negative. *)
ASSUME TimeAssumption ==
  /\ {TTL, StaleWindow, LongTTL} \subseteq Int
  /\ MaxTime \in Nat

ASSUME SetterAssumption == Setters \subseteq Callers

VARIABLES
  now,        \* the wall clock
  items,      \* Cache.items: the entry of each key, or None
  group,      \* Cache.sf: the leader of the call registered for each key, or None
  flight,     \* the goroutine each caller started, if it did
  call,       \* the local state of each Fetch call
  chan,       \* the buffered channel DoChan gave to each caller
  cancelled,  \* callers whose context is done
  high        \* history: the newest FetchedAt returned so far, per key

vars == <<now, items, group, flight, call, chan, cancelled, high>>

Failures == Errors \cup {AbortErr, CtxErr}

Entry == [value : Values, fetchedAt : Nat, expiresAt : Int]

(* A Response[T] with its freshness tag, or an error. *)
Reply == [tag : {"live", "cached", "stale_fallback", "error"},
          data : Values \cup Failures, fetchedAt : Nat]

ASSUME NoneAssumption ==
  /\ None \notin Callers /\ None \notin Keys
  /\ None \notin Entry /\ None \notin Reply

Stages == {"unborn", "fetching", "fetched", "failed", "settled", "over"}

Flight == [stage : Stages,
           waiters : SUBSET Callers,             \* the channels of the call
           got : Values \cup Failures \cup {None},  \* val or fetchErr
           ts : Nat,                             \* ts or staleNow
           out : Reply \cup {None}]              \* what the goroutine returns

Call == [pc : {"idle", "lookup", "dochan", "select", "returned",
               "stamped", "done"},
         key : Keys \cup {None},
         at : Nat,                               \* the clock when Fetch began
         stamp : Nat,                            \* the clock when SetWithTTL began
         reply : Reply \cup {None},
         floor : Nat]       \* history: high[key] when the call began

Unborn == [stage |-> "unborn", waiters |-> {}, got |-> None, ts |-> 0, out |-> None]

Init ==
  /\ now = 0
  /\ items = [k \in Keys |-> None]
  /\ group = [k \in Keys |-> None]
  /\ flight = [l \in Callers |-> Unborn]
  /\ call = [c \in Callers |-> [pc |-> "idle", key |-> None, at |-> 0,
                                stamp |-> 0, reply |-> None, floor |-> 0]]
  /\ chan = [c \in Callers |-> None]
  /\ cancelled = {}
  /\ high = [k \in Keys |-> 0]

-----------------------------------------------------------------------------
(* A call that hands r back to its caller. *)
Return(c, r) ==
  LET k == call[c].key IN
  /\ call' = [call EXCEPT ![c] = [@ EXCEPT !.pc = "returned", !.reply = r]]
  /\ high' = [high EXCEPT ![k] = IF r.fetchedAt > @ THEN r.fetchedAt ELSE @]

(* fault: an error answered as the zero fetchResult, without the error *)
FailureLost(e) == [tag |-> "error", data |-> None, fetchedAt |-> 0]

Failure(e) == [tag |-> "error", data |-> e, fetchedAt |-> 0]

FromEntry(e, tag) == [tag |-> tag, data |-> e.value, fetchedAt |-> e.fetchedAt]

Fresh(k, t) == items[k] # None /\ t < items[k].expiresAt

Begin(c, k) ==
  /\ call[c].pc = "idle"
  /\ call' = [call EXCEPT ![c] = [@ EXCEPT !.pc = "lookup", !.key = k,
                                           !.at = now, !.floor = high[k]]]
  /\ UNCHANGED <<now, items, group, flight, chan, cancelled, high>>

LookupHit(c) ==
  LET k == call[c].key IN
  /\ call[c].pc = "lookup"
  /\ Fresh(k, call[c].at)
  /\ Return(c, FromEntry(items[k], "cached"))
  /\ UNCHANGED <<now, items, group, flight, chan, cancelled>>

LookupMiss(c) ==
  /\ call[c].pc = "lookup"
  /\ ~Fresh(call[c].key, call[c].at)
  /\ call' = [call EXCEPT ![c].pc = "dochan"]
  /\ UNCHANGED <<now, items, group, flight, chan, cancelled, high>>

(* fault: a call that joins a settled flight gets no channel from it *)
JoinFlightLate(c) ==
  LET l == group[call[c].key] IN
  /\ call[c].pc = "dochan"
  /\ l # None
  /\ flight' = [flight EXCEPT ![l].waiters =
                  IF flight[l].stage = "settled" THEN @ ELSE @ \cup {c}]
  /\ call' = [call EXCEPT ![c].pc = "select"]
  /\ UNCHANGED <<now, items, group, chan, cancelled, high>>

JoinFlight(c) ==
  LET l == group[call[c].key] IN
  /\ call[c].pc = "dochan"
  /\ l # None
  /\ flight' = [flight EXCEPT ![l].waiters = @ \cup {c}]
  /\ call' = [call EXCEPT ![c].pc = "select"]
  /\ UNCHANGED <<now, items, group, chan, cancelled, high>>

(* fault: a miss starts a fetch of its own, whatever is registered *)
StartFlightUncoalesced(c) ==
  /\ call[c].pc = "dochan"
  /\ group' = [group EXCEPT ![call[c].key] = c]
  /\ flight' = [flight EXCEPT ![c] = [@ EXCEPT !.stage = "fetching", !.waiters = {c}]]
  /\ call' = [call EXCEPT ![c].pc = "select"]
  /\ UNCHANGED <<now, items, chan, cancelled, high>>

StartFlight(c) ==
  LET k == call[c].key IN
  /\ call[c].pc = "dochan"
  /\ group[k] = None
  /\ group' = [group EXCEPT ![k] = c]
  /\ flight' = [flight EXCEPT ![c] = [@ EXCEPT !.stage = "fetching", !.waiters = {c}]]
  /\ call' = [call EXCEPT ![c].pc = "select"]
  /\ UNCHANGED <<now, items, chan, cancelled, high>>

-----------------------------------------------------------------------------
(* The goroutine.  The fetcher runs with the leader's context, so that it  *)
(* may fail with AbortErr once the leader is cancelled.                    *)
FetcherEnds(l, stage, x) ==
  /\ flight[l].stage = "fetching"
  /\ flight' = [flight EXCEPT ![l] = [@ EXCEPT !.stage = stage, !.got = x, !.ts = now]]
  /\ UNCHANGED <<now, items, group, call, chan, cancelled, high>>

(* fault: the key is forgotten when the fetcher returns, before the entry is stored *)
FetcherReturnsForgetting(l, v) ==
  /\ flight[l].stage = "fetching"
  /\ flight' = [flight EXCEPT ![l] = [@ EXCEPT !.stage = "fetched", !.got = v, !.ts = now]]
  /\ group' = [group EXCEPT ![call[l].key] = None]
  /\ UNCHANGED <<now, items, call, chan, cancelled, high>>

FetcherReturns(l, v) == FetcherEnds(l, "fetched", v)

FetcherFails(l, e) == FetcherEnds(l, "failed", e)

FetcherAborts(l) == l \in cancelled /\ FetcherEnds(l, "failed", AbortErr)

Settle(l, r) ==
  flight' = [flight EXCEPT ![l] = [@ EXCEPT !.stage = "settled", !.out = r]]

Store(l) ==
  LET f == flight[l]
      e == [value |-> f.got, fetchedAt |-> f.ts, expiresAt |-> f.ts + TTL] IN
  /\ f.stage = "fetched"
  /\ items' = [items EXCEPT ![call[l].key] = e]
  /\ Settle(l, FromEntry(e, "live"))
  /\ UNCHANGED <<now, group, call, chan, cancelled, high>>

(* fault: an expired entry stays usable for ever *)
InStaleWindowUnbounded(k, t) == items[k] # None /\ t > items[k].expiresAt

InStaleWindow(k, t) ==
  /\ items[k] # None
  /\ t > items[k].expiresAt
  /\ t < items[k].expiresAt + StaleWindow

ServeStale(l) ==
  LET k == call[l].key IN
  /\ flight[l].stage = "failed"
  /\ InStaleWindow(k, flight[l].ts)
  /\ Settle(l, FromEntry(items[k], "stale_fallback"))
  /\ UNCHANGED <<now, items, group, call, chan, cancelled, high>>

(* fault: the error is answered only if there is no entry, usable or not *)
ServeErrorIfNoEntry(l) ==
  /\ flight[l].stage = "failed"
  /\ items[call[l].key] = None
  /\ Settle(l, Failure(flight[l].got))
  /\ UNCHANGED <<now, items, group, call, chan, cancelled, high>>

ServeError(l) ==
  /\ flight[l].stage = "failed"
  /\ ~InStaleWindow(call[l].key, flight[l].ts)
  /\ Settle(l, Failure(flight[l].got))
  /\ UNCHANGED <<now, items, group, call, chan, cancelled, high>>

(* fault: the results are sent but the key stays registered *)
DeliverKeepingKey(l) ==
  /\ flight[l].stage = "settled"
  /\ chan' = [c \in Callers |-> IF c \in flight[l].waiters THEN flight[l].out ELSE chan[c]]
  /\ flight' = [flight EXCEPT ![l] = [Unborn EXCEPT !.stage = "over"]]
  /\ UNCHANGED <<now, items, group, call, cancelled, high>>

(* singleflight's doCall: under its mutex the call is unregistered and its *)
(* result sent to every channel, which has room for it.                    *)
Deliver(l) ==
  LET f == flight[l] IN
  /\ f.stage = "settled"
  /\ group' = [group EXCEPT ![call[l].key] = None]
  /\ chan' = [c \in Callers |-> IF c \in f.waiters THEN f.out ELSE chan[c]]
  /\ flight' = [flight EXCEPT ![l] = [Unborn EXCEPT !.stage = "over"]]
  /\ UNCHANGED <<now, items, call, cancelled, high>>

-----------------------------------------------------------------------------
(* The select of Fetch: with both cases ready Go picks either.             *)
Receive(c) ==
  /\ call[c].pc = "select"
  /\ chan[c] # None
  /\ Return(c, chan[c])
  /\ chan' = [chan EXCEPT ![c] = None]
  /\ UNCHANGED <<now, items, group, flight, cancelled>>

ReturnCtxErr(c) ==
  /\ call[c].pc = "select"
  /\ c \in cancelled
  /\ Return(c, Failure(CtxErr))
  /\ UNCHANGED <<now, items, group, flight, chan, cancelled>>

(* The client withdraws a request, or its connection goes away. *)
Cancel(c) ==
  /\ call[c].pc \in {"lookup", "dochan", "select"}
  /\ c \notin cancelled
  /\ cancelled' = cancelled \cup {c}
  /\ UNCHANGED <<now, items, group, flight, call, chan, high>>

-----------------------------------------------------------------------------
(* SetWithTTL reads the clock before it takes the lock. *)
SetStamp(c) ==
  /\ c \in Setters
  /\ call[c].pc = "returned"
  /\ call[c].reply.tag = "live"
  /\ call' = [call EXCEPT ![c] = [@ EXCEPT !.pc = "stamped", !.stamp = now]]
  /\ UNCHANGED <<now, items, group, flight, chan, cancelled, high>>

SetStore(c) ==
  LET t == call[c].stamp IN
  /\ call[c].pc = "stamped"
  /\ items' = [items EXCEPT ![call[c].key] =
                 [value |-> call[c].reply.data, fetchedAt |-> t, expiresAt |-> t + LongTTL]]
  /\ call' = [call EXCEPT ![c].pc = "done"]
  /\ UNCHANGED <<now, group, flight, chan, cancelled, high>>

Invalidate(k) ==
  /\ items[k] # None
  /\ items' = [items EXCEPT ![k] = None]
  /\ UNCHANGED <<now, group, flight, call, chan, cancelled, high>>

Tick ==
  /\ now < MaxTime
  /\ now' = now + 1
  /\ UNCHANGED <<items, group, flight, call, chan, cancelled, high>>

-----------------------------------------------------------------------------
CallerStep(c) ==
  \/ LookupHit(c) \/ LookupMiss(c)
  \/ JoinFlight(c) \/ StartFlight(c)
  \/ Receive(c) \/ ReturnCtxErr(c)

FetcherStep(l) ==
  \/ \E v \in Values : FetcherReturns(l, v)
  \/ \E e \in Errors : FetcherFails(l, e)
  \/ FetcherAborts(l)

GoroutineStep(l) ==
  \/ FetcherStep(l)
  \/ Store(l) \/ ServeStale(l) \/ ServeError(l) \/ Deliver(l)

Next ==
  \/ \E c \in Callers :
       \/ \E k \in Keys : Begin(c, k)
       \/ CallerStep(c)
       \/ GoroutineStep(c)
       \/ Cancel(c)
       \/ SetStamp(c) \/ SetStore(c)
  \/ \E k \in Keys : Invalidate(k)
  \/ Tick

Spec == Init /\ [][Next]_vars

(* Go schedules every runnable goroutine, and a fetch ends by itself: the  *)
(* browser bounds both of its waits with a timer.  Nobody has to call      *)
(* Fetch, cancel, invalidate or let time pass.                             *)
Fairness == \A c \in Callers : WF_vars(CallerStep(c)) /\ WF_vars(GoroutineStep(c))

FairSpec == Spec /\ Fairness

-----------------------------------------------------------------------------
TypeOK ==
  /\ now \in Nat
  /\ items \in [Keys -> Entry \cup {None}]
  /\ group \in [Keys -> Callers \cup {None}]
  /\ flight \in [Callers -> Flight]
  /\ call \in [Callers -> Call]
  /\ chan \in [Callers -> Reply \cup {None}]
  /\ cancelled \in SUBSET Callers
  /\ high \in [Keys -> Nat]

Active(l) == flight[l].stage \in {"fetching", "fetched", "failed", "settled"}

(* Fetch coalesces: whatever the interleaving of misses, joins, abandoned  *)
(* calls and deliveries, at most one goroutine fetches a key at a time.    *)
OneFetchPerKey ==
  \A l, m \in Callers :
    Active(l) /\ Active(m) /\ call[l].key = call[m].key => l = m

(* Nobody waits for an answer that will not come: a call blocked in the    *)
(* select has its result in the channel, or its channel is one of those of *)
(* the call still registered for its key, whose goroutine still runs.      *)
NoOrphanWaiter ==
  \A c \in Callers :
    call[c].pc = "select" =>
      \/ chan[c] # None
      \/ LET l == group[call[c].key] IN
           l # None /\ Active(l) /\ c \in flight[l].waiters

(* Answers never go back in time: a call that begins after another call    *)
(* for its key has returned data fetched at t is never answered with data  *)
(* fetched before t, be it live, cached or a stale fallback.               *)
MonotonicReads ==
  \A c \in Callers :
    /\ call[c].pc = "returned"
    /\ call[c].reply.tag # "error"
    => call[c].reply.fetchedAt >= call[c].floor

(* Every call of Fetch returns: no lost wake-up, no call stuck behind a    *)
(* goroutine that has gone, cancelled leaders included.                    *)
EveryCallReturns ==
  \A c \in Callers : call[c].pc = "lookup" ~> call[c].pc = "returned"

-----------------------------------------------------------------------------
(* What cache.go and its tests say and the code does not do.               *)

(* With an upstream that always answers, only a call that was cancelled    *)
(* itself gets an error: cancelling a call does not disturb the fetch that *)
(* others have joined.  The fetch runs with its leader's context, though.  *)
LeaderCancelSparesJoiners ==
  \A c \in Callers :
    call[c].pc = "returned" /\ call[c].reply.tag = "error" => c \in cancelled

(* Concurrent calls for a key fetch it once: no fetch starts while the     *)
(* entry is fresh.  A call that missed before the entry was stored may     *)
(* reach DoChan after the flight is over, and nothing looks again.         *)
NoFetchWhileFresh ==
  [][\A c \in Callers :
       flight[c].stage = "unborn" /\ flight'[c].stage = "fetching"
         => ~Fresh(call[c].key, now)]_vars
=============================================================================
