---------------------------- MODULE ReadThrough ----------------------------
(***************************************************************************)
(* What Cache promises to its callers (the comment of Fetch and of         *)
(* SetWithTTL in internal/cache/cache.go), without goroutines, leaders,    *)
(* singleflight or the points where a clock is read.                       *)
(*                                                                         *)
(* A call is answered from an entry that had not expired when the call     *)
(* began, or it takes part in a round for its key.  At most one round per  *)
(* key is open.  A round lands a new value, falls back on an expired entry *)
(* or fails, and everyone in it is offered the same outcome.               *)
(***************************************************************************)
EXTENDS Integers

CONSTANTS Callers, Keys, Values, Errors, AbortErr, CtxErr, Setters,
          TTL, StaleWindow, LongTTL, MaxTime, None

VARIABLES
  now,
  items,      \* the entry of each key, or None
  round,      \* per key: its members, none if no round is open, and its outcome
  client,     \* per call: how far it is, since when, and its answer
  offer,      \* per call: the outcome of the round it took part in, or None
  cancelled

vars == <<now, items, round, client, offer, cancelled>>

NoRound == [members |-> {}, outcome |-> None]

Init ==
  /\ now = 0
  /\ items = [k \in Keys |-> None]
  /\ round = [k \in Keys |-> NoRound]
  /\ client = [c \in Callers |-> [status |-> "idle", key |-> None, since |-> 0, reply |-> None]]
  /\ offer = [c \in Callers |-> None]
  /\ cancelled = {}

Answered(c, r) ==
  client' = [client EXCEPT ![c] =
               [@ EXCEPT !.status = "answered", !.reply = r]]

FromEntry(e, tag) == [tag |-> tag, data |-> e.value, fetchedAt |-> e.fetchedAt]

Failure(e) == [tag |-> "error", data |-> e, fetchedAt |-> 0]

Ask(c, k) ==
  /\ client[c].status = "idle"
  /\ client' = [client EXCEPT ![c] = [@ EXCEPT !.status = "asking", !.key = k, !.since = now]]
  /\ UNCHANGED <<now, items, round, offer, cancelled>>

Hit(c) ==
  LET e == items[client[c].key] IN
  /\ client[c].status = "asking"
  /\ e # None
  /\ client[c].since < e.expiresAt
  /\ Answered(c, FromEntry(e, "cached"))
  /\ UNCHANGED <<now, items, round, offer, cancelled>>

Enter(c) ==
  LET k == client[c].key IN
  /\ client[c].status = "asking"
  /\ client' = [client EXCEPT ![c].status = "waiting"]
  /\ round' = [round EXCEPT ![k].members = @ \cup {c}]
  /\ UNCHANGED <<now, items, offer, cancelled>>

-----------------------------------------------------------------------------
Undecided(k) == round[k].members # {} /\ round[k].outcome = None

Decide(k, r) == round' = [round EXCEPT ![k].outcome = r]

(* A moment of the round: not before the first of its members asked. *)
During(k, t) == t <= now /\ \E c \in round[k].members : t >= client[c].since

Land(k, v, t) ==
  LET e == [value |-> v, fetchedAt |-> t, expiresAt |-> t + TTL] IN
  /\ Undecided(k)
  /\ During(k, t)
  /\ items' = [items EXCEPT ![k] = e]
  /\ Decide(k, FromEntry(e, "live"))
  /\ UNCHANGED <<now, client, offer, cancelled>>

Usable(k, t) ==
  /\ items[k] # None
  /\ t > items[k].expiresAt
  /\ t < items[k].expiresAt + StaleWindow

Fallback(k, t) ==
  /\ Undecided(k)
  /\ During(k, t)
  /\ Usable(k, t)
  /\ Decide(k, FromEntry(items[k], "stale_fallback"))
  /\ UNCHANGED <<now, items, client, offer, cancelled>>

(* A round fails if the upstream does, or if a member was cancelled. *)
Fail(k, e, t) ==
  /\ Undecided(k)
  /\ During(k, t)
  /\ ~Usable(k, t)
  /\ e \in Errors \/ (e = AbortErr /\ round[k].members \cap cancelled # {})
  /\ Decide(k, Failure(e))
  /\ UNCHANGED <<now, items, client, offer, cancelled>>

Close(k) ==
  /\ round[k].members # {}
  /\ round[k].outcome # None
  /\ offer' = [c \in Callers |-> IF c \in round[k].members THEN round[k].outcome ELSE offer[c]]
  /\ round' = [round EXCEPT ![k] = NoRound]
  /\ UNCHANGED <<now, items, client, cancelled>>

-----------------------------------------------------------------------------
Accept(c) ==
  /\ client[c].status = "waiting"
  /\ offer[c] # None
  /\ Answered(c, offer[c])
  /\ offer' = [offer EXCEPT ![c] = None]
  /\ UNCHANGED <<now, items, round, cancelled>>

GiveUp(c) ==
  /\ client[c].status = "waiting"
  /\ c \in cancelled
  /\ Answered(c, Failure(CtxErr))
  /\ UNCHANGED <<now, items, round, offer, cancelled>>

Cancel(c) ==
  /\ client[c].status \in {"asking", "waiting"}
  /\ c \notin cancelled
  /\ cancelled' = cancelled \cup {c}
  /\ UNCHANGED <<now, items, round, client, offer>>

Extend(c, t) ==
  /\ c \in Setters
  /\ client[c].status = "answered"
  /\ client[c].reply.tag = "live"
  /\ client[c].reply.fetchedAt <= t /\ t <= now
  /\ items' = [items EXCEPT ![client[c].key] =
                 [value |-> client[c].reply.data, fetchedAt |-> t, expiresAt |-> t + LongTTL]]
  /\ client' = [client EXCEPT ![c].status = "written"]
  /\ UNCHANGED <<now, round, offer, cancelled>>

Drop(k) ==
  /\ items[k] # None
  /\ items' = [items EXCEPT ![k] = None]
  /\ UNCHANGED <<now, round, client, offer, cancelled>>

Tick ==
  /\ now < MaxTime
  /\ now' = now + 1
  /\ UNCHANGED <<items, round, client, offer, cancelled>>

-----------------------------------------------------------------------------
ClientStep(c) == Hit(c) \/ Enter(c) \/ Accept(c) \/ GiveUp(c)

RoundStep(k) ==
  \/ \E t \in 0..MaxTime :
       \/ \E v \in Values : Land(k, v, t)
       \/ Fallback(k, t)
       \/ \E e \in Errors \cup {AbortErr} : Fail(k, e, t)
  \/ Close(k)

Next ==
  \/ \E c \in Callers :
       \/ \E k \in Keys : Ask(c, k)
       \/ ClientStep(c)
       \/ Cancel(c)
       \/ \E t \in 0..MaxTime : Extend(c, t)
  \/ \E k \in Keys : RoundStep(k) \/ Drop(k)
  \/ Tick

Spec == Init /\ [][Next]_vars

(* Everyone is answered and every round ends. *)
FairSpec ==
  /\ Spec
  /\ \A c \in Callers : WF_vars(ClientStep(c))
  /\ \A k \in Keys : WF_vars(RoundStep(k))
=============================================================================
