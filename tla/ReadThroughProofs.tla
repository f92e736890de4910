-------------------------- MODULE ReadThroughProofs --------------------------
(***************************************************************************)
(* Proofs about the read-through contract, for any callers, keys, values   *)
(* and durations.  Tools is proved from them, once for each of its caches. *)
(*                                                                         *)
(* What everyone in a round is offered is a value or an error of the       *)
(* upstream; the error of a context goes to nobody but the call whose      *)
(* context it is.                                                          *)
(***************************************************************************)
EXTENDS ReadThrough, TLAPS

Faults == Errors \cup {AbortErr}

Entries == [value : Values, fetchedAt : Nat, expiresAt : Int]

Responses == [tag : {"live", "cached", "stale_fallback"}, data : Values, fetchedAt : Nat]
Failed == [tag : {"error"}, data : Faults \cup {CtxErr}, fetchedAt : Nat]
Replies == Responses \cup Failed

Statuses == {"idle", "asking", "waiting", "answered", "written"}

Clients == [status : Statuses, key : Keys \cup {None}, since : Nat, reply : Replies \cup {None}]

Rounds == [members : SUBSET Callers, outcome : Replies \cup {None}]

(* What a user of the contract has to know of its constants. *)
Sound ==
  /\ TTL \in Int /\ LongTTL \in Int /\ MaxTime \in Nat
  /\ None \notin Entries /\ None \notin Replies

RTypeOK ==
  /\ now \in 0..MaxTime
  /\ items \in [Keys -> Entries \cup {None}]
  /\ round \in [Keys -> Rounds]
  /\ client \in [Callers -> Clients]
  /\ offer \in [Callers -> Replies \cup {None}]
  /\ cancelled \in SUBSET Callers

(* What a round may be decided on. *)
IsOutcome(r) ==
  /\ r.tag \in {"live", "stale_fallback", "error"}
  /\ IF r.tag = "error" THEN r.data \in Faults ELSE r.data \in Values

(* What c may be answered with. *)
IsAnswer(c, r) ==
  IF r.tag = "error"
  THEN r.data \in Faults \/ (r.data = CtxErr /\ c \in cancelled)
  ELSE r.data \in Values

Begun(c) == client[c].status # "idle"
Entered(c) == client[c].status \notin {"idle", "asking"}
Ended(c) == client[c].status \in {"answered", "written"}

ClientsOK ==
  \A c \in Callers :
    /\ Begun(c) => client[c].key \in Keys
    /\ Ended(c) => client[c].reply # None /\ IsAnswer(c, client[c].reply)
    /\ ~Ended(c) => client[c].reply = None

RoundsOK ==
  \A k \in Keys :
    /\ round[k].outcome # None => IsOutcome(round[k].outcome)
    /\ \A c \in round[k].members : Entered(c) /\ client[c].key = k

OffersOK ==
  \A c \in Callers : offer[c] # None => IsOutcome(offer[c]) /\ Entered(c)

RInv == RTypeOK /\ ClientsOK /\ RoundsOK /\ OffersOK

-----------------------------------------------------------------------------
(* Nobody has asked in the initial states. *)
LEMMA RInit ==
  ASSUME Sound, Init
  PROVE  RInv
  BY DEF Sound, Init, RInv, RTypeOK, ClientsOK, RoundsOK, OffersOK, NoRound, Begun, Entered, Ended,
         Rounds, Clients, Statuses

(* Replacing the record of one client keeps the type of client. *)
LEMMA ClientUpdate ==
  ASSUME client \in [Callers -> Clients], NEW c \in Callers, NEW r \in Clients,
         client' = [client EXCEPT ![c] = r]
  PROVE  client' \in [Callers -> Clients]
  OBVIOUS

(* The same for one round. *)
LEMMA RoundUpdate ==
  ASSUME round \in [Keys -> Rounds], NEW k \in Keys, NEW r \in Rounds,
         round' = [round EXCEPT ![k] = r]
  PROVE  round' \in [Keys -> Rounds]
  OBVIOUS

-----------------------------------------------------------------------------
(* One lemma per action: it preserves RInv. *)

(* A client that asks names a key. *)
LEMMA RAsk ==
  ASSUME RInv, NEW c \in Callers, NEW k \in Keys, Ask(c, k)
  PROVE  RInv'
<1> USE DEF RInv
<1>1. RTypeOK'
  <2>1. client[c] \in Clients /\ now \in Nat
    BY DEF RTypeOK
  <2>2. [client[c] EXCEPT !.status = "asking", !.key = k, !.since = now] \in Clients
    BY ONLY <2>1, k \in Keys DEF Clients, Statuses
  <2>3. client' \in [Callers -> Clients]
    BY <2>2, ClientUpdate DEF Ask, RTypeOK
  <2> QED BY <2>3 DEF Ask, RTypeOK
<1>2. ClientsOK'
  BY DEF Ask, RTypeOK, Clients, ClientsOK, Begun, Ended, IsAnswer
<1>3. RoundsOK'
  BY DEF Ask, RTypeOK, Clients, Rounds, RoundsOK, Entered, IsOutcome
<1>4. OffersOK'
  BY DEF Ask, RTypeOK, Clients, OffersOK, Entered, IsOutcome
<1> QED BY <1>1, <1>2, <1>3, <1>4

(* An answer is of a kind the client may get. *)
LEMMA RAnswered ==
  ASSUME RInv, NEW c \in Callers, NEW r \in Replies, IsAnswer(c, r), None \notin Replies,
         Begun(c), Answered(c, r),
         UNCHANGED <<now, items, round, cancelled>>,
         offer' = offer \/ offer' = [offer EXCEPT ![c] = None]
  PROVE  RInv'
<1> USE DEF RInv
<1>1. RTypeOK'
  <2>1. client[c] \in Clients
    BY DEF RTypeOK
  <2>2. [client[c] EXCEPT !.status = "answered", !.reply = r] \in Clients
    BY ONLY <2>1, r \in Replies DEF Clients, Statuses
  <2>3. client' \in [Callers -> Clients]
    BY <2>2, ClientUpdate DEF Answered, RTypeOK
  <2> QED BY <2>3 DEF RTypeOK
<1>2. ClientsOK'
  BY DEF Answered, RTypeOK, Clients, ClientsOK, Begun, Ended, IsAnswer
<1>3. RoundsOK'
  BY DEF Answered, RTypeOK, Clients, Rounds, RoundsOK, Entered, IsOutcome
<1>4. OffersOK'
  BY DEF Answered, RTypeOK, Clients, OffersOK, Entered, IsOutcome
<1> QED BY <1>1, <1>2, <1>3, <1>4

(* An unexpired entry is a value. *)
LEMMA RHit ==
  ASSUME Sound, RInv, NEW c \in Callers, Hit(c)
  PROVE  RInv'
<1>1. /\ client[c].key \in Keys /\ Begun(c)
      /\ items[client[c].key] \in Entries
  BY DEF Hit, RInv, ClientsOK, Begun, RTypeOK
<1>2. /\ FromEntry(items[client[c].key], "cached") \in Replies
      /\ IsAnswer(c, FromEntry(items[client[c].key], "cached"))
  BY <1>1 DEF FromEntry, Entries, Replies, Responses, IsAnswer
<1> QED BY <1>1, <1>2, RAnswered DEF Hit, Sound

(* A client enters the round of its key. *)
LEMMA REnter ==
  ASSUME RInv, NEW c \in Callers, Enter(c)
  PROVE  RInv'
<1> USE DEF RInv
<1>k. PICK k \in Keys : k = client[c].key
  BY DEF Enter, ClientsOK, Begun
<1>f. /\ client' = [client EXCEPT ![c].status = "waiting"]
      /\ round' = [round EXCEPT ![k].members = @ \cup {c}]
      /\ client[c].status = "asking"
      /\ UNCHANGED <<now, items, offer, cancelled>>
  BY <1>k DEF Enter
<1>1. RTypeOK'
  <2>1. client[c] \in Clients /\ round[k] \in Rounds
    BY DEF RTypeOK
  <2>2. [client[c] EXCEPT !.status = "waiting"] \in Clients
    BY ONLY <2>1 DEF Clients, Statuses
  <2>3. [round[k] EXCEPT !.members = @ \cup {c}] \in Rounds
    BY ONLY <2>1, c \in Callers DEF Rounds
  <2>4. client' \in [Callers -> Clients]
    BY <2>2, <1>f, ClientUpdate DEF RTypeOK
  <2>5. round' \in [Keys -> Rounds]
    BY <2>3, <1>f, RoundUpdate DEF RTypeOK
  <2> QED BY <2>4, <2>5, <1>f DEF RTypeOK
<1>2. ClientsOK'
  BY <1>f DEF RTypeOK, Clients, ClientsOK, Begun, Ended, IsAnswer
<1>3. RoundsOK'
  BY <1>f, <1>k DEF RTypeOK, Clients, Rounds, RoundsOK, Entered, IsOutcome
<1>4. OffersOK'
  BY <1>f DEF RTypeOK, Clients, OffersOK, Entered, IsOutcome
<1> QED BY <1>1, <1>2, <1>3, <1>4

(* A round is decided on a value or an error of the upstream. *)
LEMMA RDecide ==
  ASSUME RInv, NEW k \in Keys, NEW r \in Replies, IsOutcome(r), Decide(k, r),
         items' \in [Keys -> Entries \cup {None}],
         UNCHANGED <<now, client, offer, cancelled>>
  PROVE  RInv'
<1> USE DEF RInv
<1>1. RTypeOK'
  <2>1. round[k] \in Rounds
    BY DEF RTypeOK
  <2>2. [round[k] EXCEPT !.outcome = r] \in Rounds
    BY ONLY <2>1, r \in Replies DEF Rounds
  <2>3. round' \in [Keys -> Rounds]
    BY <2>2, RoundUpdate DEF Decide, RTypeOK
  <2> QED BY <2>3 DEF RTypeOK
<1>2. ClientsOK'
  BY DEF ClientsOK, Begun, Ended, IsAnswer
<1>3. RoundsOK'
  BY DEF Decide, RTypeOK, Rounds, RoundsOK, Entered, IsOutcome
<1>4. OffersOK'
  BY DEF OffersOK, Entered, IsOutcome
<1> QED BY <1>1, <1>2, <1>3, <1>4

(* RInv is preserved when a round lands a value. *)
LEMMA RLand ==
  ASSUME Sound, RInv, NEW k \in Keys, NEW v \in Values, NEW t \in 0..MaxTime, Land(k, v, t)
  PROVE  RInv'
<1> DEFINE e == [value |-> v, fetchedAt |-> t, expiresAt |-> t + TTL]
<1>1. e \in Entries
  BY DEF Entries, Sound
<1>2. FromEntry(e, "live") \in Replies /\ IsOutcome(FromEntry(e, "live"))
  BY DEF FromEntry, Replies, Responses, IsOutcome, Sound
<1>3. /\ items' = [items EXCEPT ![k] = e] /\ Decide(k, FromEntry(e, "live"))
      /\ UNCHANGED <<now, client, offer, cancelled>>
  BY DEF Land
<1> HIDE DEF e
<1>4. items' \in [Keys -> Entries \cup {None}]
  BY <1>1, <1>3 DEF RInv, RTypeOK
<1> QED BY <1>2, <1>3, <1>4, RDecide

(* RInv is preserved when a round falls back on an expired entry. *)
LEMMA RFallback ==
  ASSUME RInv, NEW k \in Keys, NEW t, Fallback(k, t)
  PROVE  RInv'
<1>1. items[k] \in Entries
  BY DEF Fallback, Usable, RInv, RTypeOK
<1>2. /\ FromEntry(items[k], "stale_fallback") \in Replies
      /\ IsOutcome(FromEntry(items[k], "stale_fallback"))
  BY <1>1 DEF FromEntry, Entries, Replies, Responses, IsOutcome
<1> QED BY <1>2, RDecide DEF Fallback, RInv, RTypeOK

(* RInv is preserved when a round fails. *)
LEMMA RFail ==
  ASSUME RInv, NEW k \in Keys, NEW e, NEW t, Fail(k, e, t)
  PROVE  RInv'
<1>1. Failure(e) \in Replies /\ IsOutcome(Failure(e))
  BY DEF Fail, Failure, Replies, Failed, IsOutcome, Faults
<1> QED BY <1>1, RDecide DEF Fail, RInv, RTypeOK

(* Closing a round offers its outcome to its members. *)
LEMMA RClose ==
  ASSUME RInv, NEW k \in Keys, Close(k)
  PROVE  RInv'
<1> USE DEF RInv
<1>1. RTypeOK'
  <2>1. NoRound \in Rounds
    BY DEF NoRound, Rounds
  <2>2. round' \in [Keys -> Rounds]
    BY <2>1, RoundUpdate DEF Close, RTypeOK
  <2> QED BY <2>2 DEF Close, RTypeOK, Rounds
<1>2. ClientsOK'
  BY DEF Close, ClientsOK, Begun, Ended, IsAnswer
<1>3. RoundsOK'
  BY DEF Close, NoRound, RTypeOK, Rounds, RoundsOK, Entered, IsOutcome
<1>4. OffersOK'
  BY DEF Close, RTypeOK, Rounds, RoundsOK, OffersOK, Entered, IsOutcome
<1> QED BY <1>1, <1>2, <1>3, <1>4

(* RInv is preserved when a client takes its offer. *)
LEMMA RAccept ==
  ASSUME Sound, RInv, NEW c \in Callers, Accept(c)
  PROVE  RInv'
<1>1. offer[c] \in Replies /\ IsAnswer(c, offer[c]) /\ Begun(c)
  BY DEF Accept, RInv, RTypeOK, OffersOK, IsOutcome, IsAnswer, Begun
<1> QED BY <1>1, RAnswered DEF Accept, Sound

(* The error of a context goes to the call whose context it is. *)
LEMMA RGiveUp ==
  ASSUME Sound, RInv, NEW c \in Callers, GiveUp(c)
  PROVE  RInv'
<1>1. Failure(CtxErr) \in Replies /\ IsAnswer(c, Failure(CtxErr)) /\ Begun(c)
  BY DEF GiveUp, Failure, Replies, Failed, IsAnswer, Begun
<1> QED BY <1>1, RAnswered DEF GiveUp, Sound

(* RInv is preserved when a client stores its live answer again. *)
LEMMA RExtend ==
  ASSUME Sound, RInv, NEW c \in Callers, NEW t \in 0..MaxTime, Extend(c, t)
  PROVE  RInv'
<1> USE DEF RInv
<1>1. RTypeOK'
  <2>1. client[c] \in Clients
    BY DEF RTypeOK
  <2>2. [client[c] EXCEPT !.status = "written"] \in Clients
    BY ONLY <2>1 DEF Clients, Statuses
  <2>3. client' \in [Callers -> Clients]
    BY <2>2, ClientUpdate DEF Extend, RTypeOK
  <2>4. client[c].reply.data \in Values
    BY DEF Extend, ClientsOK, Ended, IsAnswer
  <2>5. [value |-> client[c].reply.data, fetchedAt |-> t, expiresAt |-> t + LongTTL] \in Entries
    BY <2>4 DEF Entries, Sound
  <2>6. items' \in [Keys -> Entries \cup {None}]
    BY <2>5 DEF Extend, RTypeOK
  <2> QED BY <2>3, <2>6 DEF Extend, RTypeOK
<1>2. ClientsOK'
  BY DEF Extend, RTypeOK, Clients, ClientsOK, Begun, Ended, IsAnswer
<1>3. RoundsOK'
  BY DEF Extend, RTypeOK, Clients, Rounds, RoundsOK, Entered, IsOutcome
<1>4. OffersOK'
  BY DEF Extend, RTypeOK, Clients, OffersOK, Entered, IsOutcome
<1> QED BY <1>1, <1>2, <1>3, <1>4

(* RInv is preserved when an entry is dropped, when time passes and when   *)
(* calls are withdrawn, by whomever and at whatever point.                 *)
LEMMA ROther ==
  ASSUME RInv, UNCHANGED <<round, client, offer>>,
         items' \in [Keys -> Entries \cup {None}], now' \in 0..MaxTime,
         cancelled \subseteq cancelled', cancelled' \in SUBSET Callers
  PROVE  RInv'
  BY DEF RInv, RTypeOK, ClientsOK, RoundsOK, OffersOK, Begun, Entered, Ended, IsAnswer, IsOutcome

(* Every step preserves RInv. *)
LEMMA RNext ==
  ASSUME Sound, RInv, [Next]_vars
  PROVE  RInv'
<1>1. ASSUME NEW c \in Callers, NEW k \in Keys, Ask(c, k) PROVE RInv'
  BY <1>1, RAsk
<1>2. ASSUME NEW c \in Callers, ClientStep(c) PROVE RInv'
  BY <1>2, RHit, REnter, RAccept, RGiveUp DEF ClientStep
<1>3. ASSUME NEW c \in Callers, Cancel(c) PROVE RInv'
  BY <1>3, ROther DEF Cancel, RInv, RTypeOK
<1>4. ASSUME NEW c \in Callers, NEW t \in 0..MaxTime, Extend(c, t) PROVE RInv'
  BY <1>4, RExtend
<1>5. ASSUME NEW k \in Keys, RoundStep(k) PROVE RInv'
  BY <1>5, RLand, RFallback, RFail, RClose DEF RoundStep
<1>6. ASSUME NEW k \in Keys, Drop(k) PROVE RInv'
  BY <1>6, ROther DEF Drop, RInv, RTypeOK
<1>7. CASE Tick
  BY <1>7, ROther DEF Tick, RInv, RTypeOK, Sound
<1>8. CASE UNCHANGED vars
  BY <1>8, ROther DEF vars, RInv, RTypeOK
<1> QED BY <1>1, <1>2, <1>3, <1>4, <1>5, <1>6, <1>7, <1>8 DEF Next

(* Every behaviour of the contract keeps RInv. *)
THEOREM ContractInvariance == Sound => (Spec => []RInv)
<1> SUFFICES ASSUME Sound PROVE Spec => []RInv
  OBVIOUS
<1>1. Init => RInv
  BY RInit
<1>2. RInv /\ [Next]_vars => RInv'
  BY RNext
<1> QED BY <1>1, <1>2, PTL DEF Spec

-----------------------------------------------------------------------------
(* What the steps do, for the users of the contract. *)

(* What a user needs of RInv to follow them. *)
Shape ==
  /\ items \in [Keys -> Entries \cup {None}]
  /\ round \in [Keys -> Rounds]
  /\ client \in [Callers -> Clients]
  /\ \A c \in Callers :
       /\ ~Begun(c) => client[c].reply = None /\ offer[c] = None
       /\ Begun(c) => client[c].key \in Keys
       /\ Ended(c) => client[c].reply # None
       /\ offer[c] # None => IsOutcome(offer[c])
  /\ \A k \in Keys : \A c \in round[k].members : c \in Callers /\ client[c].key = k

(* It is part of the invariant. *)
LEMMA Shaped ==
  ASSUME RInv
  PROVE  Shape
<1>1. \A c \in Callers :
        /\ ~Begun(c) => client[c].reply = None /\ offer[c] = None
        /\ Begun(c) => client[c].key \in Keys
        /\ Ended(c) => client[c].reply # None
        /\ offer[c] # None => IsOutcome(offer[c])
  BY DEF RInv, ClientsOK, OffersOK, Begun, Entered, Ended
<1>2. \A k \in Keys : \A c \in round[k].members : c \in Callers /\ client[c].key = k
  BY DEF RInv, RTypeOK, RoundsOK, Rounds
<1> QED BY <1>1, <1>2 DEF RInv, RTypeOK, Shape

(* Asking, entering, being answered and giving up: an answer is made from  *)
(* the entry or from the offer, or it is the error of the context.         *)
Takes(c) == (\E k \in Keys : Ask(c, k)) \/ ClientStep(c)

(* A caller that moves touches neither entries, nor outcomes, nor others. *)
LEMMA ClientMoves ==
  ASSUME Shape, NEW c \in Callers, Takes(c)
  PROVE  /\ items' = items
         /\ \A k \in Keys : round'[k].outcome = round[k].outcome
         /\ \A p \in Callers : p # c => client'[p] = client[p] /\ offer'[p] = offer[p]
         /\ offer'[c] = offer[c] \/ offer'[c] = None
         /\ \/ ~Begun(c) /\ client'[c].reply = None
            \/ /\ Begun(c)
               /\ client'[c].key = client[c].key /\ client'[c].since = client[c].since
               /\ \/ client'[c].reply = client[c].reply
                  \/ /\ items[client[c].key] # None
                     /\ client[c].since < items[client[c].key].expiresAt
                     /\ client'[c].reply = FromEntry(items[client[c].key], "cached")
                  \/ offer[c] # None /\ client'[c].reply = offer[c]
                  \/ client'[c].reply = Failure(CtxErr)
<1> USE DEF Shape, Clients, Rounds, Begun
<1>1. ASSUME NEW k \in Keys, Ask(c, k)
      PROVE  /\ UNCHANGED <<items, round, offer>>
             /\ \A p \in Callers : p # c => client'[p] = client[p]
             /\ ~Begun(c) /\ client'[c].reply = None
  <2>1. client \in [Callers -> Clients] /\ (~Begun(c) => client[c].reply = None)
    OBVIOUS
  <2>2. /\ \A p \in Callers : p # c => client'[p] = client[p]
        /\ client'[c].reply = client[c].reply
    BY ONLY <1>1, <2>1 DEF Ask, Clients
  <2> QED BY <1>1, <2>1, <2>2 DEF Ask
<1>2. ASSUME NEW r, Answered(c, r)
      PROVE  /\ \A p \in Callers : p # c => client'[p] = client[p]
             /\ client'[c].key = client[c].key /\ client'[c].since = client[c].since
             /\ client'[c].reply = r
  BY <1>2 DEF Answered
<1>3. CASE Hit(c)
  BY <1>2, <1>3 DEF Hit
<1>4. ASSUME Enter(c)
      PROVE  /\ UNCHANGED <<items, offer>> /\ client[c].status = "asking"
             /\ \A p \in Callers : p # c => client'[p] = client[p]
             /\ client'[c].key = client[c].key /\ client'[c].since = client[c].since
             /\ client'[c].reply = client[c].reply
             /\ \A k \in Keys : round'[k].outcome = round[k].outcome
  BY <1>4 DEF Enter
<1>5. CASE Accept(c)
  <2>1. \A p \in Callers : p # c => offer'[p] = offer[p]
    BY <1>5 DEF Accept
  <2> QED BY <1>2, <1>5, <2>1 DEF Accept
<1>6. CASE GiveUp(c)
  BY <1>2, <1>6 DEF GiveUp
<1> QED BY <1>1, <1>3, <1>4, <1>5, <1>6 DEF Takes, ClientStep

(* A value makes an entry. *)
LEMMA EntryOf ==
  ASSUME NEW v \in Values, NEW t \in Nat, NEW d \in Int
  PROVE  [value |-> v, fetchedAt |-> t, expiresAt |-> t + d] \in Entries
  BY DEF Entries

(* An answer that came live makes an entry when it is stored for longer. *)
LEMMA ExtendMoves ==
  ASSUME Sound, Shape, NEW c \in Callers, NEW t \in Nat, Extend(c, t)
  PROVE  LET k == client[c].key
             e == [value |-> client[c].reply.data, fetchedAt |-> t, expiresAt |-> t + LongTTL] IN
         /\ k \in Keys /\ client[c].reply # None
         /\ e # None /\ items'[k] = e
         /\ \A j \in Keys : j # k => items'[j] = items[j]
         /\ \A p \in Callers : /\ client'[p].key = client[p].key
                               /\ client'[p].since = client[p].since
                               /\ client'[p].reply = client[p].reply
         /\ UNCHANGED <<round, offer>>
<1>1. client[c].key \in Keys /\ client[c].reply # None /\ client[c].reply.tag = "live"
  BY DEF Extend, Shape, Begun, Ended
<1>2. PICK k \in Keys : k = client[c].key
  BY <1>1
<1>3. client[c].reply.data \in Values
  BY <1>1 DEF Shape, Clients, Replies, Responses, Failed
<1>4. PICK e \in Entries :
        e = [value |-> client[c].reply.data, fetchedAt |-> t, expiresAt |-> t + LongTTL]
  BY <1>3, EntryOf DEF Sound
<1>5. items' = [items EXCEPT ![k] = e]
  BY <1>2, <1>4 DEF Extend
<1>6. \A p \in Callers : /\ client'[p].key = client[p].key
                         /\ client'[p].since = client[p].since
                         /\ client'[p].reply = client[p].reply
  BY DEF Extend, Shape, Clients
<1>7. items'[k] = e /\ e # None /\ \A j \in Keys : j # k => items'[j] = items[j]
  BY <1>5 DEF Shape, Sound
<1> QED BY <1>1, <1>2, <1>4, <1>6, <1>7 DEF Extend

(* A round is decided on a new value, on its entry, or on an error. *)
LEMMA RoundMoves ==
  ASSUME Sound, Shape, NEW k \in Keys, NEW t \in Nat
  PROVE  /\ \A v \in Values : Land(k, v, t) =>
              LET e == [value |-> v, fetchedAt |-> t, expiresAt |-> t + TTL] IN
              e # None /\ items'[k] = e /\ round'[k].outcome = FromEntry(e, "live")
         /\ Fallback(k, t) =>
              /\ items[k] # None /\ items'[k] = items[k]
              /\ round'[k].outcome = FromEntry(items[k], "stale_fallback")
         /\ \A f : Fail(k, f, t) => items'[k] = items[k] /\ round'[k].outcome = Failure(f)
         /\ (\E v \in Values : Land(k, v, t)) \/ Fallback(k, t) \/ (\E f : Fail(k, f, t)) =>
              /\ UNCHANGED <<client, offer>>
              /\ \A j \in Keys : j # k => items'[j] = items[j] /\ round'[j] = round[j]
<1>1. ASSUME NEW r, Decide(k, r)
      PROVE  round'[k].outcome = r /\ \A j \in Keys : j # k => round'[j] = round[j]
  BY <1>1 DEF Decide, Shape, Rounds
<1>2. ASSUME NEW v \in Values, Land(k, v, t)
      PROVE  LET e == [value |-> v, fetchedAt |-> t, expiresAt |-> t + TTL] IN
             /\ e # None /\ items'[k] = e /\ round'[k].outcome = FromEntry(e, "live")
             /\ \A j \in Keys : j # k => items'[j] = items[j] /\ round'[j] = round[j]
             /\ UNCHANGED <<client, offer>>
  <2>1. PICK e \in Entries : e = [value |-> v, fetchedAt |-> t, expiresAt |-> t + TTL]
    BY EntryOf DEF Sound
  <2>2. items' = [items EXCEPT ![k] = e] /\ Decide(k, FromEntry(e, "live"))
    BY <1>2, <2>1 DEF Land
  <2>3. e # None /\ items'[k] = e /\ \A j \in Keys : j # k => items'[j] = items[j]
    BY <2>2 DEF Shape, Sound
  <2>4. round'[k].outcome = FromEntry(e, "live") /\ \A j \in Keys : j # k => round'[j] = round[j]
    BY <1>1, <2>2
  <2> QED BY <1>2, <2>1, <2>3, <2>4 DEF Land
<1>3. ASSUME Fallback(k, t)
      PROVE  /\ items[k] # None /\ items' = items
             /\ round'[k].outcome = FromEntry(items[k], "stale_fallback")
             /\ \A j \in Keys : j # k => round'[j] = round[j]
             /\ UNCHANGED <<client, offer>>
  BY <1>1, <1>3 DEF Fallback, Usable
<1>4. ASSUME NEW f, Fail(k, f, t)
      PROVE  /\ items' = items /\ round'[k].outcome = Failure(f)
             /\ \A j \in Keys : j # k => round'[j] = round[j]
             /\ UNCHANGED <<client, offer>>
  BY <1>1, <1>4 DEF Fail
<1> QED BY <1>2, <1>3, <1>4

(* When a round closes its members are offered what it was decided on. *)
LEMMA CloseMoves ==
  ASSUME Shape, NEW k \in Keys, Close(k)
  PROVE  /\ UNCHANGED <<items, client>>
         /\ round'[k].outcome = None
         /\ \A j \in Keys : j # k => round'[j] = round[j]
         /\ \A c \in Callers :
              \/ offer'[c] = offer[c]
              \/ client[c].key = k /\ offer'[c] = round[k].outcome
<1>1. round'[k].outcome = None /\ \A j \in Keys : j # k => round'[j] = round[j]
  BY DEF Close, NoRound, Shape
<1>2. \A c \in Callers : offer'[c] = IF c \in round[k].members THEN round[k].outcome ELSE offer[c]
  BY DEF Close
<1> QED BY <1>1, <1>2 DEF Shape, Close
=============================================================================
