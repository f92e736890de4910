------------------------ MODULE TTLCacheRefinement ------------------------
(***************************************************************************)
(* TTLCache implements ReadThrough: a round is singleflight's registered   *)
(* call, its members the channels of that call, its outcome what the       *)
(* goroutine has settled on; the offer of a client is its channel.         *)
(***************************************************************************)
EXTENDS TTLCache

Status(pc) ==
  CASE pc = "idle" -> "idle"
    [] pc \in {"lookup", "dochan"} -> "asking"
    [] pc = "select" -> "waiting"
    [] pc \in {"returned", "stamped"} -> "answered"
    [] pc = "done" -> "written"

RoundOf(k) ==
  LET l == group[k] IN
  IF l = None
  THEN [members |-> {}, outcome |-> None]
  ELSE [members |-> flight[l].waiters, outcome |-> flight[l].out]

ClientOf(c) == [status |-> Status(call[c].pc), key |-> call[c].key,
                since |-> call[c].at, reply |-> call[c].reply]

RT == INSTANCE ReadThrough WITH
        round <- [k \in Keys |-> RoundOf(k)],
        client <- [c \in Callers |-> ClientOf(c)],
        offer <- chan

(* Every behaviour of the cache, with its goroutines, leaders and separate *)
(* readings of the clock, is one of the read-through contract: one round   *)
(* per key, the same outcome for everyone in it, live data not older than  *)
(* the round, expired data only within the window.                         *)
ImplementsReadThrough == RT!Spec

(* Under the fairness of the Go scheduler it also answers everyone and     *)
(* ends every round, as the contract does.                                 *)
ImplementsFairReadThrough == RT!FairSpec
=============================================================================
