--------------------------- MODULE BrowserProofs ---------------------------
(***************************************************************************)
(* FetchJSON implements the contract of Fetcher, for any number of         *)
(* requests and any statuses: the inductive invariant that ties the        *)
(* tracked request, the readers and the channel to the responses they come *)
(* from, and the step simulation that follows from it.                     *)
(***************************************************************************)
EXTENDS Browser, TLAPS

(* What is tracked is a response that matched, with its own status. *)
TargetOwn ==
  target # None => resp[target].match /\ targetStatus = resp[target].status

(* A reader works for a response that matched and holds its status, which  *)
(* it got when the loading finished; it holds a body only if there is one. *)
ReaderOwn(r) ==
  /\ reader[r].stage \in {"reading", "holding"} =>
       resp[r].match /\ reader[r].status = resp[r].status
  /\ reader[r].stage = "holding" => ~resp[r].empty

ReadersOwn == \A r \in Requests : ReaderOwn(r)

(* The statuses of the responses are those the page may answer with. *)
StatusesKnown == \A r \in Requests : resp[r].status \in Statuses

(* FetchJSON has a result exactly when it has returned. *)
Returned == result = None <=> pc \in {"navigating", "waiting"}

IInv ==
  TypeOK /\ StatusesKnown /\ TargetOwn /\ ReadersOwn /\ OwnStatus /\ Returned

-----------------------------------------------------------------------------
(* What an error response is mapped to is one of the outcomes. *)
LEMMA OutcomeOfError ==
  ASSUME NEW x
  PROVE  F!Error(F!MapError(x)) \in Outcomes
BY DEF Outcomes, F!Error, F!MapError

(* A response keeps its meaning when its status is replaced by itself. *)
LEMMA SameStatus ==
  ASSUME NEW x \in F!Response
  PROVE  [x EXCEPT !.status = x.status] = x
BY DEF F!Response

(* The responses have the type the contract gives them. *)
LEMMA RespType == Init => resp \in [Requests -> F!Response]
BY StatusAssumption DEF Init, F!Response, F!Codes

(* The initial states satisfy the inductive invariant. *)
LEMMA InitInv == Init => IInv
BY RespType DEF Init, IInv, TypeOK, StatusesKnown, TargetOwn, ReadersOwn, ReaderOwn, OwnStatus,
       Returned, Reader

-----------------------------------------------------------------------------
(* Every step keeps the inductive invariant. *)
LEMMA NextInv == IInv /\ [Next]_vars => IInv'
<1> SUFFICES ASSUME IInv, [Next]_vars PROVE IInv'
  OBVIOUS
<1> USE NoneAssumption, StatusAssumption
<1>1. ASSUME NEW r \in Requests, ResponseReceived(r) PROVE IInv'
  <2>1. CASE resp[r].match
    BY <1>1, <2>1 DEF ResponseReceived, IInv, TypeOK, StatusesKnown, TargetOwn, ReadersOwn, ReaderOwn,
                      OwnStatus, Returned, mainVars
  <2>2. CASE ~resp[r].match
    BY <1>1, <2>2 DEF ResponseReceived, IInv, TypeOK, StatusesKnown, TargetOwn, ReadersOwn, ReaderOwn,
                      OwnStatus, Returned, mainVars
  <2> QED BY <2>1, <2>2
<1>2. ASSUME NEW r \in Requests, LoadingFinished(r) PROVE IInv'
  <2> DEFINE x == [stage |-> "reading", status |-> targetStatus]
  <2>1. /\ UNCHANGED <<resp, target, targetStatus, first, resCh, pc, result>>
        /\ net' = [net EXCEPT ![r] = "finished"] /\ UNCHANGED alive
    BY <1>2 DEF LoadingFinished, mainVars
  <2>2. TypeOK'
    <3>1. x \in Reader
      BY DEF IInv, TypeOK, Reader
    <3>2. reader' \in [Requests -> Reader]
      BY <1>2, <3>1 DEF LoadingFinished, IInv, TypeOK
    <3> QED BY <2>1, <3>2 DEF IInv, TypeOK
  <2>3. StatusesKnown' /\ TargetOwn' /\ OwnStatus' /\ Returned'
    BY <2>1 DEF IInv, StatusesKnown, TargetOwn, OwnStatus, Returned
  <2>4. ReadersOwn'
    <3>1. CASE target = r
      <4>1. reader' = [reader EXCEPT ![r] = x] /\ reader \in [Requests -> Reader]
        BY <1>2, <3>1 DEF LoadingFinished, IInv, TypeOK
      <4>2. resp[r].match /\ x.status = resp[r].status
        BY <3>1 DEF IInv, TargetOwn
      <4> QED BY <2>1, <4>1, <4>2 DEF IInv, ReadersOwn, ReaderOwn
    <3>2. CASE target # r
      BY <2>1, <1>2, <3>2 DEF LoadingFinished, IInv, ReadersOwn, ReaderOwn
    <3> QED BY <3>1, <3>2
  <2> QED BY <2>2, <2>3, <2>4 DEF IInv
<1>3. ASSUME NEW r \in Requests, BodyRead(r) PROVE IInv'
  BY <1>3 DEF BodyRead, ReaderGoes, IInv, TypeOK, StatusesKnown, TargetOwn, ReadersOwn, ReaderOwn,
              OwnStatus, Returned, mainVars, netVars, Reader
<1>4. ASSUME NEW r \in Requests, BodyMissing(r) PROVE IInv'
  BY <1>4 DEF BodyMissing, ReaderGoes, IInv, TypeOK, StatusesKnown, TargetOwn, ReadersOwn, ReaderOwn,
              OwnStatus, Returned, mainVars, netVars, Reader
<1>5. ASSUME NEW r \in Requests, Send(r) PROVE IInv'
  <2> DEFINE x == [req |-> r, status |-> reader[r].status]
  <2>1. /\ UNCHANGED <<resp, net, target, targetStatus, first, alive, pc, result>>
        /\ reader' = [reader EXCEPT ![r].stage = "ended"]
        /\ resCh' = resCh \/ (resCh = None /\ resCh' = x)
    BY <1>5 DEF Send, ReaderGoes, netVars, mainVars
  <2>2. resp[r].match /\ ~resp[r].empty /\ reader[r].status = resp[r].status
    BY <1>5 DEF Send, ReaderGoes, IInv, ReadersOwn, ReaderOwn
  <2>3. resp[r].status \in Statuses
    BY DEF IInv, StatusesKnown
  <2>4. x \in XhrResult
    BY <2>2, <2>3 DEF XhrResult
  <2>5. TypeOK'
    BY <2>1, <2>4 DEF IInv, TypeOK, Reader
  <2>6. StatusesKnown' /\ TargetOwn' /\ Returned'
    BY <2>1 DEF IInv, StatusesKnown, TargetOwn, Returned
  <2>7. ReadersOwn'
    BY <2>1 DEF IInv, TypeOK, Reader, ReadersOwn, ReaderOwn
  <2>8. OwnStatus'
    BY <2>1, <2>2 DEF IInv, OwnStatus
  <2> QED BY <2>5, <2>6, <2>7, <2>8 DEF IInv
<1>6. CASE NavigationEnds
  BY <1>6 DEF NavigationEnds, IInv, TypeOK, StatusesKnown, TargetOwn, ReadersOwn, ReaderOwn,
              OwnStatus, Returned, netVars
<1>7. CASE NavFails \/ GiveUp
  BY <1>7 DEF NavFails, GiveUp, Return, IInv, TypeOK, StatusesKnown, TargetOwn, ReadersOwn, ReaderOwn,
              OwnStatus, Returned, netVars, Outcomes
<1>8. CASE TakeResult
  <2>1. result' \in Outcomes
    BY <1>8, OutcomeOfError DEF TakeResult, Return, IInv, TypeOK, Outcomes, XhrResult
  <2> QED
    BY <1>8, <2>1 DEF TakeResult, Return, IInv, TypeOK, StatusesKnown, TargetOwn, ReadersOwn, ReaderOwn,
                      OwnStatus, Returned, netVars
<1>9. CASE CloseTab
  BY <1>9 DEF CloseTab, IInv, TypeOK, StatusesKnown, TargetOwn, ReadersOwn, ReaderOwn,
              OwnStatus, Returned, netVars
<1>10. CASE BrowserGone \/ UNCHANGED vars
  BY <1>10 DEF BrowserGone, mainVars, vars, IInv, TypeOK, StatusesKnown, TargetOwn, ReadersOwn,
         ReaderOwn, OwnStatus, Returned
<1> QED
  BY <1>1, <1>2, <1>3, <1>4, <1>5, <1>6, <1>7, <1>8, <1>9, <1>10 DEF Next, ReaderStep, MainStep

(* IInv is an invariant of the specification. *)
THEOREM Invariance == Spec => []IInv
BY InitInv, NextInv, PTL DEF Spec

(* Type correctness of the tab, the readers, the channel and the result. *)
THEOREM TypeCorrect == Spec => []TypeOK
BY Invariance, PTL DEF IInv

(* A body travels with the status of its own response, although later      *)
(* matches overwrite what the listener tracks while it is read.            *)
THEOREM StatusIsOwn == Spec => []OwnStatus
BY Invariance, PTL DEF IInv

-----------------------------------------------------------------------------
(* A result that is taken is an answer of the contract: the body of a      *)
(* response that was asked for, or the error such a response stands for.   *)
LEMMA TakeResultAnswers ==
  ASSUME IInv, TakeResult
  PROVE  \E r \in Requests : F!AnswerBody(r) \/ F!AnswerError(r)
<1> DEFINE q == resCh.req
<1>1. q \in Requests /\ resCh.status \in Statuses
  BY DEF IInv, TypeOK, TakeResult, XhrResult
<1>2. resp[q] \in F!Response /\ resp[q].match /\ ~resp[q].empty /\ resp[q].status = resCh.status
  BY <1>1 DEF IInv, TypeOK, OwnStatus, TakeResult
<1>3. result = None /\ UNCHANGED resp
  BY DEF IInv, Returned, TakeResult
<1>4. [resp[q] EXCEPT !.status = resCh.status] = resp[q]
  BY <1>2, SameStatus
<1>5. resp[q].status \in Nat
  BY <1>2 DEF F!Response
<1>6. CASE resCh.status >= 400
  <2>1. F!AnswerError(q)
    BY <1>2, <1>3, <1>4, <1>6 DEF TakeResult, Return, F!AnswerError
  <2> QED BY <2>1, <1>1
<1>7. CASE ~(resCh.status >= 400)
  <2>1. F!AnswerBody(q)
    BY <1>2, <1>3, <1>5, <1>7 DEF TakeResult, Return, F!AnswerBody
  <2> QED BY <2>1, <1>1
<1> QED BY <1>6, <1>7

(* Every step of FetchJSON is one of the contract, or a stutter. *)
LEMMA StepSimulation == IInv /\ [Next]_vars => [F!Next]_F!vars
<1> SUFFICES ASSUME IInv, [Next]_vars PROVE [F!Next]_F!vars
  OBVIOUS
<1>1. CASE TakeResult
  BY <1>1, TakeResultAnswers DEF F!Next
<1>2. CASE NavFails \/ GiveUp
  <2>1. F!Unavailable
    BY <1>2 DEF NavFails, GiveUp, Return, IInv, Returned, F!Unavailable
  <2> QED BY <2>1 DEF F!Next
<1>3. CASE NavigationEnds \/ CloseTab \/ BrowserGone \/ UNCHANGED vars
  BY <1>3 DEF NavigationEnds, CloseTab, BrowserGone, mainVars, vars, F!vars
<1>4. ASSUME NEW r \in Requests,
             ResponseReceived(r) \/ LoadingFinished(r) \/ ReaderStep(r)
      PROVE  [F!Next]_F!vars
  BY <1>4 DEF ResponseReceived, LoadingFinished, ReaderStep, BodyRead, BodyMissing, Send,
              ReaderGoes, mainVars, F!vars
<1> QED BY <1>1, <1>2, <1>3, <1>4 DEF Next, MainStep

(* FetchJSON implements the contract of the interface Fetcher. *)
THEOREM Implements == Spec => ImplementsFetcher
<1>1. Init => F!Init
  BY RespType DEF Init, F!Init
<1> QED
  BY <1>1, Invariance, StepSimulation, PTL DEF Spec, ImplementsFetcher, F!Spec

-----------------------------------------------------------------------------
(* A step leaves a result that is in the channel there, or takes it out    *)
(* and ends FetchJSON: a later body that finds the channel full is the one *)
(* that is dropped.                                                        *)
LEMMA StepKeeps ==
  ASSUME [Next]_vars, resCh # None
  PROVE  resCh' = resCh \/ (resCh' = None /\ pc' = "returned")
<1>1. ASSUME NEW r \in Requests, ResponseReceived(r) \/ LoadingFinished(r)
      PROVE  resCh' = resCh
  BY <1>1 DEF ResponseReceived, LoadingFinished
<1>2. ASSUME NEW r \in Requests, ReaderStep(r) PROVE resCh' = resCh
  BY <1>2 DEF ReaderStep, BodyRead, BodyMissing, Send
<1>3. CASE TakeResult
  BY <1>3 DEF TakeResult, Return
<1>4. CASE NavigationEnds \/ NavFails \/ GiveUp \/ CloseTab \/ BrowserGone \/ UNCHANGED vars
  BY <1>4 DEF NavigationEnds, NavFails, GiveUp, CloseTab, BrowserGone, vars
<1> QED
  BY <1>1, <1>2, <1>3, <1>4 DEF Next, MainStep

(* The first body handed over is the one FetchJSON takes: no later match   *)
(* replaces it in the channel, whatever the page answers and when.         *)
THEOREM HandOverIsFinal == Spec => HandedOverKept
<1>1. [Next]_vars => [resCh # None => resCh' = resCh \/ (resCh' = None /\ pc' = "returned")]_vars
  BY StepKeeps
<1> QED
  BY <1>1, PTL DEF Spec, HandedOverKept
=============================================================================
