------------------------------ MODULE Browser ------------------------------
(***************************************************************************)
(* One call of Browser.FetchJSON (internal/upstream/dsv/browser): a tab    *)
(* whose events are handled by chromedp's event loop, goroutines that read *)
(* response bodies, two timers, and the goroutine that called FetchJSON.   *)
(* Concurrent calls have a tab each and share the browser, which may be    *)
(* gone before the call or go during it: nobody starts another one.        *)
(*                                                                         *)
(* The tab is attached before its first event, so that the listener always *)
(* finds an executor.                                                      *)
(***************************************************************************)
EXTENDS Integers

CONSTANTS
  Requests,     \* the requests the page may make
  Statuses,     \* HTTP statuses
  None

ASSUME StatusAssumption == Statuses \subseteq Nat

VARIABLES
  resp,         \* the response to each request, as in Fetcher
  net,          \* how far the browser got with each request
  target,       \* targetRequestID
  targetStatus, \* targetStatus
  reader,       \* the goroutine started for each request, if one was
  resCh,        \* the channel of capacity one, None if empty
  pc,           \* the goroutine in FetchJSON
  result,       \* what FetchJSON returned
  first,        \* history: the first matching response
  alive         \* whether browserCtx, the parent of every tab's, is not done

vars == <<resp, net, target, targetStatus, reader, resCh, pc, result, first, alive>>
netVars == <<net, target, targetStatus, first, alive>>
mainVars == <<pc, result>>

F == INSTANCE Fetcher WITH outcome <- result

(* The handed over xhrResult; the body is named by its request. *)
XhrResult == [req : Requests, status : Statuses]

Reader == [stage : {"none", "reading", "holding", "ended"}, status : Statuses \cup {None}]

Outcomes ==
  {F!Body(r) : r \in Requests} \cup
  {F!Error(e) : e \in {"ErrShipmentNotFound", "ErrThrottled",
                       "ErrUpstreamUnavailable", "ErrInvalidReference"}}

ASSUME NoneAssumption ==
  None \notin Requests /\ None \notin XhrResult /\ None \notin Outcomes

Init ==
  /\ resp \in [Requests -> [match : BOOLEAN, status : Statuses,
                            empty : BOOLEAN, code : F!Codes]]
  /\ net = [r \in Requests |-> "sent"]
  /\ target = None
  /\ targetStatus = None
  /\ reader = [r \in Requests |-> [stage |-> "none", status |-> None]]
  /\ resCh = None
  /\ pc = "navigating"
  /\ result = None
  /\ first = None
  /\ alive \in BOOLEAN

-----------------------------------------------------------------------------
(* Chrome crashes, or it is shut down under the call.  A command that was  *)
(* sent before may have failed, or may still be answered.                  *)
BrowserGone ==
  /\ alive
  /\ alive' = FALSE
  /\ UNCHANGED <<resp, net, target, targetStatus, first, reader, resCh, mainVars>>

(* The event loop, until the browser or the deferred tabCancel ends it. *)
TabOpen == alive /\ pc # "closed"

(* EventResponseReceived: the last matching response is the target. *)
ResponseReceived(r) ==
  /\ TabOpen
  /\ net[r] = "sent"
  /\ net' = [net EXCEPT ![r] = "responded"]
  /\ IF resp[r].match
     THEN /\ target' = r
          /\ targetStatus' = resp[r].status
          /\ first' = IF first = None THEN r ELSE first
     ELSE UNCHANGED <<target, targetStatus, first>>
  /\ UNCHANGED <<resp, alive, reader, resCh, mainVars>>

(* fault: any finished request is read, with whatever status is tracked *)
LoadingFinishedUnchecked(r) ==
  /\ TabOpen
  /\ net[r] = "responded"
  /\ net' = [net EXCEPT ![r] = "finished"]
  /\ reader' = [reader EXCEPT ![r] = [stage |-> "reading", status |-> targetStatus]]
  /\ UNCHANGED <<resp, target, targetStatus, first, alive, resCh, mainVars>>

(* EventLoadingFinished: if it is the target's, a goroutine reads the body; *)
(* the status is captured now.                                             *)
LoadingFinished(r) ==
  /\ TabOpen
  /\ net[r] = "responded"
  /\ net' = [net EXCEPT ![r] = "finished"]
  /\ IF target = r
     THEN reader' = [reader EXCEPT ![r] = [stage |-> "reading", status |-> targetStatus]]
     ELSE UNCHANGED reader
  /\ UNCHANGED <<resp, target, targetStatus, first, alive, resCh, mainVars>>

-----------------------------------------------------------------------------
(* The goroutine that reads the body of r. *)
ReaderGoes(r, from, to) ==
  /\ reader[r].stage = from
  /\ reader' = [reader EXCEPT ![r].stage = to]
  /\ UNCHANGED <<resp, netVars, mainVars>>

BodyRead(r) == ~resp[r].empty /\ ReaderGoes(r, "reading", "holding") /\ UNCHANGED resCh

(* GetResponseBody failed, or the body is empty. *)
BodyMissing(r) == ReaderGoes(r, "reading", "ended") /\ UNCHANGED resCh

(* fault: the status is read when the body is sent, not when loading finished *)
SendLateStatus(r) ==
  /\ ReaderGoes(r, "holding", "ended")
  /\ resCh' = IF resCh = None THEN [req |-> r, status |-> targetStatus] ELSE resCh

(* fault: a later body replaces the buffered one *)
SendReplacing(r) ==
  /\ ReaderGoes(r, "holding", "ended")
  /\ resCh' = [req |-> r, status |-> reader[r].status]

(* fault: the send has no default case *)
SendBlocking(r) ==
  /\ resCh = None
  /\ ReaderGoes(r, "holding", "ended")
  /\ resCh' = [req |-> r, status |-> reader[r].status]

(* The send never blocks: with a result buffered already this one is dropped. *)
Send(r) ==
  /\ ReaderGoes(r, "holding", "ended")
  /\ resCh' = IF resCh = None THEN [req |-> r, status |-> reader[r].status] ELSE resCh

-----------------------------------------------------------------------------
(* The goroutine in FetchJSON. *)

(* The page has loaded, or navCtx is done: navTO has passed, or the browser *)
(* is gone.  Neither is an error: the XHR may have come, or may still come. *)
NavigationEnds ==
  /\ pc = "navigating"
  /\ pc' = "waiting"
  /\ UNCHANGED <<resp, netVars, reader, resCh, result>>

Return(x) == pc' = "returned" /\ result' = x

(* Any other error. *)
NavFails ==
  /\ alive
  /\ pc = "navigating"
  /\ Return(F!Error("ErrUpstreamUnavailable"))
  /\ UNCHANGED <<resp, netVars, reader, resCh>>

(* fault: a status of exactly 400 passes for a success *)
TakeResultAbove400 ==
  /\ pc = "waiting"
  /\ resCh # None
  /\ resCh' = None
  /\ Return(IF resCh.status > 400
            THEN F!Error(F!MapError([resp[resCh.req] EXCEPT !.status = resCh.status]))
            ELSE F!Body(resCh.req))
  /\ UNCHANGED <<resp, netVars, reader>>

TakeResult ==
  /\ pc = "waiting"
  /\ resCh # None
  /\ resCh' = None
  /\ Return(IF resCh.status >= 400
            THEN F!Error(F!MapError([resp[resCh.req] EXCEPT !.status = resCh.status]))
            ELSE F!Body(resCh.req))
  /\ UNCHANGED <<resp, netVars, reader>>

(* fault: the wait is bounded only once something has matched *)
GiveUpAfterMatch ==
  /\ pc = "waiting" /\ first # None
  /\ Return(F!Error("ErrUpstreamUnavailable"))
  /\ UNCHANGED <<resp, netVars, reader, resCh>>

(* The timer has fired or the context of the caller is done: FetchJSON     *)
(* returns the same error for both, even if a result has just come.        *)
GiveUp ==
  /\ pc = "waiting"
  /\ Return(F!Error("ErrUpstreamUnavailable"))
  /\ UNCHANGED <<resp, netVars, reader, resCh>>

(* The deferred tabCancel. *)
CloseTab ==
  /\ pc = "returned"
  /\ pc' = "closed"
  /\ UNCHANGED <<resp, netVars, reader, resCh, result>>

-----------------------------------------------------------------------------
ReaderStep(r) == BodyRead(r) \/ BodyMissing(r) \/ Send(r)

MainStep == NavigationEnds \/ NavFails \/ TakeResult \/ GiveUp \/ CloseTab

Next ==
  \/ \E r \in Requests : ResponseReceived(r) \/ LoadingFinished(r) \/ ReaderStep(r)
  \/ MainStep
  \/ BrowserGone

Spec == Init /\ [][Next]_vars

(* Both timers fire and goroutines are scheduled; the page, the network    *)
(* and the browser owe nothing, and a body may stay in there for ever.     *)
Fairness ==
  /\ WF_vars(MainStep)
  /\ \A r \in Requests : WF_vars(Send(r))

FairSpec == Spec /\ Fairness

-----------------------------------------------------------------------------
TypeOK ==
  /\ resp \in [Requests -> F!Response]
  /\ net \in [Requests -> {"sent", "responded", "finished"}]
  /\ target \in Requests \cup {None}
  /\ targetStatus \in Statuses \cup {None}
  /\ reader \in [Requests -> Reader]
  /\ resCh \in XhrResult \cup {None}
  /\ pc \in {"navigating", "waiting", "returned", "closed"}
  /\ result \in Outcomes \cup {None}
  /\ first \in Requests \cup {None}
  /\ alive \in BOOLEAN

(* A body travels with the status of its own response, although later      *)
(* matches overwrite the tracked request and status while it is read.      *)
OwnStatus ==
  resCh # None =>
    LET x == resp[resCh.req] IN x.match /\ ~x.empty /\ x.status = resCh.status

(* The first body handed over is the one FetchJSON takes: no later match   *)
(* replaces it in the channel.                                             *)
HandedOverKept ==
  [][resCh # None => resCh' = resCh \/ (resCh' = None /\ pc' = "returned")]_vars

(* FetchJSON ends once, with a body it was asked for (below 400), with the *)
(* error its own response stands for, or unavailable.                      *)
ImplementsFetcher == F!Spec

(* FetchJSON returns whatever the page does, or does not do, and whether   *)
(* or not the browser is still there.                                      *)
ImplementsFairFetcher == F!FairSpec

(* No reader is left blocked on the channel, however many bodies come and  *)
(* whether or not anybody receives any more.                               *)
ReadersNeverBlock ==
  \A r \in Requests : reader[r].stage = "holding" ~> reader[r].stage = "ended"

-----------------------------------------------------------------------------
(* What the comment of FetchJSON says and the code does not do.            *)

(* The response FetchJSON answers with is the first one that matched: a    *)
(* second match before the first has finished loading replaces it.         *)
FirstMatchAnswers ==
  result # None /\ result.kind = "body" => result.req = first
=============================================================================
