----------------------------- MODULE Lifecycle -----------------------------
(***************************************************************************)
(* The life of the three programs under cmd/, from start to exit: the      *)
(* server (dsv-tracking-mcp) and the two drivers that call its tools in    *)
(* the same process (dsv-verify, dsv-verify-all).                          *)
(*                                                                         *)
(* Each of them owns a Chrome process, which it has to see out.  The       *)
(* server has a metrics server beside it and catches signals, the drivers  *)
(* do not.  os.Exit and an uncaught signal skip the deferred calls.        *)
(*                                                                         *)
(* What a tool call answers is left open here; Tools says what it may be.  *)
(***************************************************************************)
EXTENDS Integers, Sequences

CONSTANTS
  References,
  Refs      \* those that dsv-verify-all asks for, in order

ASSUME RefsAssumption == Refs \in Seq(References)

VARIABLES
  program,
  pc,       \* the main goroutine
  outcome,  \* how the process ended, or "none"
  ctx,      \* whether the context of NotifyContext is done
  caught,   \* whether signals are caught, from NotifyContext to stop()
  chrome,   \* the Chrome process
  metrics,  \* the goroutine of the metrics server
  draining, \* whether the metrics server has been told to shut down
  scrape,   \* whether a request to the metrics server is in progress
  stdin,    \* what the transport of the MCP server reads
  item,     \* the item of its work a driver has got to
  rows      \* what it has noted of those before

vars == <<program, pc, outcome, ctx, caught, chrome, metrics, draining, scrape, stdin, item, rows>>
mainVars == <<pc, outcome>>
driverVars == <<item, rows>>
signalVars == <<ctx, caught>>
metricsVars == <<metrics, draining, scrape>>

Programs == {"dsv-tracking-mcp", "dsv-verify", "dsv-verify-all"}

Server == program = "dsv-tracking-mcp"

Init ==
  /\ program \in Programs
  /\ pc = "start"
  /\ outcome = "none"
  /\ ctx = FALSE
  /\ caught = FALSE
  /\ chrome = "none"
  /\ metrics = "off"
  /\ draining = FALSE
  /\ scrape = FALSE
  /\ stdin = "open"
  /\ item = 1
  /\ rows = <<>>

-----------------------------------------------------------------------------
At(here) == outcome = "none" /\ pc = here

Goto(there) == pc' = there /\ UNCHANGED outcome

Exit(how) == pc' = "over" /\ outcome' = how

(* loadConfig: the first duration that cannot be parsed ends the program.  *)
(* The metrics server is always asked for: an empty METRICS_ADDR is taken  *)
(* for an absent one.                                                      *)
LoadConfig ==
  /\ At("start") /\ Server
  /\ \/ Exit("config") /\ UNCHANGED metrics
     \/ Goto("configured") /\ metrics' = "scheduled"
  /\ UNCHANGED <<program, signalVars, chrome, draining, scrape, stdin, driverVars>>

NotifyContext ==
  /\ At("configured")
  /\ Goto("launching")
  /\ caught' = TRUE
  /\ UNCHANGED <<program, ctx, chrome, metricsVars, stdin, driverVars>>

(* A driver has its settings built in, and no context to cancel. *)
StartDriver ==
  /\ At("start") /\ ~Server
  /\ Goto("launching")
  /\ UNCHANGED <<program, signalVars, chrome, metricsVars, stdin, driverVars>>

-----------------------------------------------------------------------------
(* browser.New *)
StartChrome ==
  /\ At("launching")
  /\ chrome = "none" /\ ~ctx
  /\ chrome' = "running"
  /\ UNCHANGED <<program, mainVars, signalVars, metricsVars, stdin, driverVars>>

Launched ==
  /\ At("launching")
  /\ chrome = "running"
  /\ Goto(IF Server THEN "serving" ELSE "connecting")
  /\ UNCHANGED <<program, signalVars, chrome, metricsVars, stdin, driverVars>>

(* fault: main goes on without a browser *)
LaunchFailsServing ==
  /\ At("launching")
  /\ Goto("serving")
  /\ UNCHANGED <<program, signalVars, chrome, metricsVars, stdin, driverVars>>

(* Chrome is not found, does not answer, or the context is done. *)
LaunchFails ==
  /\ At("launching")
  /\ Goto("launchFailed")
  /\ UNCHANGED <<program, signalVars, chrome, metricsVars, stdin, driverVars>>

(* fault: New returns the error without cancelling what it has started *)
LeaveLaunchUncancelled ==
  /\ At("launchFailed")
  /\ Exit("launch")
  /\ UNCHANGED <<program, signalVars, chrome, metricsVars, stdin, driverVars>>

(* New cancels both of its contexts, which waits for Chrome, and main exits. *)
LeaveLaunch ==
  /\ At("launchFailed")
  /\ chrome # "running"
  /\ Exit("launch")
  /\ UNCHANGED <<program, signalVars, chrome, metricsVars, stdin, driverVars>>

(* The browser's context is done: it derives from that of the signals. *)
Cancelled == ctx \/ pc \in {"launchFailed", "closing"}

(* Chrome is killed when its context is done; it may also crash. *)
ChromeEnds ==
  /\ chrome = "running"
  /\ chrome' = "gone"
  /\ UNCHANGED <<program, mainVars, signalVars, metricsVars, stdin, driverVars>>

-----------------------------------------------------------------------------
(* The server. *)

(* Server.Run: nil or context.Canceled leads to the orderly end, any other *)
(* error of the transport to os.Exit.                                      *)
RunReturns ==
  /\ At("serving")
  /\ \/ (ctx \/ stdin = "eof") /\ Goto("shutdown")
     \/ stdin = "broken" /\ Exit("run")
  /\ UNCHANGED <<program, signalVars, chrome, metricsVars, stdin, driverVars>>

Shutdown ==
  /\ At("shutdown")
  /\ Goto("draining")
  /\ draining' = TRUE
  /\ metrics' = IF metrics = "listening" THEN "stopped" ELSE metrics
  /\ UNCHANGED <<program, signalVars, chrome, scrape, stdin, driverVars>>

(* fault: Shutdown is given a context without a deadline *)
DrainedIdle ==
  /\ At("draining")
  /\ ~scrape
  /\ Goto("closing")
  /\ UNCHANGED <<program, signalVars, chrome, metricsVars, stdin, driverVars>>

(* fault: stop() is deferred after Close, and runs before it *)
DrainedUncaught ==
  /\ At("draining")
  /\ Goto("closing")
  /\ caught' = FALSE
  /\ UNCHANGED <<program, ctx, chrome, metricsVars, stdin, driverVars>>

(* No request is left, or five seconds have passed. *)
Drained ==
  /\ At("draining")
  /\ Goto("closing")
  /\ UNCHANGED <<program, signalVars, chrome, metricsVars, stdin, driverVars>>

(* The deferred Close cancels both contexts and waits for Chrome. *)
Close ==
  /\ At("closing")
  /\ chrome # "running"
  /\ Goto("stopping")
  /\ UNCHANGED <<program, signalVars, chrome, metricsVars, stdin, driverVars>>

(* The deferred stop(), where there is one. *)
Stop ==
  /\ At("stopping")
  /\ Goto("returning")
  /\ caught' = FALSE
  /\ UNCHANGED <<program, ctx, chrome, metricsVars, stdin, driverVars>>

Return ==
  /\ At("returning")
  /\ Exit("returned")
  /\ UNCHANGED <<program, signalVars, chrome, metricsVars, stdin, driverVars>>

-----------------------------------------------------------------------------
(* fault: the goroutine does not look whether it comes too late *)
ListenUnchecked ==
  /\ outcome = "none"
  /\ metrics = "scheduled"
  /\ metrics' \in {"listening", "stopped"}
  /\ UNCHANGED <<program, mainVars, signalVars, chrome, draining, scrape, stdin, driverVars>>

(* The goroutine of the metrics server: it may run late, and its port may  *)
(* be taken, which is only logged.                                         *)
Listen ==
  /\ outcome = "none"
  /\ metrics = "scheduled"
  /\ metrics' \in IF draining THEN {"stopped"} ELSE {"listening", "stopped"}
  /\ UNCHANGED <<program, mainVars, signalVars, chrome, draining, scrape, stdin, driverVars>>

Scrape ==
  /\ outcome = "none"
  /\ ~scrape /\ metrics = "listening"
  /\ scrape' = TRUE
  /\ UNCHANGED <<program, mainVars, signalVars, chrome, metrics, draining, stdin, driverVars>>

ScrapeEnds ==
  /\ outcome = "none"
  /\ scrape
  /\ scrape' = FALSE
  /\ UNCHANGED <<program, mainVars, signalVars, chrome, metrics, draining, stdin, driverVars>>

-----------------------------------------------------------------------------
(* The drivers. *)

Tools == {"list_reference_types", "track_shipment", "get_shipment_details"}

(* The tools of dsv-verify, or the references of dsv-verify-all. *)
Work ==
  CASE program = "dsv-verify" -> <<"list_reference_types", "track_shipment", "get_shipment_details">>
    [] program = "dsv-verify-all" -> Refs
    [] OTHER -> <<>>

Failures == {"error", "tool error", "parse error"}

Notes == Failures \cup {"none", "not found", "dimensions populated", "goods block absent"}

(* How far the answers to an item have got, and why no further. *)
Row == [of : References \cup Tools, got : {"nothing", "shipment", "details"}, note : Notes]

Todo == item <= Len(Work)

(* The row of the current item is complete; the loop goes on. *)
Note(got, note) ==
  /\ rows' = Append(rows, [of |-> Work[item], got |-> got, note |-> note])
  /\ item' = item + 1

Connect ==
  /\ At("connecting")
  /\ Goto("driving") \/ Exit("connect")
  /\ UNCHANGED <<program, signalVars, chrome, metricsVars, stdin, driverVars>>

(* dsv-verify: an answer is printed, and so is an error. *)
CallTool ==
  /\ At("driving") /\ Todo
  /\ program = "dsv-verify"
  /\ Note("details", "none") \/ Note("nothing", "error")
  /\ UNCHANGED <<program, mainVars, signalVars, chrome, metricsVars, stdin>>

(* fault: a reference that is not found makes no row *)
TrackSkipping ==
  /\ At("driving") /\ Todo
  /\ program = "dsv-verify-all"
  /\ \/ Goto("detailing") /\ UNCHANGED driverVars
     \/ UNCHANGED mainVars /\ \E e \in Failures : Note("nothing", e)
     \/ UNCHANGED mainVars /\ item' = item + 1 /\ UNCHANGED rows
  /\ UNCHANGED <<program, signalVars, chrome, metricsVars, stdin>>

(* dsv-verify-all: track_shipment, whose first shipment is followed.  A    *)
(* failure, or a list without any, makes the row.                          *)
Track ==
  /\ At("driving") /\ Todo
  /\ program = "dsv-verify-all"
  /\ \/ Goto("detailing") /\ UNCHANGED driverVars
     \/ UNCHANGED mainVars /\ \E e \in Failures \cup {"not found"} : Note("nothing", e)
  /\ UNCHANGED <<program, signalVars, chrome, metricsVars, stdin>>

(* get_shipment_details makes the row. *)
Details ==
  /\ At("detailing")
  /\ Goto("driving")
  /\ \/ \E e \in Failures : Note("shipment", e)
     \/ \E n \in {"none", "dimensions populated", "goods block absent"} : Note("details", n)
  /\ UNCHANGED <<program, signalVars, chrome, metricsVars, stdin>>

(* The table is printed; the deferred calls close the session and Chrome. *)
Finish ==
  /\ At("driving") /\ ~Todo
  /\ Goto("closing")
  /\ UNCHANGED <<program, signalVars, chrome, metricsVars, stdin, driverVars>>

-----------------------------------------------------------------------------
(* What others do to the process. *)

(* SIGINT or SIGTERM: the first one that is caught cancels the context,    *)
(* later ones are swallowed, and one that is not caught kills.             *)
Signal ==
  /\ outcome = "none"
  /\ IF caught
     THEN ctx' = TRUE /\ UNCHANGED mainVars
     ELSE Exit("killed") /\ UNCHANGED ctx
  /\ UNCHANGED <<program, caught, chrome, metricsVars, stdin, driverVars>>

(* The client of the server closes its end, or sends what cannot be read. *)
ClientLeaves ==
  /\ outcome = "none" /\ Server
  /\ stdin = "open"
  /\ stdin' \in {"eof", "broken"}
  /\ UNCHANGED <<program, mainVars, signalVars, chrome, metricsVars, driverVars>>

-----------------------------------------------------------------------------
MainStep ==
  \/ LoadConfig \/ NotifyContext \/ StartDriver
  \/ StartChrome \/ Launched \/ LaunchFails \/ LeaveLaunch
  \/ RunReturns \/ Shutdown \/ Drained
  \/ Connect \/ CallTool \/ Track \/ Details \/ Finish
  \/ Close \/ Stop \/ Return

Next ==
  \/ MainStep
  \/ ChromeEnds
  \/ Listen \/ Scrape \/ ScrapeEnds
  \/ Signal \/ ClientLeaves

Spec == Init /\ [][Next]_vars

(* The main goroutine runs and a Chrome that was cancelled dies.  A tool   *)
(* call returns (EveryCallAnswered), and a launch has a deadline of its    *)
(* own.  Nobody has to send a signal, leave, or finish a scrape.           *)
FairSpec ==
  /\ Spec
  /\ WF_vars(MainStep)
  /\ WF_vars(Cancelled /\ ChromeEnds)

-----------------------------------------------------------------------------
Exits == {"config", "launch", "run", "connect", "returned", "killed"}

TypeOK ==
  /\ program \in Programs
  /\ pc \in {"start", "configured", "launching", "launchFailed", "serving", "shutdown", "draining",
             "connecting", "driving", "detailing", "closing", "stopping", "returning", "over"}
  /\ outcome \in Exits \cup {"none"}
  /\ ctx \in BOOLEAN /\ caught \in BOOLEAN /\ draining \in BOOLEAN /\ scrape \in BOOLEAN
  /\ chrome \in {"none", "running", "gone"}
  /\ metrics \in {"off", "scheduled", "listening", "stopped"}
  /\ stdin \in {"open", "eof", "broken"}
  /\ item \in Nat \ {0}
  /\ rows \in Seq(Row)
  /\ outcome # "none" <=> pc = "over"
  /\ pc \in {"serving", "shutdown", "draining", "connecting", "driving", "detailing"} =>
       chrome # "none"

(* A program that ends by itself has seen its Chrome out, whenever the     *)
(* signals came and however far the launch had got.  The two exceptions    *)
(* are the calls of os.Exit with a browser open.                           *)
ChromeReaped ==
  outcome \in {"returned", "config", "launch"} => chrome # "running"

(* A signal, in whatever state it finds the server, never makes it leave   *)
(* Chrome behind: it is caught from before the launch until after Close.   *)
SignalLeavesNoChrome ==
  Server /\ outcome = "killed" => chrome # "running"

(* Nothing listens for metrics once main has shut that server down, even   *)
(* if its goroutine gets to run only then.                                 *)
NothingListensAfterShutdown ==
  draining => metrics # "listening"

Reports(table, items) ==
  \A n \in 1..Len(table) : table[n].of = items[n] /\ (table[n].got = "details" \/ table[n].note # "none")

(* A driver that gets to its end has reported each item of its work, once  *)
(* and in order, and what has no answer has a reason.                      *)
EveryItemReported ==
  outcome = "returned" /\ ~Server => Len(rows) = Len(Work) /\ Reports(rows, Work)

(* The process ends when it is asked to, by a caught signal or by its      *)
(* client, and a driver in any case: neither a scrape that never ends nor  *)
(* Chrome keeps it.                                                        *)
EndsWhenAsked ==
  ctx \/ stdin # "open" \/ ~Server ~> outcome # "none"
=============================================================================
