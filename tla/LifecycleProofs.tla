-------------------------- MODULE LifecycleProofs --------------------------
(***************************************************************************)
(* The programs of cmd/ see their Chrome out, whatever signals come and    *)
(* whenever, and a driver reports every item of its work, for any list of  *)
(* references: one inductive invariant, which says where in the program    *)
(* Chrome may run, where signals are caught, and what a driver has noted.  *)
(***************************************************************************)
EXTENDS Lifecycle, TLAPS

(* No Chrome before the launch, and none after Close has waited for it. *)
ChromeWhile ==
  pc \in {"start", "configured", "stopping", "returning"} => chrome # "running"

(* A signal that is not caught finds the server without a Chrome. *)
CaughtWhile ==
  /\ ~Server => pc \notin {"configured", "serving", "shutdown", "draining"}
  /\ Server => pc \notin {"connecting", "driving", "detailing"}
  /\ Server /\ pc \notin {"start", "configured", "returning", "over"} => caught

(* A driver has a row for each item it is past, and is past all at the end. *)
RowsSoFar ==
  /\ Len(rows) = item - 1
  /\ item <= Len(Work) + 1
  /\ Reports(rows, Work)
  /\ pc = "detailing" => Todo
  /\ ~Server /\ (pc \in {"closing", "stopping", "returning"} \/ outcome = "returned") => ~Todo

IInv ==
  /\ TypeOK /\ ChromeWhile /\ CaughtWhile /\ RowsSoFar
  /\ ChromeReaped /\ SignalLeavesNoChrome /\ NothingListensAfterShutdown

-----------------------------------------------------------------------------
(* Short tuples are sequences. *)
LEMMA Tuples ==
  ASSUME NEW S, NEW a \in S, NEW b \in S, NEW c \in S
  PROVE  <<a, b, c>> \in Seq(S) /\ <<>> \in Seq(S)
OBVIOUS

(* The work of a program is a list of names that does not change. *)
LEMMA WorkType == program \in Programs => Work \in Seq(References \cup Tools)
<1> SUFFICES ASSUME program \in Programs PROVE Work \in Seq(References \cup Tools)
  OBVIOUS
<1>1. CASE program = "dsv-verify"
  <2>1. Tools \subseteq References \cup Tools
    OBVIOUS
  <2>2. Work = <<"list_reference_types", "track_shipment", "get_shipment_details">>
    BY <1>1 DEF Work
  <2> QED BY <2>1, <2>2, Tuples DEF Tools
<1>2. CASE program = "dsv-verify-all"
  <2>1. Work = Refs
    BY <1>2 DEF Work
  <2> QED BY <2>1, RefsAssumption
<1>3. CASE program = "dsv-tracking-mcp"
  <2>1. Work = <<>>
    BY <1>3 DEF Work
  <2> QED BY <2>1
<1> QED
  BY <1>1, <1>2, <1>3 DEF Programs

(* The initial states satisfy the inductive invariant. *)
LEMMA InitInv == Init => IInv
<1> SUFFICES ASSUME Init PROVE IInv
  OBVIOUS
<1>1. Work \in Seq(References \cup Tools) /\ Len(Work) \in Nat
  BY WorkType DEF Init
<1>2. rows \in Seq(Row) /\ Len(rows) = 0
  BY DEF Init
<1>3. TypeOK
  <2>1. item \in Nat \ {0}
    BY DEF Init
  <2>2. outcome \in Exits \cup {"none"} /\ (outcome # "none" <=> pc = "over")
    BY DEF Init
  <2> QED
    BY <1>2, <2>1, <2>2 DEF Init, TypeOK
<1>4. RowsSoFar
  <2>1. pc = "start" /\ outcome # "returned" /\ item = 1
    BY DEF Init
  <2>2. Reports(rows, Work)
    BY <1>2 DEF Reports
  <2> QED
    BY <1>1, <1>2, <2>1, <2>2 DEF RowsSoFar
<1> QED
  BY <1>3, <1>4, RefsAssumption DEF Init, IInv, ChromeWhile, CaughtWhile, ChromeReaped, SignalLeavesNoChrome,
         NothingListensAfterShutdown

(* A table stays a true report when a row is appended for the next item. *)
LEMMA Reporting ==
  ASSUME NEW items, NEW table \in Seq(Row), NEW row \in Row, Reports(table, items),
         row.of = items[Len(table) + 1], row.got = "details" \/ row.note # "none"
  PROVE  /\ Append(table, row) \in Seq(Row)
         /\ Len(Append(table, row)) = Len(table) + 1
         /\ Reports(Append(table, row), items)
<1> DEFINE longer == Append(table, row)
<1>1. /\ longer \in Seq(Row) /\ Len(longer) = Len(table) + 1
      /\ longer[Len(table) + 1] = row /\ \A n \in 1..Len(table) : longer[n] = table[n]
  OBVIOUS
<1> HIDE DEF longer
<1>2. ASSUME NEW n \in 1..Len(longer)
      PROVE  longer[n].of = items[n] /\ (longer[n].got = "details" \/ longer[n].note # "none")
  <2>1. CASE n = Len(table) + 1
    BY <1>1, <2>1
  <2>2. CASE n # Len(table) + 1
    <3>1. n \in 1..Len(table)
      BY <1>1, <2>2
    <3> QED BY <1>1, <3>1 DEF Reports
  <2> QED BY <2>1, <2>2
<1> QED
  BY <1>1, <1>2 DEF Reports, longer

(* A driver's row completes an item of its work. *)
LEMMA NoteKeeps ==
  ASSUME IInv, Todo, program' = program,
         NEW got \in {"nothing", "shipment", "details"}, NEW note \in Notes,
         got = "details" \/ note # "none", Note(got, note)
  PROVE  /\ item' \in Nat \ {0} /\ rows' \in Seq(Row)
         /\ Len(rows') = item' - 1 /\ item' <= Len(Work') + 1
         /\ Reports(rows', Work')
<1> DEFINE row == [of |-> Work[item], got |-> got, note |-> note]
<1>1. Work \in Seq(References \cup Tools)
  BY WorkType DEF IInv, TypeOK
<1>2. Work' = Work
  BY Zenon DEF Work
<1>3. item \in Nat \ {0} /\ rows \in Seq(Row) /\ item <= Len(Work) /\ Len(rows) = item - 1
  BY DEF IInv, TypeOK, RowsSoFar, Todo
<1>4. row \in Row /\ row.of = Work[item] /\ (row.got = "details" \/ row.note # "none")
  <2>1. Work[item] \in References \cup Tools
    BY <1>1, <1>3
  <2> QED BY <2>1 DEF Row
<1>5. rows' = Append(rows, row) /\ item' = item + 1
  BY DEF Note
<1>6. Reports(rows, Work)
  BY DEF IInv, RowsSoFar
<1> HIDE DEF row
<1>7. item = Len(rows) + 1
  BY <1>3
<1>8. rows' \in Seq(Row) /\ Len(rows') = item /\ Reports(rows', Work)
  BY <1>3, <1>4, <1>5, <1>6, <1>7, Reporting
<1> QED
  BY <1>1, <1>2, <1>3, <1>5, <1>8

-----------------------------------------------------------------------------
(* A program stays what it is, and so does its work. *)
LEMMA SameProgram ==
  ASSUME [Next]_vars
  PROVE  program' = program /\ Work' = Work /\ (Server' <=> Server)
<1>1. program' = program
  BY DEF Next, vars, MainStep, LoadConfig, NotifyContext, StartDriver, StartChrome, Launched, LaunchFails,
         LeaveLaunch, RunReturns, Shutdown, Drained, Connect, CallTool, Track, Details, Finish, Close, Stop,
         Return, ChromeEnds, Listen, Scrape, ScrapeEnds, Signal, ClientLeaves
<1> QED
  BY <1>1, Zenon DEF Work, Server

(* The steps that note a row. *)
LEMMA RowsKept ==
  ASSUME IInv, CallTool \/ Track \/ Details
  PROVE  item' \in Nat \ {0} /\ rows' \in Seq(Row) /\ RowsSoFar'
<1>1. program' = program /\ Work' = Work /\ (Server' <=> Server)
  <2>1. [Next]_vars
    BY DEF Next, MainStep
  <2> QED BY <2>1, SameProgram
<1>2. /\ item \in Nat \ {0} /\ rows \in Seq(Row) /\ RowsSoFar
  BY DEF IInv, TypeOK
<1>3. pc' \in {"driving", "detailing"} /\ outcome' = "none"
  BY DEF CallTool, Track, Details, At, Goto, mainVars
<1>4. CASE UNCHANGED driverVars /\ Todo
  BY <1>1, <1>2, <1>3, <1>4 DEF RowsSoFar, Reports, Todo, driverVars
<1>5. CASE Todo /\ pc' = "driving" /\ \E e \in Failures : Note("nothing", e) \/ Note("shipment", e)
  BY <1>1, <1>3, <1>5, NoteKeeps DEF RowsSoFar, Failures, Notes
<1>6. CASE Todo /\ pc' = "driving" /\ Note("nothing", "not found")
  BY <1>1, <1>3, <1>6, NoteKeeps DEF RowsSoFar, Notes
<1>7. CASE Todo /\ pc' = "driving" /\ \E n \in Notes : Note("details", n)
  BY <1>1, <1>3, <1>7, NoteKeeps DEF RowsSoFar
<1>8. Todo
  BY DEF CallTool, Track, Details, At, IInv, RowsSoFar
<1>9. CASE CallTool
  <2>1. pc' = "driving"
    BY <1>9 DEF CallTool, At, mainVars
  <2>2. Note("details", "none") \/ Note("nothing", "error")
    BY <1>9 DEF CallTool
  <2>3. "none" \in Notes /\ "error" \in Failures
    BY DEF Notes, Failures
  <2> QED BY <1>5, <1>7, <1>8, <2>1, <2>2, <2>3
<1>10. CASE Track
  <2>1. CASE UNCHANGED driverVars
    BY <2>1, <1>4, <1>8
  <2>2. CASE UNCHANGED mainVars /\ \E e \in Failures \cup {"not found"} : Note("nothing", e)
    <3>1. pc' = "driving"
      BY <1>10, <2>2 DEF Track, At, mainVars
    <3> QED BY <2>2, <3>1, <1>5, <1>6, <1>8
  <2> QED BY <1>10, <2>1, <2>2 DEF Track
<1>11. CASE Details
  <2>1. pc' = "driving"
    BY <1>11 DEF Details, Goto
  <2>2. CASE \E e \in Failures : Note("shipment", e)
    BY <1>5, <1>8, <2>1, <2>2
  <2>3. CASE \E n \in {"none", "dimensions populated", "goods block absent"} : Note("details", n)
    <3>1. \E n \in Notes : Note("details", n)
      BY <2>3 DEF Notes
    <3> QED BY <1>7, <1>8, <2>1, <3>1
  <2> QED BY <1>11, <2>2, <2>3 DEF Details
<1> QED
  BY <1>9, <1>10, <1>11

(* Every step keeps the inductive invariant. *)
LEMMA NextInv == IInv /\ [Next]_vars => IInv'
<1> SUFFICES ASSUME IInv, [Next]_vars PROVE IInv'
  OBVIOUS
<1>a. program' = program /\ Work' = Work /\ (Server' <=> Server)
  BY SameProgram
<1>b. program' \in Programs
  BY <1>a DEF IInv, TypeOK
<1>c. ASSUME UNCHANGED driverVars
      PROVE  item' \in Nat \ {0} /\ rows' \in Seq(Row) /\ (Todo' <=> Todo)
             /\ Len(rows') = item' - 1 /\ item' <= Len(Work') + 1 /\ Reports(rows', Work')
  BY <1>a, <1>c DEF driverVars, IInv, TypeOK, RowsSoFar, Reports, Todo
<1> USE DEF IInv, TypeOK, Exits, ChromeWhile, CaughtWhile, ChromeReaped, SignalLeavesNoChrome,
            NothingListensAfterShutdown, mainVars, signalVars, metricsVars, At, Goto, Exit
<1>1. CASE LoadConfig
  BY <1>1, <1>a, <1>b, <1>c DEF LoadConfig, RowsSoFar
<1>2. CASE NotifyContext
  BY <1>2, <1>a, <1>b, <1>c DEF NotifyContext, RowsSoFar
<1>3. CASE StartDriver
  BY <1>3, <1>a, <1>b, <1>c DEF StartDriver, RowsSoFar
<1>4. CASE StartChrome \/ Launched
  BY <1>4, <1>a, <1>b, <1>c DEF StartChrome, Launched, RowsSoFar
<1>5. CASE LaunchFails \/ LeaveLaunch
  BY <1>5, <1>a, <1>b, <1>c DEF LaunchFails, LeaveLaunch, RowsSoFar
<1>6. CASE RunReturns
  BY <1>6, <1>a, <1>b, <1>c DEF RunReturns, RowsSoFar
<1>7. CASE Shutdown
  BY <1>7, <1>a, <1>b, <1>c DEF Shutdown, RowsSoFar
<1>8. CASE Drained
  BY <1>8, <1>a, <1>b, <1>c DEF Drained, RowsSoFar
<1>9. CASE Connect
  BY <1>9, <1>a, <1>b, <1>c DEF Connect, RowsSoFar
<1>10. CASE Finish
  BY <1>10, <1>a, <1>b, <1>c DEF Finish, RowsSoFar
<1>11. CASE Close
  BY <1>11, <1>a, <1>b, <1>c DEF Close, RowsSoFar
<1>12. CASE Stop
  BY <1>12, <1>a, <1>b, <1>c DEF Stop, RowsSoFar
<1>13. CASE Return
  BY <1>13, <1>a, <1>b, <1>c DEF Return, RowsSoFar
<1>14. CASE ChromeEnds
  BY <1>14, <1>a, <1>b, <1>c DEF ChromeEnds, RowsSoFar
<1>15. CASE Listen
  BY <1>15, <1>a, <1>b, <1>c DEF Listen, RowsSoFar
<1>16. CASE Scrape \/ ScrapeEnds
  <2>1. UNCHANGED driverVars /\ UNCHANGED <<mainVars, signalVars, chrome, metrics, draining, stdin>>
        /\ scrape' \in BOOLEAN
    BY <1>16 DEF Scrape, ScrapeEnds
  <2> QED BY <2>1, <1>a, <1>b, <1>c DEF RowsSoFar
<1>17. CASE Signal
  <2>1. UNCHANGED driverVars /\ UNCHANGED <<caught, chrome, metricsVars, stdin>>
    BY <1>17 DEF Signal
  <2>2. CASE caught
    <3>1. ctx' \in BOOLEAN /\ UNCHANGED mainVars
      BY <1>17, <2>2 DEF Signal
    <3> QED BY <2>1, <3>1, <1>a, <1>b, <1>c DEF RowsSoFar
  <2>3. CASE ~caught
    <3>1. UNCHANGED ctx /\ pc' = "over" /\ outcome' = "killed" /\ outcome = "none"
      BY <1>17, <2>3 DEF Signal
    <3>2. Server => chrome # "running"
      BY <2>3, <3>1
    <3> QED BY <2>1, <3>1, <3>2, <1>a, <1>b, <1>c DEF RowsSoFar
  <2> QED BY <2>2, <2>3
<1>18. CASE ClientLeaves
  <2>1. UNCHANGED driverVars /\ UNCHANGED <<mainVars, signalVars, chrome, metricsVars>>
        /\ stdin' \in {"eof", "broken"}
    BY <1>18 DEF ClientLeaves
  <2> QED BY <2>1, <1>a, <1>b, <1>c DEF RowsSoFar
<1>19. CASE CallTool
  <2>1. item' \in Nat \ {0} /\ rows' \in Seq(Row) /\ RowsSoFar'
    BY <1>19, RowsKept
  <2>2. UNCHANGED <<mainVars, signalVars, chrome, metricsVars, stdin>>
    BY <1>19 DEF CallTool
  <2> QED BY <1>a, <1>b, <2>1, <2>2
<1>20. CASE Track
  <2>1. item' \in Nat \ {0} /\ rows' \in Seq(Row) /\ RowsSoFar'
    BY <1>20, RowsKept
  <2>2. pc' \in {"driving", "detailing"} /\ UNCHANGED <<outcome, signalVars, chrome, metricsVars, stdin>>
    BY <1>20 DEF Track
  <2>3. ~Server /\ pc = "driving" /\ outcome = "none"
    BY <1>20 DEF Track, Server
  <2> QED BY <1>a, <1>b, <2>1, <2>2, <2>3
<1>21. CASE Details
  <2>1. item' \in Nat \ {0} /\ rows' \in Seq(Row) /\ RowsSoFar'
    BY <1>21, RowsKept
  <2>2. pc' = "driving" /\ UNCHANGED <<outcome, signalVars, chrome, metricsVars, stdin>>
    BY <1>21 DEF Details
  <2>3. ~Server /\ pc = "detailing" /\ outcome = "none"
    BY <1>21 DEF Details
  <2> QED BY <1>a, <1>b, <2>1, <2>2, <2>3
<1>22. CASE UNCHANGED vars
  <2>1. UNCHANGED driverVars /\ UNCHANGED <<mainVars, signalVars, chrome, metricsVars, stdin>>
    BY <1>22 DEF vars, driverVars
  <2> QED BY <2>1, <1>a, <1>b, <1>c DEF RowsSoFar
<1> QED
  BY <1>1, <1>2, <1>3, <1>4, <1>5, <1>6, <1>7, <1>8, <1>9, <1>10, <1>11, <1>12, <1>13, <1>14,
     <1>15, <1>16, <1>17, <1>18, <1>19, <1>20, <1>21, <1>22 DEF Next, MainStep

(* IInv is an invariant of the specification. *)
THEOREM Invariance == Spec => []IInv
BY InitInv, NextInv, PTL DEF Spec

(* Type correctness of the programs and of all they own. *)
THEOREM TypeCorrect == Spec => []TypeOK
BY Invariance, PTL DEF IInv

(* A program that ends by itself has seen its Chrome out. *)
THEOREM Reaped == Spec => []ChromeReaped
BY Invariance, PTL DEF IInv

(* A signal never makes the server leave Chrome behind. *)
THEOREM SignalSafe == Spec => []SignalLeavesNoChrome
BY Invariance, PTL DEF IInv

(* The metrics server does not come up after it was shut down. *)
THEOREM NoLateListener == Spec => []NothingListensAfterShutdown
BY Invariance, PTL DEF IInv

(* A driver that gets to its end has reported every item of its work. *)
THEOREM Reported == Spec => []EveryItemReported
<1>1. IInv => EveryItemReported
  <2> SUFFICES ASSUME IInv, outcome = "returned", ~Server PROVE EveryItemReported
    BY DEF EveryItemReported
  <2>1. Work \in Seq(References \cup Tools) /\ item \in Nat
    BY WorkType DEF IInv, TypeOK
  <2>2. Len(rows) = item - 1 /\ item <= Len(Work) + 1 /\ ~(item <= Len(Work))
    BY DEF IInv, RowsSoFar, Todo
  <2> QED
    BY <2>1, <2>2 DEF IInv, RowsSoFar, EveryItemReported
<1> QED
  BY <1>1, Invariance, PTL
=============================================================================
