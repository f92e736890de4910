------------------------------ MODULE Mapping ------------------------------
(***************************************************************************)
(* From a response body to what a tool call returns: the decoding of       *)
(* client.go, the mapper of internal/upstream/dsv that makes a             *)
(* domain.Shipment of the DTO, and the view mapper of internal/domain that *)
(* makes a ShipmentDetailView of the (cached) shipment; likewise for the   *)
(* summaries of a search.                                                  *)
(*                                                                         *)
(* Strings are themselves or members of small sets, "" is the empty        *)
(* string; an id is the sequence of its colon-separated segments; a time   *)
(* is a number of half seconds, which RFC3339 formats as whole seconds.    *)
(* None is nil: a list or a date that the body does not have, or has as    *)
(* null.  Fields that are copied and that nothing depends on are left out. *)
(***************************************************************************)
EXTENDS Integers, Sequences, FiniteSets

CONSTANTS
  Bodies,   \* response bodies: a DTO, or one that does not parse
  None

(* A literal is a string, which the provers do not know by themselves. *)
ASSUME LiteralAssumption == {"", "CTTS"} \subseteq STRING

EventCodes == {"ENT", "COL", "ENM", "MAN", "DOT", "DLV", "NLO", "DIS"}
Stages == {"BOOKED", "TRANSPORTATION", "DISPATCHING_CENTER", "IN_DELIVERY", "DELIVERED"}
Modes == {"LAND", "SEA", "AIR", "RAIL"}

Optional(S) == S \cup {None}
Nullable(S) == Optional(Seq(S))

-----------------------------------------------------------------------------
(* dto.go: what a body may hold.                                           *)
MeasurementDTO == [value : Int, unit : STRING]

DimensionDTO == [length : Optional(MeasurementDTO), width : Optional(MeasurementDTO),
                 height : Optional(MeasurementDTO)]

GoodsDTO == [pieces : Int, weight : MeasurementDTO, volume : MeasurementDTO,
             loadingMeters : MeasurementDTO, dimensions : Nullable(DimensionDTO)]

EventDTO == [code : STRING, date : Nat, location : [name : STRING, countryCode : STRING]]

PackageEventDTO == [code : STRING, date : Nat, location : STRING, countryCode : STRING]

PackageDTO == [id : STRING, events : Nullable(PackageEventDTO)]

PlaceDTO == [countryCode : STRING, city : STRING, postCode : STRING]

OfficeDTO == [countryCode : STRING, city : STRING]

LocationDTO == [collectFrom : PlaceDTO, deliverTo : PlaceDTO, shipperPlace : PlaceDTO,
                consigneePlace : PlaceDTO, dispatchingOffice : OfficeDTO, receivingOffice : OfficeDTO]

ReferencesDTO == [shipper : Nullable(STRING), consignee : Nullable(STRING),
                  waybillAndConsignmentNumbers : Nullable(STRING)]

ProgressBarDTO == [steps : Nullable(STRING), activeStep : STRING]

ShipmentDetailDTO ==
  [shipmentID : Seq(STRING), sttNumber : STRING, transportMode : STRING, dataProvider : STRING,
   references : ReferencesDTO, goods : GoodsDTO, events : Nullable(EventDTO),
   packages : Nullable(PackageDTO), deliveryDate : [estimated : Optional(Nat), agreed : Optional(Nat)],
   progressBar : Optional(ProgressBarDTO), location : LocationDTO]

ShipmentSummaryDTO ==
  [id : Seq(STRING), stt : STRING, transportMode : STRING, percentageProgress : Int,
   lastEventCode : STRING, startDate : Optional(Nat), endDate : Optional(Nat)]

SearchResponseDTO == [result : Nullable(ShipmentSummaryDTO)]

(* A body that does not parse has no DTO. *)
ASSUME BodiesAssumption ==
  \A b \in Bodies : \/ b.kind = "detail" /\ b.dto \in Optional(ShipmentDetailDTO)
                    \/ b.kind = "search" /\ b.dto \in Optional(SearchResponseDTO)

-----------------------------------------------------------------------------
(* shipment.go: what the mapper makes of it, and the cache keeps.  No list *)
(* is nil any more.                                                        *)
Event == [code : EventCodes \cup {""}, rawCode : STRING, date : Nat,
          location : [name : STRING, countryCode : STRING]]

PackageEvent == [code : EventCodes \cup {""}, rawCode : STRING, date : Nat,
                 location : STRING, countryCode : STRING]

Package == [id : STRING, events : Seq(PackageEvent)]

Goods == [pieces : Int, weight : MeasurementDTO, volume : MeasurementDTO,
          loadingMeters : MeasurementDTO, dimensions : Seq(DimensionDTO)]

References == [shipper : Seq(STRING), consignee : Seq(STRING),
               waybillAndConsignmentNumbers : Seq(STRING)]

Progress == [steps : Seq(Stages \cup {""}), activeStep : Stages \cup {""}]

Shipment ==
  [shipmentID : Seq(STRING), sttNumber : STRING, transportMode : Modes \cup {""},
   dataProvider : STRING, references : References, goods : Goods, events : Seq(Event),
   packages : Seq(Package), deliveryDate : [estimated : Optional(Nat), agreed : Optional(Nat)],
   progress : Progress, locations : LocationDTO]

ShipmentSummary ==
  [shipmentID : Seq(STRING), sttNumber : STRING, transportMode : Modes \cup {""},
   percentageProgress : Int, lastEventCode : EventCodes \cup {""}, lastEventRawCode : STRING,
   startDate : Optional(Nat), endDate : Optional(Nat)]

-----------------------------------------------------------------------------
(* view.go: what a tool returns.  None is a field that is omitted.         *)
Labels == {"Booked", "Collected", "Arrived at hub", "Departed", "Out for delivery", "Delivered",
           "Loaded for transport", "To consignee's disposal", "In transportation",
           "At dispatching centre", "Unknown"}

DimensionView == DimensionDTO

(* The dimensions are a list that is not empty, or they are omitted. *)
GoodsView == [pieces : Int, weight : Optional(MeasurementDTO), volume : Optional(MeasurementDTO),
              loadingMeters : Optional(MeasurementDTO),
              dimensions : Optional(Seq(DimensionView) \ {<<>>})]

LocationView == Optional(PlaceDTO \cup OfficeDTO)

EventView == [date : Nat, code : EventCodes \cup {""}, rawCode : STRING, description : Labels,
              location : Seq(STRING)]

PackageView == [id : STRING, events : Seq(PackageEvent)]

ShipmentDetailView ==
  [shipmentID : Seq(STRING), reference : STRING, status : Labels, transportMode : Modes \cup {""},
   dataProvider : STRING, shipperPlace : LocationView, consigneePlace : LocationView,
   collectFrom : LocationView, deliverTo : LocationView, dispatchingOffice : LocationView,
   events : Seq(EventView), packages : Seq(PackageView), goods : GoodsView, viewInUIURL : STRING]

ShipmentSummaryView ==
  [shipmentID : Seq(STRING), stt : STRING, status : Labels, lastEventCode : STRING,
   transportMode : Modes \cup {""}, progress : Int, dataProvider : STRING,
   startDate : Optional(Nat), endDate : Optional(Nat)]

-----------------------------------------------------------------------------
VARIABLES
  body,     \* the response body
  mapped,   \* what Upstream.Detail or Upstream.Search returned, or None
  view      \* what the tool returns, or None

vars == <<body, mapped, view>>

(* fault: an unknown string stays what it is *)
ParseVerbatim(s, known) == s

(* ParseEventCode, ParseProgressStage and ParseTransportMode *)
Parse(s, known) == IF s \in known THEN s ELSE ""

CodeLabel == [ENT |-> "Booked", COL |-> "Collected", ENM |-> "Arrived at hub",
              MAN |-> "Departed", DOT |-> "Out for delivery", DLV |-> "Delivered",
              NLO |-> "Loaded for transport", DIS |-> "To consignee's disposal"]

StageLabel == [BOOKED |-> "Booked", TRANSPORTATION |-> "In transportation",
               DISPATCHING_CENTER |-> "At dispatching centre",
               IN_DELIVERY |-> "Out for delivery", DELIVERED |-> "Delivered"]

Description(c, labels) == IF c \in DOMAIN labels THEN labels[c] ELSE "Unknown"

Map(s, f(_)) == [n \in 1..Len(s) |-> f(s[n])]

(* A nil list is ranged over, measured and kept as an empty one. *)
NilToEmpty(s) == IF s = None THEN <<>> ELSE s

-----------------------------------------------------------------------------
(* sort.go.                                                                *)

(* fault: ties come out in reverse order *)
BeforeUnstable(s, i, j) ==
  s[i].date < s[j].date \/ (s[i].date = s[j].date /\ i > j)

(* Element i of s comes before element j in the stable order by date. *)
Before(s, i, j) ==
  s[i].date < s[j].date \/ (s[i].date = s[j].date /\ i < j)

Rank(s, i) == 1 + Cardinality({j \in 1..Len(s) : Before(s, j, i)})

SortChronologically(s) ==
  [n \in 1..Len(s) |-> s[CHOOSE i \in 1..Len(s) : Rank(s, i) = n]]

-----------------------------------------------------------------------------
(* mapper.go: from a DTO to the domain.                                    *)
Malformed == [ok |-> FALSE, value |-> None]
Ok(x) == [ok |-> TRUE, value |-> x]

MapEvent(e) == [code |-> Parse(e.code, EventCodes), rawCode |-> e.code,
                date |-> e.date, location |-> e.location]

MapPackageEvent(e) == [code |-> Parse(e.code, EventCodes), rawCode |-> e.code, date |-> e.date,
                       location |-> e.location, countryCode |-> e.countryCode]

MapPackage(p) ==
  [id |-> p.id, events |-> SortChronologically(Map(NilToEmpty(p.events), MapPackageEvent))]

MapStage(step) == Parse(step, Stages)

(* fault: the active step is taken to be the last one *)
MapProgressLastStep(bar) ==
  LET steps == Map(NilToEmpty(bar.steps), MapStage)
  IN  [steps |-> steps, activeStep |-> IF steps = <<>> THEN "" ELSE steps[Len(steps)]]

MapProgress(bar) ==
  [steps |-> Map(NilToEmpty(bar.steps), MapStage), activeStep |-> MapStage(bar.activeStep)]

MapShipment(dto) ==
  [shipmentID |-> dto.shipmentID,
   sttNumber |-> dto.sttNumber,
   transportMode |-> Parse(dto.transportMode, Modes),
   dataProvider |-> dto.dataProvider,
   references |-> [r \in DOMAIN dto.references |-> NilToEmpty(dto.references[r])],
   goods |-> [dto.goods EXCEPT !.dimensions = NilToEmpty(@)],
   events |-> SortChronologically(Map(NilToEmpty(dto.events), MapEvent)),
   packages |-> Map(NilToEmpty(dto.packages), MapPackage),
   deliveryDate |-> dto.deliveryDate,
   progress |-> MapProgress(dto.progressBar),
   locations |-> dto.location]

MapShipmentDetail(dto) ==
  IF dto.progressBar = None THEN Malformed ELSE Ok(MapShipment(dto))

MapSummary(s) ==
  [shipmentID |-> s.id, sttNumber |-> s.stt,
   transportMode |-> Parse(s.transportMode, Modes), percentageProgress |-> s.percentageProgress,
   lastEventCode |-> Parse(s.lastEventCode, EventCodes), lastEventRawCode |-> s.lastEventCode,
   startDate |-> s.startDate, endDate |-> s.endDate]

MapShipmentSummaries(dto) == Map(NilToEmpty(dto.result), MapSummary)

-----------------------------------------------------------------------------
(* view_mapper.go: from the domain to the view.                            *)
RFC3339(t) == t \div 2

Date(t) == IF t = None THEN None ELSE RFC3339(t)

(* "Varnamo (SE)", or the name alone. *)
LocationText(l) == IF l.countryCode = "" THEN <<l.name>> ELSE <<l.name, l.countryCode>>

(* fault: the raw code is shown only where the code is unknown *)
MapEventViewOneCode(e) ==
  [date |-> RFC3339(e.date), code |-> e.code,
   rawCode |-> IF e.code = "" THEN e.rawCode ELSE "",
   description |-> Description(e.code, CodeLabel), location |-> LocationText(e.location)]

MapEventView(e) ==
  [date |-> RFC3339(e.date), code |-> e.code, rawCode |-> e.rawCode,
   description |-> Description(e.code, CodeLabel), location |-> LocationText(e.location)]

(* A package's event is shown without a description. *)
MapPackageEventView(e) == [e EXCEPT !.date = RFC3339(@)]

MapPackageView(p) == [id |-> p.id, events |-> Map(p.events, MapPackageEventView)]

(* A measurement without a unit is left out, whatever its value. *)
MapMeasurementView(m) == IF m = None \/ m.unit = "" THEN None ELSE m

MapDimensionView(d) == [side \in DOMAIN d |-> MapMeasurementView(d[side])]

(* The list of dimensions is only appended to: without any it stays nil. *)
MapDimensionsView(ds) == IF ds = <<>> THEN None ELSE Map(ds, MapDimensionView)

MapGoodsView(g) ==
  [pieces |-> g.pieces,
   weight |-> MapMeasurementView(g.weight), volume |-> MapMeasurementView(g.volume),
   loadingMeters |-> MapMeasurementView(g.loadingMeters),
   dimensions |-> MapDimensionsView(g.dimensions)]

(* A place is left out if its city, country code and post code are blank. *)
MapPlaceView(p) == IF p.city = "" /\ p.countryCode = "" /\ p.postCode = "" THEN None ELSE p

MapOfficeView(o) == IF o.city = "" /\ o.countryCode = "" THEN None ELSE o

ViewInUIURL(id) == IF Len(id) < 2 THEN "" ELSE id[2]

DataProviderFromShipmentID(id) == IF Len(id) >= 3 /\ id[3] # "" THEN id[3] ELSE "CTTS"

(* The view has no receiving office, references, dates or steps. *)
MapShipmentDetailView(s) ==
  [shipmentID |-> s.shipmentID, reference |-> s.sttNumber,
   status |-> Description(s.progress.activeStep, StageLabel),
   transportMode |-> s.transportMode, dataProvider |-> s.dataProvider,
   shipperPlace |-> MapPlaceView(s.locations.shipperPlace),
   consigneePlace |-> MapPlaceView(s.locations.consigneePlace),
   collectFrom |-> MapPlaceView(s.locations.collectFrom),
   deliverTo |-> MapPlaceView(s.locations.deliverTo),
   dispatchingOffice |-> MapOfficeView(s.locations.dispatchingOffice),
   events |-> Map(s.events, MapEventView),
   packages |-> Map(s.packages, MapPackageView),
   goods |-> MapGoodsView(s.goods),
   viewInUIURL |-> ViewInUIURL(s.shipmentID)]

MapShipmentSummaryView(s) ==
  [shipmentID |-> s.shipmentID, stt |-> s.sttNumber,
   status |-> Description(s.lastEventCode, CodeLabel), lastEventCode |-> s.lastEventRawCode,
   transportMode |-> s.transportMode, progress |-> s.percentageProgress,
   dataProvider |-> DataProviderFromShipmentID(s.shipmentID),
   startDate |-> Date(s.startDate), endDate |-> Date(s.endDate)]

-----------------------------------------------------------------------------
Init ==
  /\ body \in Bodies
  /\ mapped = None
  /\ view = None

(* Client.Detail and the adapter of main.go: decode, then map. *)
FetchDetail ==
  /\ mapped = None /\ body.kind = "detail"
  /\ mapped' = IF body.dto = None THEN Malformed ELSE MapShipmentDetail(body.dto)
  /\ UNCHANGED <<body, view>>

FetchSearch ==
  /\ mapped = None /\ body.kind = "search"
  /\ mapped' = IF body.dto = None THEN Malformed ELSE Ok(MapShipmentSummaries(body.dto))
  /\ UNCHANGED <<body, view>>

(* The handlers of tools.go. *)
ViewDetail ==
  /\ mapped # None /\ mapped.ok /\ view = None /\ body.kind = "detail"
  /\ view' = MapShipmentDetailView(mapped.value)
  /\ UNCHANGED <<body, mapped>>

ViewSearch ==
  /\ mapped # None /\ mapped.ok /\ view = None /\ body.kind = "search"
  /\ view' = Map(mapped.value, MapShipmentSummaryView)
  /\ UNCHANGED <<body, mapped>>

Next == FetchDetail \/ FetchSearch \/ ViewDetail \/ ViewSearch

Spec == Init /\ [][Next]_vars

-----------------------------------------------------------------------------
Details == body.kind = "detail" /\ mapped # None /\ mapped.ok
DetailsShown == Details /\ view # None

(* Whatever is missing, null or unknown in a body, what is cached is a     *)
(* shipment or a list of summaries of the domain: every code is one it     *)
(* knows or the empty one, and no list is nil.  What is shown has the type *)
(* of its view: there a list may be empty but not nil, save the dimensions *)
(* of the goods, which may be nil but not empty.                           *)
TypeOK ==
  /\ mapped # None /\ mapped.ok =>
       mapped.value \in IF body.kind = "detail" THEN Shipment ELSE Seq(ShipmentSummary)
  /\ view # None =>
       view \in IF body.kind = "detail" THEN ShipmentDetailView ELSE Seq(ShipmentSummaryView)

(* The events shown are those the upstream listed, each once, in order of  *)
(* time; events of the same instant keep their order.                      *)
IsHistoryOf(shown, listed) ==
  /\ Len(shown) = Len(listed)
  /\ \E at \in [1..Len(listed) -> 1..Len(listed)] :
       /\ \A i \in 1..Len(listed) :
            /\ shown[at[i]].rawCode = listed[i].code
            /\ shown[at[i]].date = listed[i].date \div 2
       /\ \A i, j \in 1..Len(listed) :
            \/ listed[i].date < listed[j].date
            \/ listed[i].date = listed[j].date /\ i < j
            => at[i] < at[j]

(* A caller reads a history in order, of the shipment and of each package, *)
(* whatever order the upstream lists it in, and nothing is lost on the way *)
(* although times that differ are shown as the same second.                *)
HistoryInOrder ==
  DetailsShown =>
    /\ IsHistoryOf(view.events, NilToEmpty(body.dto.events))
    /\ Len(view.packages) = Len(NilToEmpty(body.dto.packages))
    /\ \A n \in 1..Len(view.packages) :
         IsHistoryOf(view.packages[n].events, NilToEmpty(body.dto.packages[n].events))

(* What the cache keeps for a day is what the upstream calls delivered and *)
(* what the caller reads as delivered: the three never disagree.           *)
DeliveredAlike ==
  DetailsShown =>
    LET kept == mapped.value.progress.activeStep = "DELIVERED" IN
    /\ kept = (body.dto.progressBar.activeStep = "DELIVERED")
    /\ kept = (view.status = "Delivered")

(* No code is lost: a label is "Unknown" only if the upstream's code is    *)
(* shown and outside the catalog, in a history and in a search result.     *)
CodesAccountedFor ==
  /\ DetailsShown => \A n \in 1..Len(view.events) :
       LET e == view.events[n] IN
       (e.description = "Unknown") = (e.rawCode \notin EventCodes)
  /\ body.kind = "search" /\ view # None => \A n \in 1..Len(view) :
       (view[n].status = "Unknown") = (view[n].lastEventCode \notin EventCodes)
=============================================================================
