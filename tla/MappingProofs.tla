--------------------------- MODULE MappingProofs ---------------------------
(***************************************************************************)
(* The way from a response body to what a tool returns, for any bodies:    *)
(* that sorting is stable and loses nothing (ranks are a permutation, by   *)
(* the pigeonhole principle), that every value on the way has its type,    *)
(* and, with an invariant that follows the body into the cache and into    *)
(* the view, that histories, labels and delivery are shown as the upstream *)
(* reported them.                                                          *)
(***************************************************************************)
EXTENDS Mapping, FiniteSetTheorems, TLAPS

-----------------------------------------------------------------------------
(* A list whose elements have dates; those that come before element i. *)
Dated(s) == Len(s) \in Nat /\ \A i \in 1..Len(s) : s[i].date \in Int

Preceding(s, i) == {j \in 1..Len(s) : Before(s, j, i)}

(* Of two elements one comes first; the order is transitive. *)
LEMMA BeforeIsOrder ==
  ASSUME NEW s, Dated(s), NEW i \in 1..Len(s), NEW j \in 1..Len(s), NEW k \in 1..Len(s)
  PROVE  /\ ~Before(s, i, i)
         /\ i # j => Before(s, i, j) \/ Before(s, j, i)
         /\ Before(s, i, j) /\ Before(s, j, k) => Before(s, i, k)
BY DEF Before, Dated

(* They are finitely many. *)
LEMMA PrecedingFinite ==
  ASSUME NEW s, Dated(s), NEW i \in 1..Len(s)
  PROVE  IsFiniteSet(Preceding(s, i)) /\ Cardinality(Preceding(s, i)) \in Nat
<1>1. IsFiniteSet(1..Len(s))
  BY FS_Interval DEF Dated
<1>2. Preceding(s, i) \in SUBSET (1..Len(s))
  BY DEF Preceding
<1> QED
  BY <1>1, <1>2, FS_Subset, FS_CardinalityType

(* Ranks lie in 1..Len(s). *)
LEMMA RankInRange ==
  ASSUME NEW s, Dated(s), NEW i \in 1..Len(s)
  PROVE  Rank(s, i) \in 1..Len(s)
<1> DEFINE I == 1..Len(s)
           P == Preceding(s, i)
<1>1. IsFiniteSet(I) /\ Cardinality(I) = Len(s)
  BY FS_Interval DEF Dated
<1>2. IsFiniteSet(I \ {i}) /\ Cardinality(I \ {i}) = Len(s) - 1
  BY <1>1, FS_RemoveElement
<1>3. P \in SUBSET (I \ {i})
  BY BeforeIsOrder DEF Preceding
<1>4. Cardinality(P) <= Len(s) - 1
  BY <1>2, <1>3, FS_Subset
<1>5. Rank(s, i) = 1 + Cardinality(P)
  BY DEF Rank, Preceding
<1> QED
  BY <1>4, <1>5, PrecedingFinite DEF Dated

(* An element that comes earlier has the smaller rank. *)
LEMMA RankMonotonic ==
  ASSUME NEW s, Dated(s), NEW i \in 1..Len(s), NEW j \in 1..Len(s), Before(s, i, j)
  PROVE  Rank(s, i) < Rank(s, j)
<1> DEFINE P == Preceding(s, i)
           Q == Preceding(s, j)
<1>1. IsFiniteSet(Q) /\ Cardinality(Q) \in Nat /\ Cardinality(P) \in Nat
  BY PrecedingFinite
<1>2. P \in SUBSET Q
  BY BeforeIsOrder DEF Preceding
<1>3. i \in Q /\ i \notin P
  BY BeforeIsOrder DEF Preceding
<1>4. Cardinality(P) <= Cardinality(Q) /\ Cardinality(P) # Cardinality(Q)
  BY <1>1, <1>2, <1>3, FS_Subset
<1>5. Rank(s, i) = 1 + Cardinality(P) /\ Rank(s, j) = 1 + Cardinality(Q)
  BY DEF Rank, Preceding
<1> QED
  BY <1>1, <1>4, <1>5

(* No two elements share a rank. *)
LEMMA RankInjective ==
  ASSUME NEW s, Dated(s), NEW i \in 1..Len(s), NEW j \in 1..Len(s), Rank(s, i) = Rank(s, j)
  PROVE  i = j
<1>1. Rank(s, i) \in Int
  BY RankInRange DEF Dated
<1> QED
  BY <1>1, BeforeIsOrder, RankMonotonic

(* Every place of the sorted list is some element's. *)
LEMMA RankSurjective ==
  ASSUME NEW s, Dated(s), NEW n \in 1..Len(s)
  PROVE  \E i \in 1..Len(s) : Rank(s, i) = n
<1> SUFFICES ASSUME \A i \in 1..Len(s) : Rank(s, i) # n PROVE FALSE
  OBVIOUS
<1> DEFINE I == 1..Len(s)
           f == [i \in I |-> Rank(s, i)]
<1>1. IsFiniteSet(I) /\ Cardinality(I) = Len(s)
  BY FS_Interval DEF Dated
<1>2. IsFiniteSet(I \ {n}) /\ Cardinality(I \ {n}) < Cardinality(I)
  <2>1. IsFiniteSet(I \ {n}) /\ Cardinality(I \ {n}) = Cardinality(I) - 1
    BY <1>1, FS_RemoveElement
  <2> QED BY <1>1, <2>1 DEF Dated
<1>3. f \in [I -> I \ {n}]
  BY RankInRange
<1>4. \E i, j \in I : i # j /\ f[i] = f[j]
  <2> HIDE DEF f, I
  <2> QED BY <1>1, <1>2, <1>3, FS_PigeonHole
<1> QED
  BY <1>4, RankInjective

(* The sorted list is as long and has every element at the place of its    *)
(* rank; every element of it is one of the list.                           *)
LEMMA SortedByRank ==
  ASSUME NEW s, Dated(s)
  PROVE  LET t == SortChronologically(s) IN
         /\ DOMAIN t = 1..Len(s)
         /\ \A i \in 1..Len(s) : t[Rank(s, i)] = s[i]
         /\ \A n \in 1..Len(s) : \E i \in 1..Len(s) : t[n] = s[i]
<1> DEFINE t == SortChronologically(s)
<1>1. ASSUME NEW i \in 1..Len(s)
      PROVE  t[Rank(s, i)] = s[i]
  <2>1. Rank(s, i) \in 1..Len(s)
    BY RankInRange
  <2>2. t[Rank(s, i)] = s[CHOOSE k \in 1..Len(s) : Rank(s, k) = Rank(s, i)]
    BY <2>1 DEF SortChronologically
  <2>3. (CHOOSE k \in 1..Len(s) : Rank(s, k) = Rank(s, i)) = i
    BY RankInjective
  <2> QED BY <2>2, <2>3
<1>2. DOMAIN t = 1..Len(s)
  BY DEF SortChronologically
<1>3. ASSUME NEW n \in 1..Len(s)
      PROVE  \E i \in 1..Len(s) : t[n] = s[i]
  BY <1>1, RankSurjective
<1> QED
  BY <1>1, <1>2, <1>3

(* Sorting keeps what the elements are and how many there are.             *)
LEMMA SortedType ==
  ASSUME NEW S, NEW s \in Seq(S), Dated(s)
  PROVE  SortChronologically(s) \in Seq(S) /\ Len(SortChronologically(s)) = Len(s)
<1> DEFINE t == SortChronologically(s)
<1>1. DOMAIN t = 1..Len(s) /\ t = [n \in 1..Len(s) |-> t[n]]
  BY SortedByRank DEF SortChronologically
<1>2. \A n \in 1..Len(s) : t[n] \in S
  BY SortedByRank
<1>3. Len(s) \in Nat
  OBVIOUS
<1> HIDE DEF t
<1>4. [n \in 1..Len(s) |-> t[n]] \in Seq(S) /\ Len([n \in 1..Len(s) |-> t[n]]) = Len(s)
  BY <1>2, <1>3
<1>5. t \in Seq(S) /\ Len(t) = Len(s)
  BY <1>1, <1>4, Zenon
<1> QED
  BY <1>5 DEF t

-----------------------------------------------------------------------------
(* An event keeps its date and, beside the code of the catalog, its own. *)
LEMMA MappedEvent ==
  ASSUME NEW e
  PROVE  /\ MapEvent(e).rawCode = e.code /\ MapEvent(e).date = e.date
         /\ MapEvent(e).code = Parse(e.code, EventCodes)
         /\ MapPackageEvent(e).rawCode = e.code /\ MapPackageEvent(e).date = e.date
BY Zenon DEF MapEvent, MapPackageEvent

(* A package's event is shown with its code and the second it happened in. *)
LEMMA ShownPackageEvent ==
  ASSUME NEW e
  PROVE  LET x == MapPackageEvent(e) IN
         /\ MapPackageEventView(x).rawCode = x.rawCode
         /\ MapPackageEventView(x).date = x.date \div 2
<1> DEFINE c == Parse(e.code, EventCodes)
           x == [code |-> c, rawCode |-> e.code, date |-> e.date,
                 location |-> e.location, countryCode |-> e.countryCode]
<1>1. MapPackageEvent(e) = x
  BY DEF MapPackageEvent
<1> HIDE DEF c
<1>2. [x EXCEPT !.date = x.date \div 2].rawCode = x.rawCode
  OBVIOUS
<1>3. [x EXCEPT !.date = x.date \div 2].date = x.date \div 2
  OBVIOUS
<1>4. MapPackageEventView(x) = [x EXCEPT !.date = x.date \div 2]
  BY DEF MapPackageEventView, RFC3339
<1> HIDE DEF x
<1> QED
  BY <1>1, <1>2, <1>3, <1>4

(* What is shown of a sorted list is a history of the events listed, if at *)
(* each place the code and the second of the event sorted to it is shown:  *)
(* ranks are the places.                                                   *)
LEMMA HistoryOfSorted ==
  ASSUME NEW s, NEW listed, NEW shown, Dated(s),
         Len(s) = Len(listed), Len(shown) = Len(listed),
         \A i \in 1..Len(listed) : s[i].date = listed[i].date,
         \A i, n \in 1..Len(listed) :
           SortChronologically(s)[n] = s[i] =>
             shown[n].rawCode = listed[i].code /\ shown[n].date = listed[i].date \div 2
  PROVE  IsHistoryOf(shown, listed)
<1> DEFINE at == [i \in 1..Len(listed) |-> Rank(s, i)]
<1>1. at \in [1..Len(listed) -> 1..Len(listed)]
  BY RankInRange
<1>2. ASSUME NEW i \in 1..Len(listed)
      PROVE  /\ shown[at[i]].rawCode = listed[i].code
             /\ shown[at[i]].date = listed[i].date \div 2
  <2>1. at[i] \in 1..Len(listed) /\ SortChronologically(s)[at[i]] = s[i]
    BY <1>1, SortedByRank
  <2> HIDE DEF at
  <2> QED BY <2>1
<1>3. ASSUME NEW i \in 1..Len(listed), NEW j \in 1..Len(listed),
             \/ listed[i].date < listed[j].date
             \/ listed[i].date = listed[j].date /\ i < j
      PROVE  at[i] < at[j]
  <2>1. Before(s, i, j)
    BY <1>3 DEF Before
  <2> QED BY <2>1, RankMonotonic
<1> HIDE DEF at
<1> QED
  BY <1>1, <1>2, <1>3 DEF IsHistoryOf

(* The view of the sorted events of a shipment is a history of those the   *)
(* upstream listed.                                                        *)
LEMMA EventHistory ==
  ASSUME NEW listed \in Seq(EventDTO)
  PROVE  IsHistoryOf(Map(SortChronologically(Map(listed, MapEvent)), MapEventView), listed)
<1> DEFINE s == Map(listed, MapEvent)
           t == SortChronologically(s)
           shown == Map(t, MapEventView)
<1>1. /\ Len(s) = Len(listed) /\ DOMAIN s = 1..Len(listed)
      /\ \A i \in 1..Len(listed) : s[i] = MapEvent(listed[i]) /\ listed[i] \in EventDTO
  BY DEF Map
<1>2. \A i \in 1..Len(listed) : /\ s[i].date = listed[i].date /\ s[i].rawCode = listed[i].code
                                /\ listed[i].date \in Nat
  BY <1>1, MappedEvent DEF EventDTO
<1> HIDE DEF s
<1>3. Dated(s)
  BY <1>1, <1>2 DEF Dated
<1>4. Len(t) = Len(listed) /\ \A n \in 1..Len(listed) : shown[n] = MapEventView(t[n])
  <2>1. Len(t) = Len(listed)
    BY <1>1, <1>3, SortedByRank DEF SortChronologically
  <2> HIDE DEF t
  <2> QED BY <2>1 DEF Map
<1>5. Len(shown) = Len(listed)
  <2> HIDE DEF t
  <2> QED BY <1>4 DEF Map
<1>6. ASSUME NEW i \in 1..Len(listed), NEW n \in 1..Len(listed), t[n] = s[i]
      PROVE  shown[n].rawCode = listed[i].code /\ shown[n].date = listed[i].date \div 2
  <2>1. shown[n] = MapEventView(s[i])
    BY <1>4, <1>6
  <2> HIDE DEF shown
  <2>2. shown[n].rawCode = s[i].rawCode /\ shown[n].date = s[i].date \div 2
    BY <2>1 DEF MapEventView, RFC3339
  <2> QED BY <1>2, <2>2
<1> HIDE DEF shown
<1>7. IsHistoryOf(shown, listed)
  BY <1>1, <1>2, <1>3, <1>5, <1>6, HistoryOfSorted
<1> QED BY <1>7 DEF shown, s

(* And so for the events of a package.                                     *)
LEMMA PackageHistory ==
  ASSUME NEW listed \in Seq(PackageEventDTO)
  PROVE  IsHistoryOf(Map(SortChronologically(Map(listed, MapPackageEvent)), MapPackageEventView),
                     listed)
<1> DEFINE s == Map(listed, MapPackageEvent)
           t == SortChronologically(s)
           shown == Map(t, MapPackageEventView)
<1>1. /\ Len(s) = Len(listed) /\ DOMAIN s = 1..Len(listed)
      /\ \A i \in 1..Len(listed) : s[i] = MapPackageEvent(listed[i]) /\ listed[i] \in PackageEventDTO
  BY DEF Map
<1>2. \A i \in 1..Len(listed) : /\ s[i].date = listed[i].date /\ s[i].rawCode = listed[i].code
                                /\ listed[i].date \in Nat
  BY <1>1, MappedEvent DEF PackageEventDTO
<1>3. \A i \in 1..Len(listed) : /\ MapPackageEventView(s[i]).rawCode = s[i].rawCode
                                /\ MapPackageEventView(s[i]).date = s[i].date \div 2
  BY <1>1, ShownPackageEvent
<1> HIDE DEF s
<1>4. Dated(s)
  BY <1>1, <1>2 DEF Dated
<1>5. Len(t) = Len(listed) /\ \A n \in 1..Len(listed) : shown[n] = MapPackageEventView(t[n])
  <2>1. Len(t) = Len(listed)
    BY <1>1, <1>4, SortedByRank DEF SortChronologically
  <2> HIDE DEF t
  <2> QED BY <2>1 DEF Map
<1>6. Len(shown) = Len(listed)
  <2> HIDE DEF t
  <2> QED BY <1>5 DEF Map
<1>7. ASSUME NEW i \in 1..Len(listed), NEW n \in 1..Len(listed), t[n] = s[i]
      PROVE  shown[n].rawCode = listed[i].code /\ shown[n].date = listed[i].date \div 2
  <2>1. shown[n] = MapPackageEventView(s[i])
    BY <1>5, <1>7
  <2> HIDE DEF shown
  <2> QED BY <1>2, <1>3, <2>1
<1> HIDE DEF shown
<1>8. IsHistoryOf(shown, listed)
  BY <1>1, <1>2, <1>4, <1>6, <1>7, HistoryOfSorted
<1> QED BY <1>8 DEF shown, s
-----------------------------------------------------------------------------
(* A parsed code is one of the catalog or the empty one. *)
LEMMA ParseType ==
  ASSUME NEW s, NEW known
  PROVE  Parse(s, known) \in known \cup {""}
BY Zenon DEF Parse

(* The labels, one by one. *)
LEMMA CodeLabels ==
  /\ CodeLabel["ENT"] = "Booked"           /\ CodeLabel["COL"] = "Collected"
  /\ CodeLabel["ENM"] = "Arrived at hub"   /\ CodeLabel["MAN"] = "Departed"
  /\ CodeLabel["DOT"] = "Out for delivery" /\ CodeLabel["DLV"] = "Delivered"
  /\ CodeLabel["NLO"] = "Loaded for transport"
  /\ CodeLabel["DIS"] = "To consignee's disposal"
BY DEF CodeLabel

(* And those of the stages. *)
LEMMA StageLabels ==
  /\ StageLabel["BOOKED"] = "Booked"
  /\ StageLabel["TRANSPORTATION"] = "In transportation"
  /\ StageLabel["DISPATCHING_CENTER"] = "At dispatching centre"
  /\ StageLabel["IN_DELIVERY"] = "Out for delivery"
  /\ StageLabel["DELIVERED"] = "Delivered"
BY DEF StageLabel

(* A label is one of those a caller knows. *)
LEMMA DescriptionType ==
  ASSUME NEW c
  PROVE  Description(c, CodeLabel) \in Labels /\ Description(c, StageLabel) \in Labels
<1>1. DOMAIN CodeLabel = EventCodes /\ DOMAIN StageLabel = Stages
  BY DEF CodeLabel, EventCodes, StageLabel, Stages
<1>2. \A k \in EventCodes : CodeLabel[k] \in Labels
  BY CodeLabels DEF EventCodes, Labels
<1>3. \A k \in Stages : StageLabel[k] \in Labels
  BY StageLabels DEF Stages, Labels
<1>4. "Unknown" \in Labels
  BY DEF Labels
<1> QED
  BY <1>1, <1>2, <1>3, <1>4, Zenon DEF Description

(* A code is shown as unknown exactly if it is outside the catalog. *)
LEMMA UnknownLabel ==
  ASSUME NEW c
  PROVE  Description(Parse(c, EventCodes), CodeLabel) = "Unknown" <=> c \notin EventCodes
<1>1. DOMAIN CodeLabel = EventCodes
  BY DEF CodeLabel, EventCodes
<1>2. \A k \in EventCodes : CodeLabel[k] # "Unknown"
  BY CodeLabels DEF EventCodes
<1>3. "" \notin EventCodes
  BY DEF EventCodes
<1> QED
  BY <1>1, <1>2, <1>3, Zenon DEF Description, Parse

-----------------------------------------------------------------------------
(* A nil list becomes an empty one, another stays what it is. *)
LEMMA NilType ==
  ASSUME NEW S, NEW s \in Nullable(S)
  PROVE  NilToEmpty(s) \in Seq(S)
BY DEF Nullable, Optional, NilToEmpty

(* The events of a package and of a shipment are events of the domain. *)
LEMMA EventType ==
  /\ \A e \in EventDTO : MapEvent(e) \in Event
  /\ \A e \in PackageEventDTO : MapPackageEvent(e) \in PackageEvent
<1> DEFINE Known == EventCodes \cup {""}
<1>1. ASSUME NEW e \in EventDTO PROVE MapEvent(e) \in Event
  <2> DEFINE c == Parse(e.code, EventCodes)
  <2>1. c \in Known
    BY ParseType
  <2> HIDE DEF c, Known
  <2>2. [code |-> c, rawCode |-> e.code, date |-> e.date, location |-> e.location]
          \in [code : Known, rawCode : STRING, date : Nat,
               location : [name : STRING, countryCode : STRING]]
    BY <2>1 DEF EventDTO
  <2> QED BY <2>2, Zenon DEF MapEvent, Event, c, Known
<1>2. ASSUME NEW e \in PackageEventDTO PROVE MapPackageEvent(e) \in PackageEvent
  <2> DEFINE c == Parse(e.code, EventCodes)
  <2>1. c \in Known
    BY ParseType
  <2> HIDE DEF c, Known
  <2>2. [code |-> c, rawCode |-> e.code, date |-> e.date, location |-> e.location,
         countryCode |-> e.countryCode]
          \in [code : Known, rawCode : STRING, date : Nat, location : STRING, countryCode : STRING]
    BY <2>1 DEF PackageEventDTO
  <2> QED BY <2>2, Zenon DEF MapPackageEvent, PackageEvent, c, Known
<1> QED
  BY <1>1, <1>2

(* The events of the domain have dates. *)
LEMMA EventDates ==
  (\A e \in Event : e.date \in Nat) /\ (\A e \in PackageEvent : e.date \in Nat)
<1> DEFINE Known == EventCodes \cup {""}
<1>1. Event = [code : Known, rawCode : STRING, date : Nat,
               location : [name : STRING, countryCode : STRING]]
  BY DEF Event
<1>2. PackageEvent = [code : Known, rawCode : STRING, date : Nat,
                      location : STRING, countryCode : STRING]
  BY DEF PackageEvent
<1> HIDE DEF Known
<1> QED
  BY <1>1, <1>2

(* Listed events are mapped to a list that can be sorted. *)
LEMMA EventsType ==
  ASSUME NEW list \in Nullable(EventDTO)
  PROVE  SortChronologically(Map(NilToEmpty(list), MapEvent)) \in Seq(Event)
<1> DEFINE s == Map(NilToEmpty(list), MapEvent)
<1>1. NilToEmpty(list) \in Seq(EventDTO)
  BY NilType
<1>2. s \in Seq(Event)
  BY <1>1, EventType DEF Map
<1> HIDE DEF s
<1>3. Dated(s)
  BY <1>2, EventDates DEF Dated
<1> QED
  BY <1>2, <1>3, SortedType DEF s

(* A package of a body is one of the domain. *)
LEMMA PackageType ==
  ASSUME NEW p \in PackageDTO
  PROVE  MapPackage(p) \in Package
<1> DEFINE s == Map(NilToEmpty(p.events), MapPackageEvent)
<1>1. p.id \in STRING /\ p.events \in Nullable(PackageEventDTO)
  BY DEF PackageDTO
<1>2. NilToEmpty(p.events) \in Seq(PackageEventDTO)
  BY <1>1, NilType
<1>3. s \in Seq(PackageEvent)
  BY <1>2, EventType DEF Map
<1> HIDE DEF s
<1>4. Dated(s)
  BY <1>3, EventDates DEF Dated
<1>5. SortChronologically(s) \in Seq(PackageEvent)
  BY <1>3, <1>4, SortedType
<1>6. [id |-> p.id, events |-> SortChronologically(s)] \in [id : STRING, events : Seq(PackageEvent)]
  BY <1>1, <1>5
<1> QED
  BY <1>6, Zenon DEF MapPackage, Package, s
(* No list of references or dimensions is nil. *)
LEMMA PartsType ==
  /\ \A x \in ReferencesDTO : [r \in DOMAIN x |-> NilToEmpty(x[r])] \in References
  /\ \A g \in GoodsDTO : [g EXCEPT !.dimensions = NilToEmpty(@)] \in Goods
<1>1. ASSUME NEW x \in ReferencesDTO
      PROVE  [r \in DOMAIN x |-> NilToEmpty(x[r])] \in References
  BY NilType DEF ReferencesDTO, References
<1>2. ASSUME NEW g \in GoodsDTO
      PROVE  [g EXCEPT !.dimensions = NilToEmpty(@)] \in Goods
  BY NilType DEF GoodsDTO, Goods
<1> QED
  BY <1>1, <1>2

(* The stages are stages of the domain. *)
LEMMA ProgressType ==
  ASSUME NEW bar \in ProgressBarDTO
  PROVE  MapProgress(bar) \in Progress
<1> DEFINE Known == Stages \cup {""}
           steps == Map(NilToEmpty(bar.steps), MapStage)
           active == MapStage(bar.activeStep)
<1>1. \A x : MapStage(x) \in Known
  BY ParseType DEF MapStage
<1> HIDE DEF Known
<1>2. NilToEmpty(bar.steps) \in Seq(STRING)
  BY NilType DEF ProgressBarDTO
<1>3. steps \in Seq(Known)
  BY <1>1, <1>2 DEF Map
<1>4. active \in Known
  BY <1>1
<1> HIDE DEF steps, active
<1>5. [steps |-> steps, activeStep |-> active] \in [steps : Seq(Known), activeStep : Known]
  BY <1>3, <1>4
<1> QED
  BY <1>5, Zenon DEF MapProgress, Progress, Known, steps, active

(* What is made of a body that has a progress bar is a shipment. *)
LEMMA ShipmentType ==
  ASSUME NEW dto \in ShipmentDetailDTO, dto.progressBar # None
  PROVE  MapShipment(dto) \in Shipment
<1> DEFINE Known == Modes \cup {""}
           mode == Parse(dto.transportMode, Modes)
           references == [r \in DOMAIN dto.references |-> NilToEmpty(dto.references[r])]
           goods == [dto.goods EXCEPT !.dimensions = NilToEmpty(@)]
           events == SortChronologically(Map(NilToEmpty(dto.events), MapEvent))
           packages == Map(NilToEmpty(dto.packages), MapPackage)
           progress == MapProgress(dto.progressBar)
           Dates == [estimated : Optional(Nat), agreed : Optional(Nat)]
<1>1. /\ dto.shipmentID \in Seq(STRING) /\ dto.sttNumber \in STRING /\ dto.dataProvider \in STRING
      /\ dto.references \in ReferencesDTO /\ dto.goods \in GoodsDTO
      /\ dto.events \in Nullable(EventDTO) /\ dto.packages \in Nullable(PackageDTO)
      /\ dto.deliveryDate \in Dates /\ dto.progressBar \in Optional(ProgressBarDTO)
      /\ dto.location \in LocationDTO
  BY DEF ShipmentDetailDTO
<1>2. mode \in Known
  BY ParseType
<1>3. references \in References /\ goods \in Goods
  BY <1>1, PartsType
<1>4. events \in Seq(Event)
  BY <1>1, EventsType
<1>5. packages \in Seq(Package)
  <2>1. NilToEmpty(dto.packages) \in Seq(PackageDTO)
    BY <1>1, NilType
  <2> QED BY <2>1, PackageType DEF Map
<1>6. progress \in Progress
  BY <1>1, ProgressType DEF Optional
<1> HIDE DEF Known, mode, references, goods, events, packages, progress, Dates
<1>7. [shipmentID |-> dto.shipmentID, sttNumber |-> dto.sttNumber, transportMode |-> mode,
       dataProvider |-> dto.dataProvider, references |-> references, goods |-> goods,
       events |-> events, packages |-> packages, deliveryDate |-> dto.deliveryDate,
       progress |-> progress, locations |-> dto.location]
        \in [shipmentID : Seq(STRING), sttNumber : STRING, transportMode : Known,
             dataProvider : STRING, references : References, goods : Goods, events : Seq(Event),
             packages : Seq(Package), deliveryDate : Dates,
             progress : Progress, locations : LocationDTO]
  BY <1>1, <1>2, <1>3, <1>4, <1>5, <1>6
<1> QED
  BY <1>7, Zenon DEF MapShipment, Shipment, Known, mode, references, goods, events, packages,
                     progress, Dates

(* What is made of the list of a search is a list of summaries. *)
LEMMA SummariesType ==
  ASSUME NEW dto \in SearchResponseDTO
  PROVE  MapShipmentSummaries(dto) \in Seq(ShipmentSummary)
<1>1. ASSUME NEW s \in ShipmentSummaryDTO PROVE MapSummary(s) \in ShipmentSummary
  <2> DEFINE KnownModes == Modes \cup {""}
             KnownCodes == EventCodes \cup {""}
             mode == Parse(s.transportMode, Modes)
             code == Parse(s.lastEventCode, EventCodes)
  <2>1. mode \in KnownModes /\ code \in KnownCodes
    BY ParseType
  <2>2. /\ s.id \in Seq(STRING) /\ s.stt \in STRING /\ s.percentageProgress \in Int
        /\ s.lastEventCode \in STRING /\ s.startDate \in Optional(Nat) /\ s.endDate \in Optional(Nat)
    BY DEF ShipmentSummaryDTO
  <2> HIDE DEF KnownModes, KnownCodes, mode, code
  <2>3. [shipmentID |-> s.id, sttNumber |-> s.stt, transportMode |-> mode,
         percentageProgress |-> s.percentageProgress, lastEventCode |-> code,
         lastEventRawCode |-> s.lastEventCode, startDate |-> s.startDate, endDate |-> s.endDate]
          \in [shipmentID : Seq(STRING), sttNumber : STRING, transportMode : KnownModes,
               percentageProgress : Int, lastEventCode : KnownCodes, lastEventRawCode : STRING,
               startDate : Optional(Nat), endDate : Optional(Nat)]
    BY <2>1, <2>2
  <2> QED
    BY <2>3, Zenon DEF MapSummary, ShipmentSummary, KnownModes, KnownCodes, mode, code
<1>2. NilToEmpty(dto.result) \in Seq(ShipmentSummaryDTO)
  BY NilType DEF SearchResponseDTO
<1> QED
  BY <1>1, <1>2 DEF MapShipmentSummaries, Map

-----------------------------------------------------------------------------
(* The events of the views. *)
LEMMA EventViewType ==
  /\ \A e \in Event : MapEventView(e) \in EventView
  /\ \A e \in PackageEvent : MapPackageEventView(e) \in PackageEvent
<1> DEFINE Known == EventCodes \cup {""}
<1>1. Event = [code : Known, rawCode : STRING, date : Nat,
               location : [name : STRING, countryCode : STRING]]
  BY DEF Event
<1>2. PackageEvent = [code : Known, rawCode : STRING, date : Nat,
                      location : STRING, countryCode : STRING]
  BY DEF PackageEvent
<1>3. EventView = [date : Nat, code : Known, rawCode : STRING, description : Labels,
                   location : Seq(STRING)]
  BY DEF EventView
<1> HIDE DEF Known
<1>4. ASSUME NEW e \in Event PROVE MapEventView(e) \in EventView
  <2> DEFINE label == Description(e.code, CodeLabel)
             text == LocationText(e.location)
  <2>1. /\ e.code \in Known /\ e.rawCode \in STRING /\ e.date \in Nat
        /\ e.location.name \in STRING /\ e.location.countryCode \in STRING
    BY <1>1
  <2>2. label \in Labels
    BY DescriptionType
  <2>3. text \in Seq(STRING)
    <3>1. <<e.location.name>> \in Seq(STRING)
          /\ <<e.location.name, e.location.countryCode>> \in Seq(STRING)
      BY <2>1
    <3> QED BY <3>1, Zenon DEF LocationText
  <2>4. RFC3339(e.date) \in Nat
    BY <2>1 DEF RFC3339
  <2> HIDE DEF label, text
  <2>5. [date |-> RFC3339(e.date), code |-> e.code, rawCode |-> e.rawCode,
         description |-> label, location |-> text]
          \in [date : Nat, code : Known, rawCode : STRING, description : Labels,
               location : Seq(STRING)]
    BY <2>1, <2>2, <2>3, <2>4
  <2> QED BY <1>3, <2>5, Zenon DEF MapEventView, label, text
<1>5. ASSUME NEW e \in PackageEvent PROVE MapPackageEventView(e) \in PackageEvent
  <2>1. RFC3339(e.date) \in Nat
    BY <1>2 DEF RFC3339
  <2>2. [e EXCEPT !.date = RFC3339(e.date)] \in PackageEvent
    BY <1>2, <2>1
  <2> QED BY <2>2, Zenon DEF MapPackageEventView
<1> QED
  BY <1>4, <1>5
(* A package is shown with as many events. *)
LEMMA PackageViewType ==
  ASSUME NEW p \in Package
  PROVE  MapPackageView(p) \in PackageView
<1> DEFINE shown == Map(p.events, MapPackageEventView)
<1>1. p.id \in STRING /\ p.events \in Seq(PackageEvent)
  BY DEF Package
<1>2. shown \in Seq(PackageEvent)
  BY <1>1, EventViewType DEF Map
<1> HIDE DEF shown
<1>3. [id |-> p.id, events |-> shown] \in [id : STRING, events : Seq(PackageEvent)]
  BY <1>1, <1>2
<1> QED
  BY <1>3, Zenon DEF MapPackageView, PackageView, shown

(* A measurement is shown or left out. *)
LEMMA MeasurementViewType ==
  ASSUME NEW m \in Optional(MeasurementDTO)
  PROVE  MapMeasurementView(m) \in Optional(MeasurementDTO)
BY Zenon DEF Optional, MapMeasurementView

(* Dimensions are shown, as many as there are, or left out without any. *)
LEMMA DimensionsViewType ==
  ASSUME NEW ds \in Seq(DimensionDTO)
  PROVE  MapDimensionsView(ds) \in Optional(Seq(DimensionView) \ {<<>>})
<1> DEFINE shown == Map(ds, MapDimensionView)
<1>1. \A d \in DimensionDTO : MapDimensionView(d) \in DimensionView
  BY MeasurementViewType DEF DimensionDTO, DimensionView, MapDimensionView
<1>2. shown \in Seq(DimensionView) /\ Len(shown) = Len(ds)
  BY <1>1 DEF Map
<1>3. ds # <<>> => Len(ds) # 0
  OBVIOUS
<1> HIDE DEF shown
<1>4. ds # <<>> => shown \in Seq(DimensionView) \ {<<>>}
  BY <1>2, <1>3
<1> QED
  BY <1>4, Zenon DEF MapDimensionsView, Optional, shown

(* And so of the goods. *)
LEMMA GoodsViewType ==
  ASSUME NEW g \in Goods
  PROVE  MapGoodsView(g) \in GoodsView
<1> DEFINE dimensions == MapDimensionsView(g.dimensions)
           Shown == Optional(Seq(DimensionView) \ {<<>>})
<1>1. /\ g.pieces \in Int /\ g.dimensions \in Seq(DimensionDTO)
      /\ g.weight \in Optional(MeasurementDTO) /\ g.volume \in Optional(MeasurementDTO)
      /\ g.loadingMeters \in Optional(MeasurementDTO)
  BY DEF Goods, Optional
<1>2. dimensions \in Shown
  BY <1>1, DimensionsViewType
<1>3. /\ MapMeasurementView(g.weight) \in Optional(MeasurementDTO)
      /\ MapMeasurementView(g.volume) \in Optional(MeasurementDTO)
      /\ MapMeasurementView(g.loadingMeters) \in Optional(MeasurementDTO)
  BY <1>1, MeasurementViewType
<1> HIDE DEF dimensions, Shown
<1>4. [pieces |-> g.pieces, weight |-> MapMeasurementView(g.weight),
       volume |-> MapMeasurementView(g.volume),
       loadingMeters |-> MapMeasurementView(g.loadingMeters), dimensions |-> dimensions]
        \in [pieces : Int, weight : Optional(MeasurementDTO), volume : Optional(MeasurementDTO),
             loadingMeters : Optional(MeasurementDTO), dimensions : Shown]
  BY <1>1, <1>2, <1>3
<1> QED
  BY <1>4, Zenon DEF MapGoodsView, GoodsView, dimensions, Shown

(* A place or an office is shown or left out. *)
LEMMA PlaceViewType ==
  /\ \A p \in PlaceDTO : MapPlaceView(p) \in LocationView
  /\ \A o \in OfficeDTO : MapOfficeView(o) \in LocationView
BY Zenon DEF MapPlaceView, MapOfficeView, LocationView, Optional

(* The link and the provider are read from the segments of an id. *)
LEMMA IdType ==
  ASSUME NEW id \in Seq(STRING)
  PROVE  ViewInUIURL(id) \in STRING /\ DataProviderFromShipmentID(id) \in STRING
<1> DEFINE blank == ""
           provider == "CTTS"
<1>1. blank \in STRING /\ provider \in STRING
  BY LiteralAssumption, Zenon
<1>2. ViewInUIURL(id) = IF Len(id) < 2 THEN blank ELSE id[2]
  BY Zenon DEF ViewInUIURL
<1>3. DataProviderFromShipmentID(id) = IF Len(id) >= 3 /\ id[3] # blank THEN id[3] ELSE provider
  BY Zenon DEF DataProviderFromShipmentID
<1>4. (~(Len(id) < 2) => id[2] \in STRING) /\ (Len(id) >= 3 => id[3] \in STRING)
  OBVIOUS
<1> HIDE DEF blank, provider
<1> QED
  BY <1>1, <1>2, <1>3, <1>4, Zenon

(* What is shown of a shipment is a view of it. *)
LEMMA DetailViewType ==
  ASSUME NEW s \in Shipment
  PROVE  MapShipmentDetailView(s) \in ShipmentDetailView
<1> DEFINE Known == Modes \cup {""}
           label == Description(s.progress.activeStep, StageLabel)
           events == Map(s.events, MapEventView)
           packages == Map(s.packages, MapPackageView)
           goods == MapGoodsView(s.goods)
           place == s.locations
<1>1. Shipment =
        [shipmentID : Seq(STRING), sttNumber : STRING, transportMode : Known,
         dataProvider : STRING, references : References, goods : Goods, events : Seq(Event),
         packages : Seq(Package), deliveryDate : [estimated : Optional(Nat), agreed : Optional(Nat)],
         progress : Progress, locations : LocationDTO]
  BY DEF Shipment
<1>2. ShipmentDetailView =
        [shipmentID : Seq(STRING), reference : STRING, status : Labels, transportMode : Known,
         dataProvider : STRING, shipperPlace : LocationView, consigneePlace : LocationView,
         collectFrom : LocationView, deliverTo : LocationView, dispatchingOffice : LocationView,
         events : Seq(EventView), packages : Seq(PackageView), goods : GoodsView,
         viewInUIURL : STRING]
  BY DEF ShipmentDetailView
<1> HIDE DEF Known
<1>3. /\ s.shipmentID \in Seq(STRING) /\ s.sttNumber \in STRING /\ s.transportMode \in Known
      /\ s.dataProvider \in STRING /\ s.goods \in Goods /\ s.events \in Seq(Event)
      /\ s.packages \in Seq(Package) /\ place \in LocationDTO
  BY <1>1
<1>4. label \in Labels
  BY DescriptionType
<1>5. events \in Seq(EventView)
  BY <1>3, EventViewType DEF Map
<1>6. packages \in Seq(PackageView)
  BY <1>3, PackageViewType DEF Map
<1>7. goods \in GoodsView
  BY <1>3, GoodsViewType
<1>8. /\ MapPlaceView(place.shipperPlace) \in LocationView
      /\ MapPlaceView(place.consigneePlace) \in LocationView
      /\ MapPlaceView(place.collectFrom) \in LocationView
      /\ MapPlaceView(place.deliverTo) \in LocationView
      /\ MapOfficeView(place.dispatchingOffice) \in LocationView
  BY <1>3, PlaceViewType DEF LocationDTO
<1>9. ViewInUIURL(s.shipmentID) \in STRING
  BY <1>3, IdType
<1> HIDE DEF label, events, packages, goods, place
<1>10. [shipmentID |-> s.shipmentID, reference |-> s.sttNumber, status |-> label,
        transportMode |-> s.transportMode, dataProvider |-> s.dataProvider,
        shipperPlace |-> MapPlaceView(place.shipperPlace),
        consigneePlace |-> MapPlaceView(place.consigneePlace),
        collectFrom |-> MapPlaceView(place.collectFrom),
        deliverTo |-> MapPlaceView(place.deliverTo),
        dispatchingOffice |-> MapOfficeView(place.dispatchingOffice),
        events |-> events, packages |-> packages, goods |-> goods,
        viewInUIURL |-> ViewInUIURL(s.shipmentID)] \in ShipmentDetailView
  BY <1>2, <1>3, <1>4, <1>5, <1>6, <1>7, <1>8, <1>9
<1> QED
  BY <1>10, Zenon DEF MapShipmentDetailView, label, events, packages, goods, place

(* And what is shown of a summary. *)
LEMMA SummaryViewType ==
  ASSUME NEW s \in ShipmentSummary
  PROVE  MapShipmentSummaryView(s) \in ShipmentSummaryView
<1> DEFINE KnownModes == Modes \cup {""}
           KnownCodes == EventCodes \cup {""}
           label == Description(s.lastEventCode, CodeLabel)
<1>1. ShipmentSummary =
        [shipmentID : Seq(STRING), sttNumber : STRING, transportMode : KnownModes,
         percentageProgress : Int, lastEventCode : KnownCodes, lastEventRawCode : STRING,
         startDate : Optional(Nat), endDate : Optional(Nat)]
  BY DEF ShipmentSummary
<1>2. ShipmentSummaryView =
        [shipmentID : Seq(STRING), stt : STRING, status : Labels, lastEventCode : STRING,
         transportMode : KnownModes, progress : Int, dataProvider : STRING,
         startDate : Optional(Nat), endDate : Optional(Nat)]
  BY DEF ShipmentSummaryView
<1> HIDE DEF KnownModes, KnownCodes
<1>3. /\ s.shipmentID \in Seq(STRING) /\ s.sttNumber \in STRING /\ s.transportMode \in KnownModes
      /\ s.percentageProgress \in Int /\ s.lastEventRawCode \in STRING
      /\ s.startDate \in Optional(Nat) /\ s.endDate \in Optional(Nat)
  BY <1>1
<1>4. label \in Labels
  BY DescriptionType
<1>5. DataProviderFromShipmentID(s.shipmentID) \in STRING
  BY <1>3, IdType
<1>6. Date(s.startDate) \in Optional(Nat) /\ Date(s.endDate) \in Optional(Nat)
  BY <1>3 DEF Date, RFC3339, Optional
<1> HIDE DEF label
<1>7. [shipmentID |-> s.shipmentID, stt |-> s.sttNumber, status |-> label,
       lastEventCode |-> s.lastEventRawCode, transportMode |-> s.transportMode,
       progress |-> s.percentageProgress,
       dataProvider |-> DataProviderFromShipmentID(s.shipmentID),
       startDate |-> Date(s.startDate), endDate |-> Date(s.endDate)] \in ShipmentSummaryView
  BY <1>2, <1>3, <1>4, <1>5, <1>6
<1> QED
  BY <1>7, Zenon DEF MapShipmentSummaryView, label
-----------------------------------------------------------------------------
(* The body is one of Bodies; what is mapped is the shipment of the body   *)
(* or its summaries, and what is shown the view of what is mapped.         *)
Followed ==
  mapped # None /\ mapped.ok =>
    /\ body.dto # None
    /\ body.kind = "detail" =>
         /\ body.dto.progressBar # None
         /\ mapped.value = MapShipment(body.dto)
         /\ view # None => view = MapShipmentDetailView(mapped.value)
    /\ body.kind = "search" =>
         /\ mapped.value = MapShipmentSummaries(body.dto)
         /\ view # None => view = Map(mapped.value, MapShipmentSummaryView)

(* Nothing is shown that was not mapped first, without an error. *)
Early == view # None => mapped # None /\ mapped.ok

IInv == body \in Bodies /\ Followed /\ Early

(* Every step keeps it. *)
LEMMA NextInv == IInv /\ [Next]_vars => IInv'
<1> SUFFICES ASSUME IInv, [Next]_vars PROVE IInv'
  OBVIOUS
<1> USE DEF IInv, Followed, Early
<1>1. CASE FetchDetail
  <2>1. view = None /\ view' = None /\ body' = body /\ body.kind = "detail"
    BY <1>1 DEF FetchDetail
  <2>2. CASE body.dto = None \/ body.dto.progressBar = None
    <3>1. mapped' = Malformed
      BY <1>1, <2>2 DEF FetchDetail, MapShipmentDetail
    <3> QED BY <2>1, <3>1 DEF Malformed
  <2>3. CASE body.dto # None /\ body.dto.progressBar # None
    <3>1. mapped' = Ok(MapShipment(body.dto))
      BY <1>1, <2>3 DEF FetchDetail, MapShipmentDetail
    <3>2. mapped'.value = MapShipment(body.dto)
      BY <3>1 DEF Ok
    <3> QED BY <2>1, <2>3, <3>2
  <2> QED BY <2>2, <2>3
<1>2. CASE FetchSearch
  <2>1. view = None /\ view' = None /\ body' = body /\ body.kind = "search"
    BY <1>2 DEF FetchSearch
  <2>2. CASE body.dto = None
    <3>1. mapped' = Malformed
      BY <1>2, <2>2 DEF FetchSearch
    <3> QED BY <2>1, <3>1 DEF Malformed
  <2>3. CASE body.dto # None
    <3>1. mapped' = Ok(MapShipmentSummaries(body.dto))
      BY <1>2, <2>3 DEF FetchSearch
    <3>2. mapped'.value = MapShipmentSummaries(body.dto)
      BY <3>1 DEF Ok
    <3> QED BY <2>1, <2>3, <3>2
  <2> QED BY <2>2, <2>3
<1>3. CASE ViewDetail
  BY <1>3 DEF ViewDetail
<1>4. CASE ViewSearch
  BY <1>4 DEF ViewSearch
<1>5. CASE UNCHANGED vars
  BY <1>5 DEF vars
<1> QED
  BY <1>1, <1>2, <1>3, <1>4, <1>5 DEF Next

(* The invariant holds in every state. *)
THEOREM Invariance == Spec => []IInv
<1>1. Init => IInv
  BY DEF Init, IInv, Followed, Early
<1> QED
  BY <1>1, NextInv, PTL DEF Spec

(* What a body holds, once it has parsed. *)
LEMMA Parsed ==
  ASSUME IInv, mapped # None, mapped.ok
  PROVE  \/ body.kind = "detail" /\ body.dto \in ShipmentDetailDTO /\ body.dto.progressBar # None
         \/ body.kind = "search" /\ body.dto \in SearchResponseDTO
<1>1. \/ body.kind = "detail" /\ body.dto \in Optional(ShipmentDetailDTO)
      \/ body.kind = "search" /\ body.dto \in Optional(SearchResponseDTO)
  BY BodiesAssumption DEF IInv
<1> QED
  BY <1>1 DEF IInv, Followed, Optional

-----------------------------------------------------------------------------
(* Whatever is missing, null or unknown in a body, every value on the way  *)
(* has its type: no list that is cached is nil, none that is shown save    *)
(* the dimensions, and these are never shown empty (mapper.go and          *)
(* view_mapper.go).                                                        *)
THEOREM TypesKept == Spec => []TypeOK
<1>1. ASSUME IInv PROVE TypeOK
  <2>1. ASSUME mapped # None, mapped.ok, body.kind = "detail"
        PROVE  /\ mapped.value \in Shipment
               /\ view # None => view \in ShipmentDetailView
    <3>1. mapped.value \in Shipment
      BY <1>1, <2>1, Parsed, ShipmentType DEF IInv, Followed
    <3> QED
      BY <1>1, <2>1, <3>1, DetailViewType DEF IInv, Followed
  <2>2. ASSUME mapped # None, mapped.ok, body.kind # "detail"
        PROVE  /\ mapped.value \in Seq(ShipmentSummary)
               /\ view # None => view \in Seq(ShipmentSummaryView)
    <3>1. body.kind = "search" /\ mapped.value \in Seq(ShipmentSummary)
      BY <1>1, <2>2, Parsed, SummariesType DEF IInv, Followed
    <3>2. Map(mapped.value, MapShipmentSummaryView) \in Seq(ShipmentSummaryView)
      BY <3>1, SummaryViewType DEF Map
    <3> QED
      BY <1>1, <2>2, <3>1, <3>2 DEF IInv, Followed
  <2> QED
    BY <1>1, <2>1, <2>2 DEF TypeOK, IInv, Early
<1> QED
  BY <1>1, Invariance, PTL

(* A history is shown in order, complete, whatever order the upstream      *)
(* lists it in: the sort is stable and loses nothing, and the seconds that *)
(* are shown only come after it.                                           *)
THEOREM HistoryIsInOrder == Spec => []HistoryInOrder
<1>1. ASSUME IInv, DetailsShown PROVE HistoryInOrder
  <2> DEFINE dto == body.dto
             packages == Map(NilToEmpty(dto.packages), MapPackage)
  <2>1. /\ dto \in ShipmentDetailDTO /\ mapped.value = MapShipment(dto)
        /\ view = MapShipmentDetailView(mapped.value)
    BY <1>1, Parsed DEF DetailsShown, Details, IInv, Followed
  <2>2. dto.events \in Nullable(EventDTO) /\ dto.packages \in Nullable(PackageDTO)
    BY <2>1 DEF ShipmentDetailDTO
  <2>3. /\ view.events = Map(mapped.value.events, MapEventView)
        /\ view.packages = Map(mapped.value.packages, MapPackageView)
    BY <2>1 DEF MapShipmentDetailView
  <2>4. /\ mapped.value.events = SortChronologically(Map(NilToEmpty(dto.events), MapEvent))
        /\ mapped.value.packages = packages
    BY <2>1 DEF MapShipment
  <2>5. IsHistoryOf(view.events, NilToEmpty(dto.events))
    BY <2>2, <2>3, <2>4, NilType, EventHistory
  <2>6. NilToEmpty(dto.packages) \in Seq(PackageDTO)
    BY <2>2, NilType
  <2>7. Len(packages) = Len(NilToEmpty(dto.packages))
    BY <2>6 DEF Map
  <2>8. Len(view.packages) = Len(NilToEmpty(dto.packages))
    <3> HIDE DEF packages
    <3> QED BY <2>3, <2>4, <2>6, <2>7 DEF Map
  <2>9. ASSUME NEW n \in 1..Len(view.packages)
        PROVE  IsHistoryOf(view.packages[n].events, NilToEmpty(dto.packages[n].events))
    <3>1. NilToEmpty(dto.packages) = dto.packages
      BY <2>8 DEF NilToEmpty
    <3> DEFINE p == dto.packages[n]
               sorted == SortChronologically(Map(NilToEmpty(p.events), MapPackageEvent))
    <3>2. p \in PackageDTO
      BY <2>6, <2>8, <3>1
    <3>3. NilToEmpty(p.events) \in Seq(PackageEventDTO)
      BY <3>2, NilType DEF PackageDTO
    <3>4. packages[n] = MapPackage(p)
      BY <2>6, <2>8, <3>1 DEF Map
    <3>5. view.packages[n] = MapPackageView(packages[n])
      <4> HIDE DEF packages
      <4> QED BY <2>3, <2>4, <2>6, <2>7, <2>8 DEF Map
    <3>6. packages[n].events = sorted
      <4>1. packages[n] = [id |-> p.id, events |-> sorted]
        BY <3>4, Zenon DEF MapPackage
      <4> HIDE DEF packages, sorted
      <4> QED BY <4>1
    <3>7. view.packages[n].events = Map(sorted, MapPackageEventView)
      <4> HIDE DEF packages, sorted
      <4> QED BY <3>5, <3>6 DEF MapPackageView
    <3> QED BY <3>3, <3>7, PackageHistory
  <2> QED
    BY <2>5, <2>8, <2>9 DEF HistoryInOrder
<1>2. IInv => HistoryInOrder
  BY <1>1 DEF HistoryInOrder
<1> QED
  BY <1>2, Invariance, PTL
(* And so does a summary, on its way from the body to what is shown. *)
LEMMA MappedSummary ==
  ASSUME NEW x
  PROVE  /\ MapSummary(x).lastEventRawCode = x.lastEventCode
         /\ MapSummary(x).lastEventCode = Parse(x.lastEventCode, EventCodes)
         /\ MapShipmentSummaryView(x).lastEventCode = x.lastEventRawCode
         /\ MapShipmentSummaryView(x).status = Description(x.lastEventCode, CodeLabel)
BY Zenon DEF MapSummary, MapShipmentSummaryView

(* No code is lost on the way from the body to the caller: a label is      *)
(* "Unknown" exactly where the code shown beside it, which is the code of  *)
(* the upstream, is outside the catalog.                                   *)
THEOREM CodesAreAccountedFor == Spec => []CodesAccountedFor
<1>1. ASSUME IInv, DetailsShown, NEW n \in 1..Len(view.events)
      PROVE  (view.events[n].description = "Unknown") = (view.events[n].rawCode \notin EventCodes)
  <2> DEFINE listed == NilToEmpty(body.dto.events)
             s == Map(listed, MapEvent)
             t == SortChronologically(s)
  <2>1. /\ body.dto \in ShipmentDetailDTO /\ mapped.value = MapShipment(body.dto)
        /\ view = MapShipmentDetailView(mapped.value)
    BY <1>1, Parsed DEF DetailsShown, Details, IInv, Followed
  <2>2. view.events = Map(t, MapEventView)
    <3>1. view.events = Map(mapped.value.events, MapEventView)
      BY <2>1 DEF MapShipmentDetailView
    <3>2. mapped.value.events = t
      BY <2>1 DEF MapShipment
    <3> QED BY <3>1, <3>2
  <2>3. listed \in Seq(EventDTO)
    BY <2>1, NilType DEF ShipmentDetailDTO
  <2>4. s \in Seq({MapEvent(e) : e \in EventDTO})
    BY <2>3 DEF Map
  <2>5. s \in Seq(Event)
    BY <2>3, EventType DEF Map
  <2> HIDE DEF s
  <2>6. Dated(s)
    BY <2>5, EventDates DEF Dated
  <2>7. t \in Seq({MapEvent(e) : e \in EventDTO})
    BY <2>4, <2>6, SortedType
  <2> HIDE DEF t
  <2>8. n \in 1..Len(t) /\ view.events[n] = MapEventView(t[n])
    BY <1>1, <2>2, <2>7 DEF Map
  <2>9. PICK e \in EventDTO : t[n] = MapEvent(e)
    BY <2>7, <2>8
  <2>10. t[n].rawCode = e.code /\ t[n].code = Parse(e.code, EventCodes)
    BY <2>9, MappedEvent
  <2>11. /\ view.events[n].rawCode = t[n].rawCode
         /\ view.events[n].description = Description(t[n].code, CodeLabel)
    BY <2>8 DEF MapEventView
  <2> QED
    BY <2>10, <2>11, UnknownLabel
<1>2. ASSUME IInv, body.kind = "search", view # None, NEW n \in 1..Len(view)
      PROVE  (view[n].status = "Unknown") = (view[n].lastEventCode \notin EventCodes)
  <2> DEFINE list == NilToEmpty(body.dto.result)
             s == Map(list, MapSummary)
  <2>1. /\ body.dto \in SearchResponseDTO /\ view = Map(s, MapShipmentSummaryView)
    BY <1>2, Parsed DEF IInv, Followed, Early, MapShipmentSummaries
  <2>2. list \in Seq(ShipmentSummaryDTO)
    BY <2>1, NilType DEF SearchResponseDTO
  <2>3. s \in Seq({MapSummary(x) : x \in ShipmentSummaryDTO})
    BY <2>2 DEF Map
  <2> HIDE DEF s
  <2>4. n \in 1..Len(s) /\ view[n] = MapShipmentSummaryView(s[n])
    BY <1>2, <2>1, <2>3 DEF Map
  <2>5. PICK x \in ShipmentSummaryDTO : s[n] = MapSummary(x)
    BY <2>3, <2>4
  <2>6. /\ s[n].lastEventRawCode = x.lastEventCode
        /\ s[n].lastEventCode = Parse(x.lastEventCode, EventCodes)
    BY <2>5, MappedSummary
  <2>7. /\ view[n].lastEventCode = s[n].lastEventRawCode
        /\ view[n].status = Description(s[n].lastEventCode, CodeLabel)
    BY <2>4, MappedSummary
  <2> QED
    BY <2>6, <2>7, UnknownLabel
<1>3. IInv => CodesAccountedFor
  BY <1>1, <1>2 DEF CodesAccountedFor
<1> QED
  BY <1>3, Invariance, PTL

-----------------------------------------------------------------------------
(* Only one stage has the label of delivery. *)
LEMMA OneLabel ==
  ASSUME NEW step
  PROVE  (MapStage(step) = "DELIVERED" <=> step = "DELIVERED")
         /\ (Description(MapStage(step), StageLabel) = "Delivered" <=> step = "DELIVERED")
<1>1. DOMAIN StageLabel = Stages
  BY DEF StageLabel, Stages
<1>2. CASE step \in Stages
  <2>1. MapStage(step) = step
    BY <1>2, Zenon DEF MapStage, Parse
  <2>2. Description(MapStage(step), StageLabel) = StageLabel[step]
    BY <1>1, <1>2, <2>1, Zenon DEF Description
  <2>3. StageLabel[step] = "Delivered" <=> step = "DELIVERED"
    BY <1>2, StageLabels DEF Stages
  <2> QED BY <2>1, <2>2, <2>3
<1>3. CASE step \notin Stages
  <2>1. MapStage(step) = "" /\ step # "DELIVERED"
    BY <1>3 DEF MapStage, Parse, Stages
  <2>2. "" \notin Stages
    BY DEF Stages
  <2> QED BY <1>1, <2>1, <2>2 DEF Description
<1>4. step \in Stages \/ step \notin Stages
  OBVIOUS
<1> QED
  BY <1>2, <1>3, <1>4, Zenon

(* Delivery means the same to the upstream, the cache and the caller. *)
THEOREM DeliveredAgrees == Spec => []DeliveredAlike
<1>1. IInv => DeliveredAlike
  <2> SUFFICES ASSUME IInv, DetailsShown PROVE DeliveredAlike
    BY DEF DeliveredAlike
  <2> DEFINE step == body.dto.progressBar.activeStep
  <2>1. mapped.value = MapShipment(body.dto) /\ view = MapShipmentDetailView(mapped.value)
    BY DEF DetailsShown, Details, IInv, Followed
  <2>2. mapped.value.progress = MapProgress(body.dto.progressBar)
    BY <2>1 DEF MapShipment
  <2>3. mapped.value.progress.activeStep = MapStage(step)
    BY <2>2 DEF MapProgress
  <2>4. view.status = Description(mapped.value.progress.activeStep, StageLabel)
    BY <2>1 DEF MapShipmentDetailView
  <2> QED
    BY <2>3, <2>4, OneLabel DEF DeliveredAlike
<1> QED
  BY <1>1, Invariance, PTL
=============================================================================
