----------------------------- MODULE MCMapping -----------------------------
(* Response bodies for checking Mapping: variations of one shipment. *)
EXTENDS Mapping, SequencesExt

Land == <<"LandStt", "S1", "CTTS", "LAND">>
Place(city, post) == [countryCode |-> "", city |-> city, postCode |-> post]
Office(city) == [countryCode |-> "", city |-> city]
Scan(c, d) == [code |-> c, date |-> d, location |-> [name |-> "Varnamo", countryCode |-> "SE"]]
ParcelEvent(c, d) == [code |-> c, date |-> d, location |-> "Varnamo", countryCode |-> ""]
Codes == {"DLV", "ZZZ"}
Histories(n) == BoundedSeq({Scan(c, d) : c \in Codes, d \in 0..2}, n)
Parcels(n) == BoundedSeq({ParcelEvent(c, d) : c \in Codes, d \in 0..2}, n)
Metre == [value |-> 1, unit |-> "m"]
Bare == [value |-> 1, unit |-> ""]

Dto(events, parcels, step, mode) ==
  [shipmentID |-> Land, sttNumber |-> "S1", transportMode |-> mode, dataProvider |-> "CTTS",
   references |-> [shipper |-> <<"R1">>, consignee |-> None, waybillAndConsignmentNumbers |-> <<>>],
   goods |-> [pieces |-> 1, weight |-> Metre, volume |-> Bare, loadingMeters |-> Bare,
              dimensions |-> <<[length |-> Metre, width |-> None, height |-> Bare]>>],
   events |-> events,
   packages |-> Map(parcels, LAMBDA h : [id |-> "parcel", events |-> h]),
   deliveryDate |-> [estimated |-> 2, agreed |-> None],
   progressBar |-> [steps |-> <<"BOOKED", "DELIVERED">>, activeStep |-> step],
   location |-> [collectFrom |-> Place("", ""), deliverTo |-> Place("Dourges", "62119"),
                 shipperPlace |-> Place("", "12345"), consigneePlace |-> Place("Dourges", ""),
                 dispatchingOffice |-> Office("Gothenburg"), receivingOffice |-> Office("Lille")]]

(* A body with every list null. *)
Sparse == [Dto(None, <<>>, "BOOKED", "LAND") EXCEPT
             !.references.shipper = None, !.goods.dimensions = None, !.packages = None,
             !.progressBar.steps = None]

Detail(dto) == [kind |-> "detail", dto |-> dto]

Summary(id, code, start) ==
  [id |-> id, stt |-> "S1", transportMode |-> "LAND", percentageProgress |-> 50,
   lastEventCode |-> code, startDate |-> start, endDate |-> None]

SearchBody(list) == [kind |-> "search", dto |-> [result |-> list]]

MCBodies ==
  {Detail(Dto(h, <<>>, "DELIVERED", "LAND")) : h \in Histories(3)}
  \cup {Detail(Dto(<<>>, <<g, h>>, "BOOKED", "BOAT")) : g \in Parcels(1), h \in Parcels(2)}
  \cup {Detail(Dto(<<>>, <<>>, step, "SEA")) : step \in Stages \cup {"PENDING"}}
  \cup {Detail([Dto(<<>>, <<>>, "BOOKED", "LAND") EXCEPT !.progressBar = None])}
  \cup {Detail(Sparse), Detail(Dto(<<>>, <<None>>, "BOOKED", "LAND")), SearchBody(None)}
  \cup {[kind |-> k, dto |-> None] : k \in {"detail", "search"}}
  \cup {SearchBody(list) : list \in
          BoundedSeq({Summary(id, c, t) : id \in {Land, <<"S1">>, <<"LandStt", "S1", "", "LAND">>},
                                         c \in {"DLV", "ZZZ"}, t \in {None, 1}}, 1)}
=============================================================================
