------------------------------ MODULE MCTools ------------------------------
(* Inputs and symmetry for checking Tools. *)
EXTENDS Tools, TLC

CONSTANTS q1, q2

MCRequests == {q1, q2}
MCOnlyFirst == {q1}
MCStts == {"S1"}
MCNone == {}
MCTypes == {"", "Stt"}

Detail(id) == [tool |-> "get_shipment_details", arg |-> id]
Search(s, t) == [tool |-> "track_shipment", arg |-> <<s, t>>]

(* Both tools, and every kind of input they reject. *)
MCInputs == {
  Detail(Exact("S1")),
  Detail(<<"LandStt", "S1", "", "LAND">>),
  Search("", ""), Search("S1", "Bogus"),
  [tool |-> "list_reference_types", arg |-> None]}

(* An STT for an id, a shortened id, which the XHR is found by, a mistyped *)
(* id, and a search with a type.                                           *)
MCOddInputs == {
  Detail(<<"S1">>),
  Detail(Id("S1", "LAN")), Detail(Id("S1", "LANDer")), Search("S1", "Stt")}

MCDetails == {Detail(Exact("S1"))}

MCDeadline == {"browser_fetch"}
MCForbidden == {"browser_fetch", "ErrInvalidReference"}

MCSymmetry == Permutations(Requests)
=============================================================================
