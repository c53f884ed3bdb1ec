---------------------------- MODULE MCSelection ----------------------------
(* The cases of Selection: an interchange and a grid of streets with ramps   *)
(* that make the choice of an anchor hard, and payloads over them.           *)
EXTENDS Selection

Street(from, to, length, class, name) ==
  [from |-> from, to |-> to, length |-> length, directed |-> TRUE, class |-> class, name |-> name, ref |-> {},
   attr |-> [lanes |-> length]]
Freeway(from, to) == [Street(from, to, 1, "motorway", "") EXCEPT !.ref = {"I40"}]
Ramp(from, to) == Street(from, to, 1, "motorway_link", "")

Interchange ==
  1 :> Freeway(1, 2) @@ 2 :> Freeway(2, 3) @@ 3 :> Freeway(3, 4) @@ 4 :> Freeway(6, 5)
  @@ 5 :> Street(7, 8, 1, "primary", "A") @@ 6 :> Street(9, 10, 1, "primary", "B")
  @@ 7 :> Ramp(2, 7) @@ 8 :> Ramp(8, 3) @@ 9 :> Ramp(9, 4)
Grid ==
  1 :> Street(1, 2, 2, "primary", "I40") @@ 2 :> Street(3, 2, 1, "primary", "I40")
  @@ 3 :> Street(1, 3, 5, "primary", "I40") @@ 4 :> Street(2, 3, 2, "primary", "I40")
  @@ 5 :> Street(1, 4, 1, "minor", "A") @@ 6 :> Street(3, 5, 1, "minor", "B")

Towns == {Interchange, Interchange @@ 10 :> Ramp(3, 9), Interchange @@ 11 :> Ramp(1, 8), Grid,
          Grid @@ 7 :> Street(2, 4, 1, "minor", "A"), [l \in DOMAIN Grid \ {6} |-> Grid[l]] @@ 6 :> Street(6, 7, 1, "minor", "B")
            @@ 8 :> Ramp(6, 2) @@ 9 :> Ramp(7, 3)}
Places == [v \in 1..10 |-> [x |-> IF v \in 5..6 THEN v - 4 ELSE v, y |-> IF v = 5 THEN 1 ELSE 0]]

Anchors == {Null, "A", "B"}
Facilities == {Null} \cup [ref : {{}, {"I40"}}, name : {{}, {"A"}, {"I40"}}, direction : {Null, "EB", "WB"}]
Payloads ==
  [facility : Facilities, fromAnchor : Anchors, toAnchor : Anchors, selectAll : {Null, TRUE},
   linkIds : {{}, {1, 2}}, modes : {{}}, conditions : {<<>>, [lanes |-> {1, 2}]}]

PayloadCases == {[part |-> "payload", payload |-> p] : p \in Payloads}
SelectionCases ==
  {[part |-> "selection", link |-> t, intent |-> IntentFromPayload(p)] :
     t \in Towns, p \in {q \in Payloads : q.linkIds = {} /\ IntentFromPayload(q) # NoIntent}}
=============================================================================
