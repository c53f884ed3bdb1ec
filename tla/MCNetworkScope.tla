--------------------------- MODULE MCNetworkScope ---------------------------
(* Model checking NetworkScope: three nodes in two zones, parallel links of  *)
(* different lengths and directions, a link without length or geometry, and  *)
(* a table of each kind that apply() filters.                                *)
EXTENDS NetworkScope

CONSTANTS g1, g2

Link(from, to, length, directed, geometry) ==
  [from |-> from, to |-> to, length |-> length, directed |-> directed, geometry |-> geometry]

Rows == [lane |-> {[lane_id |-> 1, link_id |-> 1], [lane_id |-> 2, link_id |-> 3]},
         lane_tod |-> {[lane_id |-> 1]},
         movement |-> {[ib_link_id |-> 1, ob_link_id |-> 3, node_id |-> 2]},
         use_definition |-> {[use |-> g1]}]

Streets == 1 :> Link(1, 2, 3, FALSE, g1) @@ 2 :> Link(1, 2, 1, TRUE, g2)
Ramp == 3 :> Link(2, 3, Null, Null, Null)

Towns == {[node |-> <<g1, g1, g2>>, link |-> Streets @@ Ramp, geometry |-> {g1, g2}, rows |-> Rows],
          [node |-> <<Null, g1, g2>>, link |-> Streets, geometry |-> {g1, g2}, rows |-> Rows]}

Bridge == 4 :> Link(3, 1, 2, FALSE, g2)

LinksNear == <<{1, 2}, {1, 2, 4}, {3}, {2, 4}>>
LinksAt == g1 :> {2}
SomeSeeds == {{1, 3}, {2, 5}}
OneZone == {{g1}}
Distance == {2}
=============================================================================
