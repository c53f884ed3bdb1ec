----------------------------- MODULE MCImport ------------------------------
(* The cases of Import: ways that branch, cross, close and repeat a node,    *)
(* answers that fail and are tried again, and segments with connectors in    *)
(* any order and restrictions of any direction.                              *)
EXTENDS Import

Element(type, id, nodes, tags) == [type |-> type, id |-> id, nodes |-> nodes, tags |-> tags]
Tags(highway, oneway) == [highway |-> highway, oneway |-> oneway, junction |-> Null]
Paths(n) == UNION {[1..k -> 1..3] : k \in 0..n}
World(s, t, oneway) ==
  [n \in 1..3 |-> Element("node", n, <<>>, <<>>)]
  \o <<Element("way", 11, s, Tags("primary", oneway)), Element("way", 12, t, Tags("motorway", Null)),
       Element("way", 13, <<1, 2>>, Tags("footway", Null)), Element("way", 14, <<2, 3>>, Tags(Null, Null)),
       Element("relation", 15, <<>>, <<>>)>>
Ok(hits) == [status |-> 200, hits |-> hits]
Busy == [status |-> 503, hits |-> <<>>]
Hit(box, parts) == [box |-> box, parts |-> parts]
Areas ==
  [place : {FALSE}, box : {{1, 2, 3}, {1}}]
  \cup [place : {TRUE}, responses : {<<Busy, Ok(<<Hit({1, 2, 3}, <<{1}, {2}>>), Hit({1}, <<>>)>>)>>, <<Ok(<<>>), Busy>>,
                                    <<Busy, Busy>>, <<Ok(<<Hit(Null, <<>>)>>), Busy>>}]

Connector(id, at) == [id |-> id, at |-> at]
Road(id, class, connectors, restrictions) ==
  [id |-> id, meets |-> {1}, subtype |-> "road", class |-> class, vertices |-> {0, 2, 5, 9}, connectors |-> connectors,
   restrictions |-> restrictions]
Denied(h) == [access |-> "denied", heading |-> h]
Connectings ==
  {<<Connector(1, 0), Connector(2, a), Connector(3, b), Connector(c, 10)>> :
     a \in {0, 4, 7}, b \in {4, 5}, c \in {1, 4, Null}} \cup {<<Connector(3, 6), Connector(1, Null)>>, <<>>}
Restrictions == {{}, {Denied("backward")}, {Denied("forward"), [access |-> "allowed", heading |-> "backward"]},
                 {Denied("forward"), Denied("backward")}, {Denied(Null)}}

AreaCases ==
  {[part |-> "osm", world |-> World(s, t, o), area |-> [place |-> FALSE, box |-> {1, 2, 3}], responses |-> <<Busy, Ok(<<>>)>>] :
     s \in Paths(4), t \in Paths(2) \cup {<<1, 2, 1>>, <<3, 2, 1>>}, o \in {"-1", "yes", Null}}
PlaceCases ==
  {[part |-> "osm", world |-> World(s, <<3, 2>>, Null), area |-> a, responses |-> r] :
     s \in Paths(3), a \in Areas, r \in {<<Ok(<<>>), Busy>>, <<Busy, Ok(<<>>)>>, <<Busy, Busy>>}}
SegmentCases ==
  {[part |-> "overture", world |-> <<Road("s", "primary", c, r), Road("t", "primary", d, {}), Road("u", "path", c, r)>>] :
     c, d \in Connectings, r \in Restrictions}

Holds(case) ==
  /\ case.part = "osm" => OsmNetworkIsOfTheWorld(case.world, case.area, {"primary", "motorway"}, case.responses)
  /\ case.part = "overture" => SegmentsAreRetraced(case.world, 1..4, {1}, {"primary"})
=============================================================================
