------------------------------- MODULE Import -------------------------------
(* Networks from OpenStreetMap (netstead/osm) and from Overture Maps         *)
(* (netstead/overture): which areas and ways are asked for, and how ways are *)
(* cut into links.                                                           *)
(*                                                                           *)
(* A way is [id, nodes, tags] with a sequence of node ids, a segment [id,    *)
(* meets, subtype, class, vertices, connectors, restrictions] that lies in   *)
(* the boxes it meets and whose vertices and connectors have integer places  *)
(* along its line.  A node's coordinates are its id.  Speeds, lanes and      *)
(* names, read off the tags of a way for each of its links, are left out,    *)
(* and so are lengths.                                                       *)
EXTENDS Integers, FiniteSets, Sequences, SequencesExt

CONSTANTS
  Null,
  Retries   \* how often a transient answer is asked for again

Error(name) == [error |-> name]
IsError(r) == "error" \in DOMAIN r
RangeOf(s) == {s[k] : k \in DOMAIN s}
Pairs(s) == [k \in 1..(Len(s) - 1) |-> <<s[k], s[k+1]>>]
PairwiseDistinct(s) == \A j, k \in DOMAIN s : j # k => s[j] # s[k]

(* ------------------------------- fetching ------------------------------ *)

RetryableStatus == {429, 502, 503, 504}

(* _with_retry: the first response that is final, the last if none is.       *)
WithRetry(responses) ==
  LET last  == Retries + 1
      final == {k \in 1..last : k = last \/ responses[k].status \notin RetryableStatus}
      r     == responses[CHOOSE k \in final : \A j \in final : k <= j]
  IN  IF r.status >= 400 THEN Error("HTTPError") ELSE r

(* geocode_area, over hits [box, parts]: the box and the parts of a boundary *)
(* are the nodes inside.  Only the first part of a MultiPolygon is used.     *)
GeocodeArea(responses) ==
  LET r == WithRetry(responses) IN
  IF IsError(r) THEN r
  ELSE IF r.hits = <<>> \/ r.hits[1].box = Null THEN Error("LookupError")
  ELSE [box |-> r.hits[1].box, polygon |-> IF r.hits[1].parts = <<>> THEN Null ELSE r.hits[1].parts[1]]

(* geocode_candidates, for the user to choose from.                          *)
GeocodeCandidates(responses) ==
  LET r == WithRetry(responses) IN
  IF IsError(r) THEN r
  ELSE [candidates |-> [k \in DOMAIN SelectSeq(r.hits, LAMBDA h : h.box # Null) |->
          LET h == SelectSeq(r.hits, LAMBDA g : g.box # Null)[k]
          IN  [box |-> h.box, polygon |-> IF h.parts = <<>> THEN Null ELSE h.parts[1]]]]

(* resolve_area: a place, or a box that the caller gave.                     *)
ResolveArea(area) == IF area.place THEN GeocodeArea(area.responses) ELSE [box |-> area.box, polygon |-> Null]

AcceptsHighway(allowed, highway) == allowed = {} \/ highway \in allowed

(* The ways an Overpass query asks for, and with "(._;>;)" all their nodes.  *)
OverpassAnswer(elements, allowed, area) ==
  LET inside == IF area.polygon # Null THEN area.polygon ELSE area.box
      asked(e) == /\ e.type = "way" /\ e.tags.highway # Null /\ AcceptsHighway(allowed, e.tags.highway)
                  /\ RangeOf(e.nodes) \cap inside # {}
      ways   == SelectSeq(elements, asked)
      needed == UNION {RangeOf(ways[k].nodes) : k \in DOMAIN ways}
  IN  SelectSeq(elements, LAMBDA e : asked(e) \/ (e.type = "node" /\ e.id \in needed))

(* parse_overpass_elements: relations are passed over.                       *)
ParseElements(elements) ==
  [nodes |-> {elements[k].id : k \in {j \in DOMAIN elements : elements[j].type = "node"}},
   ways  |-> SelectSeq(elements, LAMBDA e : e.type = "way")]

(* read_osm_file: a file holds more than was asked for, and may lack nodes.  *)
ReadOsmFile(elements, allowed) ==
  LET all == ParseElements(elements) IN
  [nodes |-> all.nodes,
   ways  |-> SelectSeq(all.ways, LAMBDA w : /\ w.tags.highway # Null /\ AcceptsHighway(allowed, w.tags.highway)
                                            /\ RangeOf(w.nodes) \subseteq all.nodes)]

(* ---------------------------- OpenStreetMap ---------------------------- *)

OnewayDirection(tags) ==
  CASE tags.oneway \in {"yes", "true", "1"} -> "forward"
    [] tags.oneway \in {"-1", "reverse"} -> "backward"
    [] tags.oneway \in {"no", "false", "0"} -> "both"
    [] OTHER -> IF tags.junction \in {"roundabout", "circular"} \/ tags.highway \in {"motorway", "motorway_link"}
                THEN "forward" ELSE "both"

(* Plausible bug: a node that a way passes twice is not kept.                *)
KeptNodesOfOnePass(ways) ==
  LET passes(n) == {k \in DOMAIN ways : n \in RangeOf(ways[k].nodes)}
  IN  UNION {LET s == ways[k].nodes IN {n \in RangeOf(s) : n \in {s[1], s[Len(s)]} \/ Cardinality(passes(n)) >= 2} :
               k \in DOMAIN ways}

(* The nodes that become nodes of the network: ends of ways, nodes that a    *)
(* way passes twice, and nodes of two ways.                                  *)
KeptNodes(ways) ==
  LET passes(n) == {<<k, j>> \in UNION {{k} \X DOMAIN ways[k].nodes : k \in DOMAIN ways} : ways[k].nodes[j] = n}
  IN  UNION {LET s == ways[k].nodes IN {n \in RangeOf(s) : n \in {s[1], s[Len(s)]} \/ Cardinality(passes(n)) >= 2} :
               k \in DOMAIN ways}

(* A way is cut at its kept nodes.                                           *)
SplitWay(way, kept) ==
  LET cuts == SetToSeq({k \in 2..Len(way.nodes) : way.nodes[k] \in kept})
      from(k) == LET before == {j \in {1} \cup RangeOf(cuts) : j < k} IN CHOOSE j \in before : \A i \in before : i <= j
      inOrder == SortSeq(cuts, <)
  IN  [n \in DOMAIN cuts |-> [seq |-> SubSeq(way.nodes, from(inOrder[n]), inOrder[n]), way |-> way]]

Orientations(seq, direction) ==
  CASE direction = "both" -> <<seq, Reverse(seq)>>
    [] direction = "backward" -> <<Reverse(seq)>>
    [] direction = "forward" -> <<seq>>

(* build_node_link_tables.  The position of a link is its link_id.           *)
OsmTables(nodes, ways) ==
  LET segments == FlattenSeq([k \in DOMAIN ways |-> SplitWay(ways[k], KeptNodes(ways))])
      oriented(s) == LET each == Orientations(s.seq, OnewayDirection(s.way.tags))
                     IN  [n \in DOMAIN each |->
                            [from |-> each[n][1], to |-> each[n][Len(each[n])], osm_way_id |-> s.way.id,
                             osm_node_ids |-> each[n]]]
      links == FlattenSeq([k \in DOMAIN segments |-> oriented(segments[k])])
  IN  IF \E k \in DOMAIN ways : ~(RangeOf(ways[k].nodes) \subseteq nodes) THEN Error("ValueError")
      ELSE [node |-> UNION {{links[k].from, links[k].to} : k \in DOMAIN links}, link |-> links]

NonEmpty(tables) == IF ~IsError(tables) /\ tables.link = <<>> THEN Error("ValueError") ELSE tables

(* build_network_from_osm.  The world is what Overpass knows.                *)
BuildFromOsm(world, area, allowed, responses) ==
  LET place  == ResolveArea(area)
      answer == WithRetry(responses)
      parsed == ParseElements(OverpassAnswer(world, allowed, place))
  IN  IF IsError(place) THEN place
      ELSE IF IsError(answer) THEN answer
      ELSE NonEmpty(OsmTables(parsed.nodes, parsed.ways))

BuildFromOsmFile(file, allowed) ==
  LET parsed == ReadOsmFile(file, allowed) IN NonEmpty(OsmTables(parsed.nodes, parsed.ways))

(* ---------------------------- edit in OSM ------------------------------ *)

Kinds == <<"way", "node", "relation">>

(* _coerce_osm_id: blank, NaN and words are no ids.                          *)
CoerceOsmId(raw) == IF raw \in Nat THEN raw ELSE Null

OsmEditUrl(raw, kind) == IF CoerceOsmId(raw) = Null THEN Null ELSE [kind |-> kind, id |-> CoerceOsmId(raw)]

(* issue_osm_edit_url: ids that came with the issue, else those of its row,  *)
(* counted from 0.  An import gives nodes no column of OSM ids.              *)
IssueOsmEditUrl(issue, tables) ==
  LET given == {k \in DOMAIN Kinds : Kinds[k] \in DOMAIN issue.extra /\ CoerceOsmId(issue.extra[Kinds[k]]) # Null}
      first == Kinds[CHOOSE k \in given : \A j \in given : k <= j]
  IN  IF given # {} THEN OsmEditUrl(issue.extra[first], first)
      ELSE IF issue.row = Null \/ issue.table # "link" \/ issue.row \notin 0..(Len(tables.link) - 1) THEN Null
      ELSE OsmEditUrl(tables.link[issue.row + 1].osm_way_id, "way")

(* ------------------------------- Overture ------------------------------ *)

(* Headings that are denied; a road with both denied is taken for two-way.   *)
OvertureDirection(segment) ==
  LET denied == {r.heading : r \in {x \in segment.restrictions : x.access \in {"denied", "no"}}}
      allowed == {"forward", "backward"} \ denied
  IN  IF Cardinality(allowed) = 1 THEN CHOOSE d \in allowed : TRUE ELSE "both"

(* Entries without a connector are passed over, a missing place is the       *)
(* beginning; equal places stay in the order they came in.                   *)
OrderedConnectors(segment) ==
  LET named == SelectSeq(segment.connectors, LAMBDA c : c.id # Null)
      at(k) == IF named[k].at = Null THEN 0 ELSE named[k].at
      order == SortSeq([k \in DOMAIN named |-> k], LAMBDA j, k : at(j) < at(k) \/ (at(j) = at(k) /\ j < k))
  IN  [k \in DOMAIN order |-> [id |-> named[order[k]].id, at |-> at(order[k])]]

Referenced(segments) ==
  UNION {{OrderedConnectors(segments[k])[j].id : j \in DOMAIN OrderedConnectors(segments[k])} : k \in DOMAIN segments}

(* Numbers from 1 in the order of the connector ids.                         *)
MintNodeIds(segments) ==
  [c \in Referenced(segments) |-> Cardinality({d \in Referenced(segments) : d <= c})]

(* The vertices between two places.                                          *)
SliceLine(segment, from, to) == {v \in segment.vertices : from < v /\ v < to}

(* Road segments that meet the box, of the classes asked for.                *)
ReadSegments(world, box, allowed) ==
  SelectSeq(world, LAMBDA s : /\ s.meets \cap box # {}
                              /\ s.subtype = "road"
                              /\ (allowed = {} \/ s.class \in allowed))

ReadConnectors(segments, known) ==
  {c \in known : \E k \in DOMAIN segments : \E j \in DOMAIN segments[k].connectors : segments[k].connectors[j].id = c}

OvertureTables(segments, connectors) ==
  LET number == MintNodeIds(segments)
      link(s, a, b) == [from |-> number[a.id], to |-> number[b.id], overture_segment_id |-> s.id,
                        ends |-> <<a.at, b.at>>, between |-> SliceLine(s, a.at, b.at)]
      back(l) == [l EXCEPT !.from = l.to, !.to = l.from, !.ends = Reverse(@)]
      oriented(s, a, b) ==
        CASE OvertureDirection(s) = "forward" -> <<link(s, a, b)>>
          [] OvertureDirection(s) = "backward" -> <<back(link(s, a, b))>>
          [] OTHER -> <<link(s, a, b), back(link(s, a, b))>>
      stretches(s) == SelectSeq(Pairs(OrderedConnectors(s)), LAMBDA p : p[1].at < p[2].at)
      ofSegment(s) == FlattenSeq([k \in DOMAIN stretches(s) |-> oriented(s, stretches(s)[k][1], stretches(s)[k][2])])
      links == FlattenSeq([k \in DOMAIN segments |-> ofSegment(segments[k])])
  IN  IF ~(Referenced(segments) \subseteq connectors) THEN Error("ValueError")
      ELSE [node |-> UNION {{links[k].from, links[k].to} : k \in DOMAIN links}, link |-> links]

BuildFromOverture(world, known, box, allowed) ==
  LET segments == ReadSegments(world, box, allowed)
  IN  NonEmpty(OvertureTables(segments, ReadConnectors(segments, known)))

(* ------------------------------ properties ----------------------------- *)

(* How often a link of the way steps from u to v.                            *)
Steps(seqs, u, v) ==
  Cardinality({<<k, j>> \in UNION {{k} \X (1..(Len(seqs[k]) - 1)) : k \in DOMAIN seqs} :
                 seqs[k][j] = u /\ seqs[k][j+1] = v})

(* The links of a way step along it exactly as often as it does, in each     *)
(* direction that it may be driven and in no other.  Links meet at their     *)
(* ends only: a node inside a link lies in no other but the same stretch     *)
(* driven the other way, and is passed once.                                 *)
WaysAreRetraced(tables, ways) ==
  /\ \A w \in DOMAIN ways, u, v \in UNION {RangeOf(ways[k].nodes) : k \in DOMAIN ways} :
       LET own == SelectSeq(tables.link, LAMBDA l : l.osm_way_id = ways[w].id)
           d   == OnewayDirection(ways[w].tags)
       IN  Steps([k \in DOMAIN own |-> own[k].osm_node_ids], u, v)
             = (IF d # "backward" THEN Steps(<<ways[w].nodes>>, u, v) ELSE 0)
               + (IF d # "forward" THEN Steps(<<ways[w].nodes>>, v, u) ELSE 0)
  /\ \A k, j \in DOMAIN tables.link :
       LET s == tables.link[k].osm_node_ids
           t == tables.link[j].osm_node_ids
           inside == {s[i] : i \in 2..(Len(s) - 1)}
       IN  /\ inside \cap tables.node = {} /\ PairwiseDistinct(SubSeq(s, 2, Len(s) - 1))
           /\ j # k /\ inside \cap RangeOf(t) # {} =>
                t = Reverse(s) /\ tables.link[j].osm_way_id = tables.link[k].osm_way_id

(* A network built from a file that holds all that Overpass knows, and more, *)
(* is the one that Overpass's answer gives, if it gives one within the       *)
(* retries; and "Edit in OSM" on any link leads to the way that the link is  *)
(* a piece of.                                                               *)
OsmNetworkIsOfTheWorld(world, area, allowed, responses) ==
  LET built == BuildFromOsm(world, area, allowed, responses)
      place == ResolveArea(area)
      asked == ParseElements(OverpassAnswer(world, allowed, place)).ways
  IN  /\ IsError(built) =>
           \/ IsError(place)
           \/ \A k \in DOMAIN responses : responses[k].status # 200
           \/ \A k \in DOMAIN asked : Len(asked[k].nodes) < 2
      /\ ~IsError(built) =>
           /\ WaysAreRetraced(built, asked)
           /\ (place.polygon = Null /\ ParseElements(world).nodes \subseteq place.box) =>
                BuildFromOsmFile(world, allowed) = built
           /\ \A row \in 0..(Len(built.link) - 1) :
                LET url == IssueOsmEditUrl([table |-> "link", row |-> row, extra |-> <<>>], built)
                IN  \E k \in DOMAIN asked :
                      url = [kind |-> "way", id |-> asked[k].id]
                      /\ RangeOf(built.link[row+1].osm_node_ids) \subseteq RangeOf(asked[k].nodes)

(* Every stretch of a segment between its outermost connectors, with its     *)
(* vertices, lies in exactly one link for each direction; nodes at the same  *)
(* connector are the same, whatever segments meet there.                     *)
SegmentsAreRetraced(world, known, box, allowed) ==
  LET built == BuildFromOverture(world, known, box, allowed)
      asked == ReadSegments(world, box, allowed)
  IN  ~IsError(built) =>
        \A k \in DOMAIN asked :
          LET s      == asked[k]
              places == {OrderedConnectors(s)[j].at : j \in DOMAIN OrderedConnectors(s)}
              own    == SelectSeq(built.link, LAMBDA l : l.overture_segment_id = s.id)
              covers(p, ahead) ==
                {j \in DOMAIN own : LET e == own[j].ends IN IF ahead THEN e[1] <= p /\ p < e[2] ELSE e[2] <= p /\ p < e[1]}
              directions == {d \in BOOLEAN : OvertureDirection(s) # (IF d THEN "backward" ELSE "forward")}
          IN  /\ \A p \in 0..10, d \in BOOLEAN :
                   Cardinality(covers(p, d)) =
                     IF d \in directions /\ (\E a \in places : a <= p) /\ (\E b \in places : p < b) THEN 1 ELSE 0
              /\ \A j \in DOMAIN own :
                   LET lo == IF own[j].ends[1] < own[j].ends[2] THEN own[j].ends[1] ELSE own[j].ends[2]
                       hi == own[j].ends[1] + own[j].ends[2] - lo
                   IN  own[j].between = {v \in s.vertices : lo < v /\ v < hi}
=============================================================================
