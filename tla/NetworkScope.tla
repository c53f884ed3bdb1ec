---------------------------- MODULE NetworkScope ----------------------------
(* netstead/scope and netstead/semantics/connectivity: scopes of a network,  *)
(* their composition, the networks apply() makes of them, and the caches on  *)
(* Network.metadata that all of it goes through.  A network is edited in     *)
(* place by corral's editing layer (module Editing), which knows nothing of  *)
(* these caches.                                                             *)
(*                                                                           *)
(* The link and node tables are functions from ids to rows, every other      *)
(* table is a set of rows.  Geometry is abstract: Near says which links'     *)
(* geometries lie within a buffer of each other, At which links lie near a   *)
(* point.                                                                    *)
EXTENDS RoutingGraph, Functions, TLC

CONSTANTS
  SomeTables,          \* the tables of the networks that may be loaded
  NewLinks,            \* id -> row of links an edit may add
  Near, At,            \* link ids near a link's geometry, near each point
  Seeds,               \* sets of node ids a caller asks for
  Distances,           \* network distances to buffer by
  Zones,               \* sets of zones asked for
  None,
  MaxNetworks, MaxOps  \* bounds: networks in memory, operations

ASSUME BoundsAssumption == MaxNetworks \in Nat /\ MaxOps \in Nat /\ None # Null

VARIABLES
  nets,    \* the networks: their tables and what is cached on their metadata
  scope, other,  \* two scopes the caller holds, or None
  ops

vars == <<nets, scope, other, ops>>

(* Which column of which table is matched against which ids.                 *)
FkPushdown ==
  LET ofLink == {<<"link_id", "link">>}
      ofNode == {<<"node_id", "node">>}
      ofMovement == {<<"ib_link_id", "link">>, <<"ob_link_id", "link">>, <<"node_id", "node">>}
  IN  [t \in {"lane", "segment", "segment_lane", "link_tod", "lane_tod", "segment_tod",
              "segment_lane_tod"} |-> ofLink]
      @@ [t \in {"movement", "movement_tod"} |-> ofMovement]
      @@ [t \in {"signal_controller", "signal_coordination", "signal_detector", "signal_phase_mvmt",
                 "signal_timing_phase", "signal_timing_plan"} |-> ofNode]

Fresh(tables) == [tables |-> tables, graph |-> None, spatial |-> None]

Init ==
  /\ \E t \in SomeTables : nets = <<Fresh(t)>>
  /\ scope = None
  /\ other = None
  /\ ops = 0

(* ------------------------------ the caches ----------------------------- *)

GraphOf(t) == Build(DOMAIN t.node, t.link)

(* The cached graph, whatever became of the tables since, or a new one.      *)
GetOrBuildGraph(n) == IF nets[n].graph # None THEN nets[n].graph ELSE GraphOf(nets[n].tables)

(* The spatial index holds the links that have a geometry.                   *)
SpatialIndexOf(t) == {l \in DOMAIN t.link : t.link[l].geometry # Null}

GetOrBuildSpatialIndex(n) ==
  IF nets[n].spatial # None THEN nets[n].spatial ELSE SpatialIndexOf(nets[n].tables)

WithGraph(n) == [nets EXCEPT ![n].graph = GetOrBuildGraph(n)]
WithSpatialIndex(n) == [nets EXCEPT ![n].spatial = GetOrBuildSpatialIndex(n)]

QueryGeometry(index, l) == index \cap Near[l]

(* ------------------------------- helpers ------------------------------- *)

(* Plausible bug: one end in the scope is enough.                            *)
InducedByOneEnd(t, nodes) == {l \in DOMAIN t.link : t.link[l].from \in nodes}

InducedLinks(t, nodes) == {l \in DOMAIN t.link : t.link[l].from \in nodes /\ t.link[l].to \in nodes}

EndpointNodes(t, links) == UNION {Ends(t.link[l]) : l \in links \cap DOMAIN t.link}

MakeScope(n, nodes, links) == [net |-> n, nodes |-> nodes, links |-> links]

(* A caller keeps the new scope and the one before it.                       *)
Hold(s) == scope' = s /\ other' = scope
Counted == ops < MaxOps /\ ops' = ops + 1

(* ---------------------------- constructors ----------------------------- *)

(* Seeds the graph does not know are dropped; between each two of the others *)
(* the nodes of one shortest path from the smaller to the larger are added.  *)
FromNodes(n, asked, pathBetween) ==
  LET g     == GetOrBuildGraph(n)
      seeds == asked \cap g.nodes
  IN  /\ Counted
      /\ nets' = WithGraph(n)
      /\ \E trees \in [seeds -> UNION {PredecessorTrees(g, s) : s \in seeds}] :
           /\ \A s \in seeds : trees[s] \in PredecessorTrees(g, s)
           /\ LET between == {Range(PathNodes(g, p[1], p[2], trees[p[1]])) :
                                p \in {q \in seeds \X seeds : q[1] < q[2]}}
                  nodes == seeds \cup (IF pathBetween THEN UNION between ELSE {})
              IN  Hold(MakeScope(n, nodes, InducedLinks(nets[n].tables, nodes)))

FromNode(n, node, distance) ==
  LET g     == GetOrBuildGraph(n)
      nodes == NetworkBuffer(g, {node}, distance) \cup {node}
  IN  /\ Counted
      /\ nets' = WithGraph(n)
      /\ node \in g.nodes          \* otherwise ScopeError
      /\ Hold(MakeScope(n, nodes, InducedLinks(nets[n].tables, nodes)))

FromLinkByNetwork(n, l, distance) ==
  LET ends  == EndpointNodes(nets[n].tables, {l})
      nodes == NetworkBuffer(GetOrBuildGraph(n), ends, distance) \cup ends
  IN  /\ Counted
      /\ ends # {}                 \* otherwise ScopeError, before the graph is built
      /\ nets' = WithGraph(n)
      /\ Hold(MakeScope(n, nodes, InducedLinks(nets[n].tables, nodes) \cup {l}))

FromLinkBySpace(n, l) ==
  LET links == QueryGeometry(GetOrBuildSpatialIndex(n), l) \cup {l}
  IN  /\ Counted
      /\ nets' = WithSpatialIndex(n)
      /\ l \in SpatialIndexOf(nets[n].tables)      \* otherwise ScopeError
      /\ Hold(MakeScope(n, EndpointNodes(nets[n].tables, links), links))

FromPoint(n, p) ==
  LET links == GetOrBuildSpatialIndex(n) \cap At[p]
  IN  /\ Counted
      /\ nets' = WithSpatialIndex(n)
      /\ Hold(MakeScope(n, EndpointNodes(nets[n].tables, links), links))

FromComponent(n, node) ==
  LET nodes == ConnectedComponent(GetOrBuildGraph(n), node)
  IN  /\ Counted
      /\ nets' = WithGraph(n)
      /\ node \in GetOrBuildGraph(n).nodes         \* otherwise ScopeError
      /\ Hold(MakeScope(n, nodes, InducedLinks(nets[n].tables, nodes)))

FromZone(n, zones) ==
  LET t     == nets[n].tables
      nodes == {v \in DOMAIN t.node : t.node[v] # Null /\ t.node[v] \in zones}
  IN  /\ Counted
      /\ Hold(MakeScope(n, nodes, InducedLinks(t, nodes)))
      /\ UNCHANGED nets

(* ----------------------------- composition ----------------------------- *)

SameNetwork == scope # None /\ other # None /\ scope.net = other.net

Union ==
  /\ Counted /\ SameNetwork
  /\ Hold([scope EXCEPT !.nodes = @ \cup other.nodes, !.links = @ \cup other.links])
  /\ UNCHANGED nets

Intersect ==
  /\ Counted /\ SameNetwork
  /\ Hold([scope EXCEPT !.nodes = @ \cap other.nodes, !.links = @ \cap other.links])
  /\ UNCHANGED nets

Subtract ==
  /\ Counted /\ SameNetwork
  /\ Hold([scope EXCEPT !.nodes = @ \ other.nodes, !.links = @ \ other.links])
  /\ UNCHANGED nets

BufferNetwork(distance) ==
  /\ Counted /\ scope # None
  /\ nets' = WithGraph(scope.net)
  /\ LET nodes == scope.nodes \cup NetworkBuffer(GetOrBuildGraph(scope.net), scope.nodes, distance)
     IN  Hold([scope EXCEPT !.nodes = nodes,
                            !.links = @ \cup InducedLinks(nets[scope.net].tables, nodes)])

(* Links near any link of the scope that still has a geometry.               *)
BufferSpatial ==
  /\ Counted /\ scope # None
  /\ LET t     == nets[scope.net].tables
         added == UNION {QueryGeometry(GetOrBuildSpatialIndex(scope.net), l) :
                           l \in scope.links \cap SpatialIndexOf(t)}
     IN  Hold([scope EXCEPT !.nodes = @ \cup EndpointNodes(t, added), !.links = @ \cup added])
  /\ nets' = WithSpatialIndex(scope.net)

(* -------------------------------- apply -------------------------------- *)

Matches(r, mapping, nodes, links) ==
  \E m \in mapping : /\ m[1] \in DOMAIN r
                     /\ r[m[1]] # Null
                     /\ r[m[1]] \in (IF m[2] = "link" THEN links ELSE nodes)

FilterByIds(rows, mapping, nodes, links) == {r \in rows : Matches(r, mapping, nodes, links)}

FilterGeometry(rows, link) == {g \in rows : \E l \in DOMAIN link : link[l].geometry = g}

Restricted(f, S) == [x \in DOMAIN f \cap S |-> f[x]]

Applied(t, s) ==
  LET link == Restricted(t.link, s.links)
  IN  [node |-> Restricted(t.node, s.nodes), link |-> link,
       geometry |-> FilterGeometry(t.geometry, link),
       rows |-> [name \in DOMAIN t.rows |->
                  IF name \in DOMAIN FkPushdown
                  THEN FilterByIds(t.rows[name], FkPushdown[name], s.nodes, s.links)
                  ELSE t.rows[name]]]

(* The new network gets all metadata of the old one, its caches included.    *)
Apply ==
  /\ Counted /\ scope # None /\ Len(nets) < MaxNetworks
  /\ nets' = Append(nets, [nets[scope.net] EXCEPT !.tables = Applied(@, scope)])
  /\ UNCHANGED <<scope, other>>

(* --------------------- connectivity, indexes, edits -------------------- *)

ConnectedComponents(n) == Connectivity(GetOrBuildGraph(n), "weak")
IsConnected(n) == Cardinality(ConnectedComponents(n)) = 1
UnreachableFrom(n, node) ==
  LET g == GetOrBuildGraph(n) IN g.nodes \ ReachableFrom(g, node)

(* A question about connectivity leaves the graph in the cache.              *)
AskConnectivity(n) == Counted /\ nets' = WithGraph(n) /\ UNCHANGED <<scope, other>>

(* build_indexes always builds.                                              *)
BuildIndexes(n) ==
  /\ Counted
  /\ nets' = [nets EXCEPT ![n].graph = GraphOf(nets[n].tables),
                          ![n].spatial = SpatialIndexOf(nets[n].tables)]
  /\ UNCHANGED <<scope, other>>

(* apply_edit on the link table: rows go or come, metadata stays.            *)
DeleteLink(n) ==
  /\ Counted
  /\ \E l \in DOMAIN nets[n].tables.link :
       nets' = [nets EXCEPT ![n].tables.link = Restricted(@, DOMAIN @ \ {l})]
  /\ UNCHANGED <<scope, other>>

AddLink(n) ==
  /\ Counted
  /\ \E l \in DOMAIN NewLinks \ DOMAIN nets[n].tables.link :
       nets' = [nets EXCEPT ![n].tables.link = @ @@ (l :> NewLinks[l])]
  /\ UNCHANGED <<scope, other>>

Construct(n) ==
  LET known == DOMAIN nets[1].tables.node IN
  \/ \E S \in Seeds, between \in BOOLEAN : FromNodes(n, S, between)
  \/ \E v \in known, d \in Distances : FromNode(n, v, d)
  \/ \E l \in DOMAIN Near, d \in Distances : FromLinkByNetwork(n, l, d)
  \/ \E l \in DOMAIN Near : FromLinkBySpace(n, l)
  \/ \E p \in DOMAIN At : FromPoint(n, p)
  \/ \E v \in known : FromComponent(n, v)
  \/ \E Z \in Zones : FromZone(n, Z)

Compose == Union \/ Intersect \/ Subtract \/ BufferSpatial \/ \E d \in Distances : BufferNetwork(d)

Next ==
  \/ Compose \/ Apply
  \/ \E n \in 1..Len(nets) :
       Construct(n) \/ AskConnectivity(n) \/ BuildIndexes(n) \/ DeleteLink(n) \/ AddLink(n)

Spec == Init /\ [][Next]_vars

(* ------------------------------ properties ----------------------------- *)

(* A proper subgraph: a link of the scope has its ends in the scope.         *)
Closed(s, all) ==
  s # None => \A l \in s.links \cap DOMAIN all[s.net].tables.link :
                Ends(all[s.net].tables.link[l]) \subseteq s.nodes

(* What apply() promises the tables that refer to links and nodes directly.  *)
Sound(t) ==
  /\ \A l \in DOMAIN t.link : /\ Ends(t.link[l]) \subseteq DOMAIN t.node
                              /\ t.link[l].geometry \in t.geometry \cup {Null}
  /\ \A name \in DOMAIN t.rows \cap {"lane", "segment", "link_tod"} :
       \A r \in t.rows[name] : r.link_id \in DOMAIN t.link

TablesStay == \A n \in DOMAIN nets : nets'[n].tables = nets[n].tables

(* Whatever a caller composes, a scope stays a proper subgraph until links   *)
(* lose their ends by a subtraction, also when its nodes came from a stale   *)
(* graph; and a network applied from a proper subgraph refers to nothing it  *)
(* does not have, if its source did not (scope.py:267-269, 317-322).         *)
ScopesStayClosed ==
  [][/\ TablesStay /\ Closed(scope, nets) /\ Closed(other, nets) /\ ~Subtract
          => Closed(scope', nets')
     /\ Len(nets') > Len(nets) /\ Closed(scope, nets) /\ Sound(nets[scope.net].tables)
          => Sound(nets'[Len(nets')].tables)]_vars

(* On the newest network that came about, a shortest path of its graph can   *)
(* be driven and costs as little as its link table allows.                   *)
PathsAreCheapest ==
  LET t == nets[Len(nets)].tables IN ShortestPathsAreCheapest(DOMAIN t.node, t.link)

(* "Return True iff the network has exactly one weakly-connected component"  *)
(* (semantics/connectivity.py:63): of the tables it has now.                 *)
ConnectedMeansConnected ==
  \A n \in 1..Len(nets) :
    IsConnected(n) <=> Cardinality(Components(GraphOf(nets[n].tables))) = 1
=============================================================================
