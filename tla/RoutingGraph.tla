---------------------------- MODULE RoutingGraph ----------------------------
(* netstead/graph: the routing graph built from the link and node tables,    *)
(* and the questions asked of it.  A link table is a function from link ids  *)
(* to rows [from, to, length, directed]; ids are natural numbers, the order  *)
(* of the ids is the order of the rows.  Costs are lengths, as in the calls  *)
(* of netstead.scope and netstead.semantics; barriers, cost expressions and  *)
(* coordinates are left out.  Lengths are positive: scipy's treatment of     *)
(* zero weights is not modelled.                                             *)
EXTENDS Integers, FiniteSets, Sequences, FiniteSetsExt, TLC

CONSTANT Null          \* a missing value of a column

Ends(r) == {r.from, r.to}

(* keep_missing_cost: a link without a length still connects its ends.       *)
Weight(r) == IF r.length = Null THEN 1 ELSE r.length

(* Rows are one-way unless their directed column says otherwise.             *)
OneWay(r) == r.directed # FALSE

NodeUniverse(nodes, link) == nodes \cup UNION {Ends(link[l]) : l \in DOMAIN link}

(* The edges before parallel ones are dropped: all rows, then the reverses   *)
(* of the two-way ones.                                                      *)
EdgesOf(link) ==
  {[u |-> link[l].from, v |-> link[l].to, cost |-> Weight(link[l]), link |-> l, back |-> 0] :
     l \in DOMAIN link}
  \cup
  {[u |-> link[l].to, v |-> link[l].from, cost |-> Weight(link[l]), link |-> l, back |-> 1] :
     l \in {k \in DOMAIN link : ~OneWay(link[k])}}

(* The stable sort of _assemble_csr within the edges of one pair of nodes.   *)
SortsBefore(e, f) ==
  \/ e.cost < f.cost
  \/ e.cost = f.cost /\ e.back < f.back
  \/ e.cost = f.cost /\ e.back = f.back /\ e.link <= f.link

(* Plausible bug: scipy adds the weights of parallel edges.                  *)
AssembleCsrSumming(edges) ==
  LET pairs == {<<e.u, e.v>> : e \in edges}
      of(p) == {e \in edges : <<e.u, e.v>> = p}
  IN  [p \in pairs |->
        [cost |-> MapThenSumSet(LAMBDA e : e.cost, of(p)),
         link |-> (CHOOSE e \in of(p) : \A f \in of(p) : SortsBefore(e, f)).link]]

(* The matrix: one edge a pair, the cheapest, with its link.                 *)
AssembleCsr(edges) ==
  LET pairs == {<<e.u, e.v>> : e \in edges}
      first(p) == CHOOSE e \in edges : /\ <<e.u, e.v>> = p
                                       /\ \A f \in edges : <<f.u, f.v>> = p => SortsBefore(e, f)
  IN  [p \in pairs |-> [cost |-> first(p).cost, link |-> first(p).link]]

Build(nodes, link) == [nodes |-> NodeUniverse(nodes, link), csr |-> AssembleCsr(EdgesOf(link))]

(* What is left of a budget on reaching each node from the seeds: scipy's    *)
(* dijkstra with a limit.  Minus one where the budget does not suffice.      *)
Remaining(g, seeds, limit) ==
  LET after[k \in 0..Cardinality(g.nodes)] ==
        IF k = 0 THEN [v \in g.nodes |-> IF v \in seeds THEN limit ELSE -1]
        ELSE LET before == after[k-1]
                 via(v) == {before[p[1]] - g.csr[p].cost : p \in {q \in DOMAIN g.csr : q[2] = v}}
             IN  [v \in {u \in g.nodes : \E left \in via(u) : left > before[u]} |-> Max(via(v))] @@ before
  IN  after[Cardinality(g.nodes)]

NetworkBuffer(g, seeds, distance) ==
  LET known == seeds \cap g.nodes
      left  == Remaining(g, known, distance)
  IN  {v \in g.nodes : left[v] >= 0}

(* A budget that suffices for every path, for searches without a limit.      *)
Plenty(g) == MapThenSumSet(LAMBDA p : g.csr[p].cost, DOMAIN g.csr)

ReachableFrom(g, n) == NetworkBuffer(g, {n}, Plenty(g))

Isochrone(g, source, cutoff) ==
  LET within == NetworkBuffer(g, {source}, cutoff)
  IN  [nodes |-> within, links |-> {g.csr[p].link : p \in {q \in DOMAIN g.csr : q[1] \in within /\ q[2] \in within}}]

Symmetric(g) ==
  LET pairs == DOMAIN g.csr \cup {<<p[2], p[1]>> : p \in DOMAIN g.csr}
  IN  [g EXCEPT !.csr = [p \in pairs |-> [cost |-> 1, link |-> Null]]]

Neighbors(g, n, hops) == NetworkBuffer(Symmetric(g), {n}, hops) \ {n}

ConnectedComponent(g, n) == ReachableFrom(Symmetric(g), n)

Components(g) == {ConnectedComponent(g, n) : n \in g.nodes}

StrongComponents(g) ==
  {{m \in g.nodes : m \in ReachableFrom(g, n) /\ n \in ReachableFrom(g, m)} : n \in g.nodes}

Connectivity(g, connection) == IF connection = "weak" THEN Components(g) ELSE StrongComponents(g)

SmallComponents(g, size) == UNION {c \in Components(g) : Cardinality(c) <= size}

(* The predecessor trees dijkstra may return for a source: with ties, any.   *)
PredecessorTrees(g, source) ==
  LET left    == Remaining(g, {source}, Plenty(g))
      reached == {v \in g.nodes \ {source} : left[v] >= 0}
      tight(v) == {p[1] : p \in {q \in DOMAIN g.csr : q[2] = v /\ left[q[1]] - g.csr[q].cost = left[v]}}
  IN  {f \in [reached -> g.nodes] : \A v \in reached : f[v] \in tight(v)}

(* shortest_path: the walk back along the predecessors.                      *)
PathNodes(g, source, target, pred) ==
  IF target # source /\ target \notin DOMAIN pred THEN <<>>
  ELSE LET back[k \in 0..Cardinality(g.nodes)] ==
             IF k = 0 THEN <<target>>
             ELSE LET path == back[k-1]
                  IN  IF Head(path) = source THEN path ELSE <<pred[Head(path)]>> \o path
       IN  back[Cardinality(g.nodes)]

PathCost(g, source, target) == Plenty(g) - Remaining(g, {source}, Plenty(g))[target]

PathLinks(g, path) == [i \in 1..Len(path) - 1 |-> g.csr[<<path[i], path[i+1]>>].link]

(* ------------------------------ reference ------------------------------ *)

(* The ways a traveller may go: sequences of links, each left where the next *)
(* one starts.  Independent of the graph: straight from the link table.      *)
Drives(link, l, u, v) ==
  \/ link[l].from = u /\ link[l].to = v
  \/ ~OneWay(link[l]) /\ link[l].to = u /\ link[l].from = v

Walks(nodes, link, source, target) ==
  UNION {{w \in [1..n -> NodeUniverse(nodes, link)] :
            /\ w[1] = source /\ w[n] = target
            /\ \A i \in 1..n-1 : \E l \in DOMAIN link : Drives(link, l, w[i], w[i+1])} :
         n \in 1..Cardinality(NodeUniverse(nodes, link))}

CostOfWalk(link, w) ==
  MapThenSumSet(LAMBDA i : Min({Weight(link[l]) : l \in {k \in DOMAIN link : Drives(link, k, w[i], w[i+1])}}),
                1..Len(w) - 1)

(* Shortest paths drive along the links they name, in their direction, and   *)
(* cost what the cheapest way through the link table costs; there is none    *)
(* only where no way leads.  Parallel links and two-way links must not       *)
(* change a cost (build.py's comment on duplicate weights).                  *)
ShortestPathsAreCheapest(nodes, link) ==
  LET g == Build(nodes, link)
  IN  \A s, t \in g.nodes : \A pred \in PredecessorTrees(g, s) :
        LET path  == PathNodes(g, s, t, pred)
            links == PathLinks(g, path)
            ways  == Walks(nodes, link, s, t)
        IN  IF ways = {} THEN path = <<>>
            ELSE /\ path # <<>>
                 /\ \A i \in DOMAIN links : Drives(link, links[i], path[i], path[i+1])
                 /\ MapThenSumSet(LAMBDA i : Weight(link[links[i]]), DOMAIN links) = PathCost(g, s, t)
                 /\ PathCost(g, s, t) = Min({CostOfWalk(link, w) : w \in ways})
=============================================================================
