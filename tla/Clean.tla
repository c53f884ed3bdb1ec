------------------------------- MODULE Clean -------------------------------
(* The network-cleaning operations of netstead/clean/clean.py, as functions  *)
(* from the rows of the node and link tables to the rows that replace them.  *)
(* How the replacement is made, and undone, is in Editing.                   *)
(*                                                                           *)
(* A coordinate is an integer and a geometry a sequence of points, or Null   *)
(* where there is no line.  Lengths are of lines along the axes.             *)
EXTENDS Integers, Sequences, SequencesExt, FiniteSets, FiniteSetsExt

CONSTANT Null

Square(n) == n * n
Distance2(p, q) == Square(p.x - q.x) + Square(p.y - q.y)

-----------------------------------------------------------------------------
(* Geometry.                                                                 *)

(* Whether b is farther than the tolerance from the line through a and c.    *)
IsFar(a, b, c, tolerance) ==
  LET cross == (b.x - a.x) * (c.y - a.y) - (b.y - a.y) * (c.x - a.x)
  IN  a # c /\ Square(cross) > Square(tolerance) * Distance2(a, c)

(* A vertex is judged by the last one that was kept and the one after it.    *)
DropCollinear(line, tolerance) ==
  LET Kept(keep, i) == IF IsFar(Last(keep), line[i], line[i + 1], tolerance) THEN Append(keep, line[i]) ELSE keep
  IN  IF Len(line) <= 2 THEN line
      ELSE Append(FoldLeft(Kept, <<line[1]>>, [k \in 1..(Len(line) - 2) |-> k + 1]), Last(line))
SimplifyGeometry(links, tolerance) ==
  [i \in DOMAIN links |->
     IF links[i].geometry = Null THEN links[i]
     ELSE [links[i] EXCEPT !.geometry = DropCollinear(@, tolerance)]]

Abs(n) == IF n < 0 THEN -n ELSE n
LineLength(line) ==
  FoldLeft(LAMBDA sum, i : sum + Abs(line[i].x - line[i + 1].x) + Abs(line[i].y - line[i + 1].y), 0,
           [k \in 1..(Len(line) - 1) |-> k])
RecomputeLengths(links) ==
  [i \in DOMAIN links |->
     IF links[i].geometry = Null THEN links[i] ELSE [links[i] EXCEPT !.length = LineLength(links[i].geometry)]]

-----------------------------------------------------------------------------
(* Nodes.                                                                    *)

Located(nodes) == SelectSeq(nodes, LAMBDA n : n.node_id # Null /\ n.x # Null /\ n.y # Null)

(* The pairs that are compared, cell by cell in the order in which the cells *)
(* of the grid were met, and in each cell with those of the cells around it. *)
Cell(n, size) == <<n.x \div size, n.y \div size>>
Around == <<<<-1, -1>>, <<-1, 0>>, <<-1, 1>>, <<0, -1>>, <<0, 0>>, <<0, 1>>, <<1, -1>>, <<1, 0>>, <<1, 1>>>>
ComparedPairs(clean, size) ==
  LET indices == [i \in DOMAIN clean |-> i]
      In(cell) == SelectSeq(indices, LAMBDA i : Cell(clean[i], size) = cell)
      cells == SelectSeq(indices, LAMBDA i : \A j \in 1..(i - 1) : Cell(clean[j], size) # Cell(clean[i], size))
      Candidates(i) ==
        LET cell == Cell(clean[i], size)
        IN  FlattenSeq([k \in DOMAIN Around |-> In(<<cell[1] + Around[k][1], cell[2] + Around[k][2]>>)])
      PairsOf(i) == LET later == SelectSeq(Candidates(i), LAMBDA j : j > i) IN [k \in DOMAIN later |-> <<i, later[k]>>]
      PairsIn(c) == LET in == In(Cell(clean[c], size)) IN FlattenSeq([k \in DOMAIN in |-> PairsOf(in[k])])
  IN  FlattenSeq([k \in DOMAIN cells |-> PairsIn(cells[k])])

(* Plausible bug: the node that comes later goes to the other one.           *)
MergePairOneWay(survivor, p, q) == [survivor EXCEPT ![q] = p]
(* Of two close nodes both go to the lower of the nodes they go to by now.   *)
MergePair(survivor, p, q) ==
  LET keep == Min({survivor[p], survivor[q]})
  IN  [survivor EXCEPT ![p] = keep, ![q] = keep]
IsClose(clean, pair, threshold) == Distance2(clean[pair[1]], clean[pair[2]]) <= Square(threshold)
Pairwise(clean, threshold) ==
  LET size == IF threshold > 0 THEN threshold ELSE 1
  IN  FoldLeft(LAMBDA survivor, pair :
                 IF IsClose(clean, pair, threshold)
                   THEN MergePair(survivor, clean[pair[1]].node_id, clean[pair[2]].node_id) ELSE survivor,
               [id \in {clean[i].node_id : i \in DOMAIN clean} |-> id], ComparedPairs(clean, size))

(* Where a chain of survivors ends.                                          *)
Root(survivor, id) ==
  LET end[k \in 0..Cardinality(DOMAIN survivor)] == IF k = 0 THEN id ELSE LET before == end[k - 1] IN survivor[before]
  IN  end[Cardinality(DOMAIN survivor)]
Survivors(nodes, threshold) ==
  LET pairwise == Pairwise(Located(nodes), threshold)
  IN  [id \in DOMAIN pairwise |-> Root(pairwise, id)]

Renamed(survivor, id) == IF id \in DOMAIN survivor THEN survivor[id] ELSE id
MergeCloseNodes(net, threshold) ==
  LET survivor == Survivors(net.node, threshold)
      Rerouted(row) == [row EXCEPT !.from = Renamed(survivor, @), !.to = Renamed(survivor, @)]
  IN  [net EXCEPT !.node = SelectSeq(@, LAMBDA n : n.node_id \in Range(survivor)),
                  !.link = [i \in DOMAIN net.link |-> Rerouted(net.link[i])]]

Incident(links) == UNION {{links[i].from, links[i].to} : i \in DOMAIN links} \ {Null}
RemoveOrphans(net) ==
  LET incident == Incident(net.link) IN [net EXCEPT !.node = SelectSeq(@, LAMBDA n : n.node_id \in incident)]

-----------------------------------------------------------------------------
(* Properties.                                                               *)

NodeIds(net) == {net.node[i].node_id : i \in DOMAIN net.node}
Place(net, id) == net.node[CHOOSE i \in DOMAIN net.node : net.node[i].node_id = id]
Near(net, p, q, threshold) == Distance2(Place(net, p), Place(net, q)) <= Square(threshold)
Spread(ids, Joined(_, _)) ==
  LET direct == {p \in ids \X ids : p[1] = p[2] \/ Joined(p[1], p[2]) \/ Joined(p[2], p[1])}
      Through(k, joined) == joined \cup {p \in ids \X ids : <<p[1], k>> \in joined /\ <<k, p[2]>> \in joined}
      joined == FoldSet(Through, direct, ids)
  IN  [p \in ids |-> {q \in ids : <<p, q>> \in joined}]

(* merge_close_nodes keeps the streets that there were: every link is there, *)
(* its ends are nodes if they were, a node goes to one that stays, is not    *)
(* higher and can be reached over close nodes, and what was connected is.    *)
(* None that stay are close to each other.                                   *)
MergeKeepsTheStreets(net, threshold) ==
  LET merged == MergeCloseNodes(net, threshold)
      survivor == Survivors(net.node, threshold)
      cluster == Spread(NodeIds(net), LAMBDA p, q : Near(net, p, q, threshold))
      Linked(n, p, q) == \E i \in DOMAIN n.link : n.link[i].from = p /\ n.link[i].to = q
      before == Spread(NodeIds(net), LAMBDA p, q : Linked(net, p, q))
      after == Spread(NodeIds(merged), LAMBDA p, q : Linked(merged, p, q))
  IN  \A p \in NodeIds(net) :
        /\ survivor[p] \in cluster[p] /\ survivor[p] <= p /\ survivor[survivor[p]] = survivor[p]
        /\ survivor[p] \in NodeIds(merged)
        /\ \A q \in before[p] : survivor[q] \in after[survivor[p]]
        /\ \A q \in NodeIds(merged) \ {p} : p \in NodeIds(merged) => ~Near(net, p, q, threshold)
        /\ \A i \in DOMAIN net.link : Incident(<<net.link[i]>>) \subseteq NodeIds(net) =>
                                        Incident(<<merged.link[i]>>) \subseteq NodeIds(merged)

(* remove_orphans takes the nodes without links and no others: no link loses *)
(* an end, and a second time takes nothing.                                  *)
OrphansAreGone(net) ==
  LET kept == RemoveOrphans(net)
  IN  /\ NodeIds(kept) = NodeIds(net) \cap Incident(net.link)
      /\ RemoveOrphans(kept) = kept

(* "No spatial accuracy is lost" (clean.py:186), for lines that neither turn *)
(* back nor repeat a vertex: the ends stay, every vertex is on the           *)
(* simplified line, the length is the same, and nothing is left to drop.     *)
OnSegment(p, a, b) ==
  /\ ~IsFar(a, p, b, 0) /\ (a = b => p = a)
  /\ Min({a.x, b.x}) <= p.x /\ p.x <= Max({a.x, b.x}) /\ Min({a.y, b.y}) <= p.y /\ p.y <= Max({a.y, b.y})
Repeats(line) == \E i \in 2..Len(line) : line[i] = line[i - 1]
TurnsBack(line) ==
  \E i \in 2..(Len(line) - 1) :
    (line[i].x - line[i - 1].x) * (line[i + 1].x - line[i].x) + (line[i].y - line[i - 1].y) * (line[i + 1].y - line[i].y) < 0
SimplifiedIsTheLine(line) ==
  LET simple == DropCollinear(line, 0)
  IN  Len(line) > 1 /\ ~Repeats(line) /\ ~TurnsBack(line) =>
        /\ Head(simple) = Head(line) /\ Last(simple) = Last(line)
        /\ \A p \in Range(line) : \E i \in 1..(Len(simple) - 1) : OnSegment(p, simple[i], simple[i + 1])
        /\ LineLength(simple) = LineLength(line)
        /\ DropCollinear(simple, 0) = simple
=============================================================================
