------------------------------ MODULE Selection ------------------------------
(* netstead/select: a structured request (SelectionIntent) resolved against  *)
(* the link and node tables of a network, and what is emitted of the answer. *)
(*                                                                           *)
(* Names and route numbers are in their normal form: what norm_name and      *)
(* norm_ref leave of a spelling.  A link row is [from, to, length, directed, *)
(* class, name, ref, attr] with a set of route numbers and a function from   *)
(* the attribute columns of the table; a node row is [x, y].  Absent values  *)
(* are Null.  Lengths are positive: a missing length, replaced by the        *)
(* distance of the ends, is left out.                                        *)
(*                                                                           *)
(* Where the code takes the first of several equally near nodes in the order *)
(* of a set, which differs from one process to the next for string ids, the  *)
(* definitions return every answer it may give.                              *)
EXTENDS RoutingGraph, SequencesExt, Functions

CONSTANT MaxRampHops   \* _MAX_RAMP_HOPS

Directions == {"EB", "WB", "NB", "SB"}
FreewayTypes == {"motorway", "trunk"}
RampTypes == {"motorway_link", "trunk_link"}
NoIntent == [error |-> "IntentError"]

(* ------------------------------- intents ------------------------------- *)

HasSelector(i) ==
  \/ i.facility # Null /\ i.facility.ref \cup i.facility.name # {}
  \/ i.linkIds # {}
  \/ i.selectAll

(* SelectionIntent.__post_init__: a blank anchor is "", an absent one Null.  *)
Validated(i) ==
  IF /\ HasSelector(i)
     /\ i.facility # Null => i.facility.direction \in Directions \cup {Null}
     /\ "" \notin {i.fromAnchor, i.toAnchor}
  THEN i ELSE NoIntent

FacilityOf(fac) == IF fac # Null /\ fac.ref \cup fac.name # {} THEN fac ELSE Null

(* A payload is what the tool call holds: absent fields are Null or empty.   *)
IntentFromPayload(p) ==
  Validated([facility |-> FacilityOf(p.facility), fromAnchor |-> p.fromAnchor, toAnchor |-> p.toAnchor,
             selectAll |-> p.selectAll = TRUE, linkIds |-> p.linkIds, modes |-> p.modes,
             conditions |-> p.conditions])

(* Plausible bug: an empty direction is written as a value.                  *)
PayloadFromIntentForgetful(i) ==
  [facility |-> IF i.facility = Null THEN Null ELSE [i.facility EXCEPT !.direction = Null],
   fromAnchor |-> i.fromAnchor, toAnchor |-> i.toAnchor, selectAll |-> IF i.selectAll THEN TRUE ELSE Null,
   linkIds |-> i.linkIds, modes |-> i.modes, conditions |-> i.conditions]

PayloadFromIntent(i) ==
  [facility |-> i.facility, fromAnchor |-> IF i.fromAnchor = "" THEN Null ELSE i.fromAnchor,
   toAnchor |-> IF i.toAnchor = "" THEN Null ELSE i.toAnchor, selectAll |-> IF i.selectAll THEN TRUE ELSE Null,
   linkIds |-> i.linkIds, modes |-> i.modes, conditions |-> i.conditions]

(* The pattern parser: words that were recognised in "<head> [direction]     *)
(* [between <from> and <to>]".                                               *)
StubParse(words) ==
  IF words.head = "" THEN NoIntent
  ELSE Validated([facility |-> [ref |-> IF words.isRef THEN {words.head} ELSE {},
                                name |-> IF words.isRef THEN {} ELSE {words.head},
                                direction |-> words.direction],
                  fromAnchor |-> words.from, toAnchor |-> words.to, selectAll |-> FALSE, linkIds |-> {},
                  modes |-> {}, conditions |-> <<>>])

(* --------------------------- base selection ---------------------------- *)

ByRef(link, v) == {l \in DOMAIN link : v \in link[l].ref}
ByName(link, v) == {l \in DOMAIN link : v # "" /\ link[l].name = v}

(* A value without a match in its own column is tried in the other.          *)
FacilityLinks(link, fac) ==
  LET either(own, other) == IF own # {} THEN own ELSE other
  IN  UNION ({either(ByRef(link, v), ByName(link, v)) : v \in fac.ref}
             \cup {either(ByName(link, v), ByRef(link, v)) : v \in fac.name})

BaseSelection(link, i) ==
  IF i.linkIds # {} THEN i.linkIds \cap DOMAIN link
  ELSE IF i.selectAll THEN DOMAIN link
  ELSE FacilityLinks(link, i.facility)

(* Within 75 degrees of the cardinal: tan(75) is 3.73.  No extent is north.  *)
MatchesDirection(dx, dy, direction) ==
  LET ahead == CASE direction = "EB" -> dx [] direction = "WB" -> -dx
                 [] direction = "NB" -> dy [] direction = "SB" -> -dy
      aside == IF direction \in {"EB", "WB"} THEN dy ELSE dx
  IN  \/ ahead > 0 /\ 100 * (IF aside < 0 THEN -aside ELSE aside) <= 373 * ahead
      \/ dx = 0 /\ dy = 0 /\ direction = "NB"

FilterDirection(base, link, node, direction) ==
  {l \in base : LET u == node[link[l].from]  v == node[link[l].to]
                IN  MatchesDirection(v.x - u.x, v.y - u.y, direction)}

(* Conditions on columns the table lacks are ignored.                        *)
ApplyConditions(base, link, conditions) ==
  {l \in base : \A col \in DOMAIN conditions \cap DOMAIN link[l].attr : link[l].attr[col] \in conditions[col]}

(* Links are filtered by the first of these columns, if by any.              *)
ApplyModes(base, link, modes) ==
  LET col(l) == IF "allowed_uses" \in DOMAIN link[l].attr THEN "allowed_uses" ELSE "modes"
  IN  {l \in base : modes = {} \/ col(l) \notin DOMAIN link[l].attr \/ link[l].attr[col(l)] \cap modes # {}}

(* ------------------------------- anchors ------------------------------- *)

EndsOf(links, link) == UNION {Ends(link[l]) : l \in links}
Ramps(link) == {l \in DOMAIN link : link[l].class \in RampTypes}
AnchorLinks(link, anchor) == ByName(link, anchor) \cup ByRef(link, anchor)
SurfaceLinks(link, anchor) ==
  {l \in AnchorLinks(link, anchor) : link[l].class \notin {"motorway", "motorway_link"}}

Gores(link, directed, mainline) ==
  {link[l].from : l \in {r \in Ramps(link) : link[r].from \in directed /\ link[r].to \notin mainline}}
Merges(link, directed, mainline) ==
  {link[l].to : l \in {r \in Ramps(link) : link[r].to \in directed /\ link[r].from \notin mainline}}

(* bounded_bfs over links taken either way: the targets met first, each with *)
(* its hops; the search does not go on behind a target.                      *)
BoundedBfs(over, link, seeds, targets) ==
  LET seen[k \in 0..MaxRampHops] ==
        IF k = 0 THEN [v \in seeds |-> 0]
        ELSE LET before == seen[k-1]
                 goOn == {v \in DOMAIN before : before[v] = k - 1 /\ v \notin targets}
                 next == UNION {Ends(link[l]) : l \in {m \in over : Ends(link[m]) \cap goOn # {}}}
             IN  before @@ [v \in next |-> k]
      all == seen[MaxRampHops]
  IN  [v \in DOMAIN all \cap targets |-> all[v]]

Unmatched == [node |-> Null, candidates |-> {}]

(* The first in the order of hops; equal hops in no order.                   *)
Nearest(hops) ==
  IF DOMAIN hops = {} THEN {Unmatched}
  ELSE {[node |-> v, candidates |-> DOMAIN hops \ {v}] :
          v \in {u \in DOMAIN hops : \A w \in DOMAIN hops : hops[u] <= hops[w]}}

(* Where traffic leaves the carriageway for the from anchor, or joins it     *)
(* from the to anchor.                                                       *)
ResolveAnchor(anchor, link, targets) ==
  LET surf == SurfaceLinks(link, anchor)
  IN  IF surf = {} THEN {Unmatched}
      ELSE Nearest(BoundedBfs(Ramps(link) \cup surf, link, EndsOf(surf, link), targets))

(* Plausible bug: further intersections are forgotten.                       *)
ResolveSurfaceAnchorFirst(anchor, link, facilityNodes) ==
  LET direct == facilityNodes \cap EndsOf(AnchorLinks(link, anchor), link)
  IN  IF direct = {} THEN {Unmatched} ELSE {[node |-> v, candidates |-> {}] : v \in direct}

ResolveSurfaceAnchor(anchor, link, facilityNodes) ==
  LET own    == AnchorLinks(link, anchor)
      direct == facilityNodes \cap EndsOf(own, link)
  IN  IF own = {} THEN {Unmatched}
      ELSE IF direct # {} THEN {[node |-> Min(direct), candidates |-> direct \ {Min(direct)}]}
      ELSE Nearest(BoundedBfs(Ramps(link) \cup own, link, EndsOf(own, link), facilityNodes))

(* ------------------------------- segments ------------------------------ *)

Carriageway(base, link) ==
  {[u |-> link[l].from, v |-> link[l].to, cost |-> link[l].length, link |-> l, back |-> 0] : l \in base}
BothWays(base, link) ==
  Carriageway(base, link)
  \cup {[u |-> link[l].to, v |-> link[l].from, cost |-> link[l].length, link |-> l, back |-> 0] : l \in base}

(* dijkstra_links: the predecessor of a node is the nearest to the source,   *)
(* then the least, of those on a shortest path; the link the first of the    *)
(* cheapest.  Null if there is no path.                                      *)
DijkstraLinks(edges, src, dst) ==
  LET g       == [nodes |-> {e.u : e \in edges} \cup {e.v : e \in edges} \cup {src, dst}, csr |-> AssembleCsr(edges)]
      left    == Remaining(g, {src}, Plenty(g))
      tight(v) == {p[1] : p \in {q \in DOMAIN g.csr : q[2] = v /\ left[q[1]] - g.csr[q].cost = left[v]}}
      pred    == [v \in {n \in g.nodes \ {src} : left[n] >= 0} |->
                    CHOOSE u \in tight(v) : \A w \in tight(v) : left[u] > left[w] \/ (left[u] = left[w] /\ u <= w)]
      nodes   == PathNodes(g, src, dst, pred)
  IN  IF nodes = <<>> THEN Null ELSE [nodes |-> nodes, links |-> PathLinks(g, nodes)]

NotFound(from, to) == [status |-> "not_found", links |-> <<>>, nodes |-> <<>>, from |-> from, to |-> to]

ResultFromPath(from, to, path) ==
  IF path = Null THEN NotFound(from, to)
  ELSE [status |-> IF from.candidates \cup to.candidates # {} THEN "ambiguous" ELSE "resolved",
        links |-> path.links, nodes |-> path.nodes, from |-> from, to |-> to]

Segment(from, to, edges) ==
  IF Null \in {from.node, to.node} THEN NotFound(from, to)
  ELSE ResultFromPath(from, to, DijkstraLinks(edges, from.node, to.node))

(* Plausible bug: the far carriageway is open too.                           *)
FreewaySegmentBothWays(i, base, link) ==
  LET directed == EndsOf(base, link)
      mainline == EndsOf(FacilityLinks(link, i.facility), link)
  IN  {Segment(f, t, BothWays(base, link)) :
         f \in ResolveAnchor(i.fromAnchor, link, Gores(link, directed, mainline)),
         t \in ResolveAnchor(i.toAnchor, link, Merges(link, directed, mainline))}

FreewaySegment(i, base, link) ==
  LET directed == EndsOf(base, link)
      mainline == EndsOf(FacilityLinks(link, i.facility), link)
  IN  {Segment(f, t, Carriageway(base, link)) :
         f \in ResolveAnchor(i.fromAnchor, link, Gores(link, directed, mainline)),
         t \in ResolveAnchor(i.toAnchor, link, Merges(link, directed, mainline))}

SurfaceSegment(i, base, link) ==
  {Segment(f, t, BothWays(base, link)) :
     f \in ResolveSurfaceAnchor(i.fromAnchor, link, EndsOf(base, link)),
     t \in ResolveSurfaceAnchor(i.toAnchor, link, EndsOf(base, link))}

InOrder(base) == [k \in 1..Cardinality(base) |-> CHOOSE l \in base : Cardinality({m \in base : m < l}) = k - 1]

Whole(base) ==
  [status |-> IF base = {} THEN "not_found" ELSE "resolved", links |-> InOrder(base), nodes |-> <<>>,
   from |-> Null, to |-> Null]

IsSegment(i) == Null \notin {i.fromAnchor, i.toAnchor}
OnFreeway(i, base, link) == i.facility # Null /\ \E l \in base : link[l].class \in FreewayTypes

Narrowed(i, link, node) ==
  LET found == BaseSelection(link, i)
      ahead == IF i.facility = Null \/ i.facility.direction = Null THEN found
               ELSE FilterDirection(found, link, node, i.facility.direction)
  IN  ApplyModes(ApplyConditions(ahead, link, i.conditions), link, i.modes)

(* resolve_frames: everything it may answer.                                 *)
ResolveFrames(i, link, node) ==
  LET base == Narrowed(i, link, node)
  IN  IF base = {} \/ ~IsSegment(i) THEN {Whole(base)}
      ELSE IF OnFreeway(i, base, link) THEN FreewaySegment(i, base, link)
      ELSE SurfaceSegment(i, base, link)

(* to_fragment in resolved form; an ambiguous answer is not emitted.         *)
ToFragment(r) ==
  IF r.status # "resolved" THEN [error |-> "SelectError"]
  ELSE [links |-> r.links, from |-> IF r.from = Null THEN Null ELSE r.from.node,
        to |-> IF r.to = Null THEN Null ELSE r.to.node]

(* ------------------------------ properties ----------------------------- *)

Takes(row, u, v, either) == \/ row.from = u /\ row.to = v
                            \/ either /\ row.from = v /\ row.to = u

(* What a segment selects can be driven: from the node of the first anchor   *)
(* to that of the second along links of the facility that pass every filter, *)
(* on a freeway with the traffic and between the ramps of the two anchors,   *)
(* through no node twice; and no other such way is shorter.                  *)
SegmentIsWalk(i, link, node) ==
  LET base   == Narrowed(i, link, node)
      either == ~OnFreeway(i, base, link)
      cost(u, v) == {link[l].length : l \in {m \in base : Takes(link[m], u, v, either)}}
      ways[k \in 1..Cardinality(EndsOf(base, link))] ==   \* the ways through k nodes, and their costs
        IF k = 1 THEN {[nodes |-> <<v>>, cost |-> 0] : v \in EndsOf(base, link)}
        ELSE {[nodes |-> Append(w.nodes, v), cost |-> w.cost + Min(cost(Last(w.nodes), v))] :
                <<w, v>> \in {p \in ways[k-1] \X EndsOf(base, link) :
                               cost(Last(p[1].nodes), p[2]) # {} /\ p[2] \notin Range(p[1].nodes)}}
  IN  IsSegment(i) =>
        \A r \in {s \in ResolveFrames(i, link, node) : s.status # "not_found"} :
          /\ r.nodes[1] = r.from.node /\ Last(r.nodes) = r.to.node
          /\ IsInjective(r.nodes)
          /\ Len(r.links) = Len(r.nodes) - 1
          /\ \A k \in DOMAIN r.links :
               r.links[k] \in base /\ Takes(link[r.links[k]], r.nodes[k], r.nodes[k+1], either)
          /\ \A k \in 1..Cardinality(EndsOf(base, link)) : \A w \in ways[k] :
               w.nodes[1] = r.from.node /\ Last(w.nodes) = r.to.node =>
                 MapThenSumSet(LAMBDA n : link[r.links[n]].length, DOMAIN r.links) <= w.cost

(* A fragment that is emitted is the only answer: another process, with      *)
(* another order of its sets, emits the same, so the recorded request can be *)
(* replayed.                                                                 *)
FragmentIsDeterminate(i, link, node) ==
  LET answers == ResolveFrames(i, link, node)
  IN  (\E r \in answers : r.status = "resolved") => Cardinality(answers) = 1

(* The example a resolved request leaves for later prompts asks for what the *)
(* request asked for.                                                        *)
PayloadRoundTrips(p) ==
  LET i == IntentFromPayload(p) IN i # NoIntent => IntentFromPayload(PayloadFromIntent(i)) = i
=============================================================================
