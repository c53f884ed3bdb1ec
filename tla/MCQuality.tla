----------------------------- MODULE MCQuality -----------------------------
(* The cases of Clean and Quality: nodes on a few points in every order,     *)
(* lines over a small grid, and links with something wrong or missing; and   *)
(* those of MapEdits: two links and two nodes, links that share an           *)
(* identifier or cannot be drawn, logs of up to three edits, and cards       *)
(* written by hand.                                                          *)
EXTENDS Quality

ME == INSTANCE MapEdits

Point(x, y) == [x |-> x, y |-> y]
Places == {Point(0, 0), Point(1, 0), Point(2, 0), Point(-1, 1)}
Nodes(order, place) == [i \in DOMAIN order |-> [node_id |-> order[i], x |-> place[i].x, y |-> place[i].y]]
Link(id, from, to) ==
  [link_id |-> id, from |-> from, to |-> to, length |-> 1, geometry |-> Null, facility_type |-> "residential",
   free_speed |-> 30, lanes |-> 1, capacity |-> 2, volume |-> 2]
LinkColumns == DOMAIN Link(1, 1, 1)
Columns == [node |-> {"node_id", "x", "y"}, link |-> LinkColumns, lane |-> {"link_id"}]
Net(nodes, links) == [node |-> nodes, link |-> links, lane |-> <<>>, columns |-> Columns]
Orders == {<<1, 2, 3>>, <<2, 3, 1>>, <<3, 1, 2>>, <<3, 2, 1>>}
Streets == {<<Link(1, 1, 2), Link(2, 2, 3)>>, <<Link(1, 3, 3), Link(2, 9, 1)>>}
NodeCases ==
  {[part |-> "nodes", net |-> Net(Nodes(o, p), s), threshold |-> t] : o \in Orders, p \in [1..3 -> Places], s \in Streets, t \in 1..2}

Grid == {Point(x, y) : x \in 0..2, y \in 0..1} \cup {Point(1, 2)}
LineCases == {[part |-> "line", line |-> l] : l \in UNION {[1..n -> Grid] : n \in 0..4}}

Bend == <<Point(0, 0), Point(2, 0), Point(0, 1)>>
Rows(id) ==
  {[Link(id, 1, 2) EXCEPT !.free_speed = v, !.facility_type = f] : v \in {Null, 30, 40, 60}, f \in {Null, "primary", " Residential"}}
  \cup {[Link(id, 1, 3) EXCEPT !.capacity = c, !.volume = v, !.lanes = l] : c \in {Null, 0, 2, -1}, v \in {Null, 2, 5, -9}, l \in {Null, 1, 2}}
  \cup {[Link(id, 2, 3) EXCEPT !.geometry = g, !.length = Null] : g \in {Null, Bend, <<Point(0, 0), Point(1, 0), Point(1, 0), Point(0, 0)>>}}
Few(id) == {Link(id, 2, 3), [Link(id, 2, 3) EXCEPT !.geometry = Bend, !.free_speed = 60], [Link(id, 9, 3) EXCEPT !.lanes = 2, !.volume = 9]}
Strict == [speed_limit_mph |-> 35, vc_max |-> <<3, 2>>, epsilon_units |-> 2, min_angle_degrees |-> <<1, 2>>, coverage_min |-> <<9, 10>>]
Lax == [speed_limit_mph |-> 50, vc_max |-> <<5, 2>>, epsilon_units |-> 1, min_angle_degrees |-> <<9, 10>>, coverage_min |-> <<1, 2>>]
Three == Nodes(<<1, 2, 3>>, <<Point(0, 0), Point(1, 0), Point(3, 0)>>)
(* Nodes that share an id: no graph can be made of them, so without lengths.  *)
Twins == Nodes(<<1, 2, 1, 2>>, <<Point(0, 0), Point(1, 0), Point(0, 0), Point(2, 0)>>)
Packages ==
  {[Net(Twins, links) EXCEPT !.columns.link = @ \ {"length"}] : links \in {<<r, s>> : r \in Few(1), s \in Few(2)}} \cup
  {[Net(Three, links) EXCEPT !.lane = lanes, !.columns.link = columns] :
     links \in {<<r, s>> : r \in Rows(1), s \in Few(2)}, lanes \in {<<[link_id |-> 1], [link_id |-> 1]>>},
     columns \in {LinkColumns, LinkColumns \ {"length", "volume"}}}
Configs ==
  [lane_count |-> [NoConfig EXCEPT !.enabled = FALSE], disconnected |-> [NoConfig EXCEPT !.severity_override = "error"],
   implausible_vc |-> [enabled |-> TRUE, severity_override |-> "error", thresholds |-> Lax]]
RuleCases ==
  {[part |-> "rules", package |-> p, configs |-> Configs, report |-> <<Issue("schema", "error", Null, 1)>>] : p \in Packages}

Rule(code, configurable) == [code |-> code, configurable |-> configurable]
Some == {<<>>} \cup {<<Rule(c, b)>> : c \in {"near_nodes", "own"}, b \in BOOLEAN} \cup {<<Rule("own", TRUE), Rule("own", FALSE)>>}
DiscoveryCases ==
  {[part |-> "discovery", first |-> f, points |-> <<[loads |-> b, rules |-> r], [loads |-> c, rules |-> s]>>] :
     f \in Some, r \in Some, s \in Some, b \in BOOLEAN, c \in BOOLEAN}

Number(n) == <<"number", n>>
Text(t) == <<"text", t>>
MapLink(id, speed, from, geometry) ==
  [link_id |-> id, free_speed |-> speed, from_node_id |-> from, to_node_id |-> Number("2"), geometry |-> Null, geometry_id |-> geometry]
MapNode(id) == [node_id |-> id, x_coord |-> Number("0"), y_coord |-> Number("0")]
Table(rows) == [columns |-> DOMAIN rows[1], rows |-> rows]
MapNet(links) ==
  [link |-> Table(links), node |-> Table(<<MapNode(Number("1")), MapNode(Number("2"))>>),
   geometry |-> Table(<<[geometry_id |-> Number("1"), geometry |-> 2], [geometry_id |-> Number("2"), geometry |-> 1]>>)]
Nets ==
  {MapNet(<<MapLink(i[1], v[1], Number("1"), Null), MapLink(i[2], v[2], f, g)>>) :
     i \in {<<Number("1"), Number("2")>>, <<Number("1"), Number("1")>>, <<Text("1"), Text("2")>>, <<Text("1"), Text("long")>>},
     v \in {<<Null, Number("7")>>, <<Number("40"), Number("7")>>, <<Null, Text("long")>>, <<Text("40"), Text("long")>>},
     f \in {Number("1"), Number("7")}, g \in {Null, Number("1")}}

Edit(kind, table, pk, column, from, to) ==
  [id |-> "e", kind |-> kind, table |-> table, pk |-> pk, column |-> column, from_value |-> from, to_value |-> to,
   reason |-> Null, issue_id |-> Null]
Edits ==
  {Edit("fix", "link", <<<<"link_id", i>>>>, "free_speed", f, t) :
     i \in {Number("1"), Number("2")}, f \in {Null, ME!NaN, Number("40"), Number("7")}, t \in {Null, Number("7")}}
  \cup {Edit("fix", "link", <<<<"link_id", Number("1")>>>>, "link_id", Number("1"), Number("2"))}
OddEdits ==
  {Edit("modification", "link", <<<<"link_id", Number("1")>>>>, "free_speed", Null, Number("7")),
   Edit("fix", "zone", <<<<"zone_id", Number("1")>>>>, "free_speed", Null, Number("7")),
   Edit("fix", "link", <<<<"zone_id", Number("1")>>>>, "free_speed", Null, Number("7")),
   Edit("fix", "link", <<>>, "lanes", Null, Number("7")), Edit("fix", "link", <<>>, "free_speed", Null, Number("7")),
   Edit("fix", "node", <<<<"node_id", Number("1")>>>>, "x_coord", Number("0"), Number("7"))}
Log(edits, source) == [edits |-> edits, meta |-> [source |-> source, spec_version |-> Null, created_at |-> "now", client |-> Null]]
Small == {MapNet(<<MapLink(Number("1"), s, Number("1"), Null), MapLink(Number("2"), Number("7"), Number("1"), Null)>>) : s \in {Null, Number("40")}}
LogCases ==
  {[part |-> "log", net |-> n, log |-> Log(<<d, e>>, s)] : n \in Small, d \in Edits, e \in Edits \cup OddEdits, s \in {Null, "net"}}
  \cup {[part |-> "log", net |-> n, log |-> Log(<<d>>, Null)] : n \in Nets, d \in Edits \cup OddEdits}

Spec2(set) == [existing |-> Null, set |-> Number(set)]
Change2(facility, changes) == [facility |-> facility, property_changes |-> changes, notes |-> Null]
Changes2 ==
  {Change2(f, c) :
     f \in {<<>>, <<<<"model_node_id", <<Number("1")>>>>, <<"model_link_id", <<Number("1"), Number("2")>>>>>>, <<<<"model_link_id", <<>>>>>>},
     c \in {<<<<"free_speed", Spec2("7")>>, <<"lanes", Null>>, <<"link_id", Spec2("7")>>>>}} \cup {Null}
CardCases ==
  {[part |-> "card", net |-> n, card |-> [project |-> p, changes |-> c, notes |-> <<<<"source", "">>>>]] :
     n \in Small, p \in BOOLEAN, c \in {Null} \cup {<<a, b>> : a, b \in Changes2}}
FixCases ==
  {[part |-> "fix", net |-> n, issue |-> [table |-> "link", row |-> r, column |-> c, coords |-> x], input |-> i, limit |-> l] :
     n \in Nets, r \in 1..3, c \in {"free_speed", "link_id", "lanes"}, x \in {Null, "here"}, i \in {"", "2", "fast"}, l \in {1, 2}}
  \cup {[part |-> "fix", net |-> n, issue |-> [table |-> "node", row |-> r, column |-> "node_id", coords |-> Null], input |-> "2", limit |-> 2] :
          n \in Small, r \in 1..2}

(* A hand-written card changes at most the rows it names.                    *)
CardIsFannedOut(net, card) ==
  LET loaded == ME!LoadEditLog(card)
      named(change) == UNION {{<<f[1], f[2][i]>> : i \in DOMAIN f[2]} : f \in Range(change.facility)}
  IN  IF loaded.error THEN ~card.project \/ card.changes = Null
      ELSE \A k \in DOMAIN loaded.edits :
             \E j \in DOMAIN card.changes :
               /\ card.changes[j] # Null
               /\ <<ME!FacilityKey(loaded.edits[k].pk[1][1]), loaded.edits[k].pk[1][2]>> \in named(card.changes[j])

Holds(case) ==
  /\ case.part = "nodes" => /\ MergeKeepsTheStreets(case.net, case.threshold)
                            /\ OrphansAreGone(case.net) /\ FixHintsWork(case.net, case.threshold)
  /\ case.part = "line" => SimplifiedIsTheLine(case.line)
  /\ case.part = "rules" => RulesAreIndependent(case.package, case.configs, case.report) /\ RulesAreOfTheRows(case.package, Strict, Lax)
  /\ case.part = "discovery" => DiscoveryIsOnce(case.first, case.points)
  /\ case.part = "log" =>
       /\ ME!LogsAreUndone(case.net, case.log.edits)
       /\ ME!StaleEditsAreSkipped(case.net, case.log.edits)
       /\ ME!LogsSurviveTheFile(case.net, case.log)
  /\ case.part = "card" => CardIsFannedOut(case.net, case.card)
  /\ case.part = "fix" => ME!FixReachesItsRow(case.net, case.issue, case.input, case.limit)
=============================================================================
