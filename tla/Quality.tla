------------------------------ MODULE Quality ------------------------------
(* The quality rules of a network (netstead/quality/rules.py) and how corral *)
(* finds and runs them (corral/quality/runner.py and registry.py).           *)
(*                                                                           *)
(* A package has the rows of its tables and says which columns they have.    *)
(* A capacity, a volume and a threshold are integers, a ratio of two         *)
(* integers where the code has a fraction; an angle is told by the square of *)
(* its cosine.                                                               *)
EXTENDS Clean, TLC

Issue(code, severity, column, subject) == [code |-> code, severity |-> severity, column |-> column, subject |-> subject]

HasColumns(package, table, columns) == table \in DOMAIN package.columns /\ columns \subseteq package.columns[table]
Threshold(config, key, default) == IF key \in DOMAIN config.thresholds THEN config.thresholds[key] ELSE default

RowIssues(code, column, rows, bad) ==
  LET at == SelectSeq([i \in DOMAIN rows |-> i], LAMBDA i : rows[i] \in bad)
  IN  [k \in DOMAIN at |-> Issue(code, "warning", column, at[k])]

HighSpeedResidential(package, config) ==
  LET limit == Threshold(config, "speed_limit_mph", 35)
      Bad(row) == row.free_speed # Null /\ row.facility_type \in {"residential", " Residential"} /\ row.free_speed > limit
  IN  IF ~HasColumns(package, "link", {"facility_type", "free_speed"}) THEN <<>>
      ELSE RowIssues("high_speed", "free_speed", package.link, {row \in Range(package.link) : Bad(row)})

(* A graph cannot be made without the length column, so nothing is said.     *)
DisconnectedComponents(package, config) ==
  LET nodes == {package.node[i].node_id : i \in DOMAIN package.node}
      components == Range(Spread(nodes \cup Incident(package.link), LAMBDA p, q :
                            \E i \in DOMAIN package.link : package.link[i].from = p /\ package.link[i].to = q))
  IN  IF ~HasColumns(package, "link", {"from", "to", "length"}) THEN <<>>
      ELSE IF ~HasColumns(package, "node", {"node_id"}) THEN <<>>
      ELSE IF Cardinality(components) <= 1 THEN <<>>
      ELSE <<Issue("disconnected", "info", Null, components)>>

LaneCountMismatch(package, config) ==
  LET Lanes(id) == Cardinality({i \in DOMAIN package.lane : package.lane[i].link_id = id})
      Bad(row) == row.lanes # Null /\ Lanes(row.link_id) # 0 /\ Lanes(row.link_id) # row.lanes
  IN  IF ~HasColumns(package, "link", {"lanes"}) \/ ~HasColumns(package, "lane", {"link_id"}) THEN <<>>
      ELSE RowIssues("lane_count", "lanes", package.link, {row \in Range(package.link) : Bad(row)})

(* A pair of ids that was reported is not reported again, where rows share   *)
(* an id.                                                                    *)
DuplicateNearNodes(package, config) ==
  LET epsilon == Threshold(config, "epsilon_units", 0)
      clean == Located(package.node)
      PairsOf(i) == SelectSeq([j \in DOMAIN clean |-> j], LAMBDA j : j > i /\ IsClose(clean, <<i, j>>, epsilon))
      near == FlattenSeq([i \in DOMAIN clean |->
                LET close == PairsOf(i)
                IN  [k \in DOMAIN close |-> Issue("near_nodes", "warning", Null, {clean[i].node_id, clean[close[k]].node_id})]])
  IN  IF ~HasColumns(package, "node", {"node_id", "x", "y"}) THEN <<>>
      ELSE FoldLeft(LAMBDA seen, issue : IF issue \in Range(seen) THEN seen ELSE Append(seen, issue), <<>>, near)

(* The angle at b is below the one whose squared cosine is min[1] / min[2];  *)
(* a vertex on top of a neighbour has none.                                  *)
IsSharp(a, b, c, min) ==
  LET dot == (a.x - b.x) * (c.x - b.x) + (a.y - b.y) * (c.y - b.y)
  IN  a # b /\ b # c /\ dot > 0 /\ min[2] * Square(dot) > min[1] * Distance2(a, b) * Distance2(b, c)
SharpAngleBends(package, config) ==
  LET min == Threshold(config, "min_angle_degrees", <<3, 4>>)
      Bad(row) == row.geometry # Null /\ \E i \in 2..(Len(row.geometry) - 1) :
                                          IsSharp(row.geometry[i - 1], row.geometry[i], row.geometry[i + 1], min)
  IN  IF ~HasColumns(package, "link", {"geometry"}) THEN <<>>
      ELSE RowIssues("sharp_angle", "geometry", package.link, {row \in Range(package.link) : Bad(row)})

ImplausibleVc(package, config) ==
  LET max == Threshold(config, "vc_max", <<3, 2>>)
      Exceeds(volume, capacity) ==
        IF capacity > 0 THEN volume * max[2] > max[1] * capacity ELSE volume * max[2] < max[1] * capacity
      Bad(row) == row.capacity \notin {Null, 0} /\ row.volume # Null /\ Exceeds(row.volume, row.capacity)
  IN  IF ~HasColumns(package, "link", {"capacity", "volume"}) THEN <<>>
      ELSE RowIssues("implausible_vc", "volume", package.link, {row \in Range(package.link) : Bad(row)})

CriticalLinkFields == {"length", "free_speed", "capacity", "lanes"}
MissingCriticalFields(package, config) ==
  LET min == Threshold(config, "coverage_min", <<9, 10>>)
      Filled(column) == Cardinality({i \in DOMAIN package.link : package.link[i][column] # Null})
      sparse == {c \in CriticalLinkFields \cap package.columns.link : min[2] * Filled(c) < min[1] * Len(package.link)}
  IN  IF ~HasColumns(package, "link", {}) THEN <<>>
      ELSE [k \in 1..Cardinality(sparse) |-> Issue("missing_fields", "info", SetToSeq(sparse)[k], Null)]

-----------------------------------------------------------------------------
(* Finding and running rules.                                                *)

(* A rule of the same code takes the place of the other.                     *)
RegisterRule(registry, rule) ==
  IF \E i \in DOMAIN registry : registry[i].code = rule.code
    THEN [i \in DOMAIN registry |-> IF registry[i].code = rule.code THEN rule ELSE registry[i]]
    ELSE Append(registry, rule)
(* An entry point that fails is passed over.                                 *)
DiscoverRules(reg, entry_points) ==
  IF reg.discovered THEN reg
  ELSE [discovered |-> TRUE,
        rules |-> FoldLeft(LAMBDA rules, point : IF point.loads THEN FoldLeft(RegisterRule, rules, point.rules) ELSE rules,
                           reg.rules, entry_points)]

NoConfig == [enabled |-> TRUE, severity_override |-> Null, thresholds |-> <<>>]
RuleConfig(configs, code) == IF code \in DOMAIN configs THEN configs[code] ELSE NoConfig

Run(code, package, config) ==
  CASE code = "high_speed" -> HighSpeedResidential(package, config)
    [] code = "disconnected" -> DisconnectedComponents(package, config)
    [] code = "lane_count" -> LaneCountMismatch(package, config)
    [] code = "near_nodes" -> DuplicateNearNodes(package, config)
    [] code = "sharp_angle" -> SharpAngleBends(package, config)
    [] code = "implausible_vc" -> ImplausibleVc(package, config)
    [] code = "missing_fields" -> MissingCriticalFields(package, config)
    [] OTHER -> <<>>

(* A rule may take no configuration; the severity of what it found may be    *)
(* overridden all the same.                                                  *)
InvokeRun(rule, package, config) == Run(rule.code, package, IF rule.configurable THEN config ELSE NoConfig)
OverrideSeverity(issues, config) ==
  IF config.severity_override = Null THEN issues
  ELSE [i \in DOMAIN issues |-> [issues[i] EXCEPT !.severity = config.severity_override]]
RunQuality(rules, package, configs, report) ==
  LET RunOne(out, rule) ==
        LET config == RuleConfig(configs, rule.code)
        IN  IF ~config.enabled THEN out
            ELSE out \o OverrideSeverity(InvokeRun(rule, package, config), config)
  IN  FoldLeft(RunOne, report, rules)

Codes == <<"high_speed", "disconnected", "lane_count", "near_nodes", "sharp_angle", "implausible_vc", "missing_fields">>
RegisterAll == [i \in DOMAIN Codes |-> [code |-> Codes[i], configurable |-> TRUE]]

-----------------------------------------------------------------------------
(* Properties.                                                               *)

(* What a report said before stays, and turning a rule off or giving it      *)
(* another severity takes or changes its own issues only.                    *)
RulesAreIndependent(package, configs, report) ==
  LET all == RunQuality(RegisterAll, package, configs, report)
      new == SubSeq(all, Len(report) + 1, Len(all))
      Expected(code) == OverrideSeverity(Run(code, package, RuleConfig(configs, code)), RuleConfig(configs, code))
  IN  /\ SubSeq(all, 1, Len(report)) = report
      /\ \A k \in DOMAIN Codes :
           SelectSeq(new, LAMBDA i : i.code = Codes[k]) = IF RuleConfig(configs, Codes[k]).enabled THEN Expected(Codes[k]) ELSE <<>>

(* A stricter threshold never reports less, the issues are of the rows,      *)
(* whatever their order, and nothing is reported twice.                      *)
RowCodes == {"high_speed", "lane_count", "sharp_angle", "implausible_vc"}
Backward(rows) == [i \in DOMAIN rows |-> rows[Len(rows) + 1 - i]]
RulesAreOfTheRows(package, strict, lax) ==
  LET turned == [package EXCEPT !.link = Backward(@), !.node = Backward(@)]
      Of(p, thresholds, code) == Range(Run(code, p, [NoConfig EXCEPT !.thresholds = thresholds]))
      Turned(issue) == IF issue.code \in RowCodes THEN [issue EXCEPT !.subject = Len(package.link) + 1 - @] ELSE issue
  IN  \A k \in DOMAIN Codes :
        /\ Of(package, lax, Codes[k]) \subseteq Of(package, strict, Codes[k])
        /\ Cardinality(Of(package, lax, Codes[k])) = Len(Run(Codes[k], package, [NoConfig EXCEPT !.thresholds = lax]))
        /\ Of(turned, lax, Codes[k]) = {Turned(i) : i \in Of(package, lax, Codes[k])}

(* Each rule found or registered is run once: the last one of its code,      *)
(* however often discovery is asked for.                                     *)
DiscoveryIsOnce(first, entry_points) ==
  LET found == DiscoverRules([discovered |-> FALSE, rules |-> FoldLeft(RegisterRule, <<>>, first)], entry_points)
      given == first \o FlattenSeq([i \in DOMAIN entry_points |-> IF entry_points[i].loads THEN entry_points[i].rules ELSE <<>>])
  IN  /\ DiscoverRules(found, entry_points) = found
      /\ {found.rules[i].code : i \in DOMAIN found.rules} = {given[i].code : i \in DOMAIN given}
      /\ Len(found.rules) = Cardinality({given[i].code : i \in DOMAIN given})
      /\ \A i \in DOMAIN found.rules : \E j \in DOMAIN given :
           found.rules[i] = given[j] /\ \A k \in (j + 1)..Len(given) : given[k].code # given[j].code

(* The fix hints work: merging the close nodes leaves none to report, and    *)
(* merging or removing orphans never adds a component.                       *)
FixHintsWork(net, threshold) ==
  LET config == [NoConfig EXCEPT !.thresholds = [epsilon_units |-> threshold]]
      merged == MergeCloseNodes(net, threshold)
      Components(n) ==
        LET issues == DisconnectedComponents(n, NoConfig) IN IF issues = <<>> THEN 1 ELSE Cardinality(issues[1].subject)
  IN  /\ DuplicateNearNodes(merged, config) = <<>>
      /\ Components(merged) <= Components(net)
      /\ Components(RemoveOrphans(net)) <= Components(net)
=============================================================================
