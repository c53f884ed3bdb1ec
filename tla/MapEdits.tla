------------------------------ MODULE MapEdits ------------------------------
(* The map of netstead/map and the fixes a user proposes on it: the features *)
(* and markers a page is made of (geo_resolver.py, component.py), the log    *)
(* the page collects (templates/map_component.js), its file, a ProjectCard,  *)
(* and its application to a network (edits.py).                              *)
(*                                                                           *)
(* A cell is Null, <<"number", n>> or <<"text", t>>, n and t strings, and a  *)
(* geometry is the number of its points.  A table is [columns, rows].        *)
EXTENDS Integers, Sequences, SequencesExt, FiniteSets

CONSTANT Null

NaN == <<"number", "nan">>
IsMissing(value) == value \in {Null, NaN}
ValuesEqual(a, b) == (IsMissing(a) /\ IsMissing(b)) \/ (~IsMissing(a) /\ ~IsMissing(b) /\ a = b)

-----------------------------------------------------------------------------
(* What is on the map.                                                       *)

NodeIds(net) == {net["node"].rows[i]["node_id"] : i \in DOMAIN net["node"].rows}

(* The geometry of a link, in its row or in the table of geometries.         *)
GeometryById(net, id) ==
  LET rows == SelectSeq(net["geometry"].rows, LAMBDA g : g["geometry_id"] = id /\ g["geometry"] # Null)
  IN  IF rows = <<>> THEN Null ELSE Last(rows)["geometry"]
LinkGeometry(net, link) ==
  IF "geometry" \in net["link"].columns /\ link["geometry"] # Null THEN link["geometry"]
  ELSE IF "geometry_id" \in net["link"].columns /\ link["geometry_id"] # Null THEN GeometryById(net, link["geometry_id"])
  ELSE Null

LinkIsDrawn(net, link) ==
  \/ LinkGeometry(net, link) # Null /\ LinkGeometry(net, link) >= 2
  \/ {link["from_node_id"], link["to_node_id"]} \subseteq NodeIds(net)
Drawn(net, name, row) == name = "link" => LinkIsDrawn(net, row)

(* The cells a feature shows: no geometry, no missing value, and of a long   *)
(* text its beginning only.                                                  *)
Hidden(name) == IF name = "link" THEN {"geometry", "geometry_id", "osm_node_ids"} ELSE {"x_coord", "y_coord"}
Coerced(value) == IF value = <<"text", "long">> THEN <<"text", "lon...">> ELSE value
BuildProps(table, row, skip) ==
  [c \in {c \in table.columns \ skip : ~IsMissing(row[c]) /\ row[c] \notin {<<"text", "">>, <<"text", "nan">>}} |-> Coerced(row[c])]

Features(net, name, limit) ==
  LET rows == SelectSeq(SubSeq(net[name].rows, 1, limit), LAMBDA row : Drawn(net, name, row))
  IN  [k \in DOMAIN rows |-> BuildProps(net[name], rows[k], Hidden(name))]

(* Where an issue is shown, or Null.                                         *)
ResolveLinkRow(net, link) ==
  LET geometry == LinkGeometry(net, link)
      ends == {link["from_node_id"], link["to_node_id"]} \cap NodeIds(net)
  IN  IF geometry # Null /\ geometry > 0 THEN <<"along", geometry>>
      ELSE IF ends # {} THEN <<"between", ends>> ELSE Null
Resolve(net, issue) ==
  CASE issue.coords # Null -> <<"at", issue.coords>>
    [] issue.coords = Null /\ (issue.row = Null \/ issue.row \notin DOMAIN net[issue.table].rows) -> Null
    [] OTHER -> IF issue.table = "link" THEN ResolveLinkRow(net, net["link"].rows[issue.row])
                ELSE <<"node", net["node"].rows[issue.row]["node_id"]>>

(* The marker of an issue with the contents of its row, which are looked up  *)
(* by the number of the row among the features.                              *)
RowProps(net, issue, limit) ==
  LET features == Features(net, issue.table, limit)
  IN  IF issue.row \in DOMAIN features THEN features[issue.row] ELSE Null
EnrichedIssue(net, issue, limit) ==
  [table |-> issue.table, column |-> issue.column, row_props |-> RowProps(net, issue, limit),
   located |-> Resolve(net, issue) # Null]
Markers(net, issues, limit) ==
  SelectSeq([k \in DOMAIN issues |-> EnrichedIssue(net, issues[k], limit)], LAMBDA marker : marker.located)

-----------------------------------------------------------------------------
(* The page: a fix the user types at a marker, and the file of the log.      *)

PickPk(table, props) ==
  LET key == [link |-> "link_id", node |-> "node_id"][table]
  IN  IF props # Null /\ key \in DOMAIN props THEN <<<<key, props[key]>>>> ELSE Null

LooksLikeNumber(text) == text \in {"1", "2", "7", "40"}
CoerceLikely(input, sample) ==
  IF input = "" THEN Null
  ELSE IF LooksLikeNumber(input) /\ sample # Null /\ (sample[1] = "number" \/ LooksLikeNumber(sample[2])) THEN <<"number", input>>
  ELSE <<"text", input>>

(* The edit a marker's editor adds to the log; Null where it does not open.  *)
ProposedFix(marker, input, id) ==
  LET pk == PickPk(marker.table, marker.row_props)
      current == IF marker.row_props # Null /\ marker.column \in DOMAIN marker.row_props THEN marker.row_props[marker.column] ELSE Null
  IN  IF marker.column = Null \/ pk = Null THEN Null
      ELSE [id |-> id, kind |-> "fix", table |-> marker.table, pk |-> pk, column |-> marker.column, from_value |-> current,
            to_value |-> CoerceLikely(input, current), reason |-> <<"code: message">>, issue_id |-> "i0"]

FacilityKey(column) == [link_id |-> "model_link_id", node_id |-> "model_node_id"][column]
Selector(pk) == SelectSeq(pk, LAMBDA p : p[1] \in {"link_id", "node_id"})
Bits(edit) ==
  (IF edit.reason = Null THEN <<>> ELSE edit.reason) \o (IF edit.issue_id = Null THEN <<>> ELSE <<edit.issue_id>>) \o <<edit.id>>
Change(edit) ==
  LET selector == Selector(edit.pk)[1]
  IN  [facility |-> <<<<FacilityKey(selector[1]), <<selector[2]>>>>>>,
       property_changes |-> <<<<edit.column, [existing |-> edit.from_value, set |-> edit.to_value]>>>>,
       notes |-> Bits(edit)]

(* A text of digits is written without quotes, and read as a number.         *)
YamlScalar(value) == IF value # Null /\ LooksLikeNumber(value[2]) THEN <<"number", value[2]>> ELSE value
Quoted(edit) ==
  [edit EXCEPT !.pk = [i \in DOMAIN @ |-> <<@[i][1], YamlScalar(@[i][2])>>],
               !.from_value = YamlScalar(@), !.to_value = YamlScalar(@)]
BuildYaml(log) ==
  LET kept == SelectSeq(log.edits, LAMBDA e : Selector(e.pk) # <<>>)
  IN  [project |-> TRUE, changes |-> [k \in DOMAIN kept |-> Change(Quoted(kept[k]))],
       notes |-> <<<<"created_at", "now">>, <<"client", "browser">>>>]

-----------------------------------------------------------------------------
(* The file of a log, which Python reads and writes.                         *)

MetaKeys == <<"source", "spec_version", "created_at", "client">>
DumpEditLog(log) ==
  LET kept == SelectSeq(log.edits, LAMBDA e : e.kind = "fix" /\ Selector(e.pk) # <<>>)
      given == SelectSeq(MetaKeys, LAMBDA key : log.meta[key] # Null)
  IN  [project |-> TRUE, changes |-> [k \in DOMAIN kept |-> Change(kept[k])],
       notes |-> [k \in DOMAIN given |-> <<given[k], log.meta[given[k]]>>]]

NotesLookup(notes, key) ==
  LET lines == SelectSeq(notes, LAMBDA line : line[1] = key)
  IN  IF lines = <<>> \/ lines[1][2] = "" THEN Null ELSE lines[1][2]

(* One edit for each facility and each property a change sets.  Of a         *)
(* facility the key of the links is looked for first.                        *)
EditsFromRoadwayPropertyChange(rpc, seq) ==
  LET Ids(key) == SelectSeq(rpc.facility, LAMBDA f : f[1] = key)
      isLink == Ids("model_link_id") # <<>>
      found == IF isLink THEN Ids("model_link_id") ELSE Ids("model_node_id")
      ids == IF found = <<>> THEN <<>> ELSE found[1][2]
      set == SelectSeq([j \in DOMAIN rpc.property_changes |-> <<j, rpc.property_changes[j]>>], LAMBDA p : p[2][2] # Null)
      Edit(id, p) ==
        [id |-> <<seq, id, p[1]>>, kind |-> "fix", table |-> IF isLink THEN "link" ELSE "node",
         pk |-> <<<<IF isLink THEN "link_id" ELSE "node_id", id>>>>, column |-> p[2][1],
         from_value |-> p[2][2].existing, to_value |-> p[2][2].set, reason |-> rpc.notes, issue_id |-> Null]
  IN  FlattenSeq([i \in DOMAIN ids |-> [k \in DOMAIN set |-> Edit(ids[i], set[k])]])

(* Changes of another kind are Null, and skipped; a card without changes is  *)
(* refused.                                                                  *)
LoadEditLog(card) ==
  IF ~card.project \/ card.changes = Null THEN [error |-> TRUE]
  ELSE [error |-> FALSE, meta |-> [key \in {MetaKeys[k] : k \in DOMAIN MetaKeys} |-> NotesLookup(card.notes, key)],
        edits |-> FlattenSeq([i \in DOMAIN card.changes |->
                    IF card.changes[i] = Null THEN <<>> ELSE EditsFromRoadwayPropertyChange(card.changes[i], i)])]

-----------------------------------------------------------------------------
(* The application of a log to a network, one edit after the other.          *)

PkMask(table, pk) ==
  {i \in DOMAIN table.rows : \A k \in DOMAIN pk : ~IsMissing(pk[k][2]) /\ table.rows[i][pk[k][1]] = pk[k][2]}

(* Why an edit is skipped, or Null.                                          *)
Skipped(net, edit) ==
  IF edit.table \notin DOMAIN net THEN "table not in network"
  ELSE LET table == net[edit.table]
       IN  IF edit.column \notin table.columns THEN "column not in table"
           ELSE IF \E k \in DOMAIN edit.pk : edit.pk[k][1] \notin table.columns THEN "pk column missing"
           ELSE LET rows == PkMask(table, edit.pk)
                IN  CASE rows = {} -> "pk not found"
                      [] Cardinality(rows) > 1 -> "pk matched multiple rows"
                      [] OTHER -> IF edit.from_value # Null
                                     /\ \E i \in rows : ~ValuesEqual(table.rows[i][edit.column], edit.from_value)
                                  THEN "value drift" ELSE Null

WriteCell(net, edit) ==
  LET row == CHOOSE i \in PkMask(net[edit.table], edit.pk) : TRUE
  IN  [net EXCEPT ![edit.table].rows[row][edit.column] = IF IsMissing(edit.to_value) THEN Null ELSE edit.to_value]

(* A column that the edits leave with numbers and texts becomes no table:    *)
(* the application raises, and the network stays as it was.                  *)
IsMixed(table) ==
  \E c \in table.columns \ {"geometry"} :
    LET cells == {table.rows[i][c] : i \in DOMAIN table.rows} \ {Null, NaN} IN \E v, w \in cells : v[1] # w[1]

ApplyEdits(net, edits) ==
  LET start == [net |-> net, applied |-> <<>>, skipped |-> <<>>, raised |-> FALSE]
      Step(result, edit) ==
        LET reason == Skipped(result.net, edit)
        IN  IF reason # Null THEN [result EXCEPT !.skipped = Append(@, edit)]
            ELSE [result EXCEPT !.net = WriteCell(@, edit), !.applied = Append(@, edit)]
      done == FoldLeft(Step, start, edits)
  IN  IF \E name \in DOMAIN net : IsMixed(done.net[name]) THEN [start EXCEPT !.raised = TRUE] ELSE done

-----------------------------------------------------------------------------
(* Properties.                                                               *)

(* A log whose edits tell the value they expect, and change no primary key,  *)
(* is undone by its applied edits turned round, the last one first.  So an   *)
(* edit was applied only where it found what it expected, and nothing else   *)
(* was touched (edits.py, apply_edits).                                      *)
TurnedRound(edits) ==
  [k \in DOMAIN edits |->
     LET e == edits[Len(edits) + 1 - k] IN [e EXCEPT !.from_value = IF e.to_value = Null THEN NaN ELSE e.to_value, !.to_value = e.from_value]]
IsReversible(edits) ==
  \A k \in DOMAIN edits : edits[k].from_value # Null /\ edits[k].column \notin {"link_id", "node_id"}
LogsAreUndone(net, edits) ==
  LET done == ApplyEdits(net, edits)
      undone == ApplyEdits(done.net, TurnedRound(done.applied))
  IN  IsReversible(edits) => undone.net = net /\ undone.skipped = <<>>

(* An edit that sees a value another edit left expects that value, or does   *)
(* not tell one: two edits of one cell that both expect the value of the     *)
(* network cannot both be applied, unless the first one changes nothing.     *)
CellOf(edit) == <<edit.table, edit.pk, edit.column>>
StaleEditsAreSkipped(net, edits) ==
  LET applied == ApplyEdits(net, edits).applied
  IN  \A i \in DOMAIN applied : \A j \in {i + 1} \cap DOMAIN applied :
        (CellOf(applied[i]) = CellOf(applied[j]) /\ applied[j].from_value # Null) =>
          ValuesEqual(applied[i].to_value, applied[j].from_value)

(* What is written to a file and read again is applied alike, as far as a    *)
(* card can say it: a fix of a row named by its own key alone.               *)
IsCardable(edit) ==
  /\ edit.kind = "fix"
  /\ Len(edit.pk) = 1
  /\ \/ edit.table = "link" /\ edit.pk[1][1] = "link_id"
     \/ edit.table = "node" /\ edit.pk[1][1] = "node_id"
LogsSurviveTheFile(net, log) ==
  LET loaded == LoadEditLog(DumpEditLog(log))
  IN  (\A k \in DOMAIN log.edits : IsCardable(log.edits[k])) =>
        /\ loaded.meta = log.meta
        /\ ApplyEdits(net, loaded.edits).net = ApplyEdits(net, log.edits).net
        /\ ApplyEdits(net, loaded.edits).raised = ApplyEdits(net, log.edits).raised
        /\ Len(ApplyEdits(net, loaded.edits).applied) = Len(ApplyEdits(net, log.edits).applied)

(* A fix typed at the marker of an issue, saved by the page and applied to    *)
(* the network the map was made of, changes the cell of the issue or nothing *)
(* at all.  It holds where every row before that of the issue is drawn: a    *)
(* link that cannot be drawn shifts the contents of the rows after it.       *)
FixReachesItsRow(net, issue, input, limit) ==
  LET markers == Markers(net, <<issue>>, limit)
      fix == IF markers = <<>> THEN Null ELSE ProposedFix(markers[1], input, "e1")
      card == BuildYaml([edits |-> <<fix>>])
      after == ApplyEdits(net, LoadEditLog(card).edits).net
      rows == net[issue.table].rows
  IN  (fix # Null /\ \A i \in 1..issue.row : Drawn(net, issue.table, rows[i])) =>
        \/ after = net
        \/ after = [net EXCEPT ![issue.table].rows[issue.row][issue.column] = after[issue.table].rows[issue.row][issue.column]]
=============================================================================
