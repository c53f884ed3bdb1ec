----------------------------- MODULE Validation -----------------------------
(* Corral's schema and structural checks and the report they fill            *)
(* (corral/validation/schema_check.py, structural.py, _ibis.py and           *)
(* corral/reports/types.py), as functions of a table, a schema and a         *)
(* listing.                                                                  *)
(*                                                                           *)
(* A table has dtypes and rows.  A cell of a text column is the sequence of  *)
(* its characters, a cell of another column an integer.  A dtype is the set  *)
(* of the type-family names its own name contains, which is all the check    *)
(* looks at.  A regular expression is a choice of literals, in a group or    *)
(* not, with or without anchors of its own; Null alternatives stand for one  *)
(* that does not compile.                                                    *)
EXTENDS Integers, Sequences, FiniteSets

CONSTANTS Null, Cap

Issue(severity, category, code, column, row, total) ==
  [severity |-> severity, category |-> category, code |-> code, column |-> column, row |-> row, total |-> total]

FrictionlessToIbisFamily ==
  [integer |-> {"int"}, number |-> {"int", "float", "decimal"}, boolean |-> {"bool"}, string |-> {"string"},
   any |-> {}]

Cells(table, field) == [i \in DOMAIN table.rows |-> table.rows[i][field.name]]
HasColumn(table, field) == field.name \in DOMAIN table.dtype
IsRequired(field) == field.constraints # Null /\ field.constraints.required
Constraint(field, name) == IF field.constraints = Null THEN Null ELSE field.constraints[name]

(* The errors of a required field stop a build, the others are warnings.     *)
BoundSeverity(field) == IF IsRequired(field) THEN "error" ELSE "warning"

(* The rows at fault in the order of the table, the first Cap of them.       *)
Ordered(rows, bad) == SelectSeq([i \in DOMAIN rows |-> i], LAMBDA i : i \in bad)
Sample(ordered) == IF Len(ordered) > Cap THEN SubSeq(ordered, 1, Cap) ELSE ordered

RowIssues(severity, code, field, ordered) ==
  [i \in DOMAIN Sample(ordered) |-> Issue(severity, "schema", code, field.name, Sample(ordered)[i], Null)]
EmitSummary(severity, code, field, total) == <<Issue(severity, "schema", code, field.name, Null, total)>>

(* One issue for each row at fault up to the cap, then how many there are.   *)
Enumerate(severity, code, field, table, bad) ==
  LET ordered == Ordered(table.rows, bad)
  IN  RowIssues(severity, code, field, ordered)
      \o IF Len(ordered) > Cap THEN EmitSummary(severity, code, field, Len(ordered)) ELSE <<>>

Where(table, field, IsBad(_)) ==
  LET cell == Cells(table, field) IN {i \in DOMAIN cell : IsBad(cell[i])}

CheckRequired(table, field) ==
  IF IsRequired(field) /\ HasColumn(table, field)
    THEN Enumerate("error", "schema.required", field, table, Where(table, field, LAMBDA v : v = Null))
    ELSE <<>>

CheckType(table, field) ==
  LET allowed == IF field.type \in DOMAIN FrictionlessToIbisFamily THEN FrictionlessToIbisFamily[field.type] ELSE {}
  IN  IF allowed # {} /\ HasColumn(table, field) /\ allowed \cap table.dtype[field.name] = {}
        THEN <<Issue("error", "schema", "schema.type", field.name, Null, Null)>>
        ELSE <<>>

CheckEnum(table, field) ==
  LET allowed == Constraint(field, "enum")
  IN  IF allowed \notin {Null, {}} /\ HasColumn(table, field)
        THEN Enumerate("warning", "schema.enum", field, table,
                       Where(table, field, LAMBDA v : v # Null /\ v \notin allowed))
        ELSE <<>>

CheckBound(table, field, name, bad) ==
  IF Constraint(field, name) # Null /\ HasColumn(table, field)
    THEN Enumerate(BoundSeverity(field), "schema." \o name, field, table, bad)
    ELSE <<>>

(* A cell as the text SQL casts it to: a float is written with a decimal, so *)
(* that 3.0 has three characters.  The numbers of the model are whole and    *)
(* have one or two digits.                                                   *)
AsText(table, field, v) ==
  LET digits == IF v < 10 THEN <<v>> ELSE <<v \div 10, v % 10>>
  IN  IF "string" \in table.dtype[field.name] THEN v
      ELSE IF "float" \in table.dtype[field.name] THEN digits \o <<".", 0>> ELSE digits

CheckMinimum(table, field) ==
  CheckBound(table, field, "minimum", Where(table, field, LAMBDA v : v # Null /\ v < Constraint(field, "minimum")))
CheckMaximum(table, field) ==
  CheckBound(table, field, "maximum", Where(table, field, LAMBDA v : v # Null /\ v > Constraint(field, "maximum")))
CheckMinLength(table, field) ==
  CheckBound(table, field, "min_length",
    Where(table, field, LAMBDA v : v # Null /\ Len(AsText(table, field, v)) < Constraint(field, "min_length")))
CheckMaxLength(table, field) ==
  CheckBound(table, field, "max_length",
    Where(table, field, LAMBDA v : v # Null /\ Len(AsText(table, field, v)) > Constraint(field, "max_length")))

(* re_search: some alternative occurs, at the start or the end of the text   *)
(* when an anchor is before or after it.  Without a group an anchor belongs  *)
(* to the first or the last alternative alone.                               *)
Occurs(text, literal, atStart, atEnd) ==
  \E k \in 0..Len(text) - Len(literal) :
    /\ SubSeq(text, k + 1, k + Len(literal)) = literal
    /\ atStart => k = 0
    /\ atEnd => k + Len(literal) = Len(text)
ReSearch(pattern, text) ==
  \E i \in DOMAIN pattern.alternatives :
    Occurs(text, pattern.alternatives[i], pattern.start /\ (pattern.group \/ i = 1),
           pattern.end /\ (pattern.group \/ i = Len(pattern.alternatives)))

(* Plausible bug: the match may end before the text does.                    *)
FullPatternAtStart(pattern) == [pattern EXCEPT !.start = TRUE]

(* The pattern of the schema is made to match from end to end by writing the *)
(* anchors it lacks before and after it.                                     *)
FullPattern(pattern) == [pattern EXCEPT !.start = TRUE, !.end = TRUE]

CheckPattern(table, field) ==
  LET pattern == Constraint(field, "pattern")
  IN  IF pattern = Null THEN <<>>
      ELSE IF pattern.alternatives = Null
        THEN <<Issue("error", "schema", "schema.pattern", field.name, Null, Null)>>
      ELSE IF HasColumn(table, field)
        THEN Enumerate("warning", "schema.pattern", field, table,
                       Where(table, field, LAMBDA v : /\ v # Null
                                                      /\ ~ReSearch(FullPattern(pattern), AsText(table, field, v))))
        ELSE <<>>

(* Every row whose value another row has too, the total first.               *)
CheckUnique(table, field) ==
  IF Constraint(field, "unique") = TRUE /\ HasColumn(table, field)
    THEN LET cell == Cells(table, field)
             count == [v \in {cell[i] : i \in DOMAIN cell} \ {Null} |->
                         Cardinality({i \in DOMAIN cell : cell[i] = v})]
             ordered == Ordered(cell, {i \in DOMAIN cell : cell[i] # Null /\ count[cell[i]] > 1})
         IN  IF ordered = <<>> THEN <<>>
             ELSE EmitSummary("error", "schema.unique", field, Len(ordered))
                  \o RowIssues("error", "schema.unique", field, ordered)
    ELSE <<>>

FieldIssues(table, field) ==
  CheckRequired(table, field) \o CheckType(table, field) \o CheckEnum(table, field) \o CheckMinimum(table, field)
  \o CheckMaximum(table, field) \o CheckMinLength(table, field) \o CheckMaxLength(table, field)
  \o CheckPattern(table, field) \o CheckUnique(table, field)

CheckSchema(table, schema, issues) ==
  LET upTo[k \in 0..Len(schema)] == IF k = 0 THEN issues ELSE upTo[k - 1] \o FieldIssues(table, schema[k])
  IN  upTo[Len(schema)]

(* -------------------------- the structural check ----------------------- *)

Structural(severity, code, name) == Issue(severity, "structural", code, name, Null, Null)

MissingResource(resource) ==
  IF resource.required = TRUE
    THEN <<Structural("error", "structural.missing_required_resource", resource.name)>>
         \o IF resource.path # Null THEN <<Structural("error", "structural.missing_file", resource.name)>> ELSE <<>>
    ELSE <<Structural("info", "structural.missing_optional_resource", resource.name)>>

(* What the package declares against what the source lists; a source that    *)
(* lists nothing at all (Null) is not compared.  The names found without a   *)
(* declaration come last, sorted by name: order has all names sorted.        *)
CheckStructural(resources, actual, order, issues) ==
  LET names == {actual[i].name : i \in DOMAIN actual}
      declared == {resources[i].name : i \in DOMAIN resources}
      extra == SelectSeq(order, LAMBDA n : n \in names \ declared)
      upTo[k \in 0..Len(resources)] ==
        IF k = 0 THEN <<>>
        ELSE upTo[k - 1] \o IF resources[k].name \in names THEN <<>> ELSE MissingResource(resources[k])
  IN  IF actual = Null THEN issues
      ELSE issues \o upTo[Len(resources)]
           \o [i \in DOMAIN extra |-> Structural("warning", "structural.unexpected_resource", extra[i])]

(* ------------------------------ the report ----------------------------- *)

BySeverity(issues, severity) == SelectSeq(issues, LAMBDA i : i.severity = severity)
ByCategory(issues, category) == SelectSeq(issues, LAMBDA i : i.category = category)
CountIssues(issues, severity) == IF severity = Null THEN Len(issues) ELSE Len(BySeverity(issues, severity))
HasErrors(issues) == \E i \in DOMAIN issues : issues[i].severity = "error"
HasWarnings(issues) == \E i \in DOMAIN issues : issues[i].severity = "warning"
IsClean(issues) == ~(HasErrors(issues) \/ HasWarnings(issues))
Summary(issues) ==
  [error |-> CountIssues(issues, "error"), warning |-> CountIssues(issues, "warning"),
   info |-> CountIssues(issues, "info"), data_quality |-> Len(ByCategory(issues, "data_quality")),
   is_clean |-> IsClean(issues)]

(* ------------------------------ properties ----------------------------- *)

(* What Frictionless says a value must be, rule by rule, told from the value *)
(* and the declaration alone (schema_check.py:1-78): a length is that of a   *)
(* text, or of a number as it is printed, two characters more for a float.   *)
(* A value is to match its pattern as a whole (schema_check.py:532-533), but *)
(* for alternatives without a group, where that is not what the code does:   *)
(* the anchors it writes leave the first one open at the end, the last one   *)
(* at the start, and those between at both.                                  *)
PrintedLength(dtype, v) ==
  IF "string" \in dtype THEN Len(v)
  ELSE (IF v >= 10 THEN 2 ELSE 1) + (IF "float" \in dtype THEN 2 ELSE 0)
Matches(pattern, k, text) ==
  LET literal == pattern.alternatives[k]
      several == ~pattern.group /\ Len(pattern.alternatives) > 1
      openAtStart == several /\ k > 1
      openAtEnd == several /\ k < Len(pattern.alternatives)
  IN  \E before, after \in 0..Len(text) :
        /\ before + Len(literal) + after = Len(text) /\ SubSeq(text, before + 1, Len(text) - after) = literal
        /\ (before = 0 \/ openAtStart) /\ (after = 0 \/ openAtEnd)
Breaks(table, field, rule, i) ==
  LET cell == Cells(table, field)
      given(name) == Constraint(field, name)
      length == PrintedLength(table.dtype[field.name], cell[i])
  IN  CASE rule = "required" -> IsRequired(field) /\ cell[i] = Null
        [] rule # "required" /\ cell[i] = Null -> FALSE
        [] rule = "enum" -> given("enum") \notin {Null, {}} /\ cell[i] \notin given("enum")
        [] rule = "minimum" -> given("minimum") # Null /\ given("minimum") > cell[i]
        [] rule = "maximum" -> given("maximum") # Null /\ given("maximum") < cell[i]
        [] rule = "min_length" -> given("min_length") # Null /\ given("min_length") > length
        [] rule = "max_length" -> given("max_length") # Null /\ given("max_length") < length
        [] rule = "pattern" -> /\ given("pattern") # Null /\ given("pattern").alternatives # Null
                               /\ \A k \in DOMAIN given("pattern").alternatives : ~Matches(given("pattern"), k, cell[i])
        [] rule = "unique" -> given("unique") = TRUE /\ \E j \in DOMAIN cell \ {i} : cell[j] = cell[i]

RowRules == {"required", "enum", "minimum", "maximum", "min_length", "max_length", "pattern", "unique"}
Hard(field, rule) ==
  rule \in {"required", "unique"} \/ (IsRequired(field) /\ rule \in {"minimum", "maximum", "min_length", "max_length"})

(* A report tells which values break the schema, no more and no less: a rule *)
(* names only rows that break it, all of them or, past the cap, as many as   *)
(* the cap and the total; a null is named for being null and for nothing     *)
(* else; and the report has errors exactly when a rule that makes errors is  *)
(* broken, and is clean exactly when none is broken at all.                  *)
ReportTellsTheRows(table, schema) ==
  LET issues == CheckSchema(table, schema, <<>>)
      present == {k \in DOMAIN schema : HasColumn(table, schema[k])}
      of(field, rule) == SelectSeq(issues, LAMBDA i : i.column = field.name /\ i.code = "schema." \o rule)
      broken(field, rule) == {i \in DOMAIN table.rows : Breaks(table, field, rule, i)}
      ill(field) == {i \in DOMAIN issues : issues[i].column = field.name /\ issues[i].code = "schema.type"} # {}
      unreadable == \E k \in DOMAIN schema : /\ Constraint(schema[k], "pattern") # Null
                                             /\ Constraint(schema[k], "pattern").alternatives = Null
  IN  /\ \A k \in present, rule \in RowRules :
           LET told == of(schema[k], rule)
               named == {told[i].row : i \in DOMAIN told} \ {Null}
               bad == broken(schema[k], rule)
           IN  /\ named \subseteq bad
               /\ IF Cardinality(bad) > Cap THEN Cardinality(named) = Cap ELSE named = bad
               /\ Cardinality(bad) > Cap => \E i \in DOMAIN told : told[i].total = Cardinality(bad)
      /\ \A k \in present, i \in DOMAIN table.rows :
           Cells(table, schema[k])[i] = Null =>
             Cardinality({n \in DOMAIN issues : issues[n].column = schema[k].name /\ issues[n].row = i}) <= 1
      /\ LET rules(P(_, _)) == \E k \in present, rule \in RowRules :
                                 P(schema[k], rule) /\ broken(schema[k], rule) # {}
             misfit == unreadable \/ \E k \in present : ill(schema[k])
         IN  /\ HasErrors(issues) <=> misfit \/ rules(Hard)
             /\ IsClean(issues) <=> ~misfit /\ ~rules(LAMBDA f, r : TRUE)
      /\ Summary(issues).error + Summary(issues).warning + Summary(issues).info = Len(issues)

(* A source passes the structural check exactly when it has every table the  *)
(* package requires, and is clean exactly when it has no other tables either *)
(* (structural.py:131-295).  An optional resource that is not there is told   *)
(* as information, also when the package declares a path for it; of the path *)
(* structural.py:21-22 and 154-157 speak as of an error.                     *)
StructureIsTold(resources, actual, order) ==
  LET issues == CheckStructural(resources, actual, order, <<>>)
      names == {actual[i].name : i \in DOMAIN actual}
      has(k) == resources[k].name \in names
  IN  actual # Null =>
        /\ HasErrors(issues) <=> \E k \in DOMAIN resources : resources[k].required = TRUE /\ ~has(k)
        /\ IsClean(issues) <=> /\ ~HasErrors(issues)
                               /\ names \subseteq {resources[k].name : k \in DOMAIN resources}
        /\ \A k \in DOMAIN resources : has(k) <=> ~\E i \in DOMAIN issues : issues[i].column = resources[k].name
=============================================================================
