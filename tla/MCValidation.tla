---------------------------- MODULE MCValidation ----------------------------
(* The cases of Validation: columns of up to three rows, alone and in a      *)
(* schema of two fields, each constraint at its bounds, and every listing of *)
(* a package of two resources; and those of SpecLoading: two resources of    *)
(* one field each, whose categories and constraints are their own, or shared *)
(* by references that are right, broken or nested.                           *)
EXTENDS Validation

INSTANCE SpecLoading

NoConstraint ==
  [required |-> FALSE, enum |-> Null, minimum |-> Null, maximum |-> Null, min_length |-> Null, max_length |-> Null,
   pattern |-> Null, unique |-> Null]
Columns(values) == UNION {[1..n -> values] : n \in 0..3}
Table(dtype, column) == [dtype |-> [c |-> dtype], rows |-> [i \in DOMAIN column |-> [c |-> column[i]]]]
Field(type, constraints) == [name |-> "c", type |-> type, constraints |-> constraints]

Literals == {<<"a">>, <<"b">>, <<"a", "b">>}
Patterns ==
  [start : BOOLEAN, end : BOOLEAN, group : BOOLEAN, alternatives : {<<l>> : l \in Literals} \cup {<<<<"a">>, <<"b">>>>, <<<<"b">>, <<"b">>, <<"a", "b">>>>}]
  \cup {[start |-> TRUE, end |-> TRUE, group |-> FALSE, alternatives |-> Null]}

TextConstraints ==
  {Null} \cup {[NoConstraint EXCEPT !.pattern = p] : p \in Patterns}
  \cup {[NoConstraint EXCEPT !.required = r, !.enum = e, !.min_length = n, !.max_length = x, !.unique = u] :
          r \in BOOLEAN, e \in {Null, {<<"a">>}}, n \in {Null, 2}, x \in {1}, u \in {Null, TRUE}}
NumberConstraints ==
  {[NoConstraint EXCEPT !.required = r, !.minimum = n, !.maximum = x, !.max_length = l] :
     r \in BOOLEAN, n \in {Null, 4}, x \in {Null, 3}, l \in {Null, 1, 3}}

Texts == {Null, <<"a">>, <<"a", "b">>}
TextCases ==
  {[part |-> "schema", table |-> Table({"string"}, c), schema |-> <<Field("string", k)>>] :
     c \in Columns(Texts), k \in TextConstraints}
NumberCases ==
  {[part |-> "schema", table |-> Table(d, c), schema |-> <<Field(t, k), [Field(t, k) EXCEPT !.name = "gone"]>>] :
     d \in {{"int"}, {"float"}}, c \in Columns({Null, 3, 10}), t \in {"integer", "date"}, k \in NumberConstraints}

Resource(name, required, path) == [name |-> name, required |-> required, path |-> path]
Ref(name) == [name |-> name, path |-> <<name, "csv">>]
Order == <<"a", "b", "c", "d">>
InOrder(names) == SelectSeq(Order, LAMBDA n : n \in names)
StructuralCases ==
  {[part |-> "structure", resources |-> <<Resource("a", r, p), Resource("b", s, Null)>>, actual |-> a] :
     r, s \in {TRUE, FALSE, Null}, p \in {Null, <<"a", "csv">>},
     a \in {Null} \cup {[i \in DOMAIN InOrder(n) |-> Ref(InOrder(n)[i])] : n \in SUBSET {"a", "b", "c", "d"}}}

Scalar(text) == [is |-> text]
Object(function) == [obj |-> function]
Items(values) == [list |-> values]
RefTo(url, file, tokens) == Object("$ref" :> [url |-> url, file |-> file, tokens |-> tokens])

Modes == Items(<<Scalar("car"), Scalar("bus")>>)
Labels == Items(<<Object([value |-> Scalar("yes"), label |-> Scalar("Yes")])>>)
Shared ==
  Object([modes |-> Modes, labels |-> Labels, nested |-> RefTo(Null, Null, <<"modes">>), common |-> Object([unique |-> Scalar("true")]),
          closed |-> Object([enum |-> Items(<<Scalar("foot")>>)]), field |-> Object([name |-> Scalar("f"), categories |-> Labels])])
SharedFile == "shared_categories.json"
Documents == (<<"here", SharedFile>> :> Shared) @@ (<<"web", SharedFile>> :> Shared)

Categories ==
  {Null, Modes, Labels, Items(<<>>), Items(<<Scalar("car"), Modes>>), Scalar("car"), Items(<<RefTo(Null, SharedFile, <<"modes", "-1">>)>>),
   RefTo(Null, SharedFile, <<"modes">>), RefTo("web", SharedFile, <<"labels">>), RefTo(Null, SharedFile, <<"nested">>),
   RefTo(Null, SharedFile, <<"modes", "2">>), RefTo(Null, "gone.json", <<>>), RefTo(Null, Null, <<"own">>)}
SharedConstraints ==
  {Null, Scalar(Null), Scalar("bad"), Object([unique |-> Scalar("true")]), Object([enum |-> Items(<<Scalar("foot")>>)]),
   RefTo(Null, SharedFile, <<"common">>), RefTo(Null, SharedFile, <<"closed">>)}
CodedField(categories, constraints) ==
  Object(("name" :> Scalar("f")) @@ (IF categories = Null THEN <<>> ELSE "categories" :> categories)
         @@ (IF constraints = Null THEN <<>> ELSE "constraints" :> constraints))
Schema(fields) == Object([fields |-> Items(fields), own |-> Labels])
Schemas ==
  {Schema(<<CodedField(c, k)>>) : c \in Categories, k \in SharedConstraints}
  \cup {Schema(<<CodedField(Null, Null), RefTo(Null, SharedFile, <<"field">>)>>), Object([name |-> Scalar("s")]), Schema(<<Object(<<>>)>>)}
Others ==
  {Null, Object([name |-> Scalar("s")])}
  \cup {Schema(<<CodedField(c, k)>>) :
          c \in {Null, Modes, RefTo(Null, SharedFile, <<"labels">>)}, k \in {Null, RefTo(Null, SharedFile, <<"common">>)}}
  \cup {Schema(<<CodedField(Null, Null), RefTo(Null, SharedFile, <<"field">>)>>)}

Inline(schema) == [file |-> Null, schema |-> schema]
LoadCases ==
  {[part |-> "load", documents |-> Documents, resources |-> r] :
     r \in UNION {{<<Inline(s), Inline(o)>>, <<Inline(o), Inline(s)>>} : s \in Schemas, o \in Others}}
FileCases ==
  {[part |-> "load", documents |-> (<<d, "s.json">> :> s) @@ Documents,
    resources |-> <<[file |-> <<d, f>>, schema |-> Null], Inline(o)>>] :
     s \in Schemas, o \in Others, d \in {"here", "web"}, f \in {"s.json", "gone.json"}}

Holds(case) ==
  /\ case.part = "schema" => ReportTellsTheRows(case.table, case.schema)
  /\ case.part = "structure" => StructureIsTold(case.resources, case.actual, Order)
LoadsHold(case) ==
  case.part = "load" =>
    /\ SchemasStandAlone(case.documents, "here", case.resources)
    /\ FirstFieldDecides(case.documents, "here", case.resources)
    /\ \A k \in DOMAIN case.resources :
         LET doc == SchemaDoc(case.documents, case.resources[k])
         IN  (doc # Null /\ doc # Error) => EnumsAreTheirCategories(case.documents, SchemaBase("here", case.resources[k]), doc)
=============================================================================
