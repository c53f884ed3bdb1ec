----------------------------- MODULE SpecLoading -----------------------------
(* The loader of data packages and table schemas of corral/spec/loader.py:   *)
(* references into other documents are replaced by what they point at, and   *)
(* the categories of a field become the values it may have.                  *)
(*                                                                           *)
(* A JSON value is [obj |-> function], [list |-> sequence] or [is |-> text]. *)
(* A reference is an object whose "$ref" is a record of the url (or Null) and*)
(* the file (Null for the document itself) and the tokens of the pointer.    *)
(* What a reference points at is shared, not copied, and is changed in place *)
(* later: so the documents are a store, and a resolved value holds the place *)
(* [at |-> <<document, tokens>>] of what it shares.                          *)
EXTENDS Integers, Sequences, SequencesExt, TLC

CONSTANT Null

Error == [error |-> TRUE]
IsObj(value) == DOMAIN value = {"obj"}
IsList(value) == DOMAIN value = {"list"}
IsPlace(value) == DOMAIN value = {"at"}
Keys(value) == IF IsObj(value) THEN DOMAIN value.obj ELSE {}

-----------------------------------------------------------------------------
(* Pointers and references.                                                  *)

Join(base, ref) == IF ref.url # Null THEN <<ref.url, ref.file>> ELSE <<base, ref.file>>

(* A negative index counts from the end, as an index of a list does.         *)
Index(items, token) ==
  LET n == [t \in {"0", "1", "-1"} |-> CASE t = "0" -> 1 [] t = "1" -> 2 [] OTHER -> Len(items)]
  IN  IF token \in DOMAIN n THEN n[token] ELSE 0
Descend(value, token) ==
  CASE IsList(value) -> IF Index(value.list, token) \in DOMAIN value.list THEN value.list[Index(value.list, token)] ELSE Error
    [] IsObj(value) -> IF token \in DOMAIN value.obj THEN value.obj[token] ELSE Error
    [] OTHER -> Error
ResolvePointer(doc, tokens) == FoldLeft(Descend, doc, tokens)

IsRef(value) == "$ref" \in Keys(value)
RefOf(value) == value.obj["$ref"]

(* The place a reference names; the document itself is self.                 *)
Target(store, base, self, ref) ==
  LET document == IF ref.file = Null THEN self ELSE Join(base, ref)
  IN  IF document \in DOMAIN store /\ ResolvePointer(store[document], ref.tokens) # Error
      THEN [at |-> <<document, ref.tokens>>] ELSE Error

(* References in what a reference points at are left as they are.            *)
RECURSIVE ResolveRefs(_, _, _, _)
ResolveRefs(value, base, store, self) ==
  CASE IsRef(value) -> Target(store, base, self, RefOf(value))
    [] IsObj(value) /\ ~IsRef(value) -> [obj |-> [k \in DOMAIN value.obj |-> ResolveRefs(value.obj[k], base, store, self)]]
    [] IsList(value) -> [list |-> [i \in DOMAIN value.list |-> ResolveRefs(value.list[i], base, store, self)]]
    [] OTHER -> value
RECURSIVE HasError(_)
HasError(value) ==
  \/ value = Error
  \/ IsObj(value) /\ \E k \in DOMAIN value.obj : HasError(value.obj[k])
  \/ IsList(value) /\ \E i \in DOMAIN value.list : HasError(value.list[i])

-----------------------------------------------------------------------------
(* Places in the store.                                                      *)

Get(store, place) == ResolvePointer(store[place[1]], place[2])
Child(store, place, token) ==
  LET child == Descend(Get(store, place), token)
  IN  IF IsPlace(child) THEN child.at ELSE <<place[1], Append(place[2], token)>>
RECURSIVE WithValue(_, _, _)
WithValue(doc, tokens, value) ==
  IF tokens = <<>> THEN value
  ELSE LET token == Head(tokens)
           below == WithValue(IF token \in Keys(doc) \/ IsList(doc) THEN Descend(doc, token) ELSE [obj |-> <<>>], Tail(tokens), value)
       IN  IF IsList(doc) THEN [doc EXCEPT !.list[Index(doc.list, token)] = below]
           ELSE [obj |-> (token :> below) @@ doc.obj]
Set(store, place, value) == [store EXCEPT ![place[1]] = WithValue(@, place[2], value)]

(* The value at a place with everything it shares.                           *)
RECURSIVE Whole(_, _)
Whole(store, value) ==
  CASE IsPlace(value) -> Whole(store, Get(store, value.at))
    [] IsObj(value) -> [obj |-> [k \in DOMAIN value.obj |-> Whole(store, value.obj[k])]]
    [] IsList(value) -> [list |-> [i \in DOMAIN value.list |-> Whole(store, value.list[i])]]
    [] OTHER -> value

-----------------------------------------------------------------------------
(* Categories.                                                               *)

CategoryValues(store, categories) ==
  LET whole == Whole(store, categories)
      items == IF IsList(whole) THEN whole.list ELSE <<>>
  IN  CASE ~IsList(whole) -> Null
        [] IsList(whole) /\ \A i \in DOMAIN items : "value" \in Keys(items[i]) -> [list |-> [i \in DOMAIN items |-> items[i].obj["value"]]]
        [] IsList(whole) /\ items # <<>> /\ \A i \in DOMAIN items : ~IsObj(items[i]) /\ ~IsList(items[i]) -> whole
        [] OTHER -> Null

InlineField(store, place) ==
  LET field == Get(store, place)
      values == IF "categories" \in Keys(field) THEN CategoryValues(store, field.obj["categories"]) ELSE Null
      given == IF "constraints" \in Keys(field) THEN store ELSE Set(store, <<place[1], Append(place[2], "constraints")>>, [obj |-> <<>>])
      constraints == Child(given, place, "constraints")
  IN  IF values = Null THEN store
      ELSE IF ~IsObj(Get(given, constraints)) \/ "enum" \in Keys(Get(given, constraints)) THEN given
      ELSE Set(given, <<constraints[1], Append(constraints[2], "enum")>>, values)
InlineSharedCategories(store, root) ==
  LET fields == IF "fields" \in Keys(Get(store, root)) THEN Child(store, root, "fields") ELSE Null
      tokens == <<"0", "1">>
  IN  IF fields = Null \/ ~IsList(Get(store, fields)) THEN store
      ELSE FoldLeft(LAMBDA s, token : InlineField(s, Child(s, fields, token)), store, SubSeq(tokens, 1, Len(Get(store, fields).list)))

-----------------------------------------------------------------------------
(* The models the documents are read into.                                   *)

ParsedConstraints(value) ==
  IF "enum" \in Keys(value) THEN IF IsList(value.obj["enum"]) THEN [enum |-> value.obj["enum"].list] ELSE Error ELSE [enum |-> Null]
ParsedField(value) ==
  LET constraints ==
        IF "constraints" \notin Keys(value) \/ value.obj["constraints"] = [is |-> Null] THEN [enum |-> Null]
        ELSE IF IsObj(value.obj["constraints"]) THEN ParsedConstraints(value.obj["constraints"]) ELSE Error
  IN  IF "name" \notin Keys(value) \/ constraints = Error THEN Error ELSE [name |-> value.obj["name"], enum |-> constraints.enum]
ParsedSchema(value) ==
  IF "fields" \notin Keys(value) \/ ~IsList(value.obj["fields"]) THEN Error
  ELSE LET fields == [i \in DOMAIN value.obj["fields"].list |-> ParsedField(value.obj["fields"].list[i])]
       IN  IF \E i \in DOMAIN fields : fields[i] = Error THEN Error ELSE [fields |-> fields]

-----------------------------------------------------------------------------
(* Loading.  A document that cannot be read is not in documents.             *)

LoadSchema(documents, base, doc) ==
  LET self == <<"self", 0>>
      root == <<"schema", 0>>
      store == (self :> doc) @@ documents
      resolved == ResolveRefs(doc, base, store, self)
      done == InlineSharedCategories((root :> resolved) @@ store, <<root, <<>>>>)
  IN  IF ~IsObj(doc) \/ HasError(resolved) \/ ~IsObj(Get((root :> resolved) @@ store, <<root, <<>>>>)) THEN Error
      ELSE ParsedSchema(Whole(done, done[root]))

(* The schema of a resource is a file, given by its directory and name, an   *)
(* object in the descriptor, or Null.                                        *)
SchemaDoc(documents, resource) ==
  IF resource.file = Null THEN resource.schema
  ELSE IF resource.file \in DOMAIN documents THEN documents[resource.file] ELSE Error
SchemaBase(base, resource) == IF resource.file = Null THEN base ELSE resource.file[1]

LoadResource(state, base, documents, resource, k) ==
  LET doc == SchemaDoc(documents, resource)
      self == <<"self", k>>
      root == <<"schema", k>>
      store == (self :> doc) @@ state.store
      resolved == ResolveRefs(doc, SchemaBase(base, resource), store, self)
      placed == (root :> resolved) @@ store
  IN  IF state.error \/ doc = Null THEN state
      ELSE IF doc = Error \/ HasError(resolved) THEN [state EXCEPT !.error = TRUE]
      ELSE [state EXCEPT !.store = IF IsObj(Whole(placed, resolved)) THEN InlineSharedCategories(placed, <<root, <<>>>>) ELSE placed]
ParsedResource(state, k) ==
  IF <<"schema", k>> \in DOMAIN state.store THEN ParsedSchema(Whole(state.store, state.store[<<"schema", k>>])) ELSE Null
LoadPackage(documents, base, resources) ==
  LET state == FoldLeft(LAMBDA s, k : LoadResource(s, base, documents, resources[k], k), [error |-> FALSE, store |-> documents],
                        [k \in DOMAIN resources |-> k])
      parsed == [k \in DOMAIN resources |-> ParsedResource(state, k)]
  IN  IF state.error \/ \E k \in DOMAIN parsed : parsed[k] = Error THEN Error ELSE parsed

-----------------------------------------------------------------------------
(* Properties.                                                               *)

(* The fields of a schema, and whether a field has its constraints to itself.*)
RawFields(doc) == IF "fields" \in Keys(doc) /\ IsList(doc.obj["fields"]) THEN doc.obj["fields"].list ELSE <<>>
OwnsConstraints(field) ==
  ~IsRef(field) /\ ("constraints" \in Keys(field) => ~IsRef(field.obj["constraints"]))

(* A resource of a package has the schema it has when its schema is loaded   *)
(* alone, whatever the schemas before it and after it: what the loads share  *)
(* is not changed by one of them (loader.py:249, 411).  It holds where the   *)
(* constraints of a field are its own; of those that fields share,           *)
(* FirstFieldDecides tells.                                                  *)
SchemasStandAlone(documents, base, resources) ==
  LET package == LoadPackage(documents, base, resources)
      alone == [k \in DOMAIN resources |->
                  IF SchemaDoc(documents, resources[k]) = Null THEN Null
                  ELSE IF SchemaDoc(documents, resources[k]) = Error THEN Error
                  ELSE LoadSchema(documents, SchemaBase(base, resources[k]), SchemaDoc(documents, resources[k]))]
      docs == {SchemaDoc(documents, resources[k]) : k \in DOMAIN resources} \ {Null, Error}
  IN  (\A doc \in docs : \A i \in DOMAIN RawFields(doc) : OwnsConstraints(RawFields(doc)[i])) =>
        package = IF \E k \in DOMAIN alone : alone[k] = Error THEN Error ELSE alone

Followed(documents, base, doc, value) ==
  IF ~IsRef(value) THEN value
  ELSE ResolvePointer(IF RefOf(value).file = Null THEN doc ELSE documents[Join(base, RefOf(value))], RefOf(value).tokens)
OwnEnum(field) ==
  IF "constraints" \in Keys(field) /\ "enum" \in Keys(field.obj["constraints"]) THEN field.obj["constraints"].obj["enum"].list ELSE Null

(* The values of the categories of a field, Null if it has none.             *)
ValuesOf(documents, base, doc, field) ==
  LET categories == IF "categories" \in Keys(field) THEN Followed(documents, base, doc, field.obj["categories"]) ELSE [is |-> Null]
      items == [j \in DOMAIN categories.list |-> Followed(documents, base, doc, categories.list[j])]
  IN  IF IsList(categories) THEN CategoryValues(<<>>, [list |-> items]) ELSE Null

(* The values of a field are those it gives itself, and those of its own     *)
(* categories, wherever they are kept, where it gives none.                  *)
EnumsAreTheirCategories(documents, base, doc) ==
  LET schema == LoadSchema(documents, base, doc)
      raw == RawFields(doc)
  IN  schema # Error /\ raw # <<>> =>
        \A i \in DOMAIN raw : OwnsConstraints(raw[i]) =>
          LET values == ValuesOf(documents, base, doc, raw[i])
          IN  schema.fields[i].enum =
                CASE OwnEnum(raw[i]) # Null -> OwnEnum(raw[i])
                  [] OwnEnum(raw[i]) = Null /\ values # Null /\ ("constraints" \in Keys(raw[i]) => IsObj(raw[i].obj["constraints"])) -> values.list
                  [] OTHER -> Null

(* Constraints that fields of a package share have the values they give      *)
(* themselves, or else those of the first field with categories that refers  *)
(* to them, for every field that does, and no others.  What loader.py:224    *)
(* to 226 says of any field with categories is so of that first one only,    *)
(* since the constraints are changed where they are kept (loader.py:245-249).*)
SharedBy(base, field) ==
  IF "constraints" \in Keys(field) /\ IsRef(field.obj["constraints"])
    THEN <<Join(base, RefOf(field.obj["constraints"])), RefOf(field.obj["constraints"]).tokens>> ELSE Null
FirstFieldDecides(documents, base, resources) ==
  LET package == LoadPackage(documents, base, resources)
      doc(k) == SchemaDoc(documents, resources[k])
      at(k) == SchemaBase(base, resources[k])
      places == FlattenSeq([k \in DOMAIN resources |->
                  [i \in DOMAIN (IF doc(k) = Null THEN <<>> ELSE RawFields(doc(k))) |-> <<k, i>>]])
      raw(p) == RawFields(doc(p[1]))[p[2]]
      shared(p) == SharedBy(at(p[1]), raw(p))
      values(p) == ValuesOf(documents, at(p[1]), doc(p[1]), raw(p))
  IN  package # Error =>
        \A n \in DOMAIN places : LET p == places[n] IN shared(p) # Null =>
          LET constraints == Followed(documents, at(p[1]), doc(p[1]), raw(p).obj["constraints"])
              setters == SelectSeq(places, LAMBDA q : shared(q) = shared(p) /\ values(q) # Null)
          IN  package[p[1]].fields[p[2]].enum =
                CASE "enum" \in Keys(constraints) -> constraints.obj["enum"].list
                  [] "enum" \notin Keys(constraints) /\ setters # <<>> -> values(Head(setters)).list
                  [] OTHER -> Null
=============================================================================
