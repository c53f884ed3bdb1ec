---------------------------- MODULE PackageFiles ----------------------------
(* Where the tables of a package are: the registry of format adapters and    *)
(* its dispatch (corral/io), the scan of a source and the layouts a package  *)
(* is written in (corral/dataset/package.py, netstead/network.py).           *)
(*                                                                           *)
(* A file name is the sequence of its dot-separated parts, a path the        *)
(* sequence of the names on it; a file system maps paths to nodes.  A node   *)
(* has a kind, "csv", "parquet", "duckdb", "zip", "dir" or "junk", and holds *)
(* a table, named tables, or the members of an archive.  The name of a table *)
(* is a file name without extension.  A table holds rows and the encoding of *)
(* its geometry.                                                             *)
EXTENDS Integers, Sequences, FiniteSets, TLC

CONSTANTS
  Null,
  NameOrder       \* the names of the model, sorted

Last(s) == s[Len(s)]
Front(s) == SubSeq(s, 1, Len(s) - 1)
InNameOrder(names) == SelectSeq(NameOrder, LAMBDA n : n \in names)
Flatten(parts) ==
  LET upTo[k \in 0..Len(parts)] == IF k = 0 THEN <<>> ELSE upTo[k - 1] \o parts[k] IN upTo[Len(parts)]

(* Path.stem drops the last extension; a name that begins with a dot has     *)
(* none there.                                                               *)
HasSuffix(name) == Len(name) > 1 /\ ~(Len(name) = 2 /\ name[1] = "")
Stem(name) == IF HasSuffix(name) THEN Front(name) ELSE name
EndsWith(name, ext) == Len(name) > Len(ext) /\ SubSeq(name, Len(name) - Len(ext) + 1, Len(name)) = ext

(* ------------------------------ the registry --------------------------- *)

Adapter(name, extensions, schemes) == [name |-> name, extensions |-> extensions, schemes |-> schemes]
EmptyRegistry == [names |-> <<>>, adapter |-> <<>>, byExt |-> <<>>, byScheme |-> <<>>]

Without(binding, name) == [k \in {j \in DOMAIN binding : binding[j] # name} |-> binding[k]]
PurgeBindingsFor(registry, name) ==
  [registry EXCEPT !.byExt = Without(@, name), !.byScheme = Without(@, name)]

(* A name that is registered again keeps its turn and loses what it claimed  *)
(* before; an extension belongs to the last one that claimed it.             *)
RegisterAdapter(registry, a) ==
  LET again == a.name \in DOMAIN registry.adapter
      kept == IF again THEN PurgeBindingsFor(registry, a.name) ELSE registry
  IN  [names |-> IF again THEN registry.names ELSE Append(registry.names, a.name),
       adapter |-> (a.name :> a) @@ registry.adapter,
       byExt |-> [e \in {a.extensions[i] : i \in DOMAIN a.extensions} |-> a.name] @@ kept.byExt,
       byScheme |-> [s \in a.schemes |-> a.name] @@ kept.byScheme]

RemoteSchemes == {"https", "s3"}
Stock ==
  LET given == <<Adapter("csv", <<<<"csv">>>>, {}), Adapter("duckdb", <<<<"duckdb">>>>, {"duckdb"}),
                 Adapter("parquet", <<<<"parquet">>>>, {}), Adapter("remote", <<>>, RemoteSchemes),
                 Adapter("zipcsv", <<<<"csv", "zip">>, <<"zip">>>>, {})>>
      upTo[k \in 0..Len(given)] == IF k = 0 THEN EmptyRegistry ELSE RegisterAdapter(upTo[k - 1], given[k])
  IN  upTo[Len(given)]

(* A source is a path, or a URL with a scheme, whose host is the first name. *)
Children(fs, path) == {p \in DOMAIN fs : Len(p) > 0 /\ Front(p) = path}
IsPartition(fs, p) == fs[p].kind = "dir" /\ Last(p)[1] = "key=value"
IsParquet(name) == HasSuffix(name) /\ EndsWith(name, <<"parquet">>)
LooksPartitioned(fs, path) ==
  /\ path \in DOMAIN fs /\ fs[path].kind = "dir"
  /\ \E p \in Children(fs, path) :
       \/ fs[p].kind # "dir" /\ (IsParquet(Last(p)) \/ Last(p) \in {<<"_metadata">>, <<"_common_metadata">>})
       \/ IsPartition(fs, p) /\ \E q \in Children(fs, p) : fs[q].kind # "dir" /\ IsParquet(Last(q))

IsCsvMember(member) == /\ member.folder # "__MACOSX" /\ member.name[1] # "" /\ EndsWith(member.name, <<"csv">>)
CsvMembers(node) == SelectSeq(node.members, IsCsvMember)

ProbeCsv(source) == EndsWith(Last(source.path), <<"csv">>)
ProbeDuckdb(source) == EndsWith(Last(source.path), <<"duckdb">>) \/ source.scheme = "duckdb"
ProbeParquet(fs, source) == IsParquet(Last(source.path)) \/ (source.scheme = Null /\ LooksPartitioned(fs, source.path))
ProbeRemote(source) == source.scheme \in RemoteSchemes
ProbeZip(fs, source) ==
  LET file == Last(source.path)
  IN  /\ EndsWith(file, <<"zip">>)
      /\ \/ EndsWith(file, <<"csv", "zip">>)
         \/ /\ source.scheme = Null /\ source.path \in DOMAIN fs
            /\ fs[source.path].kind = "zip" /\ CsvMembers(fs[source.path]) # <<>>
Probe(name, fs, source) ==
  CASE name = "csv" -> ProbeCsv(source) [] name = "duckdb" -> ProbeDuckdb(source)
    [] name = "parquet" -> ProbeParquet(fs, source) [] name = "remote" -> ProbeRemote(source)
    [] name = "zipcsv" -> ProbeZip(fs, source) [] OTHER -> FALSE

(* The name of the adapter that is found, or Null for an error: an explicit  *)
(* format, then the scheme, then the longest extension, then the first probe *)
(* that accepts the source.                                                  *)
Dispatch(registry, fs, source, format) ==
  LET file == Last(source.path)
      known == {i \in 2..Len(file) : SubSeq(file, i, Len(file)) \in DOMAIN registry.byExt}
      longest == CHOOSE i \in known : \A j \in known : i <= j
      accepting == {i \in DOMAIN registry.names : Probe(registry.names[i], fs, source)}
      first == CHOOSE i \in accepting : \A j \in accepting : i <= j
  IN  IF format # Null THEN IF format \in DOMAIN registry.adapter THEN format ELSE Null
      ELSE IF source.scheme \in DOMAIN registry.byScheme THEN registry.byScheme[source.scheme]
      ELSE IF known # {} THEN registry.byExt[SubSeq(file, longest, Len(file))]
      ELSE IF accepting # {} THEN registry.names[first]
      ELSE Null

(* ------------------------------- scanning ------------------------------ *)

Local(path) == [scheme |-> Null, path |-> path]
Ref(name, source, format, container, member) ==
  [name |-> name, source |-> source, format |-> format, container |-> container, member |-> member]
Listed(refs) == [ok |-> TRUE, refs |-> refs]
Raised(kind) == [ok |-> FALSE, kind |-> kind, refs |-> <<>>]

ScanZip(fs, source) ==
  IF source.path \notin DOMAIN fs THEN Raised("OSError")
  ELSE IF fs[source.path].kind # "zip" THEN Raised("BadZipFile")
  ELSE LET members == CsvMembers(fs[source.path])
       IN  Listed([i \in DOMAIN members |->
                     Ref(Stem(members[i].name), source, "csv", "zipcsv", [folder |-> members[i].folder, name |-> members[i].name])])

ScanDuckdb(fs, source) ==
  IF source.path \in DOMAIN fs /\ fs[source.path].kind = "duckdb"
    THEN LET names == InNameOrder(DOMAIN fs[source.path].tables)
         IN  Listed([i \in DOMAIN names |-> Ref(names[i], Local(source.path), "duckdb", "duckdb", names[i])])
    ELSE Raised("duckdb.Error")

(* The adapter of what is behind a URL, by its path without scheme and host, *)
(* and what a URL lists: the members of an archive, or itself.  A URL that   *)
(* is a folder of its file system is left out.                               *)
Stripped(source) == Local(Tail(source.path))
InnerAdapter(registry, fs, source, format) ==
  LET found == Dispatch(registry, fs, source, format)
      inner == Dispatch(registry, fs, Stripped(source), format)
  IN  IF found # "remote" THEN found ELSE IF inner = "remote" THEN Null ELSE inner

ResourceRefFor(source) ==
  LET file == Last(source.path) IN Ref(Stem(file), source, IF HasSuffix(file) THEN Last(file) ELSE "remote", Null, Null)
ScanRemote(registry, fs, source) ==
  IF InnerAdapter(registry, fs, source, Null) = "zipcsv" THEN ScanZip(fs, source) ELSE Listed(<<ResourceRefFor(source)>>)

ScanCsv(source) == Listed(<<Ref(Stem(Last(source.path)), source, "csv", Null, Null)>>)
ScanParquet(source) ==
  LET file == Last(source.path)
  IN  Listed(<<Ref(IF IsParquet(file) THEN Stem(file) ELSE file, source, "parquet", Null, Null)>>)
Scan(registry, fs, adapter, source) ==
  CASE adapter = "csv" -> ScanCsv(source) [] adapter = "parquet" -> ScanParquet(source)
    [] adapter = "duckdb" -> ScanDuckdb(fs, source) [] adapter = "zipcsv" -> ScanZip(fs, source)
    [] adapter = "remote" -> ScanRemote(registry, fs, source)

(* The files of a directory, each asked of the first adapter, in the order   *)
(* of registration, one of whose extensions it ends with; the first table of *)
(* a name counts.  A file that cannot be read is passed over when its error  *)
(* is one of forgiven, and else ends the scan.                               *)
Owners(registry) ==
  Flatten([i \in DOMAIN registry.names |->
    [k \in DOMAIN registry.adapter[registry.names[i]].extensions |->
       [ext |-> registry.adapter[registry.names[i]].extensions[k], name |-> registry.names[i]]]])
OwnerInDirectory(registry, file) ==
  LET owners == SelectSeq(Owners(registry), LAMBDA o : EndsWith(file, o.ext))
  IN  IF owners = <<>> THEN Null ELSE owners[1].name

NewNames(refs, seen) ==
  LET upTo[k \in 0..Len(refs)] ==
        IF k = 0 THEN seen
        ELSE LET before == upTo[k - 1]
             IN  IF \E i \in DOMAIN before : before[i].name = refs[k].name THEN before ELSE Append(before, refs[k])
  IN  upTo[Len(refs)]

ScanDirectoryOfKnownFormats(registry, fs, path, forgiven) ==
  LET names == InNameOrder({Last(p) : p \in {q \in Children(fs, path) : fs[q].kind # "dir"}})
      scanned(i) == LET owner == OwnerInDirectory(registry, names[i])
                    IN  IF owner = Null THEN Listed(<<>>)
                        ELSE Scan(registry, fs, owner, Local(Append(path, names[i])))
      upTo[k \in 0..Len(names)] ==
        IF k = 0 THEN Listed(<<>>)
        ELSE LET before == upTo[k - 1] one == scanned(k)
             IN  IF ~before.ok \/ (~one.ok /\ one.kind \in forgiven) THEN before
                 ELSE IF ~one.ok THEN one
                 ELSE Listed(NewNames(one.refs, before.refs))
  IN  upTo[Len(names)]

IsPartitionedParquetDir(fs, path) ==
  \E p \in Children(fs, path) : IsPartition(fs, p)
IsDirectory(fs, source) ==
  /\ source.scheme = Null /\ source.path \in DOMAIN fs /\ fs[source.path].kind = "dir"
  /\ ~IsPartitionedParquetDir(fs, source.path)

(* What a package load lists; a source no adapter knows lists nothing, a     *)
(* format nobody registered is an error.                                     *)
ScanSource(registry, fs, source, format) ==
  LET adapter == Dispatch(registry, fs, source, format)
  IN  IF IsDirectory(fs, source)
        THEN ScanDirectoryOfKnownFormats(registry, fs, source.path, {"OSError"})
      ELSE IF adapter # Null THEN Scan(registry, fs, adapter, source)
      ELSE IF format = Null THEN Listed(<<>>) ELSE Raised("AdapterNotAvailableError")

(* What the structural check looks at: Null when no adapter knows the source.*)
StructuralScan(registry, fs, source) ==
  LET adapter == Dispatch(registry, fs, source, Null)
  IN  IF IsDirectory(fs, source)
        THEN ScanDirectoryOfKnownFormats(registry, fs, source.path, {"OSError", "BadZipFile", "duckdb.Error"})
      ELSE IF adapter # Null THEN Scan(registry, fs, adapter, source)
      ELSE Null

(* ------------------------------- reading ------------------------------- *)

(* A selector names a member in full, or a table by its name alone when one  *)
(* member has it; Null for an error.                                         *)
PickMember(members, selector) ==
  LET target == IF EndsWith(selector.name, <<"csv">>) THEN selector.name ELSE Append(selector.name, "csv")
      exact == {i \in DOMAIN members : members[i].folder = selector.folder /\ members[i].name = target}
      loose == {i \in DOMAIN members : selector.folder = "" /\ members[i].name = target}
      one(set) == members[CHOOSE i \in set : TRUE].table
  IN  IF exact # {} THEN one(exact) ELSE IF Cardinality(loose) = 1 THEN one(loose) ELSE Null

Failed == [rows |-> Null, geometry |-> Null]
IsA(fs, source, kind) == source.path \in DOMAIN fs /\ fs[source.path].kind = kind
ReadCsv(fs, source) == IF IsA(fs, source, "csv") THEN fs[source.path].table ELSE Failed
ReadParquet(fs, source) ==
  LET below == {q \in DOMAIN fs : /\ fs[q].kind = "parquet" /\ Len(q) > Len(source.path)
                                  /\ SubSeq(q, 1, Len(source.path)) = source.path}
  IN  IF IsA(fs, source, "parquet") THEN fs[source.path].table
      ELSE IF LooksPartitioned(fs, source.path) /\ below # {} THEN fs[CHOOSE q \in below : TRUE].table ELSE Failed
ReadDuckdb(fs, source, member) ==
  IF IsA(fs, source, "duckdb") /\ member \in DOMAIN fs[source.path].tables THEN fs[source.path].tables[member]
  ELSE Failed
ReadZip(fs, source, member) ==
  LET found == PickMember(CsvMembers(fs[source.path]), member)
  IN  IF ~IsA(fs, source, "zip") \/ member = Null \/ found = Null THEN Failed ELSE found
ReadWith(adapter, fs, source, member) ==
  CASE adapter = "csv" -> ReadCsv(fs, source) [] adapter = "parquet" -> ReadParquet(fs, source)
    [] adapter = "duckdb" -> ReadDuckdb(fs, source, member) [] adapter = "zipcsv" -> ReadZip(fs, source, member)
    [] OTHER -> Failed

(* Behind a URL the reader is the adapter of what is there, or of the format *)
(* that was given.                                                           *)
ReadRemote(registry, fs, source, member, format) ==
  ReadWith(InnerAdapter(registry, fs, source, format), fs, source, member)

LooksRemote(source) == source.scheme \in RemoteSchemes

(* A table is read where it was found: through the remote adapter at a URL,  *)
(* told the format of the archive, and by the adapter of the archive else.   *)
ReadRef(registry, fs, ref) ==
  IF LooksRemote(ref.source) THEN ReadRemote(registry, fs, ref.source, ref.member, ref.container)
  ELSE ReadWith(IF ref.container # Null THEN ref.container ELSE ref.format, fs, ref.source, ref.member)

FromSource(registry, fs, source, format, wanted) ==
  LET listing == ScanSource(registry, fs, source, format)
      refs == SelectSeq(listing.refs, LAMBDA r : wanted = Null \/ r.name \in wanted)
      last(name) == CHOOSE i \in DOMAIN refs : refs[i].name = name /\ \A j \in DOMAIN refs : refs[j].name = name => j <= i
      table == [n \in {refs[i].name : i \in DOMAIN refs} |-> ReadRef(registry, fs, refs[last(n)])]
  IN  [ok |-> listing.ok /\ \A i \in DOMAIN refs : ReadRef(registry, fs, refs[i]) # Failed, table |-> table]

(* ------------------------------- writing ------------------------------- *)

InferWriteFormat(name) ==
  CASE EndsWith(name, <<"duckdb">>) -> "duckdb" [] EndsWith(name, <<"zip">>) -> "zipcsv"
    [] EndsWith(name, <<"parquet">>) -> "parquet" [] EndsWith(name, <<"csv">>) -> "csv"
    [] Len(name) = 1 -> "parquet" [] OTHER -> Null
ResolveWriteFormat(name, format) ==
  IF format = Null THEN InferWriteFormat(name) ELSE IF format = "zip" THEN "zipcsv" ELSE format

(* What a file of a format keeps of a geometry: text stays text, bytes are written out *)
(* as hexadecimal digits in a csv and read as a geometry from a parquet.     *)
Stored(table, format) ==
  [table EXCEPT !.geometry = IF @ = "wkb" THEN [csv |-> "hex", parquet |-> "geometry", duckdb |-> "wkb"][format] ELSE @]

Removed(fs, path) == [p \in {q \in DOMAIN fs : Len(q) < Len(path) \/ SubSeq(q, 1, Len(path)) # path} |-> fs[p]]
WriteDuckdb(tables, path) == path :> [kind |-> "duckdb", tables |-> [n \in DOMAIN tables |-> Stored(tables[n], "duckdb")]]
WriteDirectory(tables, path, ext) ==
  path :> [kind |-> "dir"]
  @@ [p \in {Append(path, Append(n, ext)) : n \in DOMAIN tables} |->
        [kind |-> ext, table |-> Stored(tables[Front(Last(p))], ext)]]
WriteZip(tables, path) ==
  LET names == InNameOrder(DOMAIN tables)
  IN  path :> [kind |-> "zip",
               members |-> [i \in DOMAIN names |->
                              [folder |-> "", name |-> Append(names[i], "csv"), table |-> Stored(tables[names[i]], "csv")]]
                           \o <<[folder |-> "", name |-> <<"datapackage", "json">>, table |-> Null]>>]

Write(fs, tables, dest, format, overwrite) ==
  LET target == ResolveWriteFormat(Last(dest.path), format)
      layout == CASE target = "duckdb" -> WriteDuckdb(tables, dest.path)
                  [] target = "zipcsv" -> WriteZip(tables, dest.path)
                  [] target \in {"csv", "parquet"} -> WriteDirectory(tables, dest.path, target)
      refused == \/ dest.scheme # Null \/ target \notin {"csv", "parquet", "duckdb", "zipcsv"}
                 \/ dest.path \in DOMAIN fs /\ ~overwrite
  IN  IF refused THEN [ok |-> FALSE, fs |-> fs] ELSE [ok |-> TRUE, fs |-> layout @@ Removed(fs, dest.path)]

(* A network holds geometry as bytes: encoded when it is loaded, written as  *)
(* text to the formats that are text.                                        *)
EncodeWkb(table) ==
  IF table.geometry \in {"wkt", "geometry"} THEN [table EXCEPT !.geometry = "wkb"]
  ELSE IF table.geometry = "hex" THEN Failed ELSE table
DecodeWkt(table) == IF table.geometry = "wkb" THEN [table EXCEPT !.geometry = "wkt"] ELSE table

NetworkFromSource(registry, fs, source, format, wanted) ==
  LET base == FromSource(registry, fs, source, format, wanted)
      table == [n \in DOMAIN base.table |-> EncodeWkb(base.table[n])]
  IN  [ok |-> base.ok /\ \A n \in DOMAIN table : table[n] # Failed, table |-> table]

(* Plausible bug: the text formats are told by the name, not by the format.  *)
NetworkWriteByName(fs, tables, dest, format, overwrite) ==
  LET text == InferWriteFormat(Last(dest.path)) \in {"csv", "zipcsv"}
  IN  Write(fs, IF text THEN [n \in DOMAIN tables |-> DecodeWkt(tables[n])] ELSE tables, dest, format, overwrite)
NetworkWrite(fs, tables, dest, format, overwrite) ==
  LET text == ResolveWriteFormat(Last(dest.path), format) \in {"csv", "zipcsv"}
  IN  Write(fs, IF text THEN [n \in DOMAIN tables |-> DecodeWkt(tables[n])] ELSE tables, dest, format, overwrite)

(* ------------------------------ properties ----------------------------- *)

(* A network that is written comes back as it was, from where it was written *)
(* with the format that was given, if one was: whatever was there before,    *)
(* and whatever the name says (package.py:706).  An archive is read without  *)
(* its hidden files, so a table whose name begins with a dot stays in there. *)
WrittenNetworkComesBack(fs, tables, dest, format) ==
  LET written == NetworkWrite(fs, tables, dest, format, TRUE)
      target == ResolveWriteFormat(Last(dest.path), format)
      loaded == NetworkFromSource(Stock, written.fs, dest, IF format = Null THEN Null ELSE target, Null)
      visible == {n \in DOMAIN tables : target = "zipcsv" => n[1] # ""}
  IN  written.ok => loaded.ok /\ loaded.table = [n \in visible |-> tables[n]]

(* The structural check and the load look at the same files: a package that  *)
(* is loaded has the tables the check found at the source, and what the      *)
(* check cannot name, no adapter loads (structural.py:303, package.py:1203). *)
CheckSeesWhatIsLoaded(fs, source) ==
  LET loaded == FromSource(Stock, fs, source, Null, Null)
      seen == StructuralScan(Stock, fs, source)
  IN  loaded.ok => DOMAIN loaded.table = IF seen = Null THEN {} ELSE {seen.refs[i].name : i \in DOMAIN seen.refs}

(* After any registrations an extension or a scheme is bound to an adapter   *)
(* that is registered and claims it, so dispatch never finds one that is     *)
(* gone (io/__init__.py:116-119).                                            *)
BindingsAreClaimed(adapters) ==
  LET upTo[k \in 0..Len(adapters)] == IF k = 0 THEN EmptyRegistry ELSE RegisterAdapter(upTo[k - 1], adapters[k])
      registry == upTo[Len(adapters)]
  IN  /\ DOMAIN registry.adapter = {registry.names[i] : i \in DOMAIN registry.names}
      /\ \A e \in DOMAIN registry.byExt :
           /\ registry.byExt[e] \in DOMAIN registry.adapter
           /\ \E i \in DOMAIN registry.adapter[registry.byExt[e]].extensions :
                registry.adapter[registry.byExt[e]].extensions[i] = e
      /\ \A s \in DOMAIN registry.byScheme :
           /\ registry.byScheme[s] \in DOMAIN registry.adapter
           /\ s \in registry.adapter[registry.byScheme[s]].schemes
=============================================================================
