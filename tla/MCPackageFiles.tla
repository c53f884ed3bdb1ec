--------------------------- MODULE MCPackageFiles ---------------------------
(* The cases of PackageFiles: packages written over what may be there        *)
(* already, in every format, to names that say another; sources of every     *)
(* kind, damaged and doubled files among them; and adapters that claim the   *)
(* same extensions.                                                          *)
EXTENDS PackageFiles

link == <<"link">>
dotted == <<"a", "csv">>
hidden == <<"", "x">>
InBytes == [rows |-> 1, geometry |-> "wkb"]
Plain == [rows |-> 2, geometry |-> "none"]
Text == [rows |-> 3, geometry |-> "wkt"]

File(kind, table) == [kind |-> kind, table |-> table]
Junk == [kind |-> "junk"]
Dir == [kind |-> "dir"]
Archive(members) == [kind |-> "zip", members |-> members]
Member(folder, name, table) == [folder |-> folder, name |-> name, table |-> table]
Zipped == Archive(<<Member("__MACOSX", <<"link", "csv">>, Plain), Member("", <<"", "x", "csv">>, Plain),
                    Member("p", <<"link", "csv">>, Text), Member("", <<"a", "csv">>, Plain)>>)
Base(tables) == [kind |-> "duckdb", tables |-> tables]

Destinations ==
  {Local(<<n>>) : n \in {<<"out">>, <<"out", "csv">>, <<"out", "parquet">>, <<"out", "duckdb">>, <<"out", "zip">>,
                         <<"out", "csv", "zip">>, <<"out", "pkg">>}} \cup {[scheme |-> "s3", path |-> <<<<"h">>, <<"out">>>>]}
Before(dest) ==
  {<<>>, dest.path :> Junk, dest.path :> Dir @@ Append(dest.path, <<"old", "csv">>) :> File("csv", Plain)}

RoundTrips ==
  UNION {{[part |-> "round trip", fs |-> fs, tables |-> [n \in names |-> IF n = link THEN InBytes ELSE Plain],
           dest |-> d, format |-> f] : fs \in Before(d)} :
         d \in Destinations, names \in SUBSET {link, dotted, hidden},
         f \in {Null, "csv", "parquet", "duckdb", "zip", "zipcsv", "remote"}}

(* Files of every name in a directory, containers that may be damaged.       *)
Sound ==
  <<"a", "csv">> :> File("csv", Plain) @@ <<"a", "duckdb">> :> Base(link :> InBytes @@ <<"a">> :> Plain)
  @@ <<"a", "zip">> :> Zipped @@ <<"link", "parquet">> :> File("parquet", Plain)
  @@ <<"", "x", "csv">> :> File("csv", Text) @@ <<"old", "pkg">> :> Junk @@ <<"key=value">> :> Dir
Containers == {<<"a", "duckdb">>, <<"a", "zip">>}
Folders ==
  LET sound == Sound
  IN  {[n \in names |-> IF n \in damaged THEN Junk ELSE sound[n]] :
         names \in SUBSET DOMAIN sound, damaged \in SUBSET Containers}
InFolder(files) ==
  <<<<"d">>>> :> Dir @@ [p \in {<<<<"d">>, n>> : n \in DOMAIN files} |-> files[Last(p)]]
  @@ IF <<"key=value">> \in DOMAIN files
       THEN <<<<"d">>, <<"key=value">>, <<"a", "parquet">>>> :> File("parquet", Text) ELSE <<>>
Alone(scheme, name, node) ==
  [part |-> "source", fs |-> <<<<"h">>, name>> :> node, source |-> [scheme |-> scheme, path |-> <<<<"h">>, name>>]]
Sources ==
  {[part |-> "source", fs |-> InFolder(f), source |-> Local(<<<<"d">>>>)] : f \in Folders}
  \cup {Alone(s, n, node) : s \in {Null, "https", "s3", "duckdb"}, n \in DOMAIN Sound, node \in {Junk} \cup {Sound[k] : k \in DOMAIN Sound}}
  \cup {Alone(s, <<"a", "csv", "zip">>, node) : s \in {Null, "https"}, node \in {Zipped, Junk, Archive(<<>>)}}

Claims == {Adapter(n, e, s) : n \in {"csv", "own"}, e \in {<<>>, <<<<"csv">>>>, <<<<"csv">>, <<"zip">>>>}, s \in {{}, {"s3"}}}
Registrations == {[part |-> "registry", adapters |-> a] : a \in UNION {[1..n -> Claims] : n \in 0..3}}

Holds(case) ==
  /\ case.part = "round trip" => WrittenNetworkComesBack(case.fs, case.tables, case.dest, case.format)
  /\ case.part = "source" => CheckSeesWhatIsLoaded(case.fs, case.source)
  /\ case.part = "registry" => BindingsAreClaimed(case.adapters)
=============================================================================
