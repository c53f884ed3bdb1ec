---------------------------- MODULE PackageSync ----------------------------
(***************************************************************************)
(* A Package kept in memory between loading and writing                    *)
(* (corral/dataset/package.py): edits and their reversal, tables replaced  *)
(* or removed, validation with its foreign-key stamps, the DirtyTracker    *)
(* (corral/validation/sync_state.py) and the write with its two checks for *)
(* stale tables. A Package belongs to one thread, so nothing happens to it *)
(* during a validation or a write; a write can fail at any of its steps.   *)
(*                                                                         *)
(* The contents of a table give each of its columns a sequence of keys, of *)
(* equal lengths. A content hash is the contents it is computed from.      *)
(***************************************************************************)
EXTENDS Naturals, FiniteSets, Sequences, SequencesExt

CONSTANTS
  Tables,
  Contents,     \* what each table may hold
  ForeignKeys,  \* [source, fields, target, keys], fields and keys sequences of columns
  Required,     \* <<table, column>> of the columns that may not hold nulls
  Null,
  Loaded,       \* the contents a package may be loaded with
  Assigned,     \* tables whose contents callers assign without saying so
  MaxChanges,   \* bound: changes of tables in a behaviour
  MaxStamps,    \* bound: foreign-key stamps
  Absent        \* no output at the destination

Formats == {"folder", "duckdb", "zip"}

\* The output as it is laid out on disk: a folder, or a file.
KindOf(format) == IF format = "folder" THEN "folder" ELSE "file"

ASSUME ForeignKeysAssumption ==
  \A fk \in ForeignKeys : /\ {fk.source, fk.target} \subseteq Tables
                          /\ 1 \in DOMAIN fk.fields /\ DOMAIN fk.fields = DOMAIN fk.keys

AllContents == UNION {Contents[t] : t \in Tables}
Partial     == UNION {[names -> AllContents] : names \in SUBSET Tables}

ASSUME ContentsAssumption == DOMAIN Contents = Tables /\ Loaded \subseteq Partial

VARIABLES
  tables,   \* Package.tables: contents and dirty flag of those in the package
  tracked,  \* a DirtyTracker is attached
  stamps,   \* DirtyTracker._tables
  fkStamps, \* DirtyTracker._fks
  results,  \* edits that can be reversed, the oldest first
  writing,  \* the write in progress, or how the last one ended
  dest,     \* the output at the destination
  changes,  \* how many changes there were
  loaded,   \* history: the contents each Table was made with
  poked     \* history: tables changed behind the package's back

package == <<tables, results, changes, loaded, poked>>
tracker == <<tracked, stamps, fkStamps>>
disk    == <<writing, dest>>
vars    == <<package, tracker, disk>>

-----------------------------------------------------------------------------
(* Foreign keys.                                                           *)

Has(contents, columns) == ToSet(columns) \subseteq DOMAIN contents

\* What the rows hold in the columns.
RowKeys(contents, columns) ==
  {[i \in DOMAIN columns |-> contents[columns[i]][r]] : r \in DOMAIN contents[columns[1]]}

HoldsNull(key) == Null \in ToSet(key)

Issue(code, fk, keys) == [code |-> code, table |-> fk.source, target |-> fk.target, keys |-> keys]

MissingTarget(fk, source, target) ==
  {k \in RowKeys(source, fk.fields) : ~HoldsNull(k)} \ RowKeys(target, fk.keys) # {}

\* A null is reported without naming the target.
NullIssue(fk) == [code |-> "fk.null_in_required_fk", table |-> fk.source]

RowIssues(fk, source, target) ==
  LET nulls   == \E f \in ToSet(fk.fields) \cap DOMAIN source :
                   <<fk.source, f>> \in Required /\ HoldsNull(source[f])
      missing == Has(source, fk.fields) /\ MissingTarget(fk, source, target)
  IN  {i \in {NullIssue(fk)} : nulls} \cup {i \in {Issue("fk.missing_target", fk, fk.keys)} : missing}

\* check_foreign_key
FkIssues(fk, tabs) ==
  IF fk.source \notin DOMAIN tabs THEN {}
  ELSE IF fk.target \notin DOMAIN tabs THEN {Issue("fk.unverifiable", fk, fk.keys)}
  ELSE LET absent == ToSet(fk.keys) \ DOMAIN tabs[fk.target].rows IN
       IF absent # {} THEN {Issue("fk.target_field_missing", fk, <<k>>) : k \in absent}
       ELSE RowIssues(fk, tabs[fk.source].rows, tabs[fk.target].rows)

\* check_foreign_keys
Checked(tabs) == UNION {FkIssues(fk, tabs) : fk \in ForeignKeys}

Hash(contents, columns) == [i \in DOMAIN columns |-> contents[columns[i]]]

Stamp(fk, tabs) ==
  [fk |-> fk, source |-> Hash(tabs[fk.source].rows, fk.fields), target |-> Hash(tabs[fk.target].rows, fk.keys)]

\* The tables and the columns of the foreign key are there to be hashed.
Hashable(fk, tabs) ==
  /\ {fk.source, fk.target} \subseteq DOMAIN tabs
  /\ Has(tabs[fk.source].rows, fk.fields)
  /\ Has(tabs[fk.target].rows, fk.keys)

\* An issue whose table, target and target fields are those of the foreign key.
Surfaced(fk, issues) == \E i \in issues : i = Issue(i.code, fk, fk.keys)

\* Plausible bug: every foreign key that can be hashed is stamped.
StampsOfAll(tabs, issues) == {Stamp(fk, tabs) : fk \in {f \in ForeignKeys : Hashable(f, tabs)}}

\* _stamp_clean_fks
NewStamps(tabs, issues) ==
  {Stamp(fk, tabs) : fk \in {f \in ForeignKeys : Hashable(f, tabs) /\ ~Surfaced(f, issues)}}

\* stale_fks
Stale(stamp, tabs) == ~Hashable(stamp.fk, tabs) \/ Stamp(stamp.fk, tabs) # stamp

\* check: what a validation with the sync-state pass reports of the stamps.
SyncIssues(tabs, fks) ==
  {[code |-> IF Hashable(s.fk, tabs) THEN "sync.fk_stale" ELSE "sync.unverifiable", fk |-> s.fk] :
     s \in {x \in fks : Stale(x, tabs)}}

-----------------------------------------------------------------------------
(* The tables.                                                             *)

NoTables    == [t \in {} |-> Null]
Empty(kind) == [kind |-> kind, tables |-> NoTables]

NoWrite ==
  [pc |-> "none", format |-> "folder", strict |-> FALSE, stale |-> {}, before |-> Absent, done |-> NoTables]

Init ==
  /\ \E l \in Loaded : /\ loaded = l
                       /\ tables = [t \in DOMAIN l |-> [rows |-> l[t], dirty |-> FALSE]]
  /\ tracked \in BOOLEAN
  /\ stamps = NoTables
  /\ fkStamps = {}
  /\ results = <<>>
  /\ writing = NoWrite
  /\ dest \in {Absent, Empty("folder"), Empty("file")}
  /\ changes = 0
  /\ poked = {}

\* A write changes nothing of the package: a behaviour ends with its first one.
Idle   == writing.pc = "none"
Busy   == writing.pc \in {"parts", "staged"}
Change == Idle /\ changes < MaxChanges /\ changes' = changes + 1

\* mark_dirty
Unstamped(t) == stamps' = [u \in DOMAIN stamps \ {t} |-> stamps[u]]
MarkDirty(t) == IF tracked THEN Unstamped(t) ELSE UNCHANGED stamps

\* apply_edit
ApplyEdit(t, c) ==
  /\ Change
  /\ results' = Append(results, [table |-> t, rows |-> tables[t].rows, dirty |-> tables[t].dirty])
  /\ tables' = [tables EXCEPT ![t] = [rows |-> c, dirty |-> TRUE]]
  /\ MarkDirty(t)
  /\ UNCHANGED <<loaded, poked, tracked, fkStamps, disk>>

\* Plausible bug: a reversed edit leaves its table clean.
ReverseEditToClean ==
  /\ Idle /\ results # <<>>
  /\ LET r == Last(results) IN
       /\ tables' = [tables EXCEPT ![r.table] = [rows |-> r.rows, dirty |-> FALSE]]
       /\ MarkDirty(r.table)
  /\ results' = Front(results)
  /\ UNCHANGED <<changes, loaded, poked, tracked, fkStamps, disk>>

\* reverse_edit of the newest edit. It is exact here: Editing is about when it is.
ReverseEdit ==
  /\ Idle /\ results # <<>>
  /\ LET r == Last(results) IN
       /\ tables' = [tables EXCEPT ![r.table] = [rows |-> r.rows, dirty |-> r.dirty]]
       /\ MarkDirty(r.table)
  /\ results' = Front(results)
  /\ UNCHANGED <<changes, loaded, poked, tracked, fkStamps, disk>>

\* Callers replace and remove no table whose edits they may still reverse.
Settled(t) == \A i \in DOMAIN results : results[i].table # t

With(f, t, v) == [u \in DOMAIN f \cup {t} |-> IF u = t THEN v ELSE f[u]]

\* add_table: the tracker is not told.
AddTable(t, c) ==
  /\ Change /\ Settled(t)
  /\ tables' = With(tables, t, [rows |-> c, dirty |-> FALSE])
  /\ loaded' = With(loaded, t, c)
  /\ poked' = poked \ {t}
  /\ UNCHANGED <<results, tracker, disk>>

\* remove_table
RemoveTable(t) ==
  /\ Change /\ Settled(t)
  /\ tables' = [u \in DOMAIN tables \ {t} |-> tables[u]]
  /\ UNCHANGED <<results, loaded, poked, tracker, disk>>

\* The caller assigns Table.expr, and may then say so with invalidate.
Poke(t, c) ==
  /\ Change /\ Settled(t) /\ t \in Assigned
  /\ tables' = [tables EXCEPT ![t].rows = c]
  /\ poked' = poked \cup {t}
  /\ UNCHANGED <<results, loaded, tracker, disk>>

\* invalidate
Invalidate(t) ==
  /\ Idle
  /\ tables' = [tables EXCEPT ![t].dirty = TRUE]
  /\ MarkDirty(t)
  /\ UNCHANGED <<results, changes, loaded, poked, tracked, fkStamps, disk>>

\* stamp_table
StampTable(t) ==
  /\ Idle /\ tracked
  /\ stamps' = With(stamps, t, tables[t].rows)
  /\ UNCHANGED <<package, tracked, fkStamps, disk>>

\* clear_fk_stamps
ClearFkStamps ==
  /\ Idle /\ tracked
  /\ fkStamps' = {}
  /\ UNCHANGED <<package, tracked, stamps, disk>>

\* validate with its foreign-key pass, the one that changes anything.
Validate ==
  LET fks == fkStamps \cup NewStamps(tables, Checked(tables)) IN
  /\ Idle /\ tracked
  /\ Cardinality(fks) <= MaxStamps
  /\ fkStamps' = fks
  /\ UNCHANGED <<package, tracked, stamps, disk>>

-----------------------------------------------------------------------------
(* Writing.                                                                *)

\* _stale_tables
StaleTables ==
  {t \in DOMAIN tables : \/ tables[t].dirty
                         \/ tracked /\ t \in DOMAIN stamps /\ stamps[t] # tables[t].rows}

\* What has been removed and made before the first table is written.
Cleared(format) ==
  CASE format = "folder" -> Empty("folder")
    [] format = "duckdb" -> Absent
    [] format = "zip"    -> dest

\* The pre-check of a strict write, then the guard against overwriting.
Write(format, overwrite, strict) ==
  LET refused == strict /\ StaleTables # {}
      exists  == dest # Absent /\ ~overwrite
      pc      == IF refused THEN "refused" ELSE IF exists THEN "exists" ELSE "parts"
  IN
  /\ Idle
  /\ writing' = [pc |-> pc, format |-> format, strict |-> strict, stale |-> StaleTables,
                 before |-> dest, done |-> NoTables]
  /\ dest' = IF pc = "parts" THEN Cleared(format) ELSE dest
  /\ UNCHANGED <<package, tracker>>

\* One table is written: into the output itself, or for a zip beside it.
WritePart(t) ==
  /\ writing.pc = "parts" /\ t \notin DOMAIN writing.done
  /\ writing' = [writing EXCEPT !.done = With(@, t, tables[t].rows)]
  /\ dest' = IF writing.format = "zip" THEN dest
             ELSE [kind |-> KindOf(writing.format), tables |-> writing'.done]
  /\ UNCHANGED <<package, tracker>>

AllWritten == writing.pc = "parts" /\ DOMAIN writing.done = DOMAIN tables

WriteEnds ==
  /\ AllWritten /\ writing.format # "zip"
  /\ writing' = [writing EXCEPT !.pc = "written"]
  /\ UNCHANGED <<package, tracker, dest>>

\* Plausible bug: whatever is in the place of the archive is removed.
ClearAllForArchive ==
  /\ AllWritten /\ writing.format = "zip"
  /\ writing' = [writing EXCEPT !.pc = "staged"]
  /\ dest' = Absent
  /\ UNCHANGED <<package, tracker>>

\* A folder in the place of the archive is removed before the rename.
ClearForArchive ==
  /\ AllWritten /\ writing.format = "zip"
  /\ writing' = [writing EXCEPT !.pc = "staged"]
  /\ dest' = IF dest # Absent /\ dest.kind = "folder" THEN Absent ELSE dest
  /\ UNCHANGED <<package, tracker>>

ReplaceArchive ==
  /\ writing.pc = "staged"
  /\ writing' = [writing EXCEPT !.pc = "written"]
  /\ dest' = [kind |-> "file", tables |-> writing.done]
  /\ UNCHANGED <<package, tracker>>

\* An adapter or the file system raises.
WriteFails ==
  /\ Busy
  /\ writing' = [writing EXCEPT !.pc = "failed"]
  /\ UNCHANGED <<package, tracker, dest>>

Next ==
  \/ \E t \in DOMAIN tables : \/ \E c \in Contents[t] : ApplyEdit(t, c) \/ Poke(t, c)
                              \/ RemoveTable(t) \/ Invalidate(t) \/ StampTable(t) \/ WritePart(t)
  \/ \E t \in Tables : \E c \in Contents[t] : AddTable(t, c)
  \/ ReverseEdit
  \/ ClearFkStamps
  \/ Validate
  \/ \E format \in Formats, overwrite, strict \in BOOLEAN : Write(format, overwrite, strict)
  \/ WriteEnds
  \/ ClearForArchive
  \/ ReplaceArchive
  \/ WriteFails

Spec == Init /\ [][Next]_vars

-----------------------------------------------------------------------------
(* Properties.                                                             *)

Results     == [table : Tables, rows : AllContents, dirty : BOOLEAN]
Outputs     == [kind : {"folder", "file"}, tables : Partial] \cup {Absent}
Writes      == [pc : {"none", "refused", "exists", "parts", "staged", "written", "failed"}, format : Formats,
                strict : BOOLEAN, stale : SUBSET Tables, before : Outputs, done : Partial]

\* The shape of the state: Package and DirtyTracker as package.py and
\* sync_state.py declare them. Without a tracker there are no stamps.
TypeOK ==
  /\ DOMAIN tables \subseteq Tables
  /\ tables \in [DOMAIN tables -> [rows : AllContents, dirty : BOOLEAN]]
  /\ results \in Seq(Results)
  /\ \A i \in DOMAIN results : results[i].table \in DOMAIN tables
  /\ {loaded, stamps} \subseteq Partial
  /\ DOMAIN tables \subseteq DOMAIN loaded
  /\ poked \subseteq Tables
  /\ tracked \in BOOLEAN
  /\ \A s \in fkStamps : s.fk \in ForeignKeys
  /\ ~tracked => stamps = NoTables /\ fkStamps = {}
  /\ changes \in Nat
  /\ writing \in Writes
  /\ dest \in Outputs

\* The foreign key fails, or what it speaks of is gone.
Broken(fk) == ~Hashable(fk, tables) \/ \E i \in FkIssues(fk, tables) : i # NullIssue(fk)

\* A foreign key that once passed validation and was stamped does not break
\* unnoticed: the next sync-state pass reports it, whatever edits, reversals,
\* replacements and further validations came between (DirtyTracker.check).
BrokenIsStale ==
  \A s \in fkStamps : Broken(s.fk) => \E i \in SyncIssues(tables, fkStamps) : i.fk = s.fk

\* A strict write that ends wrote no edit that is not validated: each table is
\* as it was made, unless the caller changed it behind the package's back
\* (Package.write's pre-check and the dirty flags that edits set and reverse).
StrictWriteIsAsLoaded ==
  [][writing.pc # "written" /\ writing'.pc = "written" /\ writing'.strict /\ dest' # Absent =>
       \A t \in DOMAIN dest'.tables \ poked : dest'.tables[t] = loaded[t]]_vars

\* A write that is refused, or that fails on its way to an archive, leaves the
\* output that was there before it (Package.write, _write_zipcsv_package). A
\* folder in the archive's place is not protected.
FailedWriteKeepsOutput ==
  (\/ writing.pc \in {"refused", "exists"}
   \/ /\ writing.pc = "failed" /\ writing.format = "zip"
      /\ writing.before # Absent => writing.before.kind = "file")
  => dest = writing.before
=============================================================================
