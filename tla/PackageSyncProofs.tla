------------------------- MODULE PackageSyncProofs -------------------------
(***************************************************************************)
(* That no validated foreign key breaks unnoticed and that no strict write *)
(* writes an edit, for any tables, foreign keys and contents.              *)
(***************************************************************************)
EXTENDS PackageSync, TLAPS

-----------------------------------------------------------------------------
(* Broken foreign keys are stale.                                          *)

\* What a stamp's hash tells of the rows it was computed from.
KeysOf(hash) == {[i \in DOMAIN hash |-> hash[i][r]] : r \in DOMAIN hash[1]}

\* A hash decides which keys the rows hold.
LEMMA HashDecidesKeys ==
  ASSUME NEW c, NEW cols, 1 \in DOMAIN cols
  PROVE  RowKeys(c, cols) = KeysOf(Hash(c, cols))
BY DEF RowKeys, KeysOf, Hash

\* Every stamp is of a foreign key whose keys were found.
StampsAreClean ==
  \A s \in fkStamps : /\ s.fk \in ForeignKeys
                      /\ {k \in KeysOf(s.source) : ~HoldsNull(k)} \subseteq KeysOf(s.target)

\* A foreign key that can be hashed misses a target exactly when the keys of
\* its stamp do.
LEMMA MissingIsInTheStamp ==
  ASSUME NEW fk \in ForeignKeys, NEW tabs
  PROVE  LET s == Stamp(fk, tabs) IN
         MissingTarget(fk, tabs[fk.source].rows, tabs[fk.target].rows) <=>
         ~({k \in KeysOf(s.source) : ~HoldsNull(k)} \subseteq KeysOf(s.target))
<1>1. 1 \in DOMAIN fk.fields /\ 1 \in DOMAIN fk.keys
  BY ForeignKeysAssumption
<1> DEFINE s == Stamp(fk, tabs)
<1>2. s.source = Hash(tabs[fk.source].rows, fk.fields) /\ s.target = Hash(tabs[fk.target].rows, fk.keys)
  BY DEF Stamp
<1>3. /\ RowKeys(tabs[fk.source].rows, fk.fields) = KeysOf(s.source)
      /\ RowKeys(tabs[fk.target].rows, fk.keys) = KeysOf(s.target)
  BY <1>1, <1>2, HashDecidesKeys
<1> HIDE DEF s
<1>4. MissingTarget(fk, tabs[fk.source].rows, tabs[fk.target].rows) <=>
        ~({k \in KeysOf(s.source) : ~HoldsNull(k)} \subseteq KeysOf(s.target))
  BY <1>3 DEF MissingTarget
<1> QED
  BY <1>4 DEF s

\* The issues of a foreign key that can be hashed: besides nulls, only a
\* missing target, which names the foreign key.
LEMMA IssuesOfHashable ==
  ASSUME NEW fk \in ForeignKeys, NEW tabs, Hashable(fk, tabs)
  PROVE  /\ MissingTarget(fk, tabs[fk.source].rows, tabs[fk.target].rows) =>
              Issue("fk.missing_target", fk, fk.keys) \in FkIssues(fk, tabs)
         /\ ~MissingTarget(fk, tabs[fk.source].rows, tabs[fk.target].rows) =>
              FkIssues(fk, tabs) \subseteq {NullIssue(fk)}
<1>1. fk.source \in DOMAIN tabs /\ fk.target \in DOMAIN tabs
  BY DEF Hashable
<1>2. ToSet(fk.keys) \ DOMAIN tabs[fk.target].rows = {} /\ Has(tabs[fk.source].rows, fk.fields)
  BY DEF Hashable, Has
<1>3. FkIssues(fk, tabs) = RowIssues(fk, tabs[fk.source].rows, tabs[fk.target].rows)
  BY <1>1, <1>2 DEF FkIssues
<1> QED
  BY <1>2, <1>3 DEF RowIssues

\* What validation stamps is clean.
LEMMA NewStampsAreClean ==
  ASSUME NEW tabs, NEW s \in NewStamps(tabs, Checked(tabs))
  PROVE  /\ s.fk \in ForeignKeys
         /\ {k \in KeysOf(s.source) : ~HoldsNull(k)} \subseteq KeysOf(s.target)
<1>1. PICK fk \in ForeignKeys : /\ s = Stamp(fk, tabs) /\ Hashable(fk, tabs)
                                /\ ~Surfaced(fk, Checked(tabs))
  BY DEF NewStamps
<1>2. s.fk = fk
  BY <1>1 DEF Stamp
<1>3. ~MissingTarget(fk, tabs[fk.source].rows, tabs[fk.target].rows)
  <2> SUFFICES ASSUME MissingTarget(fk, tabs[fk.source].rows, tabs[fk.target].rows) PROVE FALSE
    OBVIOUS
  <2> DEFINE i == Issue("fk.missing_target", fk, fk.keys)
  <2>1. i \in Checked(tabs)
    BY <1>1, IssuesOfHashable DEF Checked
  <2>2. i.code = "fk.missing_target"
    BY DEF Issue
  <2> QED
    BY <1>1, <2>1, <2>2 DEF Surfaced
<1> QED
  BY <1>1, <1>2, <1>3, MissingIsInTheStamp

\* Stamps are added by validation only, and stay as they are.
LEMMA StampsStayClean == StampsAreClean /\ [Next]_vars => StampsAreClean'
<1> SUFFICES ASSUME StampsAreClean, [Next]_vars PROVE StampsAreClean'
  OBVIOUS
<1>1. CASE Validate
  <2>1. fkStamps' = fkStamps \cup NewStamps(tables, Checked(tables))
    BY <1>1 DEF Validate
  <2> QED
    BY <2>1, NewStampsAreClean DEF StampsAreClean
<1>2. CASE ClearFkStamps
  BY <1>2 DEF ClearFkStamps, StampsAreClean
<1>3. CASE fkStamps' = fkStamps
  BY <1>3 DEF StampsAreClean
<1> QED
  BY <1>1, <1>2, <1>3 DEF Next, vars, tracker, ApplyEdit, Poke, RemoveTable, Invalidate, StampTable,
     WritePart, AddTable, ReverseEdit, Write, WriteEnds, ClearForArchive, ReplaceArchive, WriteFails

\* A stamped foreign key that fails now has other contents than its stamp.
LEMMA CleanStampsTellBreakage == StampsAreClean => BrokenIsStale
<1> SUFFICES ASSUME StampsAreClean, NEW s \in fkStamps, Broken(s.fk)
             PROVE  \E i \in SyncIssues(tables, fkStamps) : i.fk = s.fk
  BY DEF BrokenIsStale
<1>1. Stale(s, tables)
  <2> SUFFICES ASSUME Hashable(s.fk, tables), Stamp(s.fk, tables) = s PROVE FALSE
    BY DEF Stale
  <2>1. s.fk \in ForeignKeys
    BY DEF StampsAreClean
  <2>2. ~MissingTarget(s.fk, tables[s.fk.source].rows, tables[s.fk.target].rows)
    BY <2>1, MissingIsInTheStamp DEF StampsAreClean
  <2>3. FkIssues(s.fk, tables) \subseteq {NullIssue(s.fk)}
    BY <2>1, <2>2, IssuesOfHashable
  <2> QED
    BY <2>3 DEF Broken
<1> DEFINE i == [code |-> IF Hashable(s.fk, tables) THEN "sync.fk_stale" ELSE "sync.unverifiable", fk |-> s.fk]
<1>2. i \in SyncIssues(tables, fkStamps)
  BY <1>1, Zenon DEF SyncIssues
<1>3. i.fk = s.fk
  OBVIOUS
<1> QED
  BY <1>2, <1>3

\* A foreign key that was found clean and stamped is reported by the next
\* sync-state pass once it breaks, whatever happened in between
\* (Package.validate, DirtyTracker.check).
THEOREM BreakageIsReported == Spec => []BrokenIsStale
<1>1. Init => StampsAreClean
  BY DEF Init, StampsAreClean
<1> QED
  BY <1>1, StampsStayClean, CleanStampsTellBreakage, PTL DEF Spec

-----------------------------------------------------------------------------
(* Types.                                                                  *)

\* The empty partial function.
LEMMA NoTablesType == NoTables \in Partial
<1>1. NoTables \in [{} -> AllContents]
  BY DEF NoTables
<1> QED
  BY <1>1 DEF Partial

\* Adding to a partial function, and taking from it.
LEMMA WithType ==
  ASSUME NEW f \in Partial, NEW t \in Tables, NEW c \in AllContents
  PROVE  With(f, t, c) \in Partial /\ DOMAIN With(f, t, c) = DOMAIN f \cup {t}
<1>1. With(f, t, c) \in [DOMAIN f \cup {t} -> AllContents] /\ DOMAIN f \cup {t} \in SUBSET Tables
  BY DEF With, Partial
<1> QED
  BY <1>1 DEF Partial

LEMMA WithoutType ==
  ASSUME NEW f \in Partial, NEW t
  PROVE  [u \in DOMAIN f \ {t} |-> f[u]] \in Partial
<1>1. /\ [u \in DOMAIN f \ {t} |-> f[u]] \in [DOMAIN f \ {t} -> AllContents]
      /\ DOMAIN f \ {t} \in SUBSET Tables
  BY DEF Partial
<1> QED
  BY <1>1 DEF Partial

\* The newest edit and the others.
LEMMA Newest ==
  ASSUME NEW r \in Seq(Results), r # <<>>
  PROVE  /\ Len(r) \in DOMAIN r /\ Last(r) = r[Len(r)] /\ Last(r) \in Results
         /\ Front(r) \in Seq(Results) /\ DOMAIN Front(r) \subseteq DOMAIN r
         /\ \A i \in DOMAIN Front(r) : Front(r)[i] = r[i]
BY DEF Last, Front

\* Hashes are only taken of what is there.
LEMMA NewStampsType == ASSUME NEW s \in NewStamps(tables, Checked(tables)) PROVE s.fk \in ForeignKeys
BY NewStampsAreClean

LEMMA InitTypeOK == Init => TypeOK
<1> SUFFICES ASSUME Init PROVE TypeOK
  OBVIOUS
<1> PICK l \in Loaded : /\ loaded = l
                        /\ tables = [t \in DOMAIN l |-> [rows |-> l[t], dirty |-> FALSE]]
  BY DEF Init
<1>1. l \in Partial /\ DOMAIN l \subseteq Tables /\ \A t \in DOMAIN l : l[t] \in AllContents
  BY ContentsAssumption DEF Partial
<1>2. tables \in [DOMAIN tables -> [rows : AllContents, dirty : BOOLEAN]] /\ DOMAIN tables = DOMAIN l
  BY <1>1
<1>3. loaded \in Partial
  BY <1>1
<1>4. NoTables \in Partial
  BY NoTablesType
<1>5. dest \in Outputs /\ writing \in Writes
  BY <1>4 DEF Init, Empty, NoWrite, Outputs, Writes, Formats
<1> QED
  BY <1>1, <1>2, <1>3, <1>4, <1>5 DEF Init, TypeOK

\* The package, the tracker and the write keep their types.
THEOREM TypeCorrect == Spec => []TypeOK
<1>1. TypeOK /\ [Next]_vars => TypeOK'
  <2> SUFFICES ASSUME TypeOK, [Next]_vars PROVE TypeOK'
    OBVIOUS
  <2> USE DEF TypeOK
  <2>a. ASSUME NEW t \in Tables, NEW c \in Contents[t] PROVE c \in AllContents
    BY DEF AllContents
  <2>b. ASSUME NEW t \in DOMAIN tables, MarkDirty(t)
        PROVE  stamps' \in Partial /\ (~tracked => stamps' = NoTables)
    <3>1. CASE tracked
      <4>1. stamps' = [u \in DOMAIN stamps \ {t} |-> stamps[u]] /\ stamps \in Partial
        BY <2>b, <3>1 DEF MarkDirty, Unstamped
      <4> QED
        BY <3>1, <4>1, WithoutType
    <3>2. CASE ~tracked
      BY <2>b, <3>2 DEF MarkDirty
    <3> QED
      BY <3>1, <3>2
  <2>1. ASSUME NEW t \in DOMAIN tables, NEW c \in Contents[t], ApplyEdit(t, c) PROVE TypeOK'
    <3>1. [table |-> t, rows |-> tables[t].rows, dirty |-> tables[t].dirty] \in Results
      BY DEF Results
    <3>2. results' \in Seq(Results) /\ \A i \in DOMAIN results' : results'[i].table \in DOMAIN tables
      BY <2>1, <3>1 DEF ApplyEdit, Results
    <3>3. tables' \in [DOMAIN tables -> [rows : AllContents, dirty : BOOLEAN]]
      BY <2>1, <2>a DEF ApplyEdit
    <3> QED
      BY <2>1, <2>b, <3>2, <3>3 DEF ApplyEdit, Change, disk, Results
  <2>2. CASE ReverseEdit
    <3>a. results \in Seq(Results) /\ results # <<>> /\ results' = Front(results)
      BY <2>2 DEF ReverseEdit
    <3>b. /\ Len(results) \in DOMAIN results /\ Last(results) = results[Len(results)]
          /\ Last(results) \in Results /\ results' \in Seq(Results)
          /\ \A i \in DOMAIN results' : i \in DOMAIN results /\ results'[i] = results[i]
      BY <3>a, Newest
    <3>1. /\ Last(results) \in Results /\ Last(results).table \in DOMAIN tables
          /\ results' \in Seq(Results) /\ \A i \in DOMAIN results' : results'[i].table \in DOMAIN tables
      BY <3>b
    <3>2. tables' \in [DOMAIN tables -> [rows : AllContents, dirty : BOOLEAN]]
      BY <2>2, <3>1 DEF ReverseEdit, Results
    <3> QED
      BY <2>2, <2>b, <3>1, <3>2 DEF ReverseEdit, disk, Results
  <2>3. ASSUME NEW t \in Tables, NEW c \in Contents[t], AddTable(t, c) PROVE TypeOK'
    <3>1. /\ tables' \in [DOMAIN tables \cup {t} -> [rows : AllContents, dirty : BOOLEAN]]
          /\ DOMAIN tables' = DOMAIN tables \cup {t}
      BY <2>3, <2>a DEF AddTable, With
    <3>2. loaded' \in Partial /\ DOMAIN loaded' = DOMAIN loaded \cup {t}
      BY <2>3, <2>a, WithType DEF AddTable
    <3>3. UNCHANGED <<results, tracked, stamps, fkStamps, writing, dest>> /\ changes' \in Nat /\ poked' \subseteq Tables
      BY <2>3 DEF AddTable, Change, disk, tracker
    <3> QED
      BY <3>1, <3>2, <3>3
  <2>4. ASSUME NEW t \in DOMAIN tables, RemoveTable(t) PROVE TypeOK'
    <3>1. /\ tables' \in [DOMAIN tables \ {t} -> [rows : AllContents, dirty : BOOLEAN]]
          /\ DOMAIN tables' = DOMAIN tables \ {t}
      BY <2>4 DEF RemoveTable
    <3>2. \A i \in DOMAIN results : results[i].table \in DOMAIN tables \ {t}
      BY <2>4 DEF RemoveTable, Settled
    <3> QED
      BY <2>4, <3>1, <3>2 DEF RemoveTable, Change, disk, tracker
  <2>5. ASSUME NEW t \in DOMAIN tables, NEW c \in Contents[t], Poke(t, c) PROVE TypeOK'
    BY <2>5, <2>a DEF Poke, Change, disk, tracker
  <2>6. ASSUME NEW t \in DOMAIN tables, Invalidate(t) PROVE TypeOK'
    BY <2>6, <2>b DEF Invalidate, disk
  <2>7. ASSUME NEW t \in DOMAIN tables, StampTable(t) PROVE TypeOK'
    <3>1. stamps' \in Partial
      BY <2>7, WithType DEF StampTable
    <3> QED
      BY <2>7, <3>1 DEF StampTable, package, disk
  <2>8. CASE ClearFkStamps
    BY <2>8 DEF ClearFkStamps, package, disk
  <2>9. CASE Validate
    BY <2>9, NewStampsType DEF Validate, package, disk
  <2>10. ASSUME NEW format \in Formats, NEW overwrite \in BOOLEAN, NEW strict \in BOOLEAN,
                Write(format, overwrite, strict)
         PROVE  TypeOK'
    <3>1. dest' \in Outputs
      BY <2>10, NoTablesType DEF Write, Cleared, Empty, Outputs, Formats
    <3>2. writing' \in Writes
      BY <2>10, NoTablesType DEF Write, Writes, StaleTables
    <3> QED
      BY <2>10, <3>1, <3>2 DEF Write, package, tracker
  <2>11. ASSUME NEW t \in DOMAIN tables, WritePart(t) PROVE TypeOK'
    <3>1. With(writing.done, t, tables[t].rows) \in Partial
      BY WithType DEF Writes
    <3>2. writing' \in Writes /\ writing'.done = With(writing.done, t, tables[t].rows)
      BY <2>11, <3>1 DEF WritePart, Writes
    <3>3. dest' \in Outputs
      BY <2>11, <3>1, <3>2 DEF WritePart, Outputs, KindOf
    <3> QED
      BY <2>11, <3>2, <3>3 DEF WritePart, package, tracker
  <2>12. CASE WriteEnds
    BY <2>12 DEF WriteEnds, Writes, package, tracker
  <2>13. CASE ClearForArchive
    BY <2>13 DEF ClearForArchive, Writes, Outputs, package, tracker
  <2>14. CASE ReplaceArchive
    BY <2>14 DEF ReplaceArchive, Writes, Outputs, package, tracker
  <2>15. CASE WriteFails
    BY <2>15 DEF WriteFails, Writes, package, tracker
  <2>16. CASE UNCHANGED vars
    BY <2>16 DEF vars, package, tracker, disk
  <2> QED
    BY <2>1, <2>2, <2>3, <2>4, <2>5, <2>6, <2>7, <2>8, <2>9, <2>10, <2>11, <2>12, <2>13, <2>14, <2>15, <2>16
    DEF Next
<1> QED
  BY <1>1, InitTypeOK, PTL DEF Spec
-----------------------------------------------------------------------------
(* Strict writes.                                                          *)

\* Clean tables are as they were made, and so are the tables that reversals
\* make clean again.
CleanIsAsLoaded ==
  /\ \A t \in DOMAIN tables \ poked : ~tables[t].dirty => tables[t].rows = loaded[t]
  /\ \A i \in DOMAIN results :
       results[i].table \notin poked /\ ~results[i].dirty => results[i].rows = loaded[results[i].table]

\* A write goes on writing the tables it looked at, and an output that is
\* written in place holds what was written.
WriteIsOfTables ==
  /\ Busy /\ writing.strict => \A t \in DOMAIN tables : ~tables[t].dirty
  /\ Busy => \A t \in DOMAIN writing.done : t \in DOMAIN tables /\ writing.done[t] = tables[t].rows
  /\ writing.pc = "parts" /\ writing.format # "zip" /\ dest # Absent => dest.tables = writing.done

WriteInv == TypeOK /\ CleanIsAsLoaded /\ WriteIsOfTables

\* The elements of a lengthened sequence.
LEMMA Appended ==
  ASSUME NEW r \in Seq(Results), NEW e \in Results
  PROVE  \A i \in DOMAIN Append(r, e) : Append(r, e)[i] = e \/ (i \in DOMAIN r /\ Append(r, e)[i] = r[i])
<1> SUFFICES ASSUME NEW i \in DOMAIN Append(r, e)
             PROVE  Append(r, e)[i] = e \/ (i \in DOMAIN r /\ Append(r, e)[i] = r[i])
  OBVIOUS
<1>1. CASE i = Len(r) + 1
  BY <1>1
<1>2. CASE i \in 1..Len(r)
  BY <1>2
<1> QED
  BY <1>1, <1>2

\* Package operations preserve what dirty flags mean.
LEMMA CleanStaysAsLoaded == WriteInv /\ [Next]_vars => CleanIsAsLoaded'
<1> SUFFICES ASSUME WriteInv, [Next]_vars PROVE CleanIsAsLoaded'
  OBVIOUS
<1> USE DEF WriteInv, CleanIsAsLoaded
<1>1. ASSUME NEW t \in DOMAIN tables, NEW c \in Contents[t], ApplyEdit(t, c) PROVE CleanIsAsLoaded'
  <2> DEFINE r == [table |-> t, rows |-> tables[t].rows, dirty |-> tables[t].dirty]
  <2>1. /\ results \in Seq(Results) /\ results' = Append(results, r)
        /\ loaded' = loaded /\ poked' = poked
    BY <1>1 DEF ApplyEdit, TypeOK
  <2>2. r.table \notin poked /\ ~r.dirty => r.rows = loaded[r.table]
    OBVIOUS
  <2>a. r \in Results
    BY DEF Results, WriteInv, TypeOK
  <2>3. \A i \in DOMAIN results' : results'[i] = r \/ (i \in DOMAIN results /\ results'[i] = results[i])
    BY <2>1, <2>a, Appended
  <2>4. /\ DOMAIN tables' = DOMAIN tables
        /\ \A u \in DOMAIN tables : tables'[u].dirty \/ tables'[u] = tables[u]
    BY <1>1 DEF ApplyEdit, TypeOK
  <2> HIDE DEF r
  <2> QED
    BY <2>1, <2>2, <2>3, <2>4
<1>2. CASE ReverseEdit
  <2>1. results \in Seq(Results) /\ results # <<>> /\ results' = Front(results)
    BY <1>2 DEF ReverseEdit, TypeOK
  <2> DEFINE r == Last(results)
  <2>2. /\ Len(results) \in DOMAIN results /\ r = results[Len(results)]
        /\ \A i \in DOMAIN results' : i \in DOMAIN results /\ results'[i] = results[i]
    BY <2>1, Newest
  <2>3. /\ loaded' = loaded /\ poked' = poked
        /\ tables' = [tables EXCEPT ![r.table] = [rows |-> r.rows, dirty |-> r.dirty]]
    BY <1>2 DEF ReverseEdit
  <2>4. r.table \notin poked /\ ~r.dirty => r.rows = loaded[r.table]
    BY <2>2
  <2> HIDE DEF r
  <2>5. \A u \in DOMAIN tables' : /\ u \in DOMAIN tables
                                  /\ tables'[u] = IF u = r.table THEN [rows |-> r.rows, dirty |-> r.dirty]
                                                  ELSE tables[u]
    BY <2>3 DEF TypeOK
  <2> QED
    BY <2>2, <2>3, <2>4, <2>5
<1>3. ASSUME NEW t \in Tables, NEW c \in Contents[t], AddTable(t, c) PROVE CleanIsAsLoaded'
  <2>1. /\ tables' = With(tables, t, [rows |-> c, dirty |-> FALSE]) /\ loaded' = With(loaded, t, c)
        /\ poked' = poked \ {t} /\ results' = results /\ \A i \in DOMAIN results : results[i].table # t
    BY <1>3 DEF AddTable, Settled
  <2>2. DOMAIN tables \subseteq DOMAIN loaded /\ \A i \in DOMAIN results : results[i].table \in DOMAIN tables
    BY DEF TypeOK
  <2> QED
    BY <2>1, <2>2 DEF With
<1>4. ASSUME NEW t \in DOMAIN tables, RemoveTable(t) PROVE CleanIsAsLoaded'
  BY <1>4 DEF RemoveTable
<1>5. ASSUME NEW t \in DOMAIN tables, NEW c \in Contents[t], Poke(t, c) PROVE CleanIsAsLoaded'
  BY <1>5 DEF Poke, TypeOK
<1>6. ASSUME NEW t \in DOMAIN tables, Invalidate(t) PROVE CleanIsAsLoaded'
  BY <1>6 DEF Invalidate, TypeOK
<1>7. CASE UNCHANGED package
  BY <1>7 DEF package
<1> QED
  BY <1>1, <1>2, <1>3, <1>4, <1>5, <1>6, <1>7 DEF Next, vars, StampTable, ClearFkStamps, Validate,
     Write, WritePart, WriteEnds, ClearForArchive, ReplaceArchive, WriteFails

\* The steps of a write keep what it is about, and no other step is one.
LEMMA WriteStaysOfTables == WriteInv /\ [Next]_vars => WriteIsOfTables'
<1> SUFFICES ASSUME WriteInv, [Next]_vars PROVE WriteIsOfTables'
  OBVIOUS
<1> USE DEF WriteInv, WriteIsOfTables, Busy
<1>1. CASE Idle /\ UNCHANGED disk
  BY <1>1 DEF Idle, disk
<1>2. CASE UNCHANGED vars
  BY <1>2 DEF vars, disk, package
<1>3. ASSUME NEW format \in Formats, NEW overwrite \in BOOLEAN, NEW strict \in BOOLEAN,
             Write(format, overwrite, strict)
      PROVE  WriteIsOfTables'
  <2>1. /\ writing'.done = NoTables /\ writing'.strict = strict /\ writing'.format = format
        /\ tables' = tables
        /\ writing'.pc = "parts" => dest' = Cleared(format) /\ (strict => StaleTables = {})
        /\ writing'.pc # "staged"
    BY <1>3 DEF Write, package
  <2>2. DOMAIN NoTables = {}
    BY DEF NoTables
  <2>3. Cleared(format) # Absent /\ format # "zip" => Cleared(format).tables = NoTables
    BY DEF Cleared, Empty, Formats
  <2>4. StaleTables = {} => \A t \in DOMAIN tables : ~tables[t].dirty
    BY DEF StaleTables
  <2> QED
    BY <2>1, <2>2, <2>3, <2>4
<1>4. ASSUME NEW t \in DOMAIN tables, WritePart(t) PROVE WriteIsOfTables'
  <2>1. /\ writing'.done = With(writing.done, t, tables[t].rows) /\ writing'.strict = writing.strict
        /\ writing'.format = writing.format /\ writing'.pc = "parts" /\ writing.pc = "parts"
        /\ tables' = tables
        /\ writing.format # "zip" => dest'.tables = writing'.done
    BY <1>4 DEF WritePart, package, TypeOK, Writes
  <2> QED
    BY <2>1 DEF With
<1>5. CASE ClearForArchive
  <2>1. /\ writing'.done = writing.done /\ writing'.strict = writing.strict
        /\ writing'.pc = "staged" /\ writing.pc = "parts" /\ tables' = tables
    BY <1>5 DEF ClearForArchive, AllWritten, package, TypeOK, Writes
  <2> QED
    BY <2>1
<1>6. CASE WriteEnds \/ ReplaceArchive \/ WriteFails
  BY <1>6 DEF WriteEnds, ReplaceArchive, WriteFails, TypeOK, Writes
<1> QED
  BY <1>1, <1>2, <1>3, <1>4, <1>5, <1>6 DEF Next, ApplyEdit, Poke, RemoveTable, Invalidate, StampTable,
     AddTable, ReverseEdit, ClearFkStamps, Validate, Change

\* The step that ends a write leaves an output of the tables.
LEMMA EndOfWrite ==
  ASSUME WriteInv, [Next]_vars, writing.pc # "written", writing'.pc = "written", writing'.strict, dest' # Absent
  PROVE  \A t \in DOMAIN dest'.tables \ poked : dest'.tables[t] = loaded[t]
<1>1. CASE WriteEnds
  <2>1. writing.pc = "parts" /\ writing.format # "zip" /\ writing'.strict = writing.strict /\ dest' = dest
    BY <1>1 DEF WriteEnds, AllWritten, WriteInv, TypeOK, Writes
  <2> QED
    BY <2>1 DEF WriteInv, WriteIsOfTables, CleanIsAsLoaded, Busy
<1>2. CASE ReplaceArchive
  <2>1. writing.pc = "staged" /\ writing'.strict = writing.strict /\ dest'.tables = writing.done
    BY <1>2 DEF ReplaceArchive, WriteInv, TypeOK, Writes
  <2> QED
    BY <2>1 DEF WriteInv, WriteIsOfTables, CleanIsAsLoaded, Busy
<1>3. CASE writing' = writing
  BY <1>3
<1>4. CASE WriteFails \/ ClearForArchive \/ \E t \in DOMAIN tables : WritePart(t)
  BY <1>4 DEF WriteFails, ClearForArchive, WritePart, AllWritten, WriteInv, TypeOK, Writes
<1>5. CASE \E format \in Formats, overwrite, strict \in BOOLEAN : Write(format, overwrite, strict)
  BY <1>5 DEF Write
<1> QED
  BY <1>1, <1>2, <1>3, <1>4, <1>5 DEF Next, vars, disk, ApplyEdit, Poke, RemoveTable, Invalidate, StampTable,
     AddTable, ReverseEdit, ClearFkStamps, Validate

\* A strict write writes every table as it was made: no edit, applied or
\* half reversed, reaches the disk through it (Package.write, apply_edit,
\* reverse_edit).
THEOREM StrictWritesAreAsLoaded == Spec => StrictWriteIsAsLoaded
<1>1. Init => CleanIsAsLoaded /\ WriteIsOfTables
  BY DEF Init, CleanIsAsLoaded, WriteIsOfTables, Busy, NoWrite
<1>2. WriteInv /\ [Next]_vars =>
        [writing.pc # "written" /\ writing'.pc = "written" /\ writing'.strict /\ dest' # Absent =>
           \A t \in DOMAIN dest'.tables \ poked : dest'.tables[t] = loaded[t]]_vars
  BY EndOfWrite
<1>3. TypeOK /\ CleanIsAsLoaded /\ WriteIsOfTables <=> WriteInv
  BY DEF WriteInv
<1> QED
  BY <1>1, <1>2, <1>3, TypeCorrect, CleanStaysAsLoaded, WriteStaysOfTables, PTL
  DEF Spec, StrictWriteIsAsLoaded

-----------------------------------------------------------------------------
(* A write that fails keeps the output.                                    *)

\* Up to the rename, a zip leaves what was at the destination, if that was no
\* folder, and a write that is refused does in any format.
OutputIsKept ==
  \/ writing.pc \in {"refused", "exists"}
  \/ /\ writing.pc \in {"parts", "staged", "failed"} /\ writing.format = "zip"
     /\ writing.before # Absent => writing.before.kind = "file"
  => dest = writing.before

LEMMA OutputStaysKept == TypeOK /\ OutputIsKept /\ [Next]_vars => OutputIsKept'
<1> SUFFICES ASSUME TypeOK, OutputIsKept, [Next]_vars PROVE OutputIsKept'
  OBVIOUS
<1> USE DEF OutputIsKept
<1>1. CASE UNCHANGED disk
  BY <1>1 DEF disk
<1>2. ASSUME NEW format \in Formats, NEW overwrite \in BOOLEAN, NEW strict \in BOOLEAN,
             Write(format, overwrite, strict)
      PROVE  OutputIsKept'
  <2>1. /\ writing'.before = dest /\ writing'.format = format
        /\ writing'.pc = "parts" \/ dest' = dest
        /\ writing'.pc = "parts" => dest' = Cleared(format)
    BY <1>2 DEF Write
  <2> QED
    BY <2>1 DEF Cleared
<1>3. ASSUME NEW t \in DOMAIN tables, WritePart(t) PROVE OutputIsKept'
  BY <1>3 DEF WritePart, TypeOK, Writes
<1>4. CASE ClearForArchive
  BY <1>4 DEF ClearForArchive, AllWritten, TypeOK, Writes
<1>5. CASE WriteEnds \/ ReplaceArchive \/ WriteFails
  BY <1>5 DEF WriteEnds, ReplaceArchive, WriteFails, Busy, TypeOK, Writes
<1> QED
  BY <1>1, <1>2, <1>3, <1>4, <1>5 DEF Next, vars, ApplyEdit, Poke, RemoveTable, Invalidate, StampTable,
     AddTable, ReverseEdit, ClearFkStamps, Validate

\* The output that was there survives a write that is refused, and one that
\* fails on its way to an archive at whatever step (_write_zipcsv_package).
THEOREM FailedWritesKeepOutput == Spec => []FailedWriteKeepsOutput
<1>1. Init => OutputIsKept
  BY DEF Init, NoWrite, OutputIsKept
<1>2. OutputIsKept => FailedWriteKeepsOutput
  BY DEF OutputIsKept, FailedWriteKeepsOutput
<1> QED
  BY <1>1, <1>2, TypeCorrect, OutputStaysKept, PTL DEF Spec
=============================================================================
