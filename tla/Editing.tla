------------------------------- MODULE Editing -------------------------------
(***************************************************************************)
(* Edits of a package's tables and how they are undone: apply_edit and     *)
(* reverse_edit (corral/editing/apply.py), the atomic Session, its log on  *)
(* disk and rollback(), and the Batch that queues, coalesces and validates *)
(* (corral/operations/pool.py). One Session or Batch is at work at a time. *)
(*                                                                         *)
(* A table is a set of occurrences of rows: "row" is the row's values and  *)
(* "tag" tells equal rows apart, which is all a bag of rows needs. A       *)
(* predicate compares a column with a value and is unknown on a null, as   *)
(* in SQL; joins do not match nulls either.                                *)
(***************************************************************************)
EXTENDS Naturals, FiniteSets, Sequences, SequencesExt

CONSTANTS
  Tables, Columns, Values,
  Null,      \* the value that is absent
  Initial,   \* packages to start from: the rows of each table, in order
  Edits,     \* the edits callers make
  MaxStamp,  \* bound: edits and reversals in a behaviour
  Nothing    \* no log

Rows == [Columns -> Values]

\* What a caller may ask for. A predicate compares a column with a value.
Predicate == [col : Columns, val : Values \ {Null}]
Changes   == UNION {[cols -> Values] : cols \in SUBSET Columns}
EditType  == [op : {"add", "replace"}, table : Tables, rows : Seq(Rows)]
            \cup [op : {"delete"}, table : Tables, where : Predicate]
            \cup [op : {"update"}, table : Tables, where : Predicate, set : Changes]

ASSUME EditsAssumption ==
  /\ Null \in Values
  /\ Initial \subseteq [Tables -> Seq(Rows)]
  /\ Edits \subseteq EditType

VARIABLES
  tables,   \* Package.tables
  dirty,    \* Table.dirty
  stamp,    \* how many edits and reversals were made
  pc,       \* what is under way
  results,  \* Session.results, less those that have been reversed
  batch,    \* Batch.pending, and how the batch was opened
  todo,     \* coalesced edits the batch's Session has still to apply
  log,      \* the log file
  trail,    \* history: the package before each of the results, and now
  exact     \* history: each of the results could be reversed exactly

package == <<tables, dirty, stamp>>
undoing == <<results, trail, exact>>
vars    == <<package, pc, undoing, batch, todo, log>>

-----------------------------------------------------------------------------
(* The op handlers. "n" is the stamp of the edit or reversal.              *)

Numbered(rows, n) == {[row |-> rows[i], tag |-> <<n, i>>] : i \in DOMAIN rows}

Holds(where, row)   == row[where.col] = where.val
Unknown(where, row) == row[where.col] = Null

Matched(t, where) == {x \in t : Holds(where, x.row)}
Set(row, changes) == [c \in Columns |-> IF c \in DOMAIN changes THEN changes[c] ELSE row[c]]

\* An occurrence after an update.
Updated(x, e) == IF Holds(e.where, x.row) THEN [x EXCEPT !.row = Set(@, e.set)] ELSE x

Applied(e, t, n) ==
  CASE e.op = "add"     -> t \cup Numbered(e.rows, n)
    [] e.op = "delete"  -> {x \in t : ~Holds(e.where, x.row) /\ ~Unknown(e.where, x.row)}
    [] e.op = "update"  -> {Updated(x, e) : x \in t}
    [] e.op = "replace" -> Numbered(e.rows, n)

\* rollback_data
Blob(e, t, n) ==
  CASE e.op = "add"     -> Numbered(e.rows, n)
    [] e.op = "delete"  -> Matched(t, e.where)
    [] e.op = "update"  -> Matched(t, e.where)
    [] e.op = "replace" -> t

Agree(r, s, cols) == \A c \in cols : r[c] = s[c] /\ r[c] # Null
AntiJoin(t, u, cols) == {x \in t : ~\E y \in u : Agree(x.row, y.row, cols)}

\* Rows put back are new occurrences if the old ones are there already.
Restock(t, u, n) ==
  t \cup (IF \E x \in t, y \in u : x.tag = y.tag
         THEN {[y EXCEPT !.tag = Append(@, n)] : y \in u} ELSE u)

\* Plausible bug: an update is reversed by joining on every column.
ReversedOnAllColumns(result, t, n) ==
  LET e == result.edit IN
  CASE e.op = "add"     -> AntiJoin(t, result.blob, Columns)
    [] e.op = "delete"  -> Restock(t, result.blob, n)
    [] e.op = "update"  -> Restock(AntiJoin(t, result.blob, Columns), result.blob, n)
    [] e.op = "replace" -> result.blob

\* REVERSE_OPS
Reversed(result, t, n) ==
  LET e        == result.edit
      identity == Columns \ DOMAIN e.set
  IN
  CASE e.op = "add"     -> AntiJoin(t, result.blob, Columns)
    [] e.op = "delete"  -> Restock(t, result.blob, n)
    [] e.op = "update"  -> IF result.blob = {} \/ DOMAIN e.set = {} THEN t
                           ELSE IF identity = {} THEN result.blob
                           ELSE Restock(AntiJoin(t, result.blob, identity), result.blob, n)
    [] e.op = "replace" -> result.blob

\* What makes reversing an edit of table t exact: an added row is new and has
\* no null, a deletion leaves no row undecided, and the columns an update does
\* not touch tell the updated rows from the others.
Reversible(e, t) ==
  CASE e.op = "add"     -> \A i \in DOMAIN e.rows : /\ \A x \in t : x.row # e.rows[i]
                                                    /\ \A c \in Columns : e.rows[i][c] # Null
    [] e.op = "delete"  -> \A x \in t : ~Unknown(e.where, x.row)
    [] e.op = "update"  -> LET hit == Matched(t, e.where)
                               identity == Columns \ DOMAIN e.set
                           IN  \/ hit = {}
                               \/ hit = t /\ identity = {}
                               \/ /\ identity # {}
                                  /\ \A y \in hit, c \in identity : y.row[c] # Null
                                  /\ \A x \in t \ hit, y \in hit : ~Agree(x.row, y.row, identity)
    [] e.op = "replace" -> TRUE

-----------------------------------------------------------------------------
(* coalesce. A queued add of several rows keeps their order.               *)

\* Plausible bug: a replacement also cancels what is queued for other tables.
PruneAllTables(edits) ==
  FoldLeft(LAMBDA pruned, e : Append(IF e.op = "replace" THEN <<>> ELSE pruned, e), <<>>, edits)

\* Pass 1: a replacement cancels what is queued for its table.
Others(edits, table) ==
  FoldLeft(LAMBDA kept, e : IF e.table # table THEN Append(kept, e) ELSE kept, <<>>, edits)

Prune(edits) ==
  FoldLeft(LAMBDA pruned, e : Append(IF e.op = "replace" THEN Others(pruned, e.table) ELSE pruned, e),
           <<>>, edits)

\* Pass 2: consecutive additions to one table become one.
Merge(edits) ==
  FoldLeft(LAMBDA out, e :
             IF e.op = "add" /\ out # <<>> /\ Last(out).op = "add" /\ Last(out).table = e.table
             THEN Append(Front(out), [Last(out) EXCEPT !.rows = @ \o e.rows])
             ELSE Append(out, e),
           <<>>, edits)

Coalesce(edits) == Merge(Prune(edits))

-----------------------------------------------------------------------------

Now(t, d) == [tables |-> t, dirty |-> d]

NoBatch == [pending |-> <<>>, strict |-> FALSE, logged |-> FALSE, flushing |-> FALSE]

Init ==
  /\ \E p \in Initial : tables = [t \in Tables |-> Numbered(p[t], 0)]
  /\ dirty \in [Tables -> BOOLEAN]
  /\ stamp = 0
  /\ pc = "idle"
  /\ results = <<>>
  /\ batch = NoBatch
  /\ todo = <<>>
  /\ log = Nothing
  /\ trail = <<Now(tables, dirty)>>
  /\ exact = TRUE

\* A Session without results: a new one, or none any more.
Fresh == results' = <<>> /\ trail' = <<Now(tables, dirty)>> /\ exact' = TRUE

\* apply_edit, and Session.add_edit which keeps the result.
Apply(e) ==
  LET t == tables[e.table] IN
  /\ stamp' = stamp + 1
  /\ tables' = [tables EXCEPT ![e.table] = Applied(e, t, stamp')]
  /\ dirty' = [dirty EXCEPT ![e.table] = TRUE]
  /\ results' = Append(results, [edit |-> e, blob |-> Blob(e, t, stamp'), was |-> dirty[e.table]])
  /\ trail' = Append(trail, Now(tables', dirty'))
  /\ exact' = (exact /\ Reversible(e, t))

\* _persist_log: a log replaces the one that was there.
WriteLog(wanted) ==
  log' = IF wanted /\ results # <<>>
         THEN [results |-> results, trail |-> trail, exact |-> exact] ELSE log

-----------------------------------------------------------------------------
(* Session                                                                 *)

OpenSession ==
  /\ pc = "idle" /\ pc' = "session"
  /\ UNCHANGED <<package, undoing, batch, todo, log>>

\* An edit that raises has changed nothing; if the body goes on, nothing
\* happened, and if it does not, this is BodyRaises.
AddEdit(e) ==
  /\ pc = "session" /\ stamp < MaxStamp
  /\ Apply(e)
  /\ UNCHANGED <<pc, batch, todo, log>>

BodyRaises ==
  /\ pc = "session" /\ pc' = "reversing"
  /\ UNCHANGED <<package, undoing, batch, todo, log>>

\* __exit__ with a log or without one. Writing the log may raise: the edits
\* stay, and what was at the log's path may be gone.
CloseSession ==
  /\ pc = "session" /\ pc' = "idle"
  /\ \/ \E wanted \in BOOLEAN : WriteLog(wanted)
     \/ results # <<>> /\ log' = Nothing
  /\ Fresh
  /\ UNCHANGED <<package, batch, todo>>

-----------------------------------------------------------------------------
(* Reversal: __exit__ after an exception ("reversing"), Session.rollback   *)
(* after a failed validation ("undoing"), rollback() from the log          *)
(* ("replaying"). Latest result first, each with reverse_edit.             *)

Undoing == {"reversing", "undoing", "replaying"}

\* Plausible bug: the earliest result is reversed first.
ReverseOldest ==
  LET result == Head(results)
      t      == result.edit.table
  IN
  /\ pc \in Undoing /\ results # <<>>
  /\ stamp' = stamp + 1
  /\ tables' = [tables EXCEPT ![t] = Reversed(result, @, stamp')]
  /\ dirty' = [dirty EXCEPT ![t] = result.was]
  /\ results' = Tail(results)
  /\ UNCHANGED <<pc, trail, exact, batch, todo, log>>

ReverseEdit ==
  LET result == Last(results)
      t      == result.edit.table
  IN
  /\ pc \in Undoing /\ results # <<>>
  /\ stamp' = stamp + 1
  /\ tables' = [tables EXCEPT ![t] = Reversed(result, @, stamp')]
  /\ dirty' = [dirty EXCEPT ![t] = result.was]
  /\ results' = Front(results)
  /\ UNCHANGED <<pc, trail, exact, batch, todo, log>>

\* reverse_edit raises. __exit__ notes it in rollback_errors and goes on; the
\* others stop there.
ReverseFails ==
  /\ pc \in Undoing /\ results # <<>>
  /\ results' = IF pc = "reversing" THEN Front(results) ELSE <<>>
  /\ exact' = FALSE
  /\ UNCHANGED <<package, pc, trail, batch, todo, log>>

\* The exception that caused the reversal, or none after rollback().
Reversal ==
  /\ pc \in Undoing /\ results = <<>> /\ pc' = "idle"
  /\ batch' = NoBatch
  /\ Fresh
  /\ UNCHANGED <<package, todo, log>>

\* rollback() of the whole log. Its results are exact if they were, and if
\* the package is as they left it.
RollBackLog ==
  /\ pc = "idle" /\ pc' = "replaying" /\ stamp < MaxStamp
  /\ log # Nothing
  /\ results' = log.results
  /\ trail' = log.trail
  /\ exact' = (log.exact /\ Now(tables, dirty) = Last(log.trail))
  /\ UNCHANGED <<package, batch, todo, log>>

-----------------------------------------------------------------------------
(* Batch                                                                   *)

OpenBatch(strict, logged) ==
  /\ pc = "idle" /\ pc' = "batch"
  /\ batch' = [NoBatch EXCEPT !.strict = strict, !.logged = logged]
  /\ UNCHANGED <<package, undoing, todo, log>>

\* Batch.add_edit
Queue(e) ==
  /\ pc = "batch" /\ stamp + Len(batch.pending) < MaxStamp
  /\ batch' = [batch EXCEPT !.pending = Append(@, e)]
  /\ UNCHANGED <<package, pc, undoing, todo, log>>

\* The body raises, or ends with nothing queued.
LeaveBatch ==
  /\ pc = "batch" /\ pc' = "idle"
  /\ batch' = NoBatch
  /\ UNCHANGED <<package, undoing, todo, log>>

\* flush, or the end of the body: _commit opens a Session.
Commit(flushing) ==
  /\ pc = "batch" /\ batch.pending # <<>> /\ pc' = "committing"
  /\ todo' = Coalesce(batch.pending)
  /\ batch' = [batch EXCEPT !.pending = <<>>, !.flushing = flushing]
  /\ UNCHANGED <<package, undoing, log>>

CommitEdit ==
  /\ pc = "committing" /\ todo # <<>>
  /\ Apply(Head(todo))
  /\ todo' = Tail(todo)
  /\ UNCHANGED <<pc, batch, log>>

CommitEditFails ==
  /\ pc = "committing" /\ todo # <<>> /\ pc' = "reversing"
  /\ todo' = <<>>
  /\ UNCHANGED <<package, undoing, batch, log>>

\* The Session ends well: its log is written before the validation.
Committed ==
  /\ pc = "committing" /\ todo = <<>>
  /\ \/ /\ WriteLog(batch.logged)
        /\ pc' = "validating"
        /\ UNCHANGED <<undoing, batch>>
     \/ /\ batch.logged /\ log' = Nothing
        /\ pc' = "idle" /\ batch' = NoBatch
        /\ Fresh
  /\ UNCHANGED <<package, todo>>

\* Package.validate finds an error or not.
Valid ==
  /\ pc = "validating"
  /\ \/ batch.flushing /\ pc' = "batch" /\ batch' = [batch EXCEPT !.flushing = FALSE]
     \/ ~batch.flushing /\ pc' = "idle" /\ batch' = NoBatch
  /\ Fresh
  /\ UNCHANGED <<package, todo, log>>

Invalid ==
  /\ pc = "validating" /\ batch.strict /\ pc' = "undoing"
  /\ UNCHANGED <<package, undoing, batch, todo, log>>

-----------------------------------------------------------------------------

Next ==
  \/ OpenSession \/ BodyRaises \/ CloseSession \/ RollBackLog
  \/ ReverseEdit \/ ReverseFails \/ Reversal
  \/ \E e \in Edits : AddEdit(e) \/ Queue(e)
  \/ \E strict, logged \in BOOLEAN : OpenBatch(strict, logged)
  \/ \E flushing \in BOOLEAN : Commit(flushing)
  \/ LeaveBatch \/ CommitEdit \/ CommitEditFails \/ Committed \/ Valid \/ Invalid

Spec == Init /\ [][Next]_vars

-----------------------------------------------------------------------------

TypeOK ==
  /\ \A t \in Tables : \A x \in tables[t] : x.row \in Rows
  /\ \A t \in Tables : \A x, y \in tables[t] : x.tag = y.tag => x = y
  /\ dirty \in [Tables -> BOOLEAN]
  /\ stamp \in Nat
  /\ pc \in Undoing \cup {"idle", "session", "batch", "committing", "validating"}
  /\ exact \in BOOLEAN
  /\ pc # "committing" => todo = <<>>
  /\ pc # "batch" => batch.pending = <<>>

\* An exception in a Session, a failed validation in a strict Batch and
\* rollback() all leave the package as it was before the first of the edits
\* they reverse, and no table that was clean is left dirty.
UndoneIsRestored ==
  [][exact /\ pc \in Undoing /\ pc' = "idle" => Now(tables, dirty) = Head(trail)]_vars

\* Half way through a reversal, the package is as it was before the edit that
\* was reversed last.
ReversalRetraces ==
  pc \in Undoing /\ exact => Now(tables, dirty) = trail[Len(results) + 1]

\* The package after a sequence of edits, as numbers of equal rows.
Outcome(edits) ==
  LET after == FoldLeft(LAMBDA p, e : [n |-> p.n + 1,
                          tables |-> [p.tables EXCEPT ![e.table] = Applied(e, @, p.n + 1)]],
                        [n |-> stamp, tables |-> tables], edits).tables
  IN  [t \in Tables |-> [r \in Rows |-> Cardinality({x \in after[t] : x.row = r})]]

\* Coalescing a queue changes nothing but the number of edits: what is dropped
\* would have been overwritten, and nothing is moved past a predicate.
CoalescingIsInvisible ==
  pc = "batch" => Outcome(Coalesce(batch.pending)) = Outcome(batch.pending)
=============================================================================
