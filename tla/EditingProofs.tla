---------------------------- MODULE EditingProofs ----------------------------
(***************************************************************************)
(* That undone edits leave no trace, for any tables, columns, values and   *)
(* edits: a reversal that could be exact retraces the package step by step;*)
(* and that a batch's queue does the same before and after it is coalesced.*)
(***************************************************************************)
EXTENDS Editing, Integers, TLAPS, SequenceTheorems, FiniteSetTheorems, WellFoundedInduction

-----------------------------------------------------------------------------
(* Occurrences of rows and their tags.                                     *)

\* The tags made up to a stamp: where a row was added, and each time it was
\* put back beside itself.
Tags(n) == {g \in Seq(Nat) : Len(g) >= 2 /\ \A k \in 1..Len(g) : k # 2 => g[k] <= n}

Occurrences(n) == [row : Rows, tag : Tags(n)]

\* No two occurrences of a table share a tag.
Distinct(t) == \A x, y \in t : x.tag = y.tag => x = y

TablesOf(n) == {t \in SUBSET Occurrences(n) : Distinct(t) /\ IsFiniteSet(t)}

LEMMA TagsGrow ==
  ASSUME NEW m \in Nat, NEW n \in Nat, m <= n
  PROVE  /\ Tags(m) \subseteq Tags(n)
         /\ Occurrences(m) \subseteq Occurrences(n)
         /\ TablesOf(m) \subseteq TablesOf(n)
<1>1. Tags(m) \subseteq Tags(n)
  BY DEF Tags
<1>2. Occurrences(m) \subseteq Occurrences(n)
  BY <1>1 DEF Occurrences
<1> QED
  BY <1>1, <1>2 DEF TablesOf

\* A row is put into a table with a tag of its own.
LEMMA NumberedType ==
  ASSUME NEW rows \in Seq(Rows), NEW n \in Nat
  PROVE  Numbered(rows, n) \in TablesOf(n)
<1>1. ASSUME NEW i \in DOMAIN rows
      PROVE  <<n, i>> \in Tags(n) /\ rows[i] \in Rows
  BY LenProperties, ElementOfSeq DEF Tags
<1>2. Numbered(rows, n) \subseteq Occurrences(n)
  BY <1>1 DEF Numbered, Occurrences
<1>3. Distinct(Numbered(rows, n))
  BY DEF Distinct, Numbered
<1>4. IsFiniteSet(Numbered(rows, n))
  <2> DEFINE f == [i \in 1..Len(rows) |-> [row |-> rows[i], tag |-> <<n, i>>]]
  <2>1. Len(rows) \in Nat /\ DOMAIN rows = 1..Len(rows)
    BY LenProperties
  <2>2. IsFiniteSet(1..Len(rows))
    BY <2>1, FS_Interval
  <2>3. f \in Surjection(1..Len(rows), Numbered(rows, n))
    BY <2>1 DEF Surjection, Numbered
  <2> QED
    BY <2>2, <2>3, FS_Surjection
<1> QED
  BY <1>2, <1>3, <1>4 DEF TablesOf

\* No tag of a table is one that a later edit makes.
LEMMA NumberedIsNew ==
  ASSUME NEW rows \in Seq(Rows), NEW n \in Nat, NEW t \in TablesOf(n),
         NEW x \in t, NEW y \in Numbered(rows, n + 1)
  PROVE  x.tag # y.tag
<1>1. PICK i \in DOMAIN rows : y = [row |-> rows[i], tag |-> <<n + 1, i>>]
  BY DEF Numbered
<1>2. x.tag \in Tags(n)
  BY DEF TablesOf, Occurrences
<1>3. x.tag[1] <= n
  BY <1>2 DEF Tags
<1> QED
  BY <1>1, <1>3

-----------------------------------------------------------------------------
(* Edits.                                                                  *)

LEMMA SetType ==
  ASSUME NEW row \in Rows, NEW changes \in Changes
  PROVE  Set(row, changes) \in Rows
<1>1. \A c \in DOMAIN changes : changes[c] \in Values
  BY DEF Changes
<1> QED
  BY <1>1 DEF Set, Rows

\* An update keeps the tags.
LEMMA UpdatedType ==
  ASSUME NEW n \in Nat, NEW e \in EditType, e.op = "update", NEW x \in Occurrences(n)
  PROVE  Updated(x, e) \in Occurrences(n) /\ Updated(x, e).tag = x.tag
<1>1. e.set \in Changes
  BY DEF EditType
<1>2. Set(x.row, e.set) \in Rows
  BY <1>1, SetType DEF Occurrences
<1>3. [x EXCEPT !.row = Set(@, e.set)] = [row |-> Set(x.row, e.set), tag |-> x.tag]
  BY DEF Occurrences
<1> QED
  BY <1>2, <1>3 DEF Occurrences, Updated

\* A function's values are as many as its arguments at most.
LEMMA FiniteImage ==
  ASSUME NEW S, IsFiniteSet(S), NEW f, f = [x \in S |-> f[x]]
  PROVE  IsFiniteSet({f[x] : x \in S})
<1>1. f \in Surjection(S, {f[x] : x \in S})
  <2> DEFINE T == {f[x] : x \in S}
  <2>1. f \in [S -> T]
    OBVIOUS
  <2> QED
    BY <2>1 DEF Surjection
<1> QED
  BY <1>1, FS_Surjection

LEMMA UpdateType ==
  ASSUME NEW n \in Nat, NEW t \in TablesOf(n), NEW e \in EditType, e.op = "update"
  PROVE  {Updated(x, e) : x \in t} \in TablesOf(n)
<1>1. \A x \in t : Updated(x, e) \in Occurrences(n) /\ Updated(x, e).tag = x.tag
  BY UpdatedType DEF TablesOf
<1>2. Distinct({Updated(x, e) : x \in t})
  BY <1>1 DEF Distinct, TablesOf
<1>3. IsFiniteSet({Updated(x, e) : x \in t})
  <2> DEFINE f == [x \in t |-> Updated(x, e)]
  <2>1. IsFiniteSet({f[x] : x \in t})
    BY FiniteImage DEF TablesOf
  <2>2. {f[x] : x \in t} = {Updated(x, e) : x \in t}
    OBVIOUS
  <2> QED
    BY <2>1, <2>2
<1> QED
  BY <1>1, <1>2, <1>3 DEF TablesOf

\* An edit leaves a table, and so does what is kept to reverse it.
LEMMA AppliedType ==
  ASSUME NEW n \in Nat, NEW t \in TablesOf(n), NEW e \in EditType
  PROVE  Applied(e, t, n + 1) \in TablesOf(n + 1) /\ Blob(e, t, n + 1) \in TablesOf(n + 1)
<1>1. t \in TablesOf(n + 1)
  BY TagsGrow
<1>2. \A u \in SUBSET t : u \in TablesOf(n + 1)
  <2>1. \A u \in SUBSET t : IsFiniteSet(u)
    BY FS_Subset DEF TablesOf
  <2> QED
    BY <1>1, <2>1 DEF TablesOf, Distinct
<1>3. CASE e.op = "add"
  <2>1. e.rows \in Seq(Rows)
    BY <1>3 DEF EditType
  <2>2. Numbered(e.rows, n + 1) \in TablesOf(n + 1)
    BY <2>1, NumberedType
  <2>3. IsFiniteSet(t \cup Numbered(e.rows, n + 1))
    BY <1>1, <2>2, FS_Union DEF TablesOf
  <2>4. t \cup Numbered(e.rows, n + 1) \in TablesOf(n + 1)
    BY <1>1, <2>1, <2>2, <2>3, NumberedIsNew DEF TablesOf, Distinct
  <2> QED
    BY <1>3, <2>2, <2>4 DEF Applied, Blob
<1>4. CASE e.op = "delete"
  BY <1>2, <1>4 DEF Applied, Blob, Matched
<1>5. CASE e.op = "update"
  BY <1>1, <1>2, <1>5, UpdateType DEF Applied, Blob, Matched
<1>6. CASE e.op = "replace"
  <2>1. e.rows \in Seq(Rows)
    BY <1>6 DEF EditType
  <2> QED
    BY <1>1, <1>6, <2>1, NumberedType DEF Applied, Blob
<1> QED
  BY <1>3, <1>4, <1>5, <1>6 DEF EditType

-----------------------------------------------------------------------------
(* A reversible edit is undone by its reversal.                            *)

\* What apply_edit keeps of an edit of t.
ResultOf(e, t, n, was) == [edit |-> e, blob |-> Blob(e, t, n), was |-> was]

\* Rows that come back without a clash of tags are the rows they were.
LEMMA RestockOfRest ==
  ASSUME NEW t, NEW u \in SUBSET t, NEW n, Distinct(t)
  PROVE  Restock(t \ u, u, n) = t
BY DEF Restock, Distinct

\* Joining whole rows without nulls compares them.
LEMMA AgreeOnAll ==
  ASSUME NEW r \in Rows, NEW s \in Rows
  PROVE  Agree(r, s, Columns) => r = s
BY DEF Agree, Rows

LEMMA AddIsUndone ==
  ASSUME NEW n \in Nat, NEW t \in TablesOf(n), NEW e \in EditType, e.op = "add", Reversible(e, t)
  PROVE  AntiJoin(Applied(e, t, n + 1), Blob(e, t, n + 1), Columns) = t
<1> DEFINE new == Numbered(e.rows, n + 1)
<1>1. e.rows \in Seq(Rows)
  BY DEF EditType
<1>2. \A x \in new : \E i \in DOMAIN e.rows : x.row = e.rows[i]
  BY DEF Numbered
<1>3. \A i \in DOMAIN e.rows : /\ e.rows[i] \in Rows
                               /\ \A x \in t : x.row # e.rows[i]
                               /\ \A c \in Columns : e.rows[i][c] # Null
  <2>1. \A i \in DOMAIN e.rows : e.rows[i] \in Rows
    BY <1>1, LenProperties, ElementOfSeq
  <2> QED
    BY <2>1 DEF Reversible
<1>4. \A x \in t : x.row \in Rows
  BY DEF TablesOf, Occurrences
<1>5. ASSUME NEW x \in t, NEW y \in new PROVE ~Agree(x.row, y.row, Columns)
  BY <1>2, <1>3, <1>4, AgreeOnAll
<1>6. ASSUME NEW y \in new PROVE Agree(y.row, y.row, Columns)
  BY <1>2, <1>3 DEF Agree
<1>7. AntiJoin(t \cup new, new, Columns) = t
  BY <1>5, <1>6 DEF AntiJoin
<1> QED
  BY <1>7 DEF Applied, Blob

LEMMA DeleteIsUndone ==
  ASSUME NEW n \in Nat, NEW t \in TablesOf(n), NEW e \in EditType, e.op = "delete", Reversible(e, t), NEW k
  PROVE  Restock(Applied(e, t, n + 1), Blob(e, t, n + 1), k) = t
<1>1. Applied(e, t, n + 1) = t \ Matched(t, e.where)
  BY DEF Applied, Matched, Reversible
<1>2. Blob(e, t, n + 1) = Matched(t, e.where)
  BY DEF Blob
<1>3. Matched(t, e.where) \in SUBSET t /\ Distinct(t)
  BY DEF Matched, TablesOf
<1> QED
  BY <1>1, <1>2, <1>3, RestockOfRest

\* The columns an update leaves alone tell the rows it changed.
LEMMA UpdatedRowsAreFound ==
  ASSUME NEW n \in Nat, NEW t \in TablesOf(n), NEW e \in EditType, e.op = "update",
         \A y \in Matched(t, e.where), c \in Columns \ DOMAIN e.set : y.row[c] # Null,
         \A x \in t \ Matched(t, e.where), y \in Matched(t, e.where) :
           ~Agree(x.row, y.row, Columns \ DOMAIN e.set)
  PROVE  AntiJoin({Updated(x, e) : x \in t}, Matched(t, e.where), Columns \ DOMAIN e.set) =
           t \ Matched(t, e.where)
<1> DEFINE hit      == Matched(t, e.where)
           identity == Columns \ DOMAIN e.set
<1>1. ASSUME NEW x \in t \ hit PROVE Updated(x, e) = x /\ ~\E y \in hit : Agree(x.row, y.row, identity)
  BY DEF Updated, Matched
<1>2. ASSUME NEW x \in hit PROVE Agree(Updated(x, e).row, x.row, identity)
  <2>1. x \in Occurrences(n) /\ Holds(e.where, x.row)
    BY DEF Matched, TablesOf
  <2>2. Updated(x, e).row = Set(x.row, e.set)
    BY <2>1 DEF Updated, Occurrences
  <2>3. ASSUME NEW c \in identity PROVE Set(x.row, e.set)[c] = x.row[c] /\ x.row[c] # Null
    BY DEF Set
  <2> QED
    BY <2>2, <2>3 DEF Agree
<1>3. hit \subseteq t
  BY DEF Matched
<1>4. ASSUME NEW x \in t, ~\E y \in hit : Agree(Updated(x, e).row, y.row, identity)
      PROVE  x \in t \ hit
  BY <1>2, <1>4
<1>5. AntiJoin({Updated(x, e) : x \in t}, hit, identity) =
        {Updated(x, e) : x \in {z \in t : ~\E y \in hit : Agree(Updated(z, e).row, y.row, identity)}}
  BY Zenon DEF AntiJoin
<1>6. {z \in t : ~\E y \in hit : Agree(Updated(z, e).row, y.row, identity)} = t \ hit
  BY <1>1, <1>3, <1>4
<1>7. {Updated(x, e) : x \in t \ hit} = t \ hit
  BY <1>1
<1> QED
  BY <1>5, <1>6, <1>7

LEMMA UpdateIsUndone ==
  ASSUME NEW n \in Nat, NEW t \in TablesOf(n), NEW e \in EditType, e.op = "update", Reversible(e, t),
         NEW was, NEW k
  PROVE  Reversed(ResultOf(e, t, n + 1, was), Applied(e, t, n + 1), k) = t
<1> DEFINE hit      == Matched(t, e.where)
           identity == Columns \ DOMAIN e.set
           after    == {Updated(x, e) : x \in t}
<1>1. Reversed(ResultOf(e, t, n + 1, was), Applied(e, t, n + 1), k) =
        IF hit = {} \/ DOMAIN e.set = {} THEN after
        ELSE IF identity = {} THEN hit ELSE Restock(AntiJoin(after, hit, identity), hit, k)
  BY DEF Reversed, ResultOf, Applied, Blob
<1>2. CASE hit = {}
  <2>1. \A x \in t : Updated(x, e) = x
    BY <1>2 DEF Matched, Updated
  <2> QED
    BY <1>1, <1>2, <2>1
<1>3. CASE DOMAIN e.set = {}
  <2>1. \A x \in t : Updated(x, e) = x
    <3> SUFFICES ASSUME NEW x \in t PROVE Updated(x, e) = x
      OBVIOUS
    <3>1. x \in Occurrences(n) /\ x.row \in Rows
      BY DEF TablesOf, Occurrences
    <3>2. Set(x.row, e.set) = x.row
      BY <1>3, <3>1 DEF Set, Rows
    <3>3. [x EXCEPT !.row = x.row] = x
      BY <3>1 DEF Occurrences
    <3> QED
      BY <3>2, <3>3 DEF Updated
  <2> QED
    BY <1>1, <1>3, <2>1
<1>4. CASE hit # {} /\ DOMAIN e.set # {} /\ identity = {}
  <2>1. hit = t
    BY <1>4 DEF Reversible
  <2> QED
    BY <1>1, <1>4, <2>1
<1>5. CASE hit # {} /\ DOMAIN e.set # {} /\ identity # {}
  <2>1. /\ \A y \in hit, c \in identity : y.row[c] # Null
        /\ \A x \in t \ hit, y \in hit : ~Agree(x.row, y.row, identity)
    BY <1>5 DEF Reversible
  <2>2. AntiJoin(after, hit, identity) = t \ hit
    BY <2>1, UpdatedRowsAreFound, Zenon
  <2>3. hit \in SUBSET t /\ Distinct(t)
    BY DEF Matched, TablesOf
  <2> QED
    BY <1>1, <1>5, <2>2, <2>3, RestockOfRest
<1> QED
  BY <1>2, <1>3, <1>4, <1>5

\* reverse_edit takes back what apply_edit did.
LEMMA ReversibleIsUndone ==
  ASSUME NEW n \in Nat, NEW t \in TablesOf(n), NEW e \in EditType, Reversible(e, t), NEW was, NEW k
  PROVE  Reversed(ResultOf(e, t, n + 1, was), Applied(e, t, n + 1), k) = t
<1>1. CASE e.op = "add"
  BY <1>1, AddIsUndone DEF Reversed, ResultOf
<1>2. CASE e.op = "delete"
  BY <1>2, DeleteIsUndone DEF Reversed, ResultOf
<1>3. CASE e.op = "update"
  BY <1>3, UpdateIsUndone
<1>4. CASE e.op = "replace"
  BY <1>4 DEF Reversed, ResultOf, Blob
<1> QED
  BY <1>1, <1>2, <1>3, <1>4 DEF EditType

-----------------------------------------------------------------------------
(* Induction over the positions of a sequence, and with it what a fold     *)
(* gives: no library theorem does without an operator for a parameter.     *)

LEMMA Least ==
  ASSUME NEW S, S \subseteq Nat, S # {}
  PROVE  \E m \in S : \A k \in S : m <= k
<1>1. PICK m \in S : \A k \in S : <<k, m>> \notin OpToRel(<, Nat)
  BY WFMin, NatLessThanWellFounded, Zenon
<1>2. \A k \in S : ~(k < m)
  BY <1>1, Zenon DEF OpToRel
<1> QED
  BY <1>2, SMT

\* Induction up to n, for a set of numbers.
LEMMA UpTo ==
  ASSUME NEW n \in Nat, NEW good, 0 \in good, \A k \in 1..n : k - 1 \in good => k \in good
  PROVE  n \in good
<1> SUFFICES ASSUME n \notin good PROVE FALSE
  OBVIOUS
<1> DEFINE bad == {k \in 0..n : k \notin good}
<1>1. bad \subseteq Nat /\ bad # {}
  OBVIOUS
<1>2. PICK m \in bad : \A k \in bad : m <= k
  BY <1>1, Least
<1>3. m \in 1..n /\ m - 1 \in 0..n /\ m - 1 \notin bad
  BY <1>2
<1> QED
  BY <1>3

\* FoldLeft goes through sets of positions, latest position first.
Positions(n) == SUBSET (1..n)
Latest(S)    == Max(S)
Before(S)    == S \ {Max(S)}

LEMMA PositionsGrow ==
  /\ \A S : S \in Positions(0) <=> S = {}
  /\ \A n \in Nat : {} \in Positions(n) /\ 1..n \in Positions(n)
  /\ \A n \in Nat : \A k \in 0..n : Positions(k) \subseteq Positions(n)
BY DEF Positions

LEMMA LatestIsLast ==
  ASSUME NEW n \in Nat, NEW S \in Positions(n), S # {}
  PROVE  Latest(S) \in 1..n /\ Before(S) \in Positions(n - 1)
<1> DEFINE down == {n - x : x \in S}
<1>1. \A x \in S : x \in 1..n
  BY DEF Positions
<1>2. PICK m \in down : \A k \in down : m <= k
  <2>1. down \subseteq Nat
    BY <1>1
  <2>2. down # {}
    OBVIOUS
  <2> HIDE DEF down
  <2> QED
    BY <2>1, <2>2, Least
<1>3. PICK x \in S : m = n - x
  BY <1>2
<1>4. \A y \in S : n - x <= n - y
  BY <1>2, <1>3
<1>5. \A y \in S : x >= y
  BY <1>1, <1>4
<1>6. PICK last \in S : last = Max(S) /\ \A y \in S : last >= y
  BY <1>5 DEF Max
<1>7. Latest(S) = last /\ Before(S) = S \ {last}
  BY <1>6 DEF Latest, Before
<1>8. last \in 1..n
  BY <1>1
<1>9. ASSUME NEW y \in S \ {last} PROVE y \in 1..(n - 1)
  <2>1. y \in 1..n /\ y <= last
    BY <1>1, <1>6
  <2> QED
    BY <1>8, <2>1
<1> QED
  BY <1>7, <1>8, <1>9 DEF Positions

\* "it" is what a fold of the steps g over s gives for each set of positions.
Iterates(it, base, g, s, n) ==
  \A S \in Positions(n) : it[S] = IF S = {} THEN base ELSE g[it[Before(S)]][s[Latest(S)]]

LEMMA FoldExists ==
  ASSUME NEW V, NEW E, NEW base \in V, NEW g \in [V -> [E -> V]], NEW n \in Nat, NEW s \in [1..n -> E]
  PROVE  \E it \in [Positions(n) -> V] : Iterates(it, base, g, s, n)
<1> DEFINE P(k)  == \E it \in [Positions(k) -> V] : Iterates(it, base, g, s, k)
           good  == {k \in 0..n : P(k)}
<1>1. 0 \in good
  <2>1. Iterates([S \in Positions(0) |-> base], base, g, s, 0)
    BY PositionsGrow DEF Iterates
  <2>2. [S \in Positions(0) |-> base] \in [Positions(0) -> V]
    OBVIOUS
  <2>3. P(0)
    BY <2>1, <2>2
  <2> QED
    BY <2>3
<1>2. ASSUME NEW m \in 1..n, m - 1 \in good PROVE m \in good
  <2>1. PICK it \in [Positions(m - 1) -> V] : Iterates(it, base, g, s, m - 1)
    BY <1>2
  <2> DEFINE jt == [S \in Positions(m) |-> IF S = {} THEN base ELSE g[it[Before(S)]][s[Latest(S)]]]
  <2> HIDE DEF good
  <2>2. ASSUME NEW S \in Positions(m), S # {}
        PROVE  s[Latest(S)] \in E /\ Before(S) \in Positions(m - 1)
    <3>1. Latest(S) \in 1..m /\ Before(S) \in Positions(m - 1)
      BY <2>2, LatestIsLast
    <3>2. Latest(S) \in 1..n
      BY <3>1
    <3> QED
      BY <3>1, <3>2
  <2>3. jt \in [Positions(m) -> V]
    <3> SUFFICES ASSUME NEW S \in Positions(m), S # {} PROVE g[it[Before(S)]][s[Latest(S)]] \in V
      OBVIOUS
    <3>1. it[Before(S)] \in V /\ s[Latest(S)] \in E
      BY <2>2
    <3> QED
      BY <3>1
  <2>4. ASSUME NEW S \in Positions(m - 1) PROVE jt[S] = it[S]
    <3>1. S \in Positions(m)
      BY PositionsGrow
    <3>2. it[S] = IF S = {} THEN base ELSE g[it[Before(S)]][s[Latest(S)]]
      BY <2>1 DEF Iterates
    <3> QED
      BY <3>1, <3>2
  <2>5. Iterates(jt, base, g, s, m)
    BY <2>2, <2>4 DEF Iterates
  <2>6. P(m)
    BY <2>3, <2>5
  <2> QED
    BY <2>6 DEF good
<1> HIDE DEF good
<1>3. n \in good
  BY <1>1, <1>2, UpTo
<1> QED
  BY <1>3 DEF good

\* What a fold gives, as long as it stays in V.
Follows(it, V, base, g, s, n) ==
  /\ it[{}] = base
  /\ \A S \in Positions(n) : S # {} /\ it[Before(S)] \in V => it[S] = g[it[Before(S)]][s[Latest(S)]]

LEMMA FoldTyped ==
  ASSUME NEW V, NEW E, NEW base \in V, NEW g \in [V -> [E -> V]], NEW n \in Nat, NEW s \in [1..n -> E],
         NEW it, Follows(it, V, base, g, s, n)
  PROVE  \A S \in Positions(n) : it[S] \in V
<1> DEFINE P(k)  == \A S \in Positions(k) : it[S] \in V
           good  == {k \in 0..n : P(k)}
<1>1. it[{}] \in V
  BY DEF Follows
<1>2. 0 \in good
  <2>1. P(0)
    BY <1>1, PositionsGrow
  <2> QED
    BY <2>1
<1>3. ASSUME NEW m \in 1..n, m - 1 \in good PROVE m \in good
  <2>1. P(m - 1)
    BY <1>3
  <2> HIDE DEF good
  <2>2. ASSUME NEW S \in Positions(m), S # {} PROVE it[S] \in V
    <3>1. Latest(S) \in 1..m /\ Before(S) \in Positions(m - 1)
      BY <2>2, LatestIsLast
    <3>2. it[Before(S)] \in V
      BY <2>1, <3>1
    <3>3. s[Latest(S)] \in E
      <4>1. Latest(S) \in 1..n
        BY <3>1
      <4> QED
        BY <4>1
    <3>4. S \in Positions(n)
      BY PositionsGrow
    <3>5. it[S] = g[it[Before(S)]][s[Latest(S)]]
      BY <2>2, <3>2, <3>4 DEF Follows
    <3> QED
      BY <3>2, <3>3, <3>5
  <2>3. P(m)
    BY <1>1, <2>2
  <2> QED
    BY <2>3 DEF good
<1> HIDE DEF good
<1>4. n \in good
  BY <1>2, <1>3, UpTo
<1> QED
  BY <1>4 DEF good

LEMMA WholeRange ==
  ASSUME NEW k \in Nat \ {0}
  PROVE  Latest(1..k) = k /\ Before(1..k) = 1..(k - 1)
<1>1. k \in 1..k /\ \A y \in 1..k : k >= y
  OBVIOUS
<1>2. Max(1..k) = k
  <2>1. PICK m : m = Max(1..k)
    OBVIOUS
  <2>2. m \in 1..k /\ \A y \in 1..k : m >= y
    BY <1>1, <2>1 DEF Max
  <2> QED
    BY <1>1, <2>1, <2>2
<1>3. (1..k) \ {k} = 1..(k - 1)
  OBVIOUS
<1> QED
  BY <1>2, <1>3 DEF Latest, Before

\* h is what the steps g make of base, one after the other.
Runs(h, V, base, g, s, n) ==
  h \in [0..n -> V] /\ h[0] = base /\ \A k \in 1..n : h[k] = g[h[k - 1]][s[k]]

\* What they make of it in the end.
Makes(x, V, base, g, s, n) == \E h : Runs(h, V, base, g, s, n) /\ x = h[n]

LEMMA FoldRuns ==
  ASSUME NEW V, NEW E, NEW base \in V, NEW g \in [V -> [E -> V]], NEW n \in Nat, NEW s \in [1..n -> E],
         NEW it, Follows(it, V, base, g, s, n)
  PROVE  Makes(it[1..n], V, base, g, s, n)
<1>1. PICK h : h = [k \in 0..n |-> it[1..k]]
  OBVIOUS
<1>2. \A S \in Positions(n) : it[S] \in V
  BY FoldTyped
<1>3. \A k \in 0..n : 1..k \in Positions(n)
  BY DEF Positions
<1>4. h \in [0..n -> V]
  BY <1>1, <1>2, <1>3
<1>5. h[0] = base
  <2>1. 1..0 = {}
    OBVIOUS
  <2> QED
    BY <1>1, <2>1 DEF Follows
<1>6. ASSUME NEW k \in 1..n PROVE h[k] = g[h[k - 1]][s[k]]
  <2>1. k \in 0..n /\ k - 1 \in 0..n /\ k \in Nat \ {0} /\ k \in 1..k
    OBVIOUS
  <2>2. Latest(1..k) = k /\ Before(1..k) = 1..(k - 1)
    BY <2>1, WholeRange
  <2>3. 1..k \in Positions(n) /\ 1..k # {} /\ it[Before(1..k)] \in V
    BY <1>2, <1>3, <2>1, <2>2
  <2>4. it[1..k] = g[it[1..(k - 1)]][s[k]]
    BY <2>2, <2>3 DEF Follows
  <2> QED
    BY <1>1, <2>1, <2>4
<1>7. it[1..n] = h[n]
  BY <1>1
<1> QED
  BY <1>4, <1>5, <1>6, <1>7 DEF Runs, Makes

\* One more element takes one more step.
LEMMA RunsOn ==
  ASSUME NEW V, NEW E, NEW base, NEW g, NEW s \in Seq(E), NEW e \in E,
         NEW h, Runs(h, V, base, g, s, Len(s)),
         NEW j, Runs(j, V, base, g, Append(s, e), Len(Append(s, e)))
  PROVE  j[Len(Append(s, e))] = g[h[Len(s)]][e]
<1>1. PICK n \in Nat : n = Len(s)
  BY LenProperties
<1>2. PICK t : t = Append(s, e)
  OBVIOUS
<1>3. Len(t) = n + 1 /\ t[n + 1] = e /\ \A k \in 1..n : t[k] = s[k]
  BY <1>1, <1>2, AppendProperties
<1>4. h[0] = base /\ \A k \in 1..n : h[k] = g[h[k - 1]][s[k]]
  BY <1>1 DEF Runs
<1>5. j[0] = base /\ \A k \in 1..(n + 1) : j[k] = g[j[k - 1]][t[k]]
  BY <1>2, <1>3 DEF Runs
<1> DEFINE good == {k \in 0..n : j[k] = h[k]}
<1>6. 0 \in good
  BY <1>4, <1>5
<1>7. ASSUME NEW k \in 1..n, k - 1 \in good PROVE k \in good
  <2>1. k \in 0..n /\ k \in 1..(n + 1) /\ j[k - 1] = h[k - 1]
    BY <1>7
  <2> QED
    BY <1>3, <1>4, <1>5, <2>1
<1> HIDE DEF good
<1>8. n \in good
  BY <1>6, <1>7, UpTo
<1>9. j[n] = h[n]
  BY <1>8 DEF good
<1>10. n + 1 \in 1..(n + 1) /\ (n + 1) - 1 = n
  OBVIOUS
<1>11. j[n + 1] = g[j[n]][t[n + 1]]
  BY <1>5, <1>10
<1> QED
  BY <1>1, <1>2, <1>3, <1>9, <1>11

LEMMA LatestAndBefore ==
  ASSUME NEW E, NEW n \in Nat, NEW s \in [1..n -> E], NEW S \in Positions(n), S # {}
  PROVE  Before(S) \in Positions(n) /\ s[Latest(S)] \in E
<1>1. Latest(S) \in 1..n /\ Before(S) \in Positions(n - 1)
  BY LatestIsLast
<1>2. n - 1 \in 0..n
  BY <1>1
<1> QED
  BY <1>1, <1>2, PositionsGrow

-----------------------------------------------------------------------------
(* coalesce makes edits of edits.                                          *)

OthersStep(v, e, table) ==
  IF e.table # table THEN Append(v, e) ELSE v

OthersSteps(it, edits, table) ==
  it = [S \in SUBSET DOMAIN edits |->
          IF S = {} THEN <<>> ELSE OthersStep(it[S \ {Max(S)}], edits[Max(S)], table)]

OthersFold(table) ==
  [v \in Seq(EditType) |-> [e \in EditType |-> OthersStep(v, e, table)]]

\* What a replacement leaves queued.
LEMMA OthersRuns ==
  ASSUME NEW edits \in Seq(EditType), NEW table
  PROVE  Makes(Others(edits, table), Seq(EditType), <<>>, OthersFold(table), edits, Len(edits))
<1> DEFINE V          == Seq(EditType)
           n          == Len(edits)
           Step(v, e) == OthersStep(v, e, table)
           g          == OthersFold(table)
           made       == CHOOSE it : OthersSteps(it, edits, table)
<1>1. <<>> \in V /\ n \in Nat /\ edits \in [1..n -> EditType] /\ DOMAIN edits = 1..n
  BY LenProperties, EmptySeq
<1>2. ASSUME NEW v \in V, NEW e \in EditType PROVE Step(v, e) \in V
  BY DEF OthersStep
<1>3. g \in [V -> [EditType -> V]] /\ \A v \in V, e \in EditType : g[v][e] = Step(v, e)
  BY <1>2 DEF OthersFold
<1> HIDE DEF g, n, V
<1>4. PICK it \in [Positions(n) -> V] : Iterates(it, <<>>, g, edits, n)
  BY <1>1, <1>3, FoldExists
<1>5. ASSUME NEW S \in Positions(n), S # {}
      PROVE  Before(S) \in Positions(n) /\ edits[Latest(S)] \in EditType
  BY <1>1, <1>5, LatestAndBefore
<1>6. OthersSteps(it, edits, table)
  <2>1. \A S \in Positions(n) : it[S] = IF S = {} THEN <<>> ELSE Step(it[Before(S)], edits[Latest(S)])
    BY <1>3, <1>4, <1>5 DEF Iterates
  <2> QED
    BY <1>1, <2>1 DEF Positions, Latest, Before, OthersSteps
<1>7. OthersSteps(made, edits, table)
  BY <1>6, Zenon
<1> HIDE DEF made
<1>8. \A S \in Positions(n) : made[S] = IF S = {} THEN <<>> ELSE Step(made[Before(S)], edits[Latest(S)])
  BY <1>1, <1>7 DEF Positions, Latest, Before, OthersSteps
<1>9. Follows(made, V, <<>>, g, edits, n)
  BY <1>1, <1>3, <1>5, <1>8, PositionsGrow DEF Follows
<1>10. Makes(made[1..n], V, <<>>, g, edits, n)
  BY <1>1, <1>3, <1>9, FoldRuns
<1>11. Others(edits, table) = made[DOMAIN edits]
  BY DEF Others, FoldLeft, MapThenFoldSet, OthersSteps, OthersStep, made
<1> QED
  BY <1>1, <1>10, <1>11 DEF V, g, n

\* An edit of another table is one more that is left.
LEMMA OthersIs ==
  ASSUME NEW edits \in Seq(EditType), NEW table
  PROVE  /\ Others(<<>>, table) = <<>>
         /\ Others(edits, table) \in Seq(EditType)
         /\ \A e \in EditType : Others(Append(edits, e), table) = OthersStep(Others(edits, table), e, table)
<1>1. PICK none : none = <<>>
  OBVIOUS
<1>2. none \in Seq(EditType) /\ Len(none) = 0
  BY <1>1, EmptySeq
<1>3. PICK f : Runs(f, Seq(EditType), <<>>, OthersFold(table), none, Len(none)) /\ Others(none, table) = f[Len(none)]
  BY <1>2, OthersRuns DEF Makes
<1>4. Others(<<>>, table) = <<>>
  BY <1>1, <1>2, <1>3 DEF Runs
<1>5. PICK h : /\ Runs(h, Seq(EditType), <<>>, OthersFold(table), edits, Len(edits))
               /\ Others(edits, table) = h[Len(edits)]
  BY OthersRuns DEF Makes
<1>6. h[Len(edits)] \in Seq(EditType)
  <2>1. Len(edits) \in 0..Len(edits)
    BY LenProperties
  <2> QED
    BY <1>5, <2>1 DEF Runs
<1>7. ASSUME NEW e \in EditType PROVE Others(Append(edits, e), table) = OthersStep(Others(edits, table), e, table)
  <2>1. PICK more : more = Append(edits, e)
    OBVIOUS
  <2>2. more \in Seq(EditType)
    BY <2>1, AppendProperties
  <2>3. PICK j : /\ Runs(j, Seq(EditType), <<>>, OthersFold(table), more, Len(more))
                 /\ Others(more, table) = j[Len(more)]
    BY <2>2, OthersRuns DEF Makes
  <2>4. j[Len(more)] = OthersFold(table)[h[Len(edits)]][e]
    BY <1>5, <2>1, <2>3, RunsOn
  <2>5. OthersFold(table)[h[Len(edits)]][e] = OthersStep(h[Len(edits)], e, table)
    BY <1>6 DEF OthersFold
  <2> QED
    BY <1>5, <2>1, <2>3, <2>4, <2>5
<1> QED
  BY <1>4, <1>5, <1>6, <1>7

PruneStep(v, e) ==
  Append(IF e.op = "replace" THEN Others(v, e.table) ELSE v, e)

PruneSteps(it, edits) ==
  it = [S \in SUBSET DOMAIN edits |->
          IF S = {} THEN <<>> ELSE PruneStep(it[S \ {Max(S)}], edits[Max(S)])]

PruneFold ==
  [v \in Seq(EditType) |-> [e \in EditType |-> PruneStep(v, e)]]

\* Pass 1.
LEMMA PruneRuns ==
  ASSUME NEW edits \in Seq(EditType)
  PROVE  Makes(Prune(edits), Seq(EditType), <<>>, PruneFold, edits, Len(edits))
<1> DEFINE V          == Seq(EditType)
           n          == Len(edits)
           Step(v, e) == PruneStep(v, e)
           g          == PruneFold
           made       == CHOOSE it : PruneSteps(it, edits)
<1>1. <<>> \in V /\ n \in Nat /\ edits \in [1..n -> EditType] /\ DOMAIN edits = 1..n
  BY LenProperties, EmptySeq
<1>2. ASSUME NEW v \in V, NEW e \in EditType PROVE Step(v, e) \in V
  BY OthersIs DEF PruneStep
<1>3. g \in [V -> [EditType -> V]] /\ \A v \in V, e \in EditType : g[v][e] = Step(v, e)
  BY <1>2 DEF PruneFold
<1> HIDE DEF g, n, V
<1>4. PICK it \in [Positions(n) -> V] : Iterates(it, <<>>, g, edits, n)
  BY <1>1, <1>3, FoldExists
<1>5. ASSUME NEW S \in Positions(n), S # {}
      PROVE  Before(S) \in Positions(n) /\ edits[Latest(S)] \in EditType
  BY <1>1, <1>5, LatestAndBefore
<1>6. PruneSteps(it, edits)
  <2>1. \A S \in Positions(n) : it[S] = IF S = {} THEN <<>> ELSE Step(it[Before(S)], edits[Latest(S)])
    BY <1>3, <1>4, <1>5 DEF Iterates
  <2> QED
    BY <1>1, <2>1 DEF Positions, Latest, Before, PruneSteps
<1>7. PruneSteps(made, edits)
  BY <1>6, Zenon
<1> HIDE DEF made
<1>8. \A S \in Positions(n) : made[S] = IF S = {} THEN <<>> ELSE Step(made[Before(S)], edits[Latest(S)])
  BY <1>1, <1>7 DEF Positions, Latest, Before, PruneSteps
<1>9. Follows(made, V, <<>>, g, edits, n)
  BY <1>1, <1>3, <1>5, <1>8, PositionsGrow DEF Follows
<1>10. Makes(made[1..n], V, <<>>, g, edits, n)
  BY <1>1, <1>3, <1>9, FoldRuns
<1>11. Prune(edits) = made[DOMAIN edits]
  BY DEF Prune, FoldLeft, MapThenFoldSet, PruneSteps, PruneStep, made
<1> QED
  BY <1>1, <1>10, <1>11 DEF V, g, n

\* Pass 1, edit by edit.
LEMMA PruneIs ==
  ASSUME NEW edits \in Seq(EditType)
  PROVE  /\ Prune(<<>>) = <<>>
         /\ Prune(edits) \in Seq(EditType)
         /\ \A e \in EditType : Prune(Append(edits, e)) = PruneStep(Prune(edits), e)
<1>1. PICK none : none = <<>>
  OBVIOUS
<1>2. none \in Seq(EditType) /\ Len(none) = 0
  BY <1>1, EmptySeq
<1>3. PICK f : Runs(f, Seq(EditType), <<>>, PruneFold, none, Len(none)) /\ Prune(none) = f[Len(none)]
  BY <1>2, PruneRuns DEF Makes
<1>4. Prune(<<>>) = <<>>
  BY <1>1, <1>2, <1>3 DEF Runs
<1>5. PICK h : Runs(h, Seq(EditType), <<>>, PruneFold, edits, Len(edits)) /\ Prune(edits) = h[Len(edits)]
  BY PruneRuns DEF Makes
<1>6. h[Len(edits)] \in Seq(EditType)
  <2>1. Len(edits) \in 0..Len(edits)
    BY LenProperties
  <2> QED
    BY <1>5, <2>1 DEF Runs
<1>7. ASSUME NEW e \in EditType PROVE Prune(Append(edits, e)) = PruneStep(Prune(edits), e)
  <2>1. PICK more : more = Append(edits, e)
    OBVIOUS
  <2>2. more \in Seq(EditType)
    BY <2>1, AppendProperties
  <2>3. PICK j : Runs(j, Seq(EditType), <<>>, PruneFold, more, Len(more)) /\ Prune(more) = j[Len(more)]
    BY <2>2, PruneRuns DEF Makes
  <2>4. j[Len(more)] = PruneFold[h[Len(edits)]][e]
    BY <1>5, <2>1, <2>3, RunsOn
  <2>5. PruneFold[h[Len(edits)]][e] = PruneStep(h[Len(edits)], e)
    BY <1>6 DEF PruneFold
  <2> QED
    BY <1>5, <2>1, <2>3, <2>4, <2>5
<1> QED
  BY <1>4, <1>5, <1>6, <1>7

LEMMA MoreRows ==
  ASSUME NEW e \in EditType, e.op = "add", NEW rows \in Seq(Rows)
  PROVE  [e EXCEPT !.rows = rows] \in EditType
<1>1. e \in [op : {"add", "replace"}, table : Tables, rows : Seq(Rows)]
  BY DEF EditType
<1>2. [e EXCEPT !.rows = rows] \in [op : {"add", "replace"}, table : Tables, rows : Seq(Rows)]
  BY <1>1
<1> QED
  BY <1>2 DEF EditType

MergeStep(v, e) ==
  IF e.op = "add" /\ v # <<>> /\ Last(v).op = "add" /\ Last(v).table = e.table
  THEN Append(Front(v), [Last(v) EXCEPT !.rows = @ \o e.rows])
  ELSE Append(v, e)

MergeSteps(it, edits) ==
  it = [S \in SUBSET DOMAIN edits |->
          IF S = {} THEN <<>> ELSE MergeStep(it[S \ {Max(S)}], edits[Max(S)])]

MergeFold ==
  [v \in Seq(EditType) |-> [e \in EditType |-> MergeStep(v, e)]]

\* Pass 2.
LEMMA MergeRuns ==
  ASSUME NEW edits \in Seq(EditType)
  PROVE  Makes(Merge(edits), Seq(EditType), <<>>, MergeFold, edits, Len(edits))
<1> DEFINE V          == Seq(EditType)
           n          == Len(edits)
           Step(v, e) == MergeStep(v, e)
           g          == MergeFold
           made       == CHOOSE it : MergeSteps(it, edits)
<1>1. <<>> \in V /\ n \in Nat /\ edits \in [1..n -> EditType] /\ DOMAIN edits = 1..n
  BY LenProperties, EmptySeq
<1>2. ASSUME NEW v \in V, NEW e \in EditType PROVE Step(v, e) \in V
  <2>1. CASE e.op = "add" /\ v # <<>> /\ Last(v).op = "add" /\ Last(v).table = e.table
    <3>1. Front(v) \in V /\ Last(v) \in EditType
      BY <2>1 DEF Front, Last
    <3>2. Last(v).rows \in Seq(Rows) /\ e.rows \in Seq(Rows)
      BY <2>1, <3>1 DEF EditType
    <3>3. Last(v).rows \o e.rows \in Seq(Rows)
      BY <3>2
    <3>5. [Last(v) EXCEPT !.rows = @ \o e.rows] \in EditType
      BY <2>1, <3>1, <3>3, MoreRows, Zenon
    <3>6. Append(Front(v), [Last(v) EXCEPT !.rows = @ \o e.rows]) \in V
      BY <3>1, <3>5
    <3> QED
      BY <2>1, <3>6 DEF MergeStep
  <2> QED
    BY <2>1 DEF MergeStep
<1>3. g \in [V -> [EditType -> V]] /\ \A v \in V, e \in EditType : g[v][e] = Step(v, e)
  BY <1>2 DEF MergeFold
<1> HIDE DEF g, n, V
<1>4. PICK it \in [Positions(n) -> V] : Iterates(it, <<>>, g, edits, n)
  BY <1>1, <1>3, FoldExists
<1>5. ASSUME NEW S \in Positions(n), S # {}
      PROVE  Before(S) \in Positions(n) /\ edits[Latest(S)] \in EditType
  BY <1>1, <1>5, LatestAndBefore
<1>6. MergeSteps(it, edits)
  <2>1. \A S \in Positions(n) : it[S] = IF S = {} THEN <<>> ELSE Step(it[Before(S)], edits[Latest(S)])
    BY <1>3, <1>4, <1>5 DEF Iterates
  <2> QED
    BY <1>1, <2>1 DEF Positions, Latest, Before, MergeSteps
<1>7. MergeSteps(made, edits)
  BY <1>6, Zenon
<1> HIDE DEF made
<1>8. \A S \in Positions(n) : made[S] = IF S = {} THEN <<>> ELSE Step(made[Before(S)], edits[Latest(S)])
  BY <1>1, <1>7 DEF Positions, Latest, Before, MergeSteps
<1>9. Follows(made, V, <<>>, g, edits, n)
  BY <1>1, <1>3, <1>5, <1>8, PositionsGrow DEF Follows
<1>10. Makes(made[1..n], V, <<>>, g, edits, n)
  BY <1>1, <1>3, <1>9, FoldRuns
<1>11. Merge(edits) = made[DOMAIN edits]
  BY DEF Merge, FoldLeft, MapThenFoldSet, MergeSteps, MergeStep, made
<1> QED
  BY <1>1, <1>10, <1>11 DEF V, g, n

\* Pass 2, edit by edit.
LEMMA MergeIs ==
  ASSUME NEW edits \in Seq(EditType)
  PROVE  /\ Merge(<<>>) = <<>>
         /\ Merge(edits) \in Seq(EditType)
         /\ \A e \in EditType : Merge(Append(edits, e)) = MergeStep(Merge(edits), e)
<1>1. PICK none : none = <<>>
  OBVIOUS
<1>2. none \in Seq(EditType) /\ Len(none) = 0
  BY <1>1, EmptySeq
<1>3. PICK f : Runs(f, Seq(EditType), <<>>, MergeFold, none, Len(none)) /\ Merge(none) = f[Len(none)]
  BY <1>2, MergeRuns DEF Makes
<1>4. Merge(<<>>) = <<>>
  BY <1>1, <1>2, <1>3 DEF Runs
<1>5. PICK h : Runs(h, Seq(EditType), <<>>, MergeFold, edits, Len(edits)) /\ Merge(edits) = h[Len(edits)]
  BY MergeRuns DEF Makes
<1>6. h[Len(edits)] \in Seq(EditType)
  <2>1. Len(edits) \in 0..Len(edits)
    BY LenProperties
  <2> QED
    BY <1>5, <2>1 DEF Runs
<1>7. ASSUME NEW e \in EditType PROVE Merge(Append(edits, e)) = MergeStep(Merge(edits), e)
  <2>1. PICK more : more = Append(edits, e)
    OBVIOUS
  <2>2. more \in Seq(EditType)
    BY <2>1, AppendProperties
  <2>3. PICK j : Runs(j, Seq(EditType), <<>>, MergeFold, more, Len(more)) /\ Merge(more) = j[Len(more)]
    BY <2>2, MergeRuns DEF Makes
  <2>4. j[Len(more)] = MergeFold[h[Len(edits)]][e]
    BY <1>5, <2>1, <2>3, RunsOn
  <2>5. MergeFold[h[Len(edits)]][e] = MergeStep(h[Len(edits)], e)
    BY <1>6 DEF MergeFold
  <2> QED
    BY <1>5, <2>1, <2>3, <2>4, <2>5
<1> QED
  BY <1>4, <1>5, <1>6, <1>7

LEMMA CoalesceType ==
  ASSUME NEW edits \in Seq(EditType)
  PROVE  Coalesce(edits) \in Seq(EditType)
BY PruneIs, MergeIs DEF Coalesce

-----------------------------------------------------------------------------
(* What a reversal leaves, exact or not.                                   *)

\* A row that is put back beside itself gets a tag that is not there yet.
LEMMA TagAgain ==
  ASSUME NEW n \in Nat, NEW g \in Tags(n), NEW h \in Tags(n)
  PROVE  /\ Append(g, n + 1) \in Tags(n + 1)
         /\ h # Append(g, n + 1)
         /\ Append(g, n + 1) = Append(h, n + 1) => g = h
<1>1. /\ g \in Seq(Nat) /\ Len(g) \in Nat /\ Len(g) >= 2 /\ \A k \in 1..Len(g) : k # 2 => g[k] <= n
      /\ h \in Seq(Nat) /\ Len(h) \in Nat /\ \A k \in 1..Len(h) : k # 2 => h[k] <= n
      /\ \A k \in 1..Len(g) : g[k] \in Nat
  BY LenProperties, ElementOfSeq DEF Tags
<1>2. PICK a : a = Append(g, n + 1)
  OBVIOUS
<1>3. /\ a \in Seq(Nat) /\ Len(a) = Len(g) + 1 /\ a[Len(g) + 1] = n + 1
      /\ \A k \in 1..Len(g) : a[k] = g[k]
  BY <1>1, <1>2, AppendProperties
<1>4. ASSUME NEW k \in 1..Len(a), k # 2 PROVE a[k] <= n + 1
  <2>1. k = Len(g) + 1 \/ k \in 1..Len(g)
    BY <1>1, <1>3
  <2>2. CASE k \in 1..Len(g)
    <3>1. a[k] = g[k]
      BY <1>3, <2>2
    <3>2. g[k] <= n /\ g[k] \in Nat
      BY <1>1, <1>4, <2>2
    <3> QED
      BY <3>1, <3>2
  <2>3. CASE k = Len(g) + 1
    BY <1>3, <2>3
  <2> QED
    BY <2>1, <2>2, <2>3
<1>5. a \in Tags(n + 1)
  BY <1>1, <1>3, <1>4 DEF Tags
<1>6. ASSUME h = a PROVE FALSE
  <2>1. Len(g) + 1 \in 1..Len(h) /\ Len(g) + 1 # 2
    BY <1>1, <1>3, <1>6
  <2>2. h[Len(g) + 1] <= n
    BY <1>1, <2>1
  <2> QED
    BY <1>3, <1>6, <2>2
<1>7. Append(g, n + 1) = Append(h, n + 1) => g = h
  <2>1. n + 1 \in Nat
    OBVIOUS
  <2> QED
    BY <1>1, <2>1, AppendInjective
<1> QED
  BY <1>2, <1>5, <1>6, <1>7

LEMMA RestockType ==
  ASSUME NEW n \in Nat, NEW t \in TablesOf(n), NEW u \in TablesOf(n)
  PROVE  Restock(t, u, n + 1) \in TablesOf(n + 1)
<1>1. t \in TablesOf(n + 1) /\ u \in TablesOf(n + 1)
  BY TagsGrow
<1>2. CASE ~\E x \in t, y \in u : x.tag = y.tag
  <2>1. IsFiniteSet(t \cup u)
    BY FS_Union DEF TablesOf
  <2> QED
    BY <1>1, <1>2, <2>1 DEF Restock, TablesOf, Distinct
<1>3. CASE \E x \in t, y \in u : x.tag = y.tag
  <2> DEFINE Again(y) == [y EXCEPT !.tag = Append(@, n + 1)]
             again == {Again(y) : y \in u}
  <2>1. \A x \in t \cup u : x.tag \in Tags(n) /\ x \in Occurrences(n)
    BY DEF TablesOf, Occurrences
  <2>2. ASSUME NEW y \in u
        PROVE  Again(y) \in Occurrences(n + 1) /\ Again(y).tag = Append(y.tag, n + 1)
    <3>1. Append(y.tag, n + 1) \in Tags(n + 1)
      BY <2>1, TagAgain
    <3>2. y \in Occurrences(n)
      BY <2>1
    <3>3. Again(y) = [row |-> y.row, tag |-> Append(y.tag, n + 1)]
      BY <3>2 DEF Occurrences
    <3> QED
      BY <3>1, <3>2, <3>3 DEF Occurrences
  <2> HIDE DEF Again
  <2>3. ASSUME NEW y \in u, NEW z \in u, Again(y).tag = Again(z).tag
        PROVE  y = z
    <3>1. y.tag = z.tag
      BY <2>1, <2>2, <2>3, TagAgain
    <3> QED
      BY <3>1 DEF TablesOf, Distinct
  <2>4. ASSUME NEW x \in t, NEW y \in u PROVE x.tag # Again(y).tag
    BY <2>1, <2>2, TagAgain
  <2>5. Distinct(again)
    <3> SUFFICES ASSUME NEW y \in u, NEW z \in u, Again(y).tag = Again(z).tag PROVE Again(y) = Again(z)
      BY DEF Distinct
    <3> QED
      BY <2>3
  <2>6. again \subseteq Occurrences(n + 1)
    BY <2>2
  <2>7. \A x \in t, z \in again : x.tag # z.tag
    BY <2>4
  <2>8. IsFiniteSet(t \cup again)
    <3> DEFINE f == [y \in u |-> Again(y)]
    <3>1. IsFiniteSet({f[y] : y \in u})
      BY FiniteImage DEF TablesOf
    <3>2. {f[y] : y \in u} = again
      OBVIOUS
    <3> QED
      BY <3>1, <3>2, FS_Union DEF TablesOf
  <2> HIDE DEF again
  <2>9. t \cup again \in TablesOf(n + 1)
    BY <1>1, <2>5, <2>6, <2>7, <2>8 DEF TablesOf, Distinct
  <2>10. Restock(t, u, n + 1) = t \cup again
    BY <1>3 DEF Restock, Again, again
  <2> QED
    BY <2>9, <2>10
<1> QED
  BY <1>2, <1>3

\* What Session.results keeps.
ResultsOf(n) == [edit : EditType, blob : TablesOf(n), was : BOOLEAN]

LEMMA ReversedType ==
  ASSUME NEW n \in Nat, NEW t \in TablesOf(n), NEW r \in ResultsOf(n)
  PROVE  Reversed(r, t, n + 1) \in TablesOf(n + 1)
<1>1. r.edit \in EditType /\ r.blob \in TablesOf(n)
  BY DEF ResultsOf
<1>2. t \in TablesOf(n + 1) /\ r.blob \in TablesOf(n + 1)
  BY <1>1, TagsGrow
<1>3. \A cols : AntiJoin(t, r.blob, cols) \in TablesOf(n)
  <2>1. \A cols : AntiJoin(t, r.blob, cols) \in SUBSET t
    BY DEF AntiJoin
  <2>2. \A u \in SUBSET t : IsFiniteSet(u)
    BY FS_Subset DEF TablesOf
  <2> QED
    BY <2>1, <2>2 DEF TablesOf, Distinct
<1>4. \A cols : AntiJoin(t, r.blob, cols) \in TablesOf(n + 1)
  BY <1>3, TagsGrow
<1>5. /\ Restock(t, r.blob, n + 1) \in TablesOf(n + 1)
      /\ \A cols : Restock(AntiJoin(t, r.blob, cols), r.blob, n + 1) \in TablesOf(n + 1)
  BY <1>1, <1>3, RestockType
<1>6. r.edit.op \in {"add", "delete", "update", "replace"}
  BY <1>1 DEF EditType
<1> QED
  BY <1>2, <1>4, <1>5, <1>6 DEF Reversed

-----------------------------------------------------------------------------
(* The inductive invariant.                                                *)

PackagesOf(n) == [tables : [Tables -> TablesOf(n)], dirty : [Tables -> BOOLEAN]]
LogsOf(n)     == [results : Seq(ResultsOf(n)), trail : Seq(PackagesOf(n)), exact : BOOLEAN]

\* Reversing r takes the package after it back to the package before it.
Undoes(r, before, after) ==
  \A k \in Nat :
    before = Now([after.tables EXCEPT ![r.edit.table] = Reversed(r, @, k)],
                 [after.dirty EXCEPT ![r.edit.table] = r.was])

\* A history that its results, reversed from the last to the first, retrace.
Traced(rs, tr) == \A i \in 1..Len(rs) : Undoes(rs[i], tr[i], tr[i + 1])

StateTyped ==
  /\ stamp \in Nat
  /\ tables \in [Tables -> TablesOf(stamp)]
  /\ dirty \in [Tables -> BOOLEAN]
  /\ results \in Seq(ResultsOf(stamp))
  /\ trail \in Seq(PackagesOf(stamp))
  /\ exact \in BOOLEAN
  /\ log # Nothing => log \in LogsOf(stamp)

ControlTyped ==
  /\ pc \in Undoing \cup {"idle", "session", "batch", "committing", "validating"}
  /\ batch \in [pending : Seq(EditType), strict : BOOLEAN, logged : BOOLEAN, flushing : BOOLEAN]
  /\ todo \in Seq(EditType)
  /\ pc # "committing" => todo = <<>>
  /\ pc # "batch" => batch.pending = <<>>

\* The history is the packages between the results, and now.
TrailFits ==
  /\ Len(trail) > Len(results)
  /\ pc \notin Undoing => Len(trail) = Len(results) + 1
  /\ log # Nothing => Len(log.trail) = Len(log.results) + 1

Retraced ==
  exact => /\ Traced(results, trail)
           /\ Now(tables, dirty) = trail[Len(results) + 1]

LogRetraced == log # Nothing /\ log.exact => Traced(log.results, log.trail)

IInv == StateTyped /\ ControlTyped /\ TrailFits /\ Retraced /\ LogRetraced

LEMMA HistoriesGrow ==
  ASSUME NEW m \in Nat, NEW n \in Nat, m <= n
  PROVE  /\ [Tables -> TablesOf(m)] \subseteq [Tables -> TablesOf(n)]
         /\ ResultsOf(m) \subseteq ResultsOf(n)
         /\ PackagesOf(m) \subseteq PackagesOf(n)
         /\ Seq(ResultsOf(m)) \subseteq Seq(ResultsOf(n))
         /\ Seq(PackagesOf(m)) \subseteq Seq(PackagesOf(n))
         /\ LogsOf(m) \subseteq LogsOf(n)
<1>1. TablesOf(m) \subseteq TablesOf(n)
  BY TagsGrow
<1>2. ResultsOf(m) \subseteq ResultsOf(n)
  BY <1>1 DEF ResultsOf
<1>3. [Tables -> TablesOf(m)] \subseteq [Tables -> TablesOf(n)]
  BY <1>1
<1>4. PackagesOf(m) \subseteq PackagesOf(n)
  BY <1>3 DEF PackagesOf
<1>5. Seq(ResultsOf(m)) \subseteq Seq(ResultsOf(n)) /\ Seq(PackagesOf(m)) \subseteq Seq(PackagesOf(n))
  BY <1>2, <1>4, SeqMonotonic
<1> QED
  BY <1>2, <1>3, <1>4, <1>5 DEF LogsOf

\* A Session without results has nothing to retrace.
LEMMA FreshKeeps ==
  ASSUME StateTyped, UNCHANGED package, Fresh
  PROVE  /\ results' \in Seq(ResultsOf(stamp')) /\ trail' \in Seq(PackagesOf(stamp')) /\ exact' \in BOOLEAN
         /\ Len(trail') = Len(results') + 1
         /\ Retraced'
<1>1. Now(tables, dirty) \in PackagesOf(stamp)
  BY DEF StateTyped, PackagesOf, Now
<1>2. trail' = <<Now(tables, dirty)>> /\ results' = <<>> /\ exact' = TRUE
  BY DEF Fresh
<1>3. Len(<<>>) = 0
  BY EmptySeq
<1>4. Len(trail') = 1 /\ trail'[1] = Now(tables, dirty)
  BY <1>2
<1> QED
  BY <1>1, <1>2, <1>3, <1>4 DEF Retraced, Traced, package, Now

\* An edit adds its result to those that can be reversed.
LEMMA ApplyKeeps ==
  ASSUME IInv, pc \notin Undoing, NEW e \in EditType, Apply(e), UNCHANGED log
  PROVE  StateTyped' /\ Len(trail') = Len(results') + 1 /\ Retraced'
<1> DEFINE t == tables[e.table]
           r == ResultOf(e, t, stamp + 1, dirty[e.table])
           p == Now(tables', dirty')
<1>1. /\ stamp' = stamp + 1 /\ stamp \in Nat /\ stamp' \in Nat
      /\ tables' = [tables EXCEPT ![e.table] = Applied(e, t, stamp + 1)]
      /\ dirty' = [dirty EXCEPT ![e.table] = TRUE]
      /\ results' = Append(results, r)
      /\ trail' = Append(trail, p)
      /\ exact' = (exact /\ Reversible(e, t))
  BY DEF Apply, IInv, StateTyped, ResultOf
<1>2. e.table \in Tables /\ t \in TablesOf(stamp) /\ dirty[e.table] \in BOOLEAN
  BY DEF EditType, IInv, StateTyped
<1>3. Applied(e, t, stamp + 1) \in TablesOf(stamp') /\ Blob(e, t, stamp + 1) \in TablesOf(stamp')
  BY <1>1, <1>2, AppliedType
<1>4. r \in ResultsOf(stamp')
  BY <1>2, <1>3 DEF ResultOf, ResultsOf
<1>5. /\ [Tables -> TablesOf(stamp)] \subseteq [Tables -> TablesOf(stamp')]
      /\ Seq(ResultsOf(stamp)) \subseteq Seq(ResultsOf(stamp'))
      /\ Seq(PackagesOf(stamp)) \subseteq Seq(PackagesOf(stamp'))
      /\ LogsOf(stamp) \subseteq LogsOf(stamp')
  <2>1. stamp <= stamp'
    BY <1>1
  <2> QED
    BY <1>1, <2>1, HistoriesGrow, Zenon
<1>6. tables' \in [Tables -> TablesOf(stamp')] /\ dirty' \in [Tables -> BOOLEAN]
  BY <1>1, <1>2, <1>3, <1>5 DEF IInv, StateTyped
<1>7. p \in PackagesOf(stamp')
  BY <1>6 DEF PackagesOf, Now
<1>8. results \in Seq(ResultsOf(stamp')) /\ trail \in Seq(PackagesOf(stamp'))
  BY <1>5 DEF IInv, StateTyped
<1> HIDE DEF r, p
<1>9. /\ results' \in Seq(ResultsOf(stamp')) /\ Len(results') = Len(results) + 1
      /\ \A i \in 1..Len(results) : results'[i] = results[i]
      /\ results'[Len(results) + 1] = r
  BY <1>1, <1>4, <1>8, AppendProperties
<1>10. /\ trail' \in Seq(PackagesOf(stamp')) /\ Len(trail') = Len(trail) + 1
       /\ \A i \in 1..Len(trail) : trail'[i] = trail[i]
       /\ trail'[Len(trail) + 1] = p
  BY <1>1, <1>7, <1>8, AppendProperties
<1>11. StateTyped'
  BY <1>1, <1>5, <1>6, <1>9, <1>10 DEF IInv, StateTyped
<1>12. Len(trail) = Len(results) + 1 /\ Len(results) \in Nat
  BY <1>8, LenProperties DEF IInv, TrailFits
<1>13. ASSUME exact'
       PROVE  Traced(results', trail')
  <2>1. exact /\ Reversible(e, t) /\ Now(tables, dirty) = trail[Len(results) + 1] /\ Traced(results, trail)
    BY <1>1, <1>13 DEF IInv, Retraced
  <2>2. Undoes(r, Now(tables, dirty), p)
    <3> SUFFICES ASSUME NEW k \in Nat
                 PROVE  Now(tables, dirty) = Now([p.tables EXCEPT ![r.edit.table] = Reversed(r, @, k)],
                                                 [p.dirty EXCEPT ![r.edit.table] = r.was])
      BY DEF Undoes
    <3>1. r.edit = e /\ r.was = dirty[e.table] /\ p.tables = tables' /\ p.dirty = dirty'
      BY DEF r, p, ResultOf, Now
    <3>2. tables'[e.table] = Applied(e, t, stamp + 1)
      BY <1>1, <1>2 DEF IInv, StateTyped
    <3>3. Reversed(r, Applied(e, t, stamp + 1), k) = t
      BY <1>1, <1>2, <2>1, ReversibleIsUndone DEF r
    <3>4. [tables' EXCEPT ![e.table] = t] = tables
      BY <1>1, <1>2 DEF IInv, StateTyped
    <3>5. [dirty' EXCEPT ![e.table] = dirty[e.table]] = dirty
      BY <1>1, <1>2 DEF IInv, StateTyped
    <3> QED
      BY <3>1, <3>2, <3>3, <3>4, <3>5
  <2>3. ASSUME NEW i \in 1..Len(results') PROVE Undoes(results'[i], trail'[i], trail'[i + 1])
    <3>1. CASE i = Len(results) + 1
      BY <1>9, <1>10, <1>12, <2>1, <2>2, <3>1
    <3>2. CASE i \in 1..Len(results)
      <4>1. results'[i] = results[i] /\ trail'[i] = trail[i] /\ trail'[i + 1] = trail[i + 1]
        BY <1>9, <1>10, <1>12, <3>2
      <4> QED
        BY <2>1, <3>2, <4>1 DEF Traced
    <3> QED
      BY <1>9, <1>12, <3>1, <3>2
  <2> QED
    BY <2>3 DEF Traced
<1>14. Now(tables', dirty') = trail'[Len(results') + 1]
  BY <1>9, <1>10, <1>12 DEF p
<1>15. Retraced'
  BY <1>13, <1>14 DEF Retraced
<1> QED
  BY <1>9, <1>10, <1>11, <1>12, <1>15

LEMMA InitIInv == Init => IInv
<1> SUFFICES ASSUME Init PROVE IInv
  OBVIOUS
<1>1. PICK p \in Initial : tables = [t \in Tables |-> Numbered(p[t], 0)]
  BY DEF Init
<1>2. \A t \in Tables : p[t] \in Seq(Rows)
  BY EditsAssumption
<1>3. tables \in [Tables -> TablesOf(0)]
  BY <1>1, <1>2, NumberedType
<1>4. /\ stamp = 0 /\ dirty \in [Tables -> BOOLEAN] /\ results = <<>> /\ exact = TRUE
      /\ pc = "idle" /\ batch = NoBatch /\ todo = <<>> /\ log = Nothing
      /\ trail = <<Now(tables, dirty)>>
  BY DEF Init
<1>5. Now(tables, dirty) \in PackagesOf(0)
  BY <1>3, <1>4 DEF Now, PackagesOf
<1>6. Len(trail) = 1 /\ Len(results) = 0 /\ trail[1] = Now(tables, dirty)
  BY <1>4
<1>7. StateTyped
  BY <1>3, <1>4, <1>5 DEF StateTyped
<1>8. ControlTyped
  BY <1>4 DEF ControlTyped, NoBatch
<1>9. TrailFits
  BY <1>4, <1>6 DEF TrailFits
<1>10. Retraced
  BY <1>4, <1>6 DEF Retraced, Traced
<1> QED
  BY <1>4, <1>7, <1>8, <1>9, <1>10 DEF IInv, LogRetraced

LEMMA AllButTheLast ==
  ASSUME NEW S, NEW s \in Seq(S), s # <<>>
  PROVE  /\ Front(s) \in Seq(S) /\ Len(Front(s)) = Len(s) - 1
         /\ \A i \in 1..(Len(s) - 1) : Front(s)[i] = s[i]
<1> DEFINE n == Len(s) - 1
<1>1. Len(s) \in Nat \ {0}
  BY EmptySeq
<1>2. \A i \in 1..n : s[i] \in S
  BY <1>1, ElementOfSeq
<1>3. n \in Nat /\ 1 \in Int /\ n \in Int
  BY <1>1
<1> HIDE DEF n
<1>4. Front(s) = SubSeq(s, 1, n)
  BY DEF Front, n
<1>5. SubSeq(s, 1, n) \in Seq(S) /\ Len(SubSeq(s, 1, n)) = n
  BY <1>2, <1>3, SubSeqProperties
<1>6. \A i \in 1..n : SubSeq(s, 1, n)[i] = s[i]
  BY <1>2, <1>3
<1> QED
  BY <1>4, <1>5, <1>6 DEF n

\* The steps of a reversal.
LEMMA ReverseEditKeeps == IInv /\ ReverseEdit => IInv'
<1> SUFFICES ASSUME IInv, ReverseEdit PROVE IInv'
  OBVIOUS
<1> DEFINE r == Last(results)
           n == Len(results)
           t == r.edit.table
<1>1. /\ stamp' = stamp + 1 /\ stamp \in Nat /\ stamp' \in Nat /\ stamp <= stamp'
      /\ tables' = [tables EXCEPT ![t] = Reversed(r, @, stamp + 1)]
      /\ dirty' = [dirty EXCEPT ![t] = r.was]
      /\ results' = Front(results)
      /\ pc \in Undoing /\ results # <<>>
      /\ UNCHANGED <<pc, trail, exact, batch, todo, log>>
  BY DEF ReverseEdit, IInv, StateTyped
<1>2. /\ n \in Nat /\ n >= 1 /\ r = results[n] /\ r \in ResultsOf(stamp)
  <2>1. results \in Seq(ResultsOf(stamp))
    BY DEF IInv, StateTyped
  <2>2. n \in Nat /\ n >= 1
    BY <1>1, <2>1, EmptySeq
  <2>3. results[n] \in ResultsOf(stamp)
    BY <2>1, <2>2, ElementOfSeq
  <2> QED
    BY <2>2, <2>3 DEF Last
<1>3. /\ results' \in Seq(ResultsOf(stamp)) /\ Len(results') = n - 1
      /\ \A i \in 1..(n - 1) : results'[i] = results[i]
  <2>1. results \in Seq(ResultsOf(stamp))
    BY DEF IInv, StateTyped
  <2> QED
    BY <1>1, <2>1, AllButTheLast
<1>4. /\ [Tables -> TablesOf(stamp)] \subseteq [Tables -> TablesOf(stamp')]
      /\ Seq(ResultsOf(stamp)) \subseteq Seq(ResultsOf(stamp'))
      /\ Seq(PackagesOf(stamp)) \subseteq Seq(PackagesOf(stamp'))
      /\ LogsOf(stamp) \subseteq LogsOf(stamp')
  BY <1>1, HistoriesGrow, Zenon
<1>5. t \in Tables /\ tables[t] \in TablesOf(stamp) /\ r.was \in BOOLEAN
  BY <1>2 DEF ResultsOf, EditType, IInv, StateTyped
<1>6. Reversed(r, tables[t], stamp + 1) \in TablesOf(stamp')
  BY <1>1, <1>2, <1>5, ReversedType
<1>7. tables' \in [Tables -> TablesOf(stamp')] /\ dirty' \in [Tables -> BOOLEAN]
  BY <1>1, <1>4, <1>5, <1>6 DEF IInv, StateTyped
<1>8. StateTyped'
  BY <1>1, <1>3, <1>4, <1>7 DEF IInv, StateTyped
<1>9. ControlTyped'
  BY <1>1 DEF IInv, ControlTyped
<1>10. TrailFits'
  <2>1. Len(trail) \in Nat
    BY LenProperties DEF IInv, StateTyped
  <2> QED
    BY <1>1, <1>2, <1>3, <2>1 DEF IInv, TrailFits
<1>11. ASSUME exact PROVE Traced(results', trail) /\ Now(tables', dirty') = trail[n]
  <2>1. Traced(results, trail) /\ Now(tables, dirty) = trail[n + 1]
    BY <1>11 DEF IInv, Retraced
  <2>2. Undoes(r, trail[n], trail[n + 1])
    BY <1>2, <2>1 DEF Traced
  <2>3. trail[n] = Now([Now(tables, dirty).tables EXCEPT ![t] = Reversed(r, @, stamp + 1)],
                       [Now(tables, dirty).dirty EXCEPT ![t] = r.was])
    BY <1>1, <2>1, <2>2 DEF Undoes
  <2>4. trail[n] = Now(tables', dirty')
    BY <1>1, <2>3 DEF Now
  <2>5. ASSUME NEW i \in 1..(n - 1) PROVE Undoes(results'[i], trail[i], trail[i + 1])
    BY <1>2, <1>3, <2>1 DEF Traced
  <2> QED
    BY <1>3, <2>4, <2>5 DEF Traced
<1>12. Retraced'
  BY <1>1, <1>2, <1>3, <1>11 DEF Retraced
<1>13. LogRetraced'
  BY <1>1 DEF IInv, LogRetraced
<1> QED
  BY <1>8, <1>9, <1>10, <1>12, <1>13 DEF IInv

LEMMA ReverseFailsKeeps == IInv /\ ReverseFails => IInv'
<1> SUFFICES ASSUME IInv, ReverseFails PROVE IInv'
  OBVIOUS
<1>1. /\ pc \in Undoing /\ results # <<>> /\ exact' = FALSE
      /\ results' = IF pc = "reversing" THEN Front(results) ELSE <<>>
      /\ UNCHANGED <<tables, dirty, stamp, pc, trail, batch, todo, log>>
  BY DEF ReverseFails, package
<1>2. results \in Seq(ResultsOf(stamp)) /\ Len(results) \in Nat /\ Len(trail) \in Nat
  BY LenProperties DEF IInv, StateTyped
<1>3. Front(results) \in Seq(ResultsOf(stamp)) /\ Len(Front(results)) <= Len(results)
  BY <1>1, <1>2, AllButTheLast
<1>4. <<>> \in Seq(ResultsOf(stamp)) /\ Len(<<>>) = 0
  BY EmptySeq
<1>5. results' \in Seq(ResultsOf(stamp')) /\ Len(results') <= Len(results) /\ Len(results') \in Nat
  BY <1>1, <1>2, <1>3, <1>4, LenProperties
<1>6. StateTyped'
  BY <1>1, <1>5 DEF IInv, StateTyped
<1>7. TrailFits'
  BY <1>1, <1>2, <1>5 DEF IInv, TrailFits
<1> QED
  BY <1>1, <1>6, <1>7 DEF IInv, ControlTyped, Retraced, LogRetraced

LEMMA ReversalKeeps == IInv /\ Reversal => IInv'
<1> SUFFICES ASSUME IInv, Reversal PROVE IInv'
  OBVIOUS
<1>1. UNCHANGED <<package, todo, log>> /\ Fresh /\ pc' = "idle" /\ batch' = NoBatch /\ pc \in Undoing
  BY DEF Reversal
<1>2. /\ results' \in Seq(ResultsOf(stamp')) /\ trail' \in Seq(PackagesOf(stamp')) /\ exact' \in BOOLEAN
      /\ Len(trail') = Len(results') + 1 /\ Len(results') \in Nat
      /\ Retraced'
  BY <1>1, FreshKeeps, LenProperties DEF IInv
<1> QED
  BY <1>1, <1>2 DEF IInv, StateTyped, ControlTyped, TrailFits, LogRetraced, NoBatch, package, Undoing

LEMMA RollBackLogKeeps == IInv /\ RollBackLog => IInv'
<1> SUFFICES ASSUME IInv, RollBackLog PROVE IInv'
  OBVIOUS
<1>1. /\ pc = "idle" /\ pc' = "replaying" /\ log # Nothing
      /\ results' = log.results /\ trail' = log.trail
      /\ exact' = (log.exact /\ Now(tables, dirty) = Last(log.trail))
      /\ UNCHANGED <<tables, dirty, stamp, batch, todo, log>>
  BY DEF RollBackLog, package
<1>2. /\ log.results \in Seq(ResultsOf(stamp)) /\ log.trail \in Seq(PackagesOf(stamp)) /\ log.exact \in BOOLEAN
      /\ Len(log.trail) = Len(log.results) + 1
      /\ log.exact => Traced(log.results, log.trail)
  BY <1>1 DEF IInv, StateTyped, LogsOf, TrailFits, LogRetraced
<1>3. Len(log.results) \in Nat
  BY <1>2, LenProperties
<1>4. StateTyped'
  BY <1>1, <1>2 DEF IInv, StateTyped
<1>5. ControlTyped'
  BY <1>1 DEF IInv, ControlTyped, Undoing
<1>6. TrailFits'
  BY <1>1, <1>2, <1>3 DEF IInv, TrailFits, Undoing
<1>7. Retraced'
  BY <1>1, <1>2 DEF Retraced, Last
<1> QED
  BY <1>1, <1>4, <1>5, <1>6, <1>7 DEF IInv, LogRetraced

-----------------------------------------------------------------------------
(* The other steps.                                                        *)

\* What a step keeps that leaves the package and its history alone.
LEMMA HistoryKept ==
  ASSUME IInv, UNCHANGED <<package, undoing, log>>
  PROVE  StateTyped' /\ Retraced' /\ LogRetraced'
         /\ (pc \notin Undoing \/ pc' \in Undoing => TrailFits')
<1> USE DEF package, undoing
<1>1. StateTyped'
  BY DEF IInv, StateTyped
<1>2. Retraced' /\ LogRetraced'
  BY DEF IInv, Retraced, LogRetraced
<1>3. pc \notin Undoing \/ pc' \in Undoing => TrailFits'
  BY DEF IInv, TrailFits
<1> QED
  BY <1>1, <1>2, <1>3

\* A log holds what can be reversed now.
LEMMA WriteLogKeeps ==
  ASSUME IInv, pc \notin Undoing, UNCHANGED package, NEW wanted \in BOOLEAN,
         WriteLog(wanted) \/ log' = Nothing
  PROVE  /\ log' # Nothing => log' \in LogsOf(stamp')
         /\ log' # Nothing => Len(log'.trail) = Len(log'.results) + 1
         /\ LogRetraced'
<1> DEFINE written == [results |-> results, trail |-> trail, exact |-> exact]
<1>1. log' = Nothing \/ log' = log \/ log' = written
  BY DEF WriteLog
<1>2. written \in LogsOf(stamp) /\ Len(trail) = Len(results) + 1 /\ (exact => Traced(results, trail))
  BY DEF IInv, StateTyped, LogsOf, TrailFits, Retraced
<1>3. stamp' = stamp
  BY DEF package
<1>4. log # Nothing => /\ log \in LogsOf(stamp) /\ Len(log.trail) = Len(log.results) + 1
                       /\ log.exact => Traced(log.results, log.trail)
  BY DEF IInv, StateTyped, TrailFits, LogRetraced
<1> QED
  BY <1>1, <1>2, <1>3, <1>4 DEF LogRetraced

LEMMA NextIInv == IInv /\ [Next]_vars => IInv'
<1> SUFFICES ASSUME IInv, [Next]_vars PROVE IInv'
  OBVIOUS
<1> USE DEF Undoing
<1>1. CASE OpenSession
  BY <1>1, HistoryKept DEF OpenSession, IInv, ControlTyped
<1>2. CASE BodyRaises
  BY <1>2, HistoryKept DEF BodyRaises, IInv, ControlTyped
<1>3. CASE CloseSession
  <2>1. /\ pc = "session" /\ pc' = "idle" /\ UNCHANGED <<package, batch, todo>> /\ Fresh
        /\ \E wanted \in BOOLEAN : WriteLog(wanted) \/ log' = Nothing
    BY <1>3 DEF CloseSession
  <2>2. /\ results' \in Seq(ResultsOf(stamp')) /\ trail' \in Seq(PackagesOf(stamp')) /\ exact' \in BOOLEAN
        /\ Len(trail') = Len(results') + 1 /\ Len(results') \in Nat
        /\ Retraced'
    BY <2>1, FreshKeeps, LenProperties DEF IInv
  <2>3. /\ log' # Nothing => log' \in LogsOf(stamp')
        /\ log' # Nothing => Len(log'.trail) = Len(log'.results) + 1
        /\ LogRetraced'
    BY <2>1, WriteLogKeeps
  <2> QED
    BY <2>1, <2>2, <2>3 DEF IInv, StateTyped, ControlTyped, TrailFits, package
<1>4. CASE RollBackLog
  BY <1>4, RollBackLogKeeps
<1>5. CASE ReverseEdit
  BY <1>5, ReverseEditKeeps
<1>6. CASE ReverseFails
  BY <1>6, ReverseFailsKeeps
<1>7. CASE Reversal
  BY <1>7, ReversalKeeps
<1>8. ASSUME NEW e \in Edits, AddEdit(e) PROVE IInv'
  <2>1. e \in EditType /\ pc = "session" /\ Apply(e) /\ UNCHANGED <<pc, batch, todo, log>>
    BY <1>8, EditsAssumption DEF AddEdit
  <2>2. StateTyped' /\ Len(trail') = Len(results') + 1 /\ Retraced'
    BY <2>1, ApplyKeeps
  <2>3. Len(results') \in Nat
    BY <2>2, LenProperties DEF StateTyped
  <2> QED
    BY <2>1, <2>2, <2>3 DEF IInv, ControlTyped, TrailFits, LogRetraced
<1>9. ASSUME NEW e \in Edits, Queue(e) PROVE IInv'
  <2>1. /\ pc = "batch" /\ pc' = pc /\ batch' = [batch EXCEPT !.pending = Append(@, e)]
        /\ UNCHANGED <<package, undoing, todo, log>>
    BY <1>9 DEF Queue
  <2>2. Append(batch.pending, e) \in Seq(EditType)
    BY EditsAssumption DEF IInv, ControlTyped
  <2> QED
    BY <2>1, <2>2, HistoryKept DEF IInv, ControlTyped
<1>10. ASSUME NEW strict \in BOOLEAN, NEW logged \in BOOLEAN, OpenBatch(strict, logged) PROVE IInv'
  BY <1>10, HistoryKept DEF OpenBatch, NoBatch, IInv, ControlTyped
<1>11. ASSUME NEW flushing \in BOOLEAN, Commit(flushing) PROVE IInv'
  <2>1. /\ pc = "batch" /\ pc' = "committing" /\ UNCHANGED <<package, undoing, log>>
        /\ todo' = Coalesce(batch.pending)
        /\ batch' = [batch EXCEPT !.pending = <<>>, !.flushing = flushing]
    BY <1>11 DEF Commit
  <2>2. todo' \in Seq(EditType)
    BY <2>1, CoalesceType DEF IInv, ControlTyped
  <2> QED
    BY <2>1, <2>2, HistoryKept DEF IInv, ControlTyped
<1>12. CASE LeaveBatch
  BY <1>12, HistoryKept DEF LeaveBatch, NoBatch, IInv, ControlTyped
<1>13. CASE CommitEdit
  <2>1. pc = "committing" /\ todo # <<>> /\ Apply(Head(todo)) /\ todo' = Tail(todo) /\ UNCHANGED <<pc, batch, log>>
    BY <1>13 DEF CommitEdit
  <2>2. Head(todo) \in EditType /\ Tail(todo) \in Seq(EditType)
    BY <2>1, HeadTailProperties DEF IInv, ControlTyped
  <2>3. StateTyped' /\ Len(trail') = Len(results') + 1 /\ Retraced'
    BY <2>1, <2>2, ApplyKeeps
  <2>4. Len(results') \in Nat
    BY <2>3, LenProperties DEF StateTyped
  <2> QED
    BY <2>1, <2>2, <2>3, <2>4 DEF IInv, ControlTyped, TrailFits, LogRetraced
<1>14. CASE CommitEditFails
  BY <1>14, HistoryKept DEF CommitEditFails, IInv, ControlTyped
<1>15. CASE Committed
  <2>1. CASE WriteLog(batch.logged) /\ pc' = "validating" /\ UNCHANGED <<undoing, batch>>
    <3>1. pc = "committing" /\ todo = <<>> /\ UNCHANGED <<package, todo>> /\ batch.logged \in BOOLEAN
      BY <1>15 DEF Committed, IInv, ControlTyped
    <3>2. /\ log' # Nothing => log' \in LogsOf(stamp')
          /\ log' # Nothing => Len(log'.trail) = Len(log'.results) + 1
          /\ LogRetraced'
      BY <2>1, <3>1, WriteLogKeeps
    <3> QED
      BY <2>1, <3>1, <3>2 DEF IInv, StateTyped, ControlTyped, TrailFits, Retraced, package, undoing
  <2>2. CASE log' = Nothing /\ pc' = "idle" /\ batch' = NoBatch /\ Fresh
    <3>1. pc = "committing" /\ todo = <<>> /\ UNCHANGED <<package, todo>>
      BY <1>15 DEF Committed
    <3>2. /\ results' \in Seq(ResultsOf(stamp')) /\ trail' \in Seq(PackagesOf(stamp')) /\ exact' \in BOOLEAN
          /\ Len(trail') = Len(results') + 1 /\ Len(results') \in Nat
          /\ Retraced'
      BY <2>2, <3>1, FreshKeeps, LenProperties DEF IInv
    <3> QED
      BY <2>2, <3>1, <3>2 DEF IInv, StateTyped, ControlTyped, TrailFits, LogRetraced, NoBatch, package
  <2> QED
    BY <1>15, <2>1, <2>2 DEF Committed
<1>16. CASE Valid
  <2>1. /\ pc = "validating" /\ Fresh /\ UNCHANGED <<package, todo, log>>
        /\ \/ pc' = "batch" /\ batch' = [batch EXCEPT !.flushing = FALSE]
           \/ pc' = "idle" /\ batch' = NoBatch
    BY <1>16 DEF Valid
  <2>2. /\ results' \in Seq(ResultsOf(stamp')) /\ trail' \in Seq(PackagesOf(stamp')) /\ exact' \in BOOLEAN
        /\ Len(trail') = Len(results') + 1 /\ Len(results') \in Nat
        /\ Retraced'
    BY <2>1, FreshKeeps, LenProperties DEF IInv
  <2>3. CASE pc' = "batch" /\ batch' = [batch EXCEPT !.flushing = FALSE]
    <3>1. ControlTyped'
      BY <2>1, <2>3 DEF IInv, ControlTyped
    <3> QED
      BY <2>1, <2>2, <3>1 DEF IInv, StateTyped, TrailFits, LogRetraced, package
  <2>4. CASE pc' = "idle" /\ batch' = NoBatch
    <3>1. ControlTyped'
      BY <2>1, <2>4 DEF IInv, ControlTyped, NoBatch
    <3> QED
      BY <2>1, <2>2, <3>1 DEF IInv, StateTyped, TrailFits, LogRetraced, package
  <2> QED
    BY <2>1, <2>3, <2>4
<1>17. CASE Invalid
  BY <1>17, HistoryKept DEF Invalid, IInv, ControlTyped
<1>18. CASE UNCHANGED vars
  BY <1>18, HistoryKept DEF vars, IInv, ControlTyped
<1> QED
  BY <1>1, <1>2, <1>3, <1>4, <1>5, <1>6, <1>7, <1>8, <1>9, <1>10, <1>11, <1>12, <1>13, <1>14,
     <1>15, <1>16, <1>17, <1>18 DEF Next

-----------------------------------------------------------------------------
(* Tables that have the same rows, as often: they differ in tags only.     *)

\* f tells for each occurrence of t which one it is of u.
Pairs(f, t, u) ==
  /\ f \in [t -> u]
  /\ \A x \in t : f[x].row = x.row
  /\ \A x, y \in t : f[x] = f[y] => x = y
  /\ \A z \in u : \E x \in t : f[x] = z

Same(t, u) == \E f : Pairs(f, t, u)

LEMMA SameItself ==
  ASSUME NEW t
  PROVE  Same(t, t)
<1>1. Pairs([x \in t |-> x], t, t)
  BY DEF Pairs
<1> QED
  BY <1>1 DEF Same

LEMMA SameTwice ==
  ASSUME NEW t, NEW u, NEW v, Same(t, u), Same(u, v)
  PROVE  Same(t, v)
<1>1. PICK f : Pairs(f, t, u)
  BY DEF Same
<1>2. PICK g : Pairs(g, u, v)
  BY DEF Same
<1>3. PICK h : h = [x \in t |-> g[f[x]]]
  OBVIOUS
<1>4. \A x \in t : f[x] \in u /\ f[x].row = x.row /\ h[x] = g[f[x]]
  BY <1>1, <1>3 DEF Pairs
<1>5. h \in [t -> v]
  BY <1>2, <1>3, <1>4 DEF Pairs
<1>6. \A x \in t : h[x].row = x.row
  BY <1>2, <1>4 DEF Pairs
<1>7. \A x, y \in t : h[x] = h[y] => x = y
  BY <1>1, <1>2, <1>4 DEF Pairs
<1>8. \A z \in v : \E x \in t : h[x] = z
  BY <1>1, <1>2, <1>4 DEF Pairs
<1> QED
  BY <1>5, <1>6, <1>7, <1>8 DEF Same, Pairs

LEMMA SameTogether ==
  ASSUME NEW t, NEW u, NEW more, NEW extra, Same(t, u), Same(more, extra),
         \A x \in t : x \notin more, \A x \in u : x \notin extra
  PROVE  Same(t \cup more, u \cup extra)
<1>1. PICK f : Pairs(f, t, u)
  BY DEF Same
<1>2. PICK g : Pairs(g, more, extra)
  BY DEF Same
<1>3. PICK h : h = [x \in t \cup more |-> IF x \in t THEN f[x] ELSE g[x]]
  OBVIOUS
<1>4. \A x \in t : h[x] = f[x] /\ h[x] \in u /\ h[x].row = x.row
  BY <1>1, <1>3 DEF Pairs
<1>5. \A x \in more : h[x] = g[x] /\ h[x] \in extra /\ h[x].row = x.row
  BY <1>2, <1>3 DEF Pairs
<1>6. h \in [t \cup more -> u \cup extra]
  BY <1>3, <1>4, <1>5
<1>7. ASSUME NEW x \in t \cup more, NEW y \in t \cup more, h[x] = h[y] PROVE x = y
  <2>1. CASE x \in t /\ y \in t
    BY <1>1, <1>4, <1>7, <2>1 DEF Pairs
  <2>2. CASE x \in more /\ y \in more
    BY <1>2, <1>5, <1>7, <2>2 DEF Pairs
  <2>3. CASE x \in t /\ y \in more
    BY <1>4, <1>5, <1>7, <2>3
  <2>4. CASE x \in more /\ y \in t
    BY <1>4, <1>5, <1>7, <2>4
  <2> QED
    BY <2>1, <2>2, <2>3, <2>4
<1>8. ASSUME NEW z \in u \cup extra PROVE \E x \in t \cup more : h[x] = z
  <2>1. CASE z \in u
    BY <1>1, <1>4, <2>1 DEF Pairs
  <2>2. CASE z \in extra
    BY <1>2, <1>5, <2>2 DEF Pairs
  <2> QED
    BY <2>1, <2>2
<1>9. \A x \in t \cup more : h[x].row = x.row
  BY <1>4, <1>5
<1> QED
  BY <1>6, <1>7, <1>8, <1>9 DEF Same, Pairs

Times(t, r) == Cardinality({x \in t : x.row = r})

\* Every row is in the one as often as in the other.
LEMMA SameCounts ==
  ASSUME NEW t, NEW u, IsFiniteSet(t), Same(t, u), NEW r
  PROVE  Times(t, r) = Times(u, r)
<1> DEFINE some  == {x \in t : x.row = r}
           other == {x \in u : x.row = r}
<1>1. PICK f : Pairs(f, t, u)
  BY DEF Same
<1>2. PICK h : h = [x \in some |-> f[x]]
  OBVIOUS
<1>3. \A x \in some : h[x] = f[x] /\ h[x] \in other
  BY <1>1, <1>2 DEF Pairs
<1>4. h \in [some -> other]
  BY <1>2, <1>3
<1>5. \A x, y \in some : h[x] = h[y] => x = y
  BY <1>1, <1>3 DEF Pairs
<1>6. \A z \in other : \E x \in some : h[x] = z
  BY <1>1, <1>3 DEF Pairs
<1>7. IsFiniteSet(some)
  BY FS_Subset
<1> HIDE DEF some, other
<1>8. h \in Bijection(some, other)
  BY <1>4, <1>5, <1>6 DEF Bijection, Injection, IsInjective, Surjection
<1>9. ExistsBijection(some, other)
  BY <1>8 DEF ExistsBijection
<1>10. Cardinality(other) = Cardinality(some)
  BY <1>7, <1>9, FS_Bijection
<1> QED
  BY <1>10 DEF Times, some, other

\* What a predicate leaves of them is the same.
LEMMA SameLeft ==
  ASSUME NEW t, NEW u, Same(t, u), NEW where
  PROVE  Same({x \in t : ~Holds(where, x.row) /\ ~Unknown(where, x.row)},
              {x \in u : ~Holds(where, x.row) /\ ~Unknown(where, x.row)})
<1> DEFINE Stays(x) == ~Holds(where, x.row) /\ ~Unknown(where, x.row)
           left     == {x \in t : Stays(x)}
           other    == {x \in u : Stays(x)}
<1>1. PICK f : Pairs(f, t, u)
  BY DEF Same
<1>2. \A x \in t : f[x] \in u /\ (Stays(f[x]) <=> Stays(x))
  BY <1>1 DEF Pairs
<1> HIDE DEF Stays
<1>3. PICK h : h = [x \in left |-> f[x]]
  OBVIOUS
<1>4. \A x \in left : x \in t /\ h[x] = f[x] /\ h[x] \in other
  BY <1>2, <1>3
<1>5. h \in [left -> other]
  BY <1>3, <1>4
<1>6. \A x \in left : h[x].row = x.row
  BY <1>1, <1>4 DEF Pairs
<1>7. \A x, y \in left : h[x] = h[y] => x = y
  BY <1>1, <1>4 DEF Pairs
<1>8. \A z \in other : \E x \in left : h[x] = z
  <2> SUFFICES ASSUME NEW z \in other PROVE \E x \in left : h[x] = z
    OBVIOUS
  <2>1. PICK x \in t : f[x] = z
    BY <1>1 DEF Pairs
  <2>2. x \in left
    BY <1>2, <2>1
  <2> QED
    BY <1>4, <2>1, <2>2
<1> HIDE DEF left, other
<1>9. Pairs(h, left, other)
  BY <1>5, <1>6, <1>7, <1>8 DEF Pairs
<1> QED
  BY <1>9 DEF Same, left, other, Stays

LEMMA SameUpdated ==
  ASSUME NEW m \in Nat, NEW n \in Nat, NEW t \in TablesOf(m), NEW u \in TablesOf(n), Same(t, u),
         NEW e \in EditType, e.op = "update"
  PROVE  Same({Updated(x, e) : x \in t}, {Updated(x, e) : x \in u})
<1> DEFINE New(row) == IF Holds(e.where, row) THEN Set(row, e.set) ELSE row
           after    == {Updated(x, e) : x \in t}
           other    == {Updated(x, e) : x \in u}
<1>1. PICK f : Pairs(f, t, u)
  BY DEF Same
<1>2. \A k \in Nat : \A x \in Occurrences(k) : Updated(x, e).tag = x.tag /\ Updated(x, e).row = New(x.row)
  <2> SUFFICES ASSUME NEW k \in Nat, NEW x \in Occurrences(k)
               PROVE  Updated(x, e).tag = x.tag /\ Updated(x, e).row = New(x.row)
    OBVIOUS
  <2>1. [x EXCEPT !.row = Set(@, e.set)] = [row |-> Set(x.row, e.set), tag |-> x.tag]
    BY DEF Occurrences
  <2> QED
    BY <2>1 DEF Updated
<1> HIDE DEF New
<1>3. \A x \in t : Updated(x, e).tag = x.tag /\ Updated(x, e).row = New(x.row)
  BY <1>2 DEF TablesOf
<1>4. \A x \in u : Updated(x, e).tag = x.tag /\ Updated(x, e).row = New(x.row)
  BY <1>2 DEF TablesOf
<1>5. \A x, y \in t : Updated(x, e) = Updated(y, e) => x = y
  BY <1>3 DEF TablesOf, Distinct
<1>6. \A x, y \in u : Updated(x, e) = Updated(y, e) => x = y
  BY <1>4 DEF TablesOf, Distinct
<1>7. PICK h : h = [z \in after |-> Updated(f[CHOOSE x \in t : Updated(x, e) = z], e)]
  OBVIOUS
<1>8. ASSUME NEW x \in t PROVE h[Updated(x, e)] = Updated(f[x], e) /\ f[x] \in u /\ f[x].row = x.row
  <2>1. PICK y : y = CHOOSE v \in t : Updated(v, e) = Updated(x, e)
    OBVIOUS
  <2>2. y \in t /\ Updated(y, e) = Updated(x, e)
    BY <2>1
  <2>3. y = x
    BY <1>5, <2>2
  <2>4. Updated(x, e) \in after
    OBVIOUS
  <2> QED
    BY <1>1, <1>7, <2>1, <2>3, <2>4 DEF Pairs
<1>9. h \in [after -> other]
  <2>1. DOMAIN h = after /\ h = [z \in after |-> h[z]]
    BY <1>7
  <2>2. \A z \in after : h[z] \in other
    BY <1>8
  <2> QED
    BY <2>1, <2>2
<1>10. \A z \in after : h[z].row = z.row
  BY <1>3, <1>4, <1>8
<1>11. \A y, z \in after : h[y] = h[z] => y = z
  <2> SUFFICES ASSUME NEW x1 \in t, NEW x2 \in t, h[Updated(x1, e)] = h[Updated(x2, e)]
               PROVE  x1 = x2
    OBVIOUS
  <2>1. f[x1] = f[x2]
    BY <1>6, <1>8
  <2> QED
    BY <1>1, <2>1 DEF Pairs
<1>12. \A z \in other : \E y \in after : h[y] = z
  <2> SUFFICES ASSUME NEW v \in u PROVE \E y \in after : h[y] = Updated(v, e)
    OBVIOUS
  <2>1. PICK x \in t : f[x] = v
    BY <1>1 DEF Pairs
  <2>2. h[Updated(x, e)] = Updated(v, e) /\ Updated(x, e) \in after
    BY <1>8, <2>1
  <2> QED
    BY <2>2
<1> HIDE DEF after, other
<1>13. Pairs(h, after, other)
  BY <1>9, <1>10, <1>11, <1>12 DEF Pairs
<1> QED
  BY <1>13 DEF Same, after, other

\* The stamp does not matter for the rows.
LEMMA NumberedSame ==
  ASSUME NEW rows, NEW m, NEW n
  PROVE  Same(Numbered(rows, m), Numbered(rows, n))
<1> DEFINE In(k, i) == [row |-> rows[i], tag |-> <<k, i>>]
<1>1. PICK h : h = [x \in Numbered(rows, m) |-> [row |-> x.row, tag |-> <<n, x.tag[2]>>]]
  OBVIOUS
<1>2. \A k : Numbered(rows, k) = {In(k, i) : i \in DOMAIN rows}
  BY DEF Numbered
<1>3. ASSUME NEW i \in DOMAIN rows PROVE h[In(m, i)] = In(n, i)
  <2>1. In(m, i) \in Numbered(rows, m)
    BY DEF Numbered
  <2>2. In(m, i).row = rows[i] /\ In(m, i).tag[2] = i
    OBVIOUS
  <2> QED
    BY <1>1, <2>1, <2>2
<1>4. \A k, i, j : In(k, i) = In(k, j) => i = j
  OBVIOUS
<1>5. \A k, i : In(k, i).row = rows[i]
  OBVIOUS
<1> HIDE DEF In
<1>6. h \in [Numbered(rows, m) -> Numbered(rows, n)]
  <2>1. h = [x \in Numbered(rows, m) |-> h[x]]
    BY <1>1
  <2>2. \A x \in Numbered(rows, m) : h[x] \in Numbered(rows, n)
    BY <1>2, <1>3
  <2> QED
    BY <2>1, <2>2
<1>7. \A x \in Numbered(rows, m) : h[x].row = x.row
  BY <1>2, <1>3, <1>5
<1>8. \A x, y \in Numbered(rows, m) : h[x] = h[y] => x = y
  BY <1>2, <1>3, <1>4
<1>9. \A z \in Numbered(rows, n) : \E x \in Numbered(rows, m) : h[x] = z
  BY <1>2, <1>3
<1> QED
  BY <1>6, <1>7, <1>8, <1>9 DEF Same, Pairs

\* An edit does the same to tables that are the same.
LEMMA AppliedSame ==
  ASSUME NEW m \in Nat, NEW n \in Nat, NEW t \in TablesOf(m), NEW u \in TablesOf(n), Same(t, u),
         NEW e \in EditType
  PROVE  Same(Applied(e, t, m + 1), Applied(e, u, n + 1))
<1>1. CASE e.op = "add"
  <2>1. e.rows \in Seq(Rows)
    BY <1>1 DEF EditType
  <2>2. Same(Numbered(e.rows, m + 1), Numbered(e.rows, n + 1))
    BY NumberedSame
  <2>3. \A x \in t : x \notin Numbered(e.rows, m + 1)
    BY <2>1, NumberedIsNew
  <2>4. \A x \in u : x \notin Numbered(e.rows, n + 1)
    BY <2>1, NumberedIsNew
  <2>5. Same(t \cup Numbered(e.rows, m + 1), u \cup Numbered(e.rows, n + 1))
    BY <2>2, <2>3, <2>4, SameTogether
  <2> QED
    BY <1>1, <2>5 DEF Applied
<1>2. CASE e.op = "delete"
  BY <1>2, SameLeft DEF Applied
<1>3. CASE e.op = "update"
  BY <1>3, SameUpdated DEF Applied
<1>4. CASE e.op = "replace"
  BY <1>4, NumberedSame DEF Applied
<1> QED
  BY <1>1, <1>2, <1>3, <1>4 DEF EditType

-----------------------------------------------------------------------------
(* Packages after edits, whatever the stamps the edits got.                *)

Packs == {p \in [n : Nat, tables : [Tables -> SUBSET (UNION {Occurrences(n) : n \in Nat})]] :
            \A t \in Tables : p.tables[t] \in TablesOf(p.n)}

PackStep(p, e) ==
  [n |-> p.n + 1, tables |-> [p.tables EXCEPT ![e.table] = Applied(e, @, p.n + 1)]]

After(p, edits) ==
  FoldLeft(LAMBDA q, e : [n |-> q.n + 1,
                          tables |-> [q.tables EXCEPT ![e.table] = Applied(e, @, q.n + 1)]],
           p, edits)

\* The same rows in every table of ts.
Alike(p, q, ts) == \A t \in ts : Same(p.tables[t], q.tables[t])

LEMMA PacksAre ==
  ASSUME NEW n \in Nat, NEW ts \in [Tables -> TablesOf(n)]
  PROVE  [n |-> n, tables |-> ts] \in Packs
<1>1. \A t \in Tables : ts[t] \in TablesOf(n) /\ ts[t] \subseteq Occurrences(n)
  BY DEF TablesOf
<1>2. ts \in [Tables -> SUBSET (UNION {Occurrences(k) : k \in Nat})]
  BY <1>1
<1> QED
  BY <1>1, <1>2 DEF Packs

LEMMA PackStepIs ==
  ASSUME NEW p \in Packs, NEW e \in EditType
  PROVE  /\ PackStep(p, e) \in Packs
         /\ p.n \in Nat /\ PackStep(p, e).n = p.n + 1
         /\ e.table \in Tables
         /\ \A t \in Tables : p.tables[t] \in TablesOf(p.n)
         /\ \A t \in Tables :
              PackStep(p, e).tables[t] = IF t = e.table THEN Applied(e, p.tables[t], p.n + 1) ELSE p.tables[t]
<1>1. /\ p.n \in Nat /\ p.n + 1 \in Nat /\ p.n <= p.n + 1
      /\ p.tables = [t \in Tables |-> p.tables[t]]
      /\ \A t \in Tables : p.tables[t] \in TablesOf(p.n)
  BY DEF Packs
<1>2. e.table \in Tables
  BY DEF EditType
<1>3. PICK ts : ts = [p.tables EXCEPT ![e.table] = Applied(e, @, p.n + 1)]
  OBVIOUS
<1>4. \A t \in Tables : ts[t] = IF t = e.table THEN Applied(e, p.tables[t], p.n + 1) ELSE p.tables[t]
  BY <1>1, <1>2, <1>3
<1>5. \A t \in Tables : p.tables[t] \in TablesOf(p.n + 1) /\ Applied(e, p.tables[t], p.n + 1) \in TablesOf(p.n + 1)
  BY <1>1, AppliedType, TagsGrow
<1>6. ts = [t \in Tables |-> ts[t]]
  BY <1>1, <1>3
<1>7. ts \in [Tables -> TablesOf(p.n + 1)]
  BY <1>4, <1>5, <1>6
<1>8. PackStep(p, e) = [n |-> p.n + 1, tables |-> ts]
  BY <1>3 DEF PackStep
<1> QED
  BY <1>1, <1>2, <1>4, <1>7, <1>8, PacksAre

AfterFold == [p \in Packs |-> [e \in EditType |-> PackStep(p, e)]]

AfterSteps(it, p, edits) ==
  it = [S \in SUBSET DOMAIN edits |->
          IF S = {} THEN p ELSE PackStep(it[S \ {Max(S)}], edits[Max(S)])]

LEMMA AfterRuns ==
  ASSUME NEW p \in Packs, NEW edits \in Seq(EditType)
  PROVE  Makes(After(p, edits), Packs, p, AfterFold, edits, Len(edits))
<1> DEFINE V          == Packs
           n          == Len(edits)
           g          == AfterFold
           made       == CHOOSE it : AfterSteps(it, p, edits)
<1>1. p \in V /\ n \in Nat /\ edits \in [1..n -> EditType] /\ DOMAIN edits = 1..n
  BY LenProperties
<1>2. g \in [V -> [EditType -> V]] /\ \A v \in V, e \in EditType : g[v][e] = PackStep(v, e)
  BY PackStepIs DEF AfterFold
<1> HIDE DEF g, n, V
<1>3. PICK it \in [Positions(n) -> V] : Iterates(it, p, g, edits, n)
  BY <1>1, <1>2, FoldExists
<1>4. ASSUME NEW S \in Positions(n), S # {}
      PROVE  Before(S) \in Positions(n) /\ edits[Latest(S)] \in EditType
  BY <1>1, <1>4, LatestAndBefore
<1>5. AfterSteps(it, p, edits)
  <2>1. \A S \in Positions(n) : it[S] = IF S = {} THEN p ELSE PackStep(it[Before(S)], edits[Latest(S)])
    BY <1>2, <1>3, <1>4 DEF Iterates
  <2> QED
    BY <1>1, <2>1 DEF Positions, Latest, Before, AfterSteps
<1>6. AfterSteps(made, p, edits)
  BY <1>5, Zenon
<1> HIDE DEF made
<1>7. \A S \in Positions(n) : made[S] = IF S = {} THEN p ELSE PackStep(made[Before(S)], edits[Latest(S)])
  BY <1>1, <1>6 DEF Positions, Latest, Before, AfterSteps
<1>8. Follows(made, V, p, g, edits, n)
  BY <1>1, <1>2, <1>4, <1>7, PositionsGrow DEF Follows
<1>9. Makes(made[1..n], V, p, g, edits, n)
  BY <1>1, <1>2, <1>8, FoldRuns
<1>10. After(p, edits) = made[DOMAIN edits]
  BY DEF After, FoldLeft, MapThenFoldSet, AfterSteps, PackStep, made
<1> QED
  BY <1>1, <1>9, <1>10 DEF V, g, n

LEMMA AfterIs ==
  ASSUME NEW p \in Packs, NEW edits \in Seq(EditType)
  PROVE  /\ After(p, <<>>) = p
         /\ After(p, edits) \in Packs
         /\ \A e \in EditType : After(p, Append(edits, e)) = PackStep(After(p, edits), e)
<1>1. PICK none : none = <<>>
  OBVIOUS
<1>2. none \in Seq(EditType) /\ Len(none) = 0
  BY <1>1, EmptySeq
<1>3. PICK f : Runs(f, Packs, p, AfterFold, none, Len(none)) /\ After(p, none) = f[Len(none)]
  BY <1>2, AfterRuns DEF Makes
<1>4. After(p, <<>>) = p
  BY <1>1, <1>2, <1>3 DEF Runs
<1>5. PICK h : Runs(h, Packs, p, AfterFold, edits, Len(edits)) /\ After(p, edits) = h[Len(edits)]
  BY AfterRuns DEF Makes
<1>6. h[Len(edits)] \in Packs
  <2>1. Len(edits) \in 0..Len(edits)
    BY LenProperties
  <2> QED
    BY <1>5, <2>1 DEF Runs
<1>7. ASSUME NEW e \in EditType PROVE After(p, Append(edits, e)) = PackStep(After(p, edits), e)
  <2>1. PICK more : more = Append(edits, e)
    OBVIOUS
  <2>2. more \in Seq(EditType)
    BY <2>1, AppendProperties
  <2>3. PICK j : Runs(j, Packs, p, AfterFold, more, Len(more)) /\ After(p, more) = j[Len(more)]
    BY <2>2, AfterRuns DEF Makes
  <2>4. j[Len(more)] = AfterFold[h[Len(edits)]][e]
    BY <1>5, <2>1, <2>3, RunsOn
  <2>5. AfterFold[h[Len(edits)]][e] = PackStep(h[Len(edits)], e)
    BY <1>6 DEF AfterFold
  <2> QED
    BY <1>5, <2>1, <2>3, <2>4, <2>5
<1> QED
  BY <1>4, <1>5, <1>6, <1>7

LEMMA AlikeTwice ==
  ASSUME NEW p, NEW q, NEW r, NEW ts, Alike(p, q, ts), Alike(q, r, ts)
  PROVE  Alike(p, r, ts)
BY SameTwice DEF Alike

LEMMA StepAlike ==
  ASSUME NEW p \in Packs, NEW q \in Packs, NEW e \in EditType, NEW ts \in SUBSET Tables, Alike(p, q, ts)
  PROVE  Alike(PackStep(p, e), PackStep(q, e), ts)
<1> SUFFICES ASSUME NEW t \in ts
             PROVE  Same(PackStep(p, e).tables[t], PackStep(q, e).tables[t])
  BY DEF Alike
<1>1. p.n \in Nat /\ p.tables[t] \in TablesOf(p.n)
      /\ PackStep(p, e).tables[t] = IF t = e.table THEN Applied(e, p.tables[t], p.n + 1) ELSE p.tables[t]
  BY PackStepIs
<1>2. q.n \in Nat /\ q.tables[t] \in TablesOf(q.n)
      /\ PackStep(q, e).tables[t] = IF t = e.table THEN Applied(e, q.tables[t], q.n + 1) ELSE q.tables[t]
  BY PackStepIs
<1>3. Same(p.tables[t], q.tables[t])
  BY DEF Alike
<1>4. Same(Applied(e, p.tables[t], p.n + 1), Applied(e, q.tables[t], q.n + 1))
  BY <1>1, <1>2, <1>3, AppliedSame
<1> QED
  BY <1>1, <1>2, <1>3, <1>4

\* Induction along sequences, for a set of them.
LEMMA Along ==
  ASSUME NEW S, NEW good, <<>> \in good,
         \A s \in Seq(S) : \A e \in S : s \in good => Append(s, e) \in good
  PROVE  \A s \in Seq(S) : s \in good
<1> SUFFICES ASSUME NEW n \in Nat PROVE \A s \in Seq(S) : Len(s) = n => s \in good
  BY LenProperties
<1> DEFINE lengths == {k \in 0..n : \A s \in Seq(S) : Len(s) = k => s \in good}
<1>1. 0 \in lengths
  BY EmptySeq
<1>2. ASSUME NEW k \in 1..n, k - 1 \in lengths PROVE k \in lengths
  <2> SUFFICES ASSUME NEW s \in Seq(S), Len(s) = k PROVE s \in good
    OBVIOUS
  <2>1. s # <<>>
    BY EmptySeq
  <2>2. PICK r \in Seq(S), e \in S : s = Append(r, e)
    BY <2>1, SequenceEmptyOrAppend
  <2>3. Len(s) = Len(r) + 1 /\ Len(r) \in Nat
    BY <2>2, AppendProperties, LenProperties
  <2>4. Len(r) = k - 1
    BY <2>3
  <2> QED
    BY <1>2, <2>2, <2>4
<1> HIDE DEF lengths
<1>3. n \in lengths
  BY <1>1, <1>2, UpTo
<1> QED
  BY <1>3 DEF lengths

-----------------------------------------------------------------------------
(* Neither pass of coalesce is noticed.                                    *)

\* What a replacement cancels did nothing to the other tables.
LEMMA OthersAlike ==
  ASSUME NEW p \in Packs, NEW edits \in Seq(EditType), NEW table
  PROVE  Alike(After(p, Others(edits, table)), After(p, edits), Tables \ {table})
<1> DEFINE ts   == Tables \ {table}
           good == {s \in Seq(EditType) : Alike(After(p, Others(s, table)), After(p, s), ts)}
<1>1. PICK none : none = <<>>
  OBVIOUS
<1>2. none \in Seq(EditType)
  BY <1>1, EmptySeq
<1>3. none \in good
  <2>1. Others(none, table) = none
    BY <1>1, <1>2, OthersIs
  <2>2. Alike(After(p, none), After(p, none), ts)
    BY SameItself DEF Alike
  <2> QED
    BY <1>2, <2>1, <2>2
<1>4. ASSUME NEW s \in Seq(EditType), NEW e \in EditType, s \in good PROVE Append(s, e) \in good
  <2> SUFFICES Alike(After(p, Others(Append(s, e), table)), After(p, Append(s, e)), ts)
    BY AppendProperties
  <2>1. PICK o : o = Others(s, table)
    OBVIOUS
  <2>2. o \in Seq(EditType) /\ Others(Append(s, e), table) = IF e.table # table THEN Append(o, e) ELSE o
    BY <2>1, OthersIs DEF OthersStep
  <2>3. /\ After(p, s) \in Packs /\ After(p, Append(s, e)) = PackStep(After(p, s), e)
        /\ After(p, o) \in Packs /\ After(p, Append(o, e)) = PackStep(After(p, o), e)
    BY <2>2, AfterIs
  <2>4. Alike(After(p, o), After(p, s), ts)
    BY <1>4, <2>1
  <2>5. CASE e.table # table
    <3>1. Alike(PackStep(After(p, o), e), PackStep(After(p, s), e), ts)
      BY <2>3, <2>4, StepAlike
    <3> QED
      BY <2>2, <2>3, <2>5, <3>1
  <2>6. CASE e.table = table
    <3>1. \A t \in ts : PackStep(After(p, s), e).tables[t] = After(p, s).tables[t]
      BY <2>3, <2>6, PackStepIs
    <3>2. Alike(After(p, o), PackStep(After(p, s), e), ts)
      BY <2>4, <3>1 DEF Alike
    <3> QED
      BY <2>2, <2>3, <2>6, <3>2
  <2> QED
    BY <2>5, <2>6
<1> HIDE DEF good
<1>5. \A s \in Seq(EditType) : s \in good
  BY <1>1, <1>3, <1>4, Along
<1> QED
  BY <1>5 DEF good

LEMMA PruneAlike ==
  ASSUME NEW p \in Packs, NEW edits \in Seq(EditType)
  PROVE  Alike(After(p, Prune(edits)), After(p, edits), Tables)
<1> DEFINE good == {s \in Seq(EditType) : Alike(After(p, Prune(s)), After(p, s), Tables)}
<1>1. PICK none : none = <<>>
  OBVIOUS
<1>2. none \in Seq(EditType)
  BY <1>1, EmptySeq
<1>3. none \in good
  <2>1. Prune(none) = none
    BY <1>1, <1>2, PruneIs
  <2>2. Alike(After(p, none), After(p, none), Tables)
    BY SameItself DEF Alike
  <2> QED
    BY <1>2, <2>1, <2>2
<1>4. ASSUME NEW s \in Seq(EditType), NEW e \in EditType, s \in good PROVE Append(s, e) \in good
  <2> SUFFICES Alike(After(p, Prune(Append(s, e))), After(p, Append(s, e)), Tables)
    BY AppendProperties
  <2>1. PICK q : q = Prune(s)
    OBVIOUS
  <2>2. PICK o : o = Others(q, e.table)
    OBVIOUS
  <2>3. /\ q \in Seq(EditType)
        /\ Prune(Append(s, e)) = Append(IF e.op = "replace" THEN o ELSE q, e)
    BY <2>1, <2>2, PruneIs DEF PruneStep
  <2>4. o \in Seq(EditType)
    BY <2>2, <2>3, OthersIs
  <2>5. /\ After(p, s) \in Packs /\ After(p, Append(s, e)) = PackStep(After(p, s), e)
        /\ After(p, q) \in Packs /\ After(p, Append(q, e)) = PackStep(After(p, q), e)
        /\ After(p, o) \in Packs /\ After(p, Append(o, e)) = PackStep(After(p, o), e)
    BY <2>3, <2>4, AfterIs
  <2>6. Alike(After(p, q), After(p, s), Tables)
    BY <1>4, <2>1
  <2>7. CASE e.op # "replace"
    <3>1. Alike(PackStep(After(p, q), e), PackStep(After(p, s), e), Tables)
      BY <2>5, <2>6, StepAlike
    <3> QED
      BY <2>3, <2>5, <2>7, <3>1
  <2>8. CASE e.op = "replace"
    <3>1. Alike(After(p, o), After(p, q), Tables \ {e.table})
      BY <2>2, <2>3, OthersAlike
    <3>2. Alike(After(p, o), After(p, s), Tables \ {e.table})
      BY <2>6, <3>1, SameTwice DEF Alike
    <3>3. Alike(PackStep(After(p, o), e), PackStep(After(p, s), e), Tables \ {e.table})
      BY <2>5, <3>2, StepAlike
    <3>4. Same(PackStep(After(p, o), e).tables[e.table], PackStep(After(p, s), e).tables[e.table])
      <4>1. /\ PackStep(After(p, o), e).tables[e.table] = Numbered(e.rows, After(p, o).n + 1)
            /\ PackStep(After(p, s), e).tables[e.table] = Numbered(e.rows, After(p, s).n + 1)
        BY <2>5, <2>8, PackStepIs DEF Applied
      <4> QED
        BY <4>1, NumberedSame
    <3>5. Alike(PackStep(After(p, o), e), PackStep(After(p, s), e), Tables)
      BY <3>3, <3>4 DEF Alike
    <3> QED
      BY <2>3, <2>5, <2>8, <3>5
  <2> QED
    BY <2>7, <2>8
<1> HIDE DEF good
<1>5. \A s \in Seq(EditType) : s \in good
  BY <1>1, <1>3, <1>4, Along
<1> QED
  BY <1>5 DEF good

LEMMA FrontOfAppend ==
  ASSUME NEW S, NEW s \in Seq(S), NEW e \in S
  PROVE  Front(Append(s, e)) = s /\ Last(Append(s, e)) = e
<1>1. PICK t : t = Append(s, e)
  OBVIOUS
<1>2. /\ t \in Seq(S) /\ t # <<>> /\ Len(t) = Len(s) + 1 /\ Len(s) \in Nat
      /\ t[Len(s) + 1] = e /\ \A i \in 1..Len(s) : t[i] = s[i]
  BY <1>1, AppendProperties, LenProperties
<1>3. PICK f : f = Front(t)
  OBVIOUS
<1>4. f \in Seq(S) /\ Len(f) = Len(t) - 1 /\ \A i \in 1..(Len(t) - 1) : f[i] = t[i]
  BY <1>2, <1>3, AllButTheLast
<1>5. Len(f) = Len(s) /\ Len(t) - 1 = Len(s)
  BY <1>2, <1>4
<1>6. \A i \in 1..Len(f) : f[i] = s[i]
  BY <1>2, <1>4, <1>5
<1>7. f = s
  BY <1>4, <1>5, <1>6, SeqEqual
<1>8. Last(t) = e
  BY <1>2 DEF Last
<1> QED
  BY <1>1, <1>3, <1>7, <1>8

\* Rows added at once are the rows added one lot after the other.
LEMMA ConcatSame ==
  ASSUME NEW r \in Seq(Rows), NEW s \in Seq(Rows), NEW m \in Nat, NEW n
  PROVE  Same(Numbered(r \o s, n), Numbered(r, m) \cup Numbered(s, m + 1))
<1> DEFINE In(rows, k, i) == [row |-> rows[i], tag |-> <<k, i>>]
           a             == Len(r)
           b             == Len(s)
           both          == Numbered(r, m) \cup Numbered(s, m + 1)
           To(i)         == IF i <= a THEN In(r, m, i) ELSE In(s, m + 1, i - a)
<1>1. PICK all : all = r \o s
  OBVIOUS
<1>2. /\ a \in Nat /\ b \in Nat /\ DOMAIN r = 1..a /\ DOMAIN s = 1..b
      /\ all \in Seq(Rows) /\ Len(all) = a + b
      /\ \A i \in 1..(a + b) : all[i] = IF i <= a THEN r[i] ELSE s[i - a]
  BY <1>1, ConcatProperties, LenProperties
<1>3. DOMAIN all = 1..(a + b)
  BY <1>2, LenProperties
<1> HIDE DEF a, b
<1>4. PICK h : h = [x \in Numbered(all, n) |-> To(x.tag[2])]
  OBVIOUS
<1>5. Numbered(all, n) = {In(all, n, i) : i \in 1..(a + b)}
  BY <1>3 DEF Numbered
<1>6. Numbered(r, m) = {In(r, m, i) : i \in 1..a} /\ Numbered(s, m + 1) = {In(s, m + 1, i) : i \in 1..b}
  BY <1>2 DEF Numbered
<1>7. ASSUME NEW i \in 1..(a + b) PROVE h[In(all, n, i)] = To(i)
  <2>1. In(all, n, i) \in Numbered(all, n)
    BY <1>5
  <2>2. In(all, n, i).tag[2] = i
    OBVIOUS
  <2> QED
    BY <1>4, <2>1, <2>2
<1>8. \A rows, k, i : In(rows, k, i).row = rows[i]
  OBVIOUS
<1>9. \A rows, more, k, l, i, j : In(rows, k, i) = In(more, l, j) => k = l /\ i = j
  OBVIOUS
<1> HIDE DEF In
<1>10. \A i \in 1..(a + b) : \/ i \in 1..a /\ To(i) = In(r, m, i) /\ all[i] = r[i]
                             \/ i - a \in 1..b /\ ~(i <= a) /\ To(i) = In(s, m + 1, i - a) /\ all[i] = s[i - a]
  BY <1>2
<1>11. \A i \in 1..a : i \in 1..(a + b) /\ To(i) = In(r, m, i)
  BY <1>2
<1>12. \A i \in 1..b : i + a \in 1..(a + b) /\ To(i + a) = In(s, m + 1, i)
  BY <1>2
<1>13. m # m + 1
  OBVIOUS
<1>14. \A i, j \in 1..(a + b) : To(i) = To(j) => i = j
  <2> SUFFICES ASSUME NEW i \in 1..(a + b), NEW j \in 1..(a + b), To(i) = To(j) PROVE i = j
    OBVIOUS
  <2>1. CASE i <= a /\ j <= a
    BY <1>9, <2>1
  <2>2. CASE i <= a /\ ~(j <= a)
    BY <1>9, <1>13, <2>2
  <2>3. CASE ~(i <= a) /\ j <= a
    BY <1>9, <1>13, <2>3
  <2>4. CASE ~(i <= a) /\ ~(j <= a)
    <3>1. In(s, m + 1, i - a) = In(s, m + 1, j - a)
      BY <2>4
    <3>2. i - a = j - a
      BY <1>9, <3>1
    <3> QED
      BY <1>2, <3>2
  <2> QED
    BY <2>1, <2>2, <2>3, <2>4
<1>15. \A i \in 1..(a + b) : To(i) \in both /\ To(i).row = all[i]
  BY <1>6, <1>8, <1>10
<1>16. \A z \in both : \E i \in 1..(a + b) : To(i) = z
  <2> SUFFICES ASSUME NEW z \in both PROVE \E i \in 1..(a + b) : To(i) = z
    OBVIOUS
  <2>1. CASE z \in Numbered(r, m)
    BY <1>6, <1>11, <2>1
  <2>2. CASE z \in Numbered(s, m + 1)
    BY <1>6, <1>12, <2>2
  <2> QED
    BY <2>1, <2>2
<1> HIDE DEF To, both
<1>17. h \in [Numbered(all, n) -> both]
  <2>1. h = [x \in Numbered(all, n) |-> h[x]]
    BY <1>4
  <2>2. \A x \in Numbered(all, n) : h[x] \in both
    BY <1>5, <1>7, <1>15
  <2> QED
    BY <2>1, <2>2
<1>18. \A x \in Numbered(all, n) : h[x].row = x.row
  BY <1>5, <1>7, <1>8, <1>15
<1>19. \A x, y \in Numbered(all, n) : h[x] = h[y] => x = y
  BY <1>5, <1>7, <1>14
<1>20. \A z \in both : \E x \in Numbered(all, n) : h[x] = z
  BY <1>5, <1>7, <1>16
<1> QED
  BY <1>1, <1>17, <1>18, <1>19, <1>20 DEF Same, Pairs, both

LEMMA MergedSame ==
  ASSUME NEW q \in Packs, NEW l \in EditType, l.op = "add", NEW e \in EditType, e.op = "add",
         l.table = e.table, NEW one \in EditType, one = [l EXCEPT !.rows = @ \o e.rows]
  PROVE  Alike(PackStep(q, one), PackStep(PackStep(q, l), e), Tables)
<1> SUFFICES ASSUME NEW t \in Tables
             PROVE  Same(PackStep(q, one).tables[t], PackStep(PackStep(q, l), e).tables[t])
  BY DEF Alike
<1>1. PICK n \in Nat : n = q.n
  BY PackStepIs
<1>2. PICK u \in TablesOf(n) : u = q.tables[t]
  BY <1>1, PackStepIs
<1>3. l.rows \in Seq(Rows) /\ e.rows \in Seq(Rows)
  BY DEF EditType
<1>4. one.op = "add" /\ one.table = l.table /\ one.rows = l.rows \o e.rows
  <2>1. l \in [op : {"add", "replace"}, table : Tables, rows : Seq(Rows)]
    BY DEF EditType
  <2> QED
    BY <2>1
<1>5. PackStep(q, one).tables[t] = IF t = l.table THEN Applied(one, u, n + 1) ELSE u
  <2>1. PackStep(q, one).tables[t] = IF t = one.table THEN Applied(one, q.tables[t], q.n + 1) ELSE q.tables[t]
    BY PackStepIs
  <2> QED
    BY <1>1, <1>2, <1>4, <2>1
<1>6. PICK p : p = PackStep(q, l)
  OBVIOUS
<1>7. p \in Packs /\ p.n = n + 1 /\ p.tables[t] = IF t = l.table THEN Applied(l, u, n + 1) ELSE u
  BY <1>1, <1>2, <1>6, PackStepIs
<1>8. PackStep(p, e).tables[t] = IF t = l.table THEN Applied(e, p.tables[t], (n + 1) + 1) ELSE p.tables[t]
  <2>1. PackStep(p, e).tables[t] = IF t = e.table THEN Applied(e, p.tables[t], p.n + 1) ELSE p.tables[t]
    BY <1>7, PackStepIs
  <2> QED
    BY <1>7, <2>1
<1>9. CASE t # l.table
  BY <1>5, <1>6, <1>7, <1>8, <1>9, SameItself
<1>10. CASE t = l.table
  <2> DEFINE all   == Numbered(l.rows \o e.rows, n + 1)
             first == Numbered(l.rows, n + 1)
             next  == Numbered(e.rows, (n + 1) + 1)
  <2>1. Applied(one, u, n + 1) = u \cup all
    BY <1>4 DEF Applied
  <2>2. Applied(l, u, n + 1) = u \cup first /\ Applied(e, u \cup first, (n + 1) + 1) = u \cup first \cup next
    BY DEF Applied
  <2>3. Same(all, first \cup next)
    <3>1. n + 1 \in Nat
      OBVIOUS
    <3> QED
      BY <1>3, <3>1, ConcatSame
  <2>4. l.rows \o e.rows \in Seq(Rows)
    BY <1>3, ConcatProperties
  <2>5. \A x \in u : x \notin all /\ x \notin first
    BY <1>3, <2>4, NumberedIsNew
  <2>6. n + 1 \in Nat /\ u \in TablesOf(n + 1)
    BY TagsGrow
  <2>7. \A x \in u : x \notin next
    BY <1>3, <2>6, NumberedIsNew
  <2>8. Same(u, u)
    BY SameItself
  <2> HIDE DEF all, first, next
  <2>9. Same(u \cup all, u \cup (first \cup next))
    BY <2>3, <2>5, <2>7, <2>8, SameTogether
  <2>10. u \cup (first \cup next) = u \cup first \cup next
    OBVIOUS
  <2>11. PackStep(q, one).tables[t] = u \cup all
    BY <1>5, <1>10, <2>1
  <2>12. PackStep(p, e).tables[t] = u \cup first \cup next
    BY <1>7, <1>8, <1>10, <2>2 DEF next
  <2> QED
    BY <1>6, <2>9, <2>10, <2>11, <2>12
<1> QED
  BY <1>9, <1>10

LEMMA MergeAlike ==
  ASSUME NEW p \in Packs, NEW edits \in Seq(EditType)
  PROVE  Alike(After(p, Merge(edits)), After(p, edits), Tables)
<1> DEFINE good == {s \in Seq(EditType) : Alike(After(p, Merge(s)), After(p, s), Tables)}
<1>1. PICK none : none = <<>>
  OBVIOUS
<1>2. none \in Seq(EditType)
  BY <1>1, EmptySeq
<1>3. none \in good
  <2>1. Merge(none) = none
    BY <1>1, <1>2, MergeIs
  <2>2. Alike(After(p, none), After(p, none), Tables)
    BY SameItself DEF Alike
  <2> QED
    BY <1>2, <2>1, <2>2
<1>4. ASSUME NEW s \in Seq(EditType), NEW e \in EditType, s \in good PROVE Append(s, e) \in good
  <2> SUFFICES Alike(After(p, Merge(Append(s, e))), After(p, Append(s, e)), Tables)
    BY AppendProperties
  <2>1. PICK out : out = Merge(s)
    OBVIOUS
  <2>2. out \in Seq(EditType) /\ Merge(Append(s, e)) = MergeStep(out, e)
    BY <2>1, MergeIs
  <2>3. /\ After(p, s) \in Packs /\ After(p, Append(s, e)) = PackStep(After(p, s), e)
        /\ After(p, out) \in Packs /\ After(p, Append(out, e)) = PackStep(After(p, out), e)
    BY <2>2, AfterIs
  <2>4. Alike(After(p, out), After(p, s), Tables)
    BY <1>4, <2>1
  <2>5. Alike(PackStep(After(p, out), e), PackStep(After(p, s), e), Tables)
    BY <2>3, <2>4, StepAlike
  <2>6. CASE ~(e.op = "add" /\ out # <<>> /\ Last(out).op = "add" /\ Last(out).table = e.table)
    <3>1. Merge(Append(s, e)) = Append(out, e)
      BY <2>2, <2>6 DEF MergeStep
    <3> QED
      BY <2>3, <2>5, <3>1
  <2>7. CASE e.op = "add" /\ out # <<>> /\ Last(out).op = "add" /\ Last(out).table = e.table
    <3>1. PICK front \in Seq(EditType), l \in EditType : out = Append(front, l)
      BY <2>2, <2>7, SequenceEmptyOrAppend
    <3>2. Front(out) = front /\ Last(out) = l
      BY <3>1, FrontOfAppend
    <3>3. PICK one : one = [l EXCEPT !.rows = @ \o e.rows]
      OBVIOUS
    <3>4. l.op = "add" /\ l.table = e.table /\ e.op = "add"
      BY <2>7, <3>2
    <3>5. one \in EditType
      <4>1. l.rows \in Seq(Rows) /\ e.rows \in Seq(Rows)
        BY <3>4 DEF EditType
      <4>2. l.rows \o e.rows \in Seq(Rows)
        BY <4>1, ConcatProperties
      <4> QED
        BY <3>3, <3>4, <4>2, MoreRows, Zenon
    <3>6. Merge(Append(s, e)) = Append(front, one)
      BY <2>2, <2>7, <3>2, <3>3 DEF MergeStep
    <3>7. /\ After(p, front) \in Packs
          /\ After(p, Append(front, one)) = PackStep(After(p, front), one)
          /\ After(p, out) = PackStep(After(p, front), l)
      BY <3>1, <3>5, AfterIs
    <3>8. Alike(PackStep(After(p, front), one), PackStep(PackStep(After(p, front), l), e), Tables)
      BY <3>3, <3>4, <3>5, <3>7, MergedSame
    <3>9. Alike(After(p, Append(front, one)), PackStep(After(p, out), e), Tables)
      BY <3>7, <3>8
    <3>10. Alike(After(p, Append(front, one)), PackStep(After(p, s), e), Tables)
      BY <2>5, <3>9, AlikeTwice
    <3> QED
      BY <2>3, <3>6, <3>10
  <2> QED
    BY <2>6, <2>7
<1> HIDE DEF good
<1>5. \A s \in Seq(EditType) : s \in good
  BY <1>1, <1>3, <1>4, Along
<1> QED
  BY <1>5 DEF good

LEMMA CoalesceAlike ==
  ASSUME NEW p \in Packs, NEW edits \in Seq(EditType)
  PROVE  Alike(After(p, Coalesce(edits)), After(p, edits), Tables)
<1>1. PICK pruned \in Seq(EditType) : pruned = Prune(edits)
  BY PruneIs
<1>2. Alike(After(p, Merge(pruned)), After(p, pruned), Tables)
  BY MergeAlike
<1>3. Alike(After(p, pruned), After(p, edits), Tables)
  BY <1>1, PruneAlike
<1> QED
  BY <1>1, <1>2, <1>3, AlikeTwice DEF Coalesce

LEMMA CoalesceCounts ==
  ASSUME IInv, NEW edits \in Seq(EditType)
  PROVE  Outcome(Coalesce(edits)) = Outcome(edits)
<1>1. PICK p : p = [n |-> stamp, tables |-> tables]
  OBVIOUS
<1>2. p \in Packs
  BY <1>1, PacksAre DEF IInv, StateTyped
<1>3. \A es : Outcome(es) = [t \in Tables |-> [r \in Rows |-> Times(After(p, es).tables[t], r)]]
  BY <1>1 DEF Outcome, After, Times
<1>4. After(p, Coalesce(edits)) \in Packs
  BY <1>2, CoalesceType, AfterIs
<1>5. ASSUME NEW t \in Tables, NEW r
      PROVE  Times(After(p, Coalesce(edits)).tables[t], r) = Times(After(p, edits).tables[t], r)
  <2>1. Same(After(p, Coalesce(edits)).tables[t], After(p, edits).tables[t])
    BY <1>2, CoalesceAlike DEF Alike
  <2>2. IsFiniteSet(After(p, Coalesce(edits)).tables[t])
    BY <1>4 DEF Packs, TablesOf
  <2> QED
    BY <2>1, <2>2, SameCounts
<1> QED
  BY <1>3, <1>5

-----------------------------------------------------------------------------
(* The theorems.                                                           *)

THEOREM Invariance == Spec => []IInv
BY InitIInv, NextIInv, PTL DEF Spec

LEMMA IInvTypeOK == IInv => TypeOK
<1> SUFFICES ASSUME IInv PROVE TypeOK
  OBVIOUS
<1>1. \A t \in Tables : tables[t] \in TablesOf(stamp)
  BY DEF IInv, StateTyped
<1>2. \A t \in Tables : /\ \A x \in tables[t] : x.row \in Rows
                        /\ \A x, y \in tables[t] : x.tag = y.tag => x = y
  BY <1>1 DEF TablesOf, Occurrences, Distinct
<1> QED
  BY <1>2 DEF IInv, StateTyped, ControlTyped, TypeOK

\* The state is well typed; no two occurrences of a table have the same tag.
THEOREM TypeCorrect == Spec => []TypeOK
BY Invariance, IInvTypeOK, PTL

LEMMA IInvRetraces == IInv => ReversalRetraces
BY DEF IInv, Retraced, ReversalRetraces

\* Half way through a reversal that could be exact, the package is as it was
\* before the edit that was reversed last: apply_edit's rollback data is enough
\* for reverse_edit, whatever the edits, in a Session, a Batch or from the log.
THEOREM ReversalsRetrace == Spec => []ReversalRetraces
BY Invariance, IInvRetraces, PTL

LEMMA UndoneStep ==
  IInv /\ [Next]_vars => (exact /\ pc \in Undoing /\ pc' = "idle" => Now(tables, dirty) = Head(trail))
<1> SUFFICES ASSUME IInv, [Next]_vars, exact, pc \in Undoing, pc' = "idle"
             PROVE  Now(tables, dirty) = Head(trail)
  OBVIOUS
<1>1. Reversal
  BY DEF Next, vars, Undoing, OpenSession, BodyRaises, CloseSession, RollBackLog, ReverseEdit, ReverseFails,
         AddEdit, Queue, OpenBatch, Commit, LeaveBatch, CommitEdit, CommitEditFails, Committed, Valid, Invalid
<1>2. results = <<>> /\ Len(<<>>) = 0
  BY <1>1, EmptySeq DEF Reversal
<1>3. Now(tables, dirty) = trail[1]
  BY <1>2 DEF IInv, Retraced
<1> QED
  BY <1>3

\* What was undone leaves the package as it was, and no clean table dirty.
THEOREM UndoneLeavesNoTrace == Spec => UndoneIsRestored
<1>1. IInv /\ [Next]_vars =>
        [exact /\ pc \in Undoing /\ pc' = "idle" => Now(tables, dirty) = Head(trail)]_vars
  BY UndoneStep
<1> QED
  BY <1>1, Invariance, PTL DEF Spec, UndoneIsRestored

LEMMA IInvCoalesces == IInv => CoalescingIsInvisible
<1> SUFFICES ASSUME IInv PROVE Outcome(Coalesce(batch.pending)) = Outcome(batch.pending)
  BY DEF CoalescingIsInvisible
<1>1. batch.pending \in Seq(EditType)
  BY DEF IInv, ControlTyped
<1> QED
  BY <1>1, CoalesceCounts

\* Whatever is queued, coalescing it gives every table the same rows, as many
\* of each: what a replacement cancels would have been overwritten, and what
\* is added at once, by one edit with one stamp, is what was added in turn.
THEOREM CoalescingChangesNothing == Spec => []CoalescingIsInvisible
BY Invariance, IInvCoalesces, PTL
=============================================================================
