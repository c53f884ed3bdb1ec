----------------------- MODULE WorkbenchSessionProofs -----------------------
(***************************************************************************)
(* That the session keeps its promises with any jobs, requests, plugin     *)
(* handlers and bounds: one entry a job, histories whose nested entries    *)
(* stand with their parents, references to open networks only, failed      *)
(* Actions that leave no trace, selections of the tables there are, and    *)
(* histories that give the session when they are replayed.                 *)
(***************************************************************************)
EXTENDS WorkbenchSession, Integers, TLAPS, SequenceTheorems, FiniteSetTheorems, WellFoundedInduction

-----------------------------------------------------------------------------
(* Sequences, and induction along them.                                    *)

LEMMA Least ==
  ASSUME NEW S, S \subseteq Nat, S # {}
  PROVE  \E m \in S : \A k \in S : m <= k
<1>1. PICK m \in S : \A k \in S : <<k, m>> \notin OpToRel(<, Nat)
  BY WFMin, NatLessThanWellFounded, Zenon
<1>2. \A k \in S : ~(k < m)
  BY <1>1, Zenon DEF OpToRel
<1> QED
  BY <1>2, SMT

\* Induction up to n, for a set of numbers.
LEMMA UpTo ==
  ASSUME NEW n \in Nat, NEW good, 0 \in good, \A k \in 1..n : k - 1 \in good => k \in good
  PROVE  n \in good
<1> SUFFICES ASSUME n \notin good PROVE FALSE
  OBVIOUS
<1> DEFINE bad == {k \in 0..n : k \notin good}
<1>1. bad \subseteq Nat /\ bad # {}
  OBVIOUS
<1>2. PICK m \in bad : \A k \in bad : m <= k
  BY <1>1, Least
<1>3. m \in 1..n /\ m - 1 \in 0..n /\ m - 1 \notin bad
  BY <1>2
<1> QED
  BY <1>3

LEMMA Part ==
  ASSUME NEW S, NEW s \in Seq(S), NEW m \in 1..(Len(s) + 1), NEW n \in 0..Len(s), m <= n + 1
  PROVE  /\ SubSeq(s, m, n) \in Seq(S)
         /\ Len(SubSeq(s, m, n)) = n - m + 1
         /\ \A i \in 1..(n - m + 1) : SubSeq(s, m, n)[i] = s[m + i - 1]
<1>1. Len(s) \in Nat
  OBVIOUS
<1>2. \A i \in m..n : s[i] \in S
  BY <1>1, ElementOfSeq
<1>3. m \in Int /\ n \in Int
  BY <1>1
<1>4. SubSeq(s, m, n) \in Seq(S)
  BY <1>2, <1>3, SubSeqProperties
<1>5. Len(SubSeq(s, m, n)) = n - m + 1
  BY <1>1, <1>2, <1>3, SubSeqProperties
<1> QED
  BY <1>1, <1>2, <1>4, <1>5

LEMMA AllButTheLast ==
  ASSUME NEW S, NEW s \in Seq(S), s # <<>>
  PROVE  /\ Front(s) \in Seq(S) /\ Len(Front(s)) = Len(s) - 1
         /\ \A i \in 1..(Len(s) - 1) : Front(s)[i] = s[i]
         /\ Last(s) \in S /\ Last(s) = s[Len(s)] /\ Len(s) \in Nat /\ Len(s) >= 1
<1>1. Len(s) \in Nat /\ Len(s) >= 1
  BY EmptySeq
<1>2. 1 \in 1..(Len(s) + 1) /\ Len(s) - 1 \in 0..Len(s) /\ 1 <= Len(s) - 1 + 1
  BY <1>1
<1>3. /\ Front(s) \in Seq(S) /\ Len(Front(s)) = Len(s) - 1 - 1 + 1
      /\ \A i \in 1..(Len(s) - 1 - 1 + 1) : Front(s)[i] = s[1 + i - 1]
  BY <1>2, Part DEF Front
<1>4. s[Len(s)] \in S
  BY <1>1, ElementOfSeq
<1> QED
  BY <1>1, <1>3, <1>4 DEF Last

LEMMA RemoveAtIs ==
  ASSUME NEW S, NEW s \in Seq(S), NEW i \in 1..Len(s)
  PROVE  /\ RemoveAt(s, i) \in Seq(S)
         /\ Len(RemoveAt(s, i)) = Len(s) - 1
         /\ \A k \in 1..(Len(s) - 1) : RemoveAt(s, i)[k] = IF k < i THEN s[k] ELSE s[k + 1]
<1> DEFINE a == SubSeq(s, 1, i - 1)
           b == SubSeq(s, i + 1, Len(s))
           n == Len(s)
<1>1. n \in Nat /\ i \in Nat /\ i >= 1 /\ i <= n
  OBVIOUS
<1>2. a \in Seq(S) /\ Len(a) = i - 1 /\ \A k \in 1..(i - 1) : a[k] = s[k]
  BY <1>1, Part
<1>3. b \in Seq(S) /\ Len(b) = n - i /\ \A k \in 1..(n - i) : b[k] = s[i + k]
  BY <1>1, Part
<1> HIDE DEF a, b
<1>4. /\ a \o b \in Seq(S) /\ Len(a \o b) = Len(a) + Len(b)
      /\ \A k \in 1..(Len(a) + Len(b)) : (a \o b)[k] = IF k <= Len(a) THEN a[k] ELSE b[k - Len(a)]
  BY <1>2, <1>3, ConcatProperties
<1>5. \A k \in 1..(n - 1) : (a \o b)[k] = IF k < i THEN s[k] ELSE s[k + 1]
  BY <1>1, <1>2, <1>3, <1>4
<1>6. RemoveAt(s, i) = a \o b
  BY DEF RemoveAt, a, b
<1>7. Len(a \o b) = n - 1
  BY <1>1, <1>2, <1>3, <1>4
<1> QED
  BY <1>4, <1>5, <1>6, <1>7

-----------------------------------------------------------------------------
(* Entries of the history.                                                 *)

LEMMA EntryIs ==
  ASSUME NEW ok \in BOOLEAN, NEW did \in Seq(OpType), NEW who, NEW by \in who
  PROVE  /\ Entry(ok, did, by) \in Entries(who)
         /\ Entry(ok, did, by).by = by /\ Entry(ok, did, by).ok = ok /\ Entry(ok, did, by).parent = 0
         /\ Entry(ok, did, by).did = IF ok THEN did ELSE <<>>
BY DEF Entry, Entries

\* A list of entries to which others were added, and then their parent's.
Extends(all, list, nested, entry) ==
  LET here == Len(list) + Len(nested) + 1 IN
  /\ Len(all) = here
  /\ \A k \in 1..Len(list) : all[k] = list[k]
  /\ \A k \in 1..Len(nested) :
       LET e == all[Len(list) + k] IN
       /\ e.ok = nested[k].ok /\ e.by = nested[k].by
       /\ e.parent = IF nested[k].parent = 0 THEN here ELSE nested[k].parent + Len(list)
  /\ all[here] = entry

LEMMA WithEntryIs ==
  ASSUME NEW by, NEW list \in Seq(Entries(by)), NEW nested \in Seq(Entries(by)), NEW entry \in Entries(by)
  PROVE  /\ WithEntry(list, nested, entry) \in Seq(Entries(by))
         /\ Extends(WithEntry(list, nested, entry), list, nested, entry)
<1> DEFINE here    == Len(list) + Len(nested) + 1
           Link(e) == [e EXCEPT !.parent = Place(@, Len(list), here)]
           mid     == [k \in DOMAIN nested |-> Link(nested[k])]
<1>1. Len(list) \in Nat /\ Len(nested) \in Nat /\ DOMAIN nested = 1..Len(nested) /\ here \in Nat
  BY LenProperties
<1>2. ASSUME NEW e \in Entries(by)
      PROVE  /\ Link(e) \in Entries(by)
             /\ Link(e).ok = e.ok /\ Link(e).by = e.by
             /\ Link(e).parent = IF e.parent = 0 THEN here ELSE e.parent + Len(list)
  <2> HIDE DEF here
  <2>1. Place(e.parent, Len(list), here) \in Nat
    BY <1>1 DEF Place, Entries
  <2>2. PICK p \in Nat : p = Place(e.parent, Len(list), here)
    BY <2>1
  <2>3. Link(e) = [e EXCEPT !.parent = p]
    BY <2>2
  <2>4. /\ [e EXCEPT !.parent = p] \in Entries(by)
        /\ [e EXCEPT !.parent = p].ok = e.ok /\ [e EXCEPT !.parent = p].by = e.by
        /\ [e EXCEPT !.parent = p].parent = p
    BY DEF Entries
  <2> QED
    BY <2>2, <2>3, <2>4 DEF Place
<1> HIDE DEF Link, here
<1>3. \A k \in 1..Len(nested) :
        /\ mid[k] \in Entries(by)
        /\ mid[k].ok = nested[k].ok /\ mid[k].by = nested[k].by
        /\ mid[k].parent = IF nested[k].parent = 0 THEN here ELSE nested[k].parent + Len(list)
  BY <1>1, <1>2, ElementOfSeq
<1>4. mid \in Seq(Entries(by)) /\ Len(mid) = Len(nested)
  <2>1. mid \in [1..Len(nested) -> Entries(by)]
    BY <1>1, <1>3
  <2> HIDE DEF mid
  <2> QED
    BY <1>1, <2>1
<1> HIDE DEF mid
<1>5. /\ list \o mid \in Seq(Entries(by)) /\ Len(list \o mid) = Len(list) + Len(mid)
      /\ \A k \in 1..(Len(list) + Len(mid)) :
           (list \o mid)[k] = IF k <= Len(list) THEN list[k] ELSE mid[k - Len(list)]
  BY <1>4, ConcatProperties
<1>6. <<entry>> \in Seq(Entries(by)) /\ Len(<<entry>>) = 1 /\ <<entry>>[1] = entry
  OBVIOUS
<1> DEFINE front == list \o mid
           all   == front \o <<entry>>
<1> HIDE DEF front
<1>7. /\ all \in Seq(Entries(by)) /\ Len(all) = Len(front) + 1
      /\ \A k \in 1..(Len(front) + 1) :
           all[k] = IF k <= Len(front) THEN front[k] ELSE <<entry>>[k - Len(front)]
  BY <1>5, <1>6, ConcatProperties DEF front
<1>8. /\ front \in Seq(Entries(by)) /\ Len(front) = Len(list) + Len(nested)
      /\ \A k \in 1..Len(list) : front[k] = list[k]
      /\ \A k \in 1..Len(nested) : front[Len(list) + k] = mid[k]
  BY <1>1, <1>4, <1>5 DEF front
<1> HIDE DEF all
<1>9. \A k \in 1..Len(list) : all[k] = list[k]
  BY <1>1, <1>7, <1>8
<1>10. ASSUME NEW k \in 1..Len(nested) PROVE all[Len(list) + k] = mid[k]
  <2>1. Len(list) + k \in 1..(Len(front) + 1) /\ Len(list) + k <= Len(front)
    BY <1>1, <1>8
  <2>2. all[Len(list) + k] = front[Len(list) + k]
    BY <1>7, <2>1
  <2>3. front[Len(list) + k] = mid[k]
    BY <1>8
  <2> QED
    BY <2>2, <2>3
<1>11. all[here] = entry /\ Len(all) = here
  <2>1. here = Len(front) + 1 /\ here \in 1..(Len(front) + 1) /\ ~(here <= Len(front)) /\ here - Len(front) = 1
    BY <1>1, <1>8 DEF here
  <2>2. all[here] = <<entry>>[1]
    BY <1>7, <2>1
  <2> QED
    BY <1>6, <1>7, <2>1, <2>2
<1>12. WithEntry(list, nested, entry) = all
  BY DEF WithEntry, all, front, mid, Link, here
<1> QED
  BY <1>3, <1>7, <1>9, <1>10, <1>11, <1>12 DEF here, Extends

\* Undoing a handler marks what it dispatched, and changes nothing else.
LEMMA RolledBackIs ==
  ASSUME NEW by, NEW nested \in Seq(Entries(by))
  PROVE  /\ RolledBack(nested) \in Seq(Entries(by))
         /\ Len(RolledBack(nested)) = Len(nested)
         /\ \A k \in 1..Len(nested) :
              /\ ~RolledBack(nested)[k].ok
              /\ RolledBack(nested)[k].by = nested[k].by
              /\ RolledBack(nested)[k].parent = nested[k].parent
<1>1. Len(nested) \in Nat /\ DOMAIN nested = 1..Len(nested) /\ DOMAIN RolledBack(nested) = 1..Len(nested)
  BY LenProperties DEF RolledBack
<1>2. ASSUME NEW k \in 1..Len(nested)
      PROVE  /\ RolledBack(nested)[k] \in Entries(by)
             /\ ~RolledBack(nested)[k].ok
             /\ RolledBack(nested)[k].by = nested[k].by
             /\ RolledBack(nested)[k].parent = nested[k].parent
  <2>1. nested[k] \in Entries(by)
    BY ElementOfSeq
  <2>2. RolledBack(nested)[k] = [nested[k] EXCEPT !.ok = FALSE]
    BY <1>1 DEF RolledBack
  <2> QED
    BY <2>1, <2>2 DEF Entries
<1>3. RolledBack(nested) \in [1..Len(nested) -> Entries(by)]
  BY <1>1, <1>2 DEF RolledBack
<1> QED
  BY <1>1, <1>2, <1>3

-----------------------------------------------------------------------------
(* The registry.                                                           *)

LEMMA SessionIs ==
  ASSUME NEW s \in SessionType
  PROVE  /\ s.nets \in Seq(NetworkType) /\ Len(s.nets) \in Nat /\ DOMAIN s.nets = 1..Len(s.nets)
         /\ \A k \in 1..Len(s.nets) : s.nets[k] \in NetworkType
         /\ s.active \in Ids /\ s.selection \in SelectionType /\ s.style \in BOOLEAN
<1>1. s.nets \in Seq(NetworkType)
  BY DEF SessionType
<1>2. \A k \in 1..Len(s.nets) : s.nets[k] \in NetworkType
  BY <1>1, ElementOfSeq
<1> QED
  BY <1>1, <1>2, LenProperties DEF SessionType

\* A session with some of its parts replaced.
LEMMA NetsReplaced ==
  ASSUME NEW s \in SessionType, NEW nets \in Seq(NetworkType)
  PROVE  LET t == [s EXCEPT !.nets = nets] IN
         /\ t \in SessionType
         /\ t.nets = nets /\ t.active = s.active /\ t.selection = s.selection /\ t.style = s.style
BY DEF SessionType

LEMMA ActiveReplaced ==
  ASSUME NEW s \in SessionType, NEW active \in Ids
  PROVE  LET t == [s EXCEPT !.active = active] IN
         /\ t \in SessionType
         /\ t.nets = s.nets /\ t.active = active /\ t.selection = s.selection /\ t.style = s.style
BY DEF SessionType

LEMMA StyleReplaced ==
  ASSUME NEW s \in SessionType, NEW style \in BOOLEAN
  PROVE  LET t == [s EXCEPT !.style = style] IN
         /\ t \in SessionType
         /\ t.nets = s.nets /\ t.active = s.active /\ t.selection = s.selection /\ t.style = style
BY DEF SessionType

LEMMA AtIs ==
  ASSUME NEW s \in SessionType, NEW id \in Ids, Known(s, id)
  PROVE  /\ At(s, id) \in 1..Len(s.nets)
         /\ s.nets[At(s, id)] \in NetworkType
         /\ s.nets[At(s, id)].id = Target(s, id)
<1>1. \E k \in DOMAIN s.nets : s.nets[k].id = Target(s, id)
  BY DEF Known, IdsOf
<1>2. At(s, id) \in DOMAIN s.nets /\ s.nets[At(s, id)].id = Target(s, id)
  BY <1>1, Zenon DEF At
<1> QED
  BY <1>2, SessionIs

LEMMA IdsAre ==
  ASSUME NEW s \in SessionType
  PROVE  /\ IdsOf(s) \subseteq 1..MaxNets
         /\ IsFiniteSet(IdsOf(s)) /\ Cardinality(IdsOf(s)) <= Len(s.nets)
         /\ (\A i, j \in 1..Len(s.nets) : s.nets[i].id = s.nets[j].id => i = j)
              <=> Cardinality(IdsOf(s)) = Len(s.nets)
<1> DEFINE n == Len(s.nets)
           f == [k \in 1..n |-> s.nets[k].id]
<1>1. n \in Nat /\ DOMAIN s.nets = 1..n /\ \A k \in 1..n : s.nets[k] \in NetworkType
  BY SessionIs
<1>2. IsFiniteSet(1..n) /\ Cardinality(1..n) = n
  BY <1>1, FS_Interval
<1>3. f \in Surjection(1..n, IdsOf(s))
  BY <1>1 DEF Surjection, IdsOf
<1>4. /\ IsFiniteSet(IdsOf(s)) /\ Cardinality(IdsOf(s)) <= n
      /\ Cardinality(IdsOf(s)) = n <=> f \in Injection(1..n, IdsOf(s))
  BY <1>2, <1>3, FS_Surjection
<1>5. f \in Injection(1..n, IdsOf(s)) <=> \A i, j \in 1..n : s.nets[i].id = s.nets[j].id => i = j
  BY <1>3 DEF Surjection, Injection, IsInjective
<1>6. IdsOf(s) \subseteq 1..MaxNets
  BY <1>1 DEF IdsOf, NetworkType
<1> QED
  BY <1>4, <1>5, <1>6

\* While fewer networks are open than there are ids, one is free.
LEMMA FreshIs ==
  ASSUME NEW s \in SessionType, Len(s.nets) < MaxNets
  PROVE  FreshId(s) \in 1..MaxNets /\ FreshId(s) \notin IdsOf(s)
<1> DEFINE free == (1..MaxNets) \ IdsOf(s)
<1>1. MaxNets \in Nat /\ Len(s.nets) \in Nat
  BY BoundsAssumption, SessionIs
<1>2. IsFiniteSet(1..MaxNets) /\ Cardinality(1..MaxNets) = MaxNets
  BY <1>1, FS_Interval
<1>3. free # {}
  <2> SUFFICES ASSUME free = {} PROVE FALSE
    OBVIOUS
  <2>1. IdsOf(s) = 1..MaxNets
    BY IdsAre
  <2> QED
    BY <1>1, <1>2, <2>1, IdsAre
<1>4. free \subseteq Nat
  BY <1>1
<1>5. PICK n \in free : \A k \in free : n <= k
  BY <1>3, <1>4, Least
<1>6. n \in 1..MaxNets /\ n \notin IdsOf(s) /\ \A m \in 1..(n - 1) : m \in IdsOf(s)
  BY <1>1, <1>5
<1> QED
  BY <1>6, Zenon DEF FreshId

LEMMA WithoutIs ==
  ASSUME NEW nets \in Seq(NetworkType), NEW id
  PROVE  \/ /\ Without(nets, id) = nets
            /\ \A k \in 1..Len(nets) : nets[k].id # id
         \/ \E i \in 1..Len(nets) :
              /\ nets[i].id = id
              /\ Without(nets, id) = RemoveAt(nets, i)
<1>1. DOMAIN nets = 1..Len(nets)
  BY LenProperties
<1>2. CASE \E k \in DOMAIN nets : nets[k].id = id
  <2> DEFINE i == CHOOSE k \in DOMAIN nets : nets[k].id = id
  <2>1. i \in DOMAIN nets /\ nets[i].id = id
    BY <1>2
  <2>2. Without(nets, id) = RemoveAt(nets, i)
    BY <1>2 DEF Without
  <2> QED
    BY <1>1, <2>1, <2>2
<1>3. CASE ~\E k \in DOMAIN nets : nets[k].id = id
  BY <1>1, <1>3 DEF Without
<1> QED
  BY <1>2, <1>3

LEMMA WithoutType ==
  ASSUME NEW nets \in Seq(NetworkType), NEW id
  PROVE  /\ Without(nets, id) \in Seq(NetworkType)
         /\ Len(Without(nets, id)) \in Nat /\ Len(Without(nets, id)) <= Len(nets)
<1>1. Len(nets) \in Nat
  BY LenProperties
<1> QED
  BY <1>1, WithoutIs, RemoveAtIs

LEMMA RegisterIs ==
  ASSUME NEW s \in SessionType, Len(s.nets) < MaxNets, NEW object \in 1..MaxNets,
         NEW source \in Jobs \cup {Nothing}, NEW edits \in Nat, NEW from \in 0..Closed,
         NEW fromObject \in Objects
  PROVE  LET h == Handle(FreshId(s), object, source, edits, from, fromObject)
             r == Register(s, object, source, edits, from, fromObject)
         IN  /\ h \in NetworkType
             /\ r \in SessionType
             /\ r.nets = Append(s.nets, h)
             /\ r.active = s.active /\ r.selection = s.selection /\ r.style = s.style
<1> DEFINE h == Handle(FreshId(s), object, source, edits, from, fromObject)
<1>1. h \in NetworkType
  BY FreshIs DEF Handle, NetworkType
<1> HIDE DEF h
<1>2. PICK nets : nets = Append(s.nets, h)
  OBVIOUS
<1>3. nets \in Seq(NetworkType)
  BY <1>1, <1>2, SessionIs, AppendProperties
<1>4. Register(s, object, source, edits, from, fromObject) = [s EXCEPT !.nets = nets]
  BY <1>2 DEF Register, h
<1>5. LET r == Register(s, object, source, edits, from, fromObject) IN
      /\ r \in SessionType
      /\ r.nets = nets /\ r.active = s.active /\ r.selection = s.selection /\ r.style = s.style
  BY <1>3, <1>4, NetsReplaced
<1> QED
  BY <1>1, <1>2, <1>5 DEF h

\* A network that no other was derived from.
LEMMA AddIs ==
  ASSUME NEW s \in SessionType, Len(s.nets) < MaxNets, NEW object \in 1..MaxNets,
         NEW source \in Jobs \cup {Nothing}
  PROVE  LET h == Handle(FreshId(s), object, source, 0, None, 0)
             r == Register(s, object, source, 0, None, 0)
         IN  /\ h \in NetworkType
             /\ r \in SessionType
             /\ r.nets = Append(s.nets, h)
             /\ r.active = s.active /\ r.selection = s.selection /\ r.style = s.style
<1>1. 0 \in Nat /\ None \in 0..Closed /\ 0 \in Objects
  BY BoundsAssumption DEF None, Closed, Objects
<1> QED
  BY <1>1, RegisterIs

LEMMA OpenIs ==
  ASSUME NEW s \in SessionType, Len(s.nets) < MaxNets, NEW object \in 1..MaxNets,
         NEW source \in Jobs \cup {Nothing}
  PROVE  LET o == Open(s, object, source) IN
         /\ Handle(FreshId(s), object, source, 0, None, 0) \in NetworkType
         /\ o \in SessionType
         /\ o.nets = Append(s.nets, Handle(FreshId(s), object, source, 0, None, 0))
         /\ o.active = FreshId(s) /\ o.selection = s.selection /\ o.style = s.style
<1> DEFINE r == Register(s, object, source, 0, None, 0)
<1>2. /\ Handle(FreshId(s), object, source, 0, None, 0) \in NetworkType
      /\ r \in SessionType
      /\ r.nets = Append(s.nets, Handle(FreshId(s), object, source, 0, None, 0))
      /\ r.active = s.active /\ r.selection = s.selection /\ r.style = s.style
  BY AddIs
<1> HIDE DEF r
<1>3. FreshId(s) \in Ids
  BY FreshIs, BoundsAssumption DEF Ids
<1>4. Open(s, object, source) = [r EXCEPT !.active = FreshId(s)]
  BY DEF Open, r
<1> QED
  BY <1>2, <1>3, <1>4, ActiveReplaced

LEMMA DeriveIs ==
  ASSUME NEW s \in SessionType, Len(s.nets) < MaxNets, NEW object \in 1..MaxNets,
         NEW id \in Ids, Known(s, id)
  PROVE  LET base == s.nets[At(s, id)]
             h == Handle(FreshId(s), object, base.source, base.edits, base.id, base.object)
             d == Derive(s, object, id)
         IN  /\ h \in NetworkType
             /\ d \in SessionType
             /\ d.nets = Append(s.nets, h)
             /\ d.active = s.active /\ d.selection = s.selection /\ d.style = s.style
<1> DEFINE base == s.nets[At(s, id)]
<1>1. base \in NetworkType
  BY AtIs
<1>2. /\ base.source \in Jobs \cup {Nothing} /\ base.edits \in Nat
      /\ base.id \in 0..Closed /\ base.object \in Objects
  <2>1. 1..MaxNets \subseteq 0..Closed /\ 1..MaxNets \subseteq Objects
    BY BoundsAssumption DEF Closed, Objects
  <2> HIDE DEF base
  <2>2. /\ base.source \in Jobs \cup {Nothing} /\ base.edits \in Nat
        /\ base.id \in 1..MaxNets /\ base.object \in 1..MaxNets
    BY <1>1 DEF NetworkType
  <2> QED
    BY <2>1, <2>2
<1>3. Derive(s, object, id) = Register(s, object, base.source, base.edits, base.id, base.object)
  BY DEF Derive
<1> HIDE DEF base
<1>4. LET h == Handle(FreshId(s), object, base.source, base.edits, base.id, base.object)
          r == Register(s, object, base.source, base.edits, base.id, base.object)
      IN  /\ h \in NetworkType
          /\ r \in SessionType
          /\ r.nets = Append(s.nets, h)
          /\ r.active = s.active /\ r.selection = s.selection /\ r.style = s.style
  BY <1>2, RegisterIs
<1> QED
  BY <1>3, <1>4 DEF base

\* What a close does to the networks it leaves open.
Orphaned(n, id) == IF n.from = id THEN [n EXCEPT !.from = Closed] ELSE n

LEMMA OrphanedIs ==
  ASSUME NEW n \in NetworkType, NEW id
  PROVE  /\ Orphaned(n, id) \in NetworkType
         /\ Orphaned(n, id).from = IF n.from = id THEN Closed ELSE n.from
         /\ Orphaned(n, id).id = n.id /\ Orphaned(n, id).object = n.object
         /\ Orphaned(n, id).source = n.source /\ Orphaned(n, id).fromObject = n.fromObject
         /\ Orphaned(n, id).edits = n.edits /\ Orphaned(n, id).version = n.version
BY BoundsAssumption DEF Orphaned, NetworkType, Closed

LEMMA FirstIs ==
  ASSUME NEW s \in SessionType
  PROVE  /\ FirstOf(s) \in Ids
         /\ s.nets = <<>> => FirstOf(s) = None
         /\ s.nets # <<>> => FirstOf(s) # None /\ FirstOf(s) \in IdsOf(s)
<1>1. CASE s.nets = <<>>
  BY <1>1, BoundsAssumption DEF FirstOf, None, Ids
<1>2. CASE s.nets # <<>>
  <2>1. 1 \in 1..Len(s.nets)
    BY <1>2, SessionIs, EmptySeq
  <2>2. s.nets[1] \in NetworkType /\ 1 \in DOMAIN s.nets
    BY <2>1, SessionIs
  <2>3. s.nets[1].id \in 1..MaxNets
    BY <2>2 DEF NetworkType
  <2> QED
    BY <1>2, <2>2, <2>3, BoundsAssumption DEF FirstOf, None, Ids, IdsOf
<1> QED
  BY <1>1, <1>2

\* What is left of a session when a network is closed.
Leaves(c, s, id) ==
  LET left == Without(s.nets, id) IN
  /\ Len(c.nets) = Len(left)
  /\ \A k \in 1..Len(left) : c.nets[k] = Orphaned(left[k], id)
  /\ c.active = IF s.active = id THEN FirstOf([s EXCEPT !.nets = left]) ELSE s.active
  /\ c.selection = IF s.selection # Nothing /\ s.selection.net = id THEN Nothing ELSE s.selection
  /\ c.style = s.style

LEMMA CloseIs ==
  ASSUME NEW s \in SessionType, NEW id \in Ids
  PROVE  Close(s, id) \in SessionType /\ Leaves(Close(s, id), s, id)
<1> DEFINE left == Without(s.nets, id)
           forgot == [s EXCEPT !.nets = left]
<1>1. left \in Seq(NetworkType) /\ Len(left) \in Nat /\ DOMAIN left = 1..Len(left)
      /\ (\A k \in 1..Len(left) : left[k] \in NetworkType)
  BY SessionIs, WithoutType, LenProperties, ElementOfSeq
<1> HIDE DEF left
<1>2. /\ forgot \in SessionType
      /\ forgot.nets = left /\ forgot.active = s.active /\ forgot.selection = s.selection
      /\ forgot.style = s.style
  BY <1>1, NetsReplaced
<1>3. Forget(s, id) = forgot
  BY DEF Forget, left
<1> HIDE DEF forgot
<1>4. PICK nets : nets = [k \in DOMAIN left |-> Orphaned(left[k], id)]
  OBVIOUS
<1>5. /\ nets \in Seq(NetworkType) /\ Len(nets) = Len(left)
      /\ \A k \in 1..Len(left) : nets[k] = Orphaned(left[k], id)
  <2>1. nets \in [1..Len(left) -> NetworkType]
    BY <1>1, <1>4, OrphanedIs
  <2> QED
    BY <1>1, <1>4, <2>1
<1>6. PICK selection : selection = IF s.selection # Nothing /\ s.selection.net = id THEN Nothing ELSE s.selection
  OBVIOUS
<1>7. selection \in SelectionType
  BY <1>6, SessionIs DEF SelectionType
<1>8. PICK active : active = IF s.active = id THEN FirstOf(forgot) ELSE s.active
  OBVIOUS
<1>9. active \in Ids
  BY <1>2, <1>8, SessionIs, FirstIs
<1>10. Close(s, id) = [forgot EXCEPT !.nets = nets, !.selection = selection, !.active = active]
  BY <1>2, <1>3, <1>4, <1>6, <1>8 DEF Close, Orphaned
<1>11. LET c == Close(s, id) IN
       /\ c \in SessionType
       /\ c.nets = nets /\ c.active = active /\ c.selection = selection /\ c.style = forgot.style
  <2>1. forgot \in SessionType /\ nets \in Seq(NetworkType) /\ active \in Ids /\ selection \in SelectionType
    BY <1>2, <1>5, <1>7, <1>9
  <2>2. LET t == [forgot EXCEPT !.nets = nets, !.selection = selection, !.active = active] IN
        /\ t \in SessionType
        /\ t.nets = nets /\ t.active = active /\ t.selection = selection /\ t.style = forgot.style
    BY <2>1 DEF SessionType
  <2> QED
    BY <1>10, <2>2
<1> QED
  BY <1>2, <1>5, <1>6, <1>8, <1>11 DEF left, forgot, Leaves

LEMMA EditedIs ==
  ASSUME NEW n \in NetworkType
  PROVE  /\ Edited(n) \in NetworkType
         /\ Edited(n).id = n.id /\ Edited(n).object = n.object
         /\ Edited(n).from = n.from /\ Edited(n).fromObject = n.fromObject /\ Edited(n).source = n.source
         /\ Edited(n).edits = n.edits + 1 /\ Edited(n).version = n.version + 1
<1>1. PICK e \in Nat, v \in Nat : e = n.edits + 1 /\ v = n.version + 1
  BY DEF NetworkType
<1>2. Edited(n) = [n EXCEPT !.edits = e, !.version = v]
  BY <1>1 DEF Edited
<1> QED
  BY <1>1, <1>2 DEF NetworkType

LEMMA EditIs ==
  ASSUME NEW s \in SessionType, NEW id \in Ids, Known(s, id)
  PROVE  LET i == At(s, id)
             e == Edit(s, id)
         IN  /\ i \in 1..Len(s.nets)
             /\ s.nets[i] \in NetworkType /\ s.nets[i].id = Target(s, id)
             /\ Edited(s.nets[i]) \in NetworkType
             /\ e \in SessionType
             /\ Len(e.nets) = Len(s.nets)
             /\ \A k \in 1..Len(s.nets) : e.nets[k] = IF k = i THEN Edited(s.nets[i]) ELSE s.nets[k]
             /\ e.active = s.active /\ e.selection = s.selection /\ e.style = s.style
<1> DEFINE i == At(s, id)
<1>1. i \in 1..Len(s.nets) /\ s.nets[i] \in NetworkType /\ s.nets[i].id = Target(s, id)
  BY AtIs
<1> HIDE DEF i
<1>2. PICK n : n = Edited(s.nets[i])
  OBVIOUS
<1>3. n \in NetworkType
  BY <1>1, <1>2, EditedIs
<1>4. PICK nets : nets = [s.nets EXCEPT ![i] = n]
  OBVIOUS
<1>5. /\ nets \in Seq(NetworkType) /\ Len(nets) = Len(s.nets)
      /\ \A k \in 1..Len(s.nets) : nets[k] = IF k = i THEN n ELSE s.nets[k]
  BY <1>1, <1>3, <1>4, SessionIs, ExceptSeq
<1>6. Edit(s, id) = [s EXCEPT !.nets = nets]
  BY <1>2, <1>4 DEF Edit, i
<1>7. LET e == Edit(s, id) IN
      /\ e \in SessionType
      /\ e.nets = nets /\ e.active = s.active /\ e.selection = s.selection /\ e.style = s.style
  BY <1>5, <1>6, NetsReplaced
<1> QED
  BY <1>1, <1>2, <1>3, <1>5, <1>7 DEF i

LEMMA PayloadIs ==
  ASSUME NEW n \in NetworkType, NEW edits \in Nat
  PROVE  /\ Payload(n, edits) \in SelectionType /\ Payload(n, edits) # Nothing
         /\ Payload(n, edits).net = n.id /\ Payload(n, edits).object = n.object
         /\ Payload(n, edits).edits = edits
BY NothingAssumption DEF Payload, SelectionType, NetworkType

LEMMA CoreOpIs ==
  ASSUME NEW op \in CoreOps
  PROVE  /\ op \in OpType
         /\ op.do \in {"close", "activate", "select", "clear", "style"}
         /\ op.net \in Ids
         /\ op.do \in {"close", "activate"} => op.net \in 1..MaxNets
BY BoundsAssumption DEF CoreOps, Op, OpType, Ids, None

LEMMA DoIs ==
  ASSUME NEW s \in SessionType, NEW op \in CoreOps, Accepts(s, op)
  PROVE  LET t == Do(s, op, 0) IN
         /\ t \in SessionType
         /\ op.do = "close" => t = Close(s, op.net)
         /\ op.do = "activate" =>
              /\ t.nets = s.nets /\ t.active = op.net /\ t.selection = s.selection /\ t.style = s.style
              /\ op.net \in IdsOf(s)
         /\ op.do = "select" =>
              /\ At(s, op.net) \in 1..Len(s.nets)
              /\ t.selection = LET n == s.nets[At(s, op.net)] IN Payload(n, n.edits)
              /\ t.nets = s.nets /\ t.active = s.active /\ t.style = s.style
         /\ op.do = "clear" =>
              /\ t.nets = s.nets /\ t.active = s.active /\ t.selection = Nothing /\ t.style = s.style
         /\ op.do = "style" =>
              /\ t.nets = s.nets /\ t.active = s.active /\ t.selection = s.selection
<1> DEFINE t == Do(s, op, 0)
<1>1. CASE op.do = "close"
  <2>1. t = Close(s, op.net)
    BY <1>1 DEF Do
  <2> QED
    BY <1>1, <2>1, CoreOpIs, CloseIs
<1>2. CASE op.do = "activate"
  <2>1. t = [s EXCEPT !.active = op.net]
    BY <1>2 DEF Do
  <2>2. op.net \in IdsOf(s) /\ op.net \in Ids
    BY <1>2, CoreOpIs, BoundsAssumption DEF Accepts, Known, Target, None
  <2>3. t \in SessionType /\ t.nets = s.nets /\ t.active = op.net /\ t.selection = s.selection /\ t.style = s.style
    <3> HIDE DEF t
    <3> QED
      BY <2>1, <2>2 DEF SessionType
  <2> QED
    BY <1>2, <2>2, <2>3
<1>3. CASE op.do = "select"
  <2> DEFINE n == s.nets[At(s, op.net)]
  <2>1. PICK p : p = Payload(n, n.edits)
    OBVIOUS
  <2>2. t = [s EXCEPT !.selection = p]
    BY <1>3, <2>1 DEF Do
  <2>3. Known(s, op.net) /\ op.net \in Ids
    BY <1>3, CoreOpIs DEF Accepts
  <2>4. At(s, op.net) \in 1..Len(s.nets) /\ n \in NetworkType
    BY <2>3, AtIs
  <2>5. p \in SelectionType
    <3> HIDE DEF n
    <3>1. n.edits \in Nat
      BY <2>4 DEF NetworkType
    <3> QED
      BY <2>1, <2>4, <3>1, PayloadIs
  <2> HIDE DEF n
  <2>6. t \in SessionType /\ t.selection = p /\ t.nets = s.nets /\ t.active = s.active /\ t.style = s.style
    <3> HIDE DEF t
    <3> QED
      BY <2>2, <2>5 DEF SessionType
  <2> QED
    BY <1>3, <2>1, <2>4, <2>6 DEF n
<1>4. CASE op.do = "clear"
  <2>1. t = [s EXCEPT !.selection = Nothing]
    BY <1>4 DEF Do
  <2>2. Nothing \in SelectionType
    BY DEF SelectionType
  <2>3. t \in SessionType /\ t.nets = s.nets /\ t.active = s.active /\ t.selection = Nothing /\ t.style = s.style
    <3> HIDE DEF t
    <3> QED
      BY <2>1, <2>2 DEF SessionType
  <2> QED
    BY <1>4, <2>3
<1>5. CASE op.do = "style"
  <2>1. t = [s EXCEPT !.style = TRUE]
    BY <1>5 DEF Do
  <2> QED
    BY <1>5, <2>1, StyleReplaced
<1> QED
  BY <1>1, <1>2, <1>3, <1>4, <1>5, CoreOpIs

-----------------------------------------------------------------------------
(* Undoing.                                                                *)

LEMMA UndoOneType ==
  ASSUME NEW u \in UndoType, NEW nets \in Seq(NetworkType)
  PROVE  /\ UndoOne(u, nets) \in Seq(NetworkType)
         /\ u.kind = "derived" => UndoOne(u, nets) = Without(nets, u.id)
         /\ u.kind # "derived" =>
              /\ Len(UndoOne(u, nets)) = Len(nets)
              /\ \A k \in 1..Len(nets) :
                   /\ UndoOne(u, nets)[k].id = nets[k].id
                   /\ UndoOne(u, nets)[k].object = nets[k].object
                   /\ UndoOne(u, nets)[k].source = nets[k].source
                   /\ UndoOne(u, nets)[k].from = nets[k].from
                   /\ UndoOne(u, nets)[k].fromObject = nets[k].fromObject
                   /\ UndoOne(u, nets)[k].edits = IF nets[k].object = u.object THEN u.edits ELSE nets[k].edits
                   /\ UndoOne(u, nets)[k].version = IF nets[k].object = u.object THEN u.version ELSE nets[k].version
<1>1. CASE u.kind = "derived"
  BY <1>1, WithoutType DEF UndoOne
<1>2. CASE u.kind # "derived"
  <2> DEFINE Put(n) == IF n.object = u.object THEN [n EXCEPT !.edits = u.edits, !.version = u.version] ELSE n
             made == [k \in DOMAIN nets |-> Put(nets[k])]
  <2>1. Len(nets) \in Nat /\ DOMAIN nets = 1..Len(nets) /\ \A k \in 1..Len(nets) : nets[k] \in NetworkType
    BY LenProperties, ElementOfSeq
  <2>2. u.edits \in Nat /\ u.version \in Nat
    BY DEF UndoType
  <2>3. ASSUME NEW n \in NetworkType
        PROVE  /\ Put(n) \in NetworkType
               /\ Put(n).id = n.id /\ Put(n).object = n.object /\ Put(n).source = n.source
               /\ Put(n).from = n.from /\ Put(n).fromObject = n.fromObject
               /\ Put(n).edits = IF n.object = u.object THEN u.edits ELSE n.edits
               /\ Put(n).version = IF n.object = u.object THEN u.version ELSE n.version
    BY <2>2 DEF NetworkType
  <2>4. UndoOne(u, nets) = made
    BY <1>2 DEF UndoOne
  <2> HIDE DEF Put
  <2>5. made \in Seq(NetworkType) /\ Len(made) = Len(nets)
    <3>1. made \in [1..Len(nets) -> NetworkType]
      BY <2>1, <2>3
    <3> HIDE DEF made
    <3> QED
      BY <2>1, <3>1
  <2>6. \A k \in 1..Len(nets) : made[k] = Put(nets[k])
    BY <2>1
  <2> HIDE DEF made
  <2> QED
    BY <1>2, <2>1, <2>3, <2>4, <2>5, <2>6
<1> QED
  BY <1>1, <1>2

\* A step function applied again and again.
Steps(V, n) == [1..n -> [V -> V]]

IsRun(f, V, n, v, step) == f \in [0..n -> V] /\ f[0] = v /\ \A k \in 1..n : f[k] = step[k][f[k - 1]]

LEMMA Iterated ==
  ASSUME NEW V, NEW n \in Nat, NEW v \in V, NEW step \in Steps(V, n)
  PROVE  \E f : IsRun(f, V, n, v, step)
<1> USE DEF Steps
<1> DEFINE Runs(f, m) == f \in [0..m -> V] /\ f[0] = v /\ \A k \in 1..m : f[k] = step[k][f[k - 1]]
           Exists(m) == \E f : Runs(f, m)
           good == {m \in 0..n : Exists(m)}
<1>1. 0 \in good
  <2>1. Runs([k \in 0..0 |-> v], 0)
    OBVIOUS
  <2>2. Exists(0)
    <3> HIDE DEF Runs
    <3> QED
      BY <2>1
  <2> QED
    BY <2>2
<1>2. ASSUME NEW m \in 1..n, m - 1 \in good PROVE m \in good
  <2>1. PICK f : Runs(f, m - 1)
    BY <1>2
  <2> DEFINE g == [k \in 0..m |-> IF k = m THEN step[m][f[m - 1]] ELSE f[k]]
  <2>2. f[m - 1] \in V /\ step[m] \in [V -> V]
    BY <2>1
  <2>3. g \in [0..m -> V] /\ g[0] = v
    BY <2>1, <2>2
  <2>4. ASSUME NEW k \in 1..m PROVE g[k] = step[k][g[k - 1]]
    BY <2>1
  <2>5. Runs(g, m)
    BY <2>3, <2>4
  <2>6. Exists(m)
    <3> HIDE DEF Runs, g
    <3> QED
      BY <2>5
  <2> HIDE DEF Exists
  <2> QED
    BY <2>6
<1> HIDE DEF good
<1>3. n \in good
  BY <1>1, <1>2, UpTo
<1> QED
  BY <1>3 DEF good, IsRun

\* What holds before a roll back, and after each record that is undone, the
\* latest first, holds after it.
LEMMA UndoneIs ==
  ASSUME NEW records \in Seq(UndoType), NEW nets \in Seq(NetworkType), NEW good,
         nets \in good[0],
         \A k \in 1..Len(records) : \A x \in Seq(NetworkType) :
           x \in good[k - 1] => UndoOne(records[Len(records) - k + 1], x) \in good[k]
  PROVE  Undone(records, nets) \in Seq(NetworkType) /\ Undone(records, nets) \in good[Len(records)]
<1> DEFINE V == Seq(NetworkType)
           n == Len(records)
           step == [k \in 1..n |-> [x \in V |-> UndoOne(records[n - k + 1], x)]]
           Made(g) == g = [k \in 0..n |-> IF k = 0 THEN nets ELSE UndoOne(records[n - k + 1], g[k - 1])]
           after == CHOOSE g : Made(g)
<1>1. n \in Nat /\ \A k \in 1..n : records[n - k + 1] \in UndoType
  BY LenProperties, ElementOfSeq
<1>2. step \in [1..n -> [V -> V]]
  BY <1>1, UndoOneType
<1>12. \A k \in 1..n : \A x \in V : step[k][x] = UndoOne(records[n - k + 1], x)
  OBVIOUS
<1>7. Undone(records, nets) = after[n]
  BY DEF Undone
<1>13. n = Len(records)
  OBVIOUS
<1> HIDE DEF step, V, n
<1>3. PICK f \in [0..n -> V] : f[0] = nets /\ \A k \in 1..n : f[k] = step[k][f[k - 1]]
  <2>1. nets \in V
    BY DEF V
  <2>2. step \in Steps(V, n)
    BY <1>2 DEF Steps
  <2>3. \E f : IsRun(f, V, n, nets, step)
    BY <1>1, <2>1, <2>2, Iterated
  <2> QED
    BY <2>3 DEF IsRun
<1>4. \A k \in 1..n : f[k - 1] \in V /\ f[k] = UndoOne(records[n - k + 1], f[k - 1])
  <2> TAKE k \in 1..n
  <2>1. k - 1 \in 0..n /\ f[k - 1] \in V
    BY <1>1, <1>3
  <2>2. f[k] = step[k][f[k - 1]]
    BY <1>3
  <2>3. step[k][f[k - 1]] = UndoOne(records[n - k + 1], f[k - 1])
    BY <1>12, <2>1
  <2> QED
    BY <2>1, <2>2, <2>3
<1>5. Made(f)
  BY <1>1, <1>3, <1>4
<1>6. Made(after)
  BY <1>5
<1> HIDE DEF after
<1>8. after[0] = nets /\ \A k \in 1..n : after[k] = UndoOne(records[n - k + 1], after[k - 1])
  BY <1>1, <1>6
<1> DEFINE all == {k \in 0..n : after[k] \in V /\ after[k] \in good[k]}
<1>9. 0 \in all
  BY <1>1, <1>8 DEF V
<1>10. ASSUME NEW k \in 1..n, k - 1 \in all PROVE k \in all
  BY <1>1, <1>8, <1>10, <1>13, UndoOneType DEF V
<1> HIDE DEF all
<1>11. n \in all
  BY <1>1, <1>9, <1>10, UpTo
<1> QED
  BY <1>7, <1>11, <1>13 DEF all, V

-----------------------------------------------------------------------------
(* Types.                                                                  *)

SessionInv ==
  /\ session \in SessionType
  /\ serial \in 1..MaxNets
  /\ Len(session.nets) <= serial

FramesInv ==
  /\ running \in Seq(FrameType)
  /\ undo \in Seq(UndoType)
  /\ \A k \in 1..Len(running) : running[k].mark <= Len(undo)
  /\ \A i, j \in 1..Len(running) : i <= j => running[i].mark <= running[j].mark
  /\ running # <<>> => running[1].mark = 0
  /\ running = <<>> => undo = <<>>

LogInv ==
  /\ history \in Seq(Entries(Jobs \cup {Nothing}))
  /\ committed \in [Jobs -> 0..Len(history)]
  /\ seqOf \in [Jobs -> 0..Len(history)]

RequestsInv ==
  /\ pc \in [Jobs \cup Selectors -> {"idle", "loaded", "finish", "parsing", "apply", "ended"}]
  /\ prepared \in [Selectors -> PreparedType \cup {Nothing}]
  /\ \A r \in Selectors : pc[r] # "idle" => prepared[r] # Nothing
  /\ steps \in 0..MaxSteps
  /\ silent \in BOOLEAN

TypeInv == SessionInv /\ FramesInv /\ LogInv /\ RequestsInv

LEMMA TopReplaced ==
  ASSUME NEW frames \in Seq(FrameType), frames # <<>>, NEW frame \in FrameType
  PROVE  LET new == [frames EXCEPT ![Len(frames)] = frame] IN
         /\ new \in Seq(FrameType) /\ Len(new) = Len(frames) /\ new # <<>>
         /\ \A k \in 1..Len(frames) : new[k] = IF k = Len(frames) THEN frame ELSE frames[k]
<1>1. Len(frames) \in 1..Len(frames) /\ Len(frames) \in Nat
  BY EmptySeq
<1> DEFINE new == [frames EXCEPT ![Len(frames)] = frame]
<1>2. /\ new \in Seq(FrameType) /\ Len(new) = Len(frames)
      /\ \A k \in 1..Len(frames) : new[k] = IF k = Len(frames) THEN frame ELSE frames[k]
  BY <1>1, ExceptSeq
<1> HIDE DEF new
<1>3. new # <<>>
  BY <1>1, <1>2, EmptySeq
<1> QED
  BY <1>2, <1>3 DEF new

\* A frame whose handler has done more.
Same(f, g) ==
  /\ f.mark = g.mark /\ f.active = g.active /\ f.selection = g.selection
  /\ f.style = g.style /\ f.before = g.before

LEMMA FrameIs ==
  ASSUME NEW f \in FrameType
  PROVE  /\ f.mark \in Nat /\ f.active \in Ids /\ f.selection \in SelectionType /\ f.style \in BOOLEAN
         /\ f.did \in Seq(OpType) /\ f.nested \in Seq(Entries({Nothing})) /\ f.before \in SessionType
BY DEF FrameType

LEMMA TopIs ==
  ASSUME FramesInv, ~Idle
  PROVE  /\ running \in Seq(FrameType) /\ running # <<>>
         /\ Len(running) \in Nat /\ Len(running) >= 1 /\ Len(running) \in 1..Len(running)
         /\ Top = running[Len(running)] /\ Top \in FrameType
         /\ Top.mark \in 0..Len(undo) /\ Len(undo) \in Nat
         /\ Front(running) \in Seq(FrameType) /\ Len(Front(running)) = Len(running) - 1
         /\ \A k \in 1..(Len(running) - 1) : Front(running)[k] = running[k]
<1>1. running \in Seq(FrameType) /\ running # <<>> /\ undo \in Seq(UndoType)
  BY DEF FramesInv, Idle
<1>2. /\ Front(running) \in Seq(FrameType) /\ Len(Front(running)) = Len(running) - 1
      /\ \A k \in 1..(Len(running) - 1) : Front(running)[k] = running[k]
      /\ Top \in FrameType /\ Top = running[Len(running)]
      /\ Len(running) \in Nat /\ Len(running) >= 1
  BY <1>1, AllButTheLast DEF Top
<1>3. Top.mark \in Nat /\ Top.mark <= Len(undo) /\ Len(undo) \in Nat
  BY <1>1, <1>2, FrameIs DEF FramesInv
<1> QED
  BY <1>1, <1>2, <1>3

\* The frames after a step that lets the handler on top go on.
LEMMA TopDoesIs ==
  ASSUME FramesInv, ~Idle, NEW did \in Seq(OpType), NEW entries \in Seq(Entries({Nothing})),
         TopDoes(did, entries)
  PROVE  /\ running' \in Seq(FrameType) /\ Len(running') = Len(running) /\ running' # <<>>
         /\ \A k \in 1..Len(running) :
              /\ Same(running'[k], running[k])
              /\ k # Len(running) => running'[k] = running[k]
         /\ running'[Len(running)].did = Top.did \o did
         /\ running'[Len(running)].nested = Top.nested \o entries
<1>1. PICK d, e : d = Top.did \o did /\ e = Top.nested \o entries
  OBVIOUS
<1>2. d \in Seq(OpType) /\ e \in Seq(Entries({Nothing}))
  BY <1>1, TopIs, FrameIs, ConcatProperties
<1>3. PICK frame : frame = [Top EXCEPT !.did = d, !.nested = e]
  OBVIOUS
<1>4. frame \in FrameType /\ frame.did = d /\ frame.nested = e /\ Same(frame, Top)
  <2>1. Top \in FrameType
    BY TopIs
  <2> QED
    BY <1>2, <1>3, <2>1 DEF FrameType, Same
<1>5. running' = [running EXCEPT ![Len(running)] = frame]
  BY <1>1, <1>3 DEF TopDoes
<1>6. /\ running' \in Seq(FrameType) /\ Len(running') = Len(running) /\ running' # <<>>
      /\ \A k \in 1..Len(running) : running'[k] = IF k = Len(running) THEN frame ELSE running[k]
  BY <1>4, <1>5, TopIs, TopReplaced
<1> QED
  BY <1>1, <1>4, <1>6, TopIs DEF Same

\* Frames that go on or end leave the others' marks alone.
LEMMA FramesKept ==
  ASSUME FramesInv,
         running' \in Seq(FrameType), undo' \in Seq(UndoType), Len(running') <= Len(running),
         \A k \in 1..Len(running') : running'[k].mark = running[k].mark /\ running[k].mark <= Len(undo'),
         running' = <<>> => undo' = <<>>
  PROVE  FramesInv'
<1>1. Len(running) \in Nat /\ Len(running') \in Nat
  BY DEF FramesInv
<1>2. running' # <<>> => running # <<>> /\ 1 \in 1..Len(running')
  BY <1>1, EmptySeq DEF FramesInv
<1>3. \A k \in 1..Len(running') : k \in 1..Len(running)
  BY <1>1
<1>4. \A k \in 1..Len(running') : running'[k].mark <= Len(undo')
  OBVIOUS
<1>5. \A i, j \in 1..Len(running') : i <= j => running'[i].mark <= running'[j].mark
  BY <1>3 DEF FramesInv
<1>6. running' # <<>> => running'[1].mark = 0
  BY <1>2 DEF FramesInv
<1> QED
  BY <1>4, <1>5, <1>6 DEF FramesInv

LEMMA RecordIs ==
  ASSUME LogInv, NEW entry \in Entries(Jobs \cup {Nothing}), Record(entry)
  PROVE  /\ history' \in Seq(Entries(Jobs \cup {Nothing}))
         /\ Len(history) \in Nat /\ Len(history') = Len(history) + 1
         /\ \A k \in 1..Len(history) : history'[k] = history[k]
         /\ history'[Len(history) + 1] = entry
<1>3. PICK who : who = Jobs \cup {Nothing}
  OBVIOUS
<1>4. PICK none : none = <<>>
  OBVIOUS
<1> DEFINE E == Entries(who)
<1>1. history \in Seq(E) /\ none \in Seq(E) /\ Len(none) = 0 /\ Len(history) \in Nat /\ entry \in E
  BY <1>3, <1>4, EmptySeq DEF LogInv
<1>2. /\ WithEntry(history, none, entry) \in Seq(E)
      /\ Extends(WithEntry(history, none, entry), history, none, entry)
  BY <1>1, WithEntryIs
<1>5. history' = WithEntry(history, none, entry)
  BY <1>4 DEF Record
<1> QED
  BY <1>1, <1>2, <1>3, <1>5 DEF Extends

\* A log that has grown.
LEMMA LogKept ==
  ASSUME LogInv, history' \in Seq(Entries(Jobs \cup {Nothing})), Len(history') >= Len(history),
         UNCHANGED <<committed, seqOf>>
  PROVE  LogInv'
<1>1. Len(history) \in Nat /\ Len(history') \in Nat
  BY DEF LogInv
<1>2. 0..Len(history) \subseteq 0..Len(history')
  BY <1>1
<1> QED
  BY <1>2 DEF LogInv

LEMMA UndoneType ==
  ASSUME NEW records \in Seq(UndoType), NEW nets \in Seq(NetworkType)
  PROVE  /\ Undone(records, nets) \in Seq(NetworkType)
         /\ Len(Undone(records, nets)) <= Len(nets)
<1> DEFINE n == Len(records)
           good == [k \in 0..n |-> {x \in Seq(NetworkType) : Len(x) <= Len(nets)}]
<1>1. n \in Nat /\ Len(nets) \in Nat /\ \A k \in 1..n : records[n - k + 1] \in UndoType
  BY LenProperties, ElementOfSeq
<1>2. nets \in good[0]
  BY <1>1
<1>3. ASSUME NEW k \in 1..Len(records), NEW x \in Seq(NetworkType), x \in good[k - 1]
      PROVE  UndoOne(records[Len(records) - k + 1], x) \in good[k]
  <2>1. Len(x) \in Nat /\ Len(x) <= Len(nets)
    BY <1>1, <1>3
  <2>2. records[n - k + 1] \in UndoType
    BY <1>1
  <2>3. UndoOne(records[n - k + 1], x) \in Seq(NetworkType) /\ Len(UndoOne(records[n - k + 1], x)) <= Len(x)
    BY <2>1, <2>2, UndoOneType, WithoutType
  <2>4. Len(UndoOne(records[n - k + 1], x)) \in Nat
    BY <2>3, LenProperties
  <2> QED
    BY <1>1, <2>1, <2>3, <2>4
<1> HIDE DEF good
<1>4. Undone(records, nets) \in Seq(NetworkType) /\ Undone(records, nets) \in good[Len(records)]
  BY <1>2, <1>3, UndoneIs
<1> QED
  BY <1>1, <1>4 DEF good

\* The records that a failing handler's end undoes.
Above(frame) == SubSeq(undo, frame.mark + 1, Len(undo))

LEMMA RollBackIs ==
  ASSUME SessionInv, FramesInv, ~Idle, RollBack(Top)
  PROVE  /\ Above(Top) \in Seq(UndoType)
         /\ Len(Above(Top)) = Len(undo) - Top.mark
         /\ \A k \in 1..(Len(undo) - Top.mark) : Above(Top)[k] = undo[Top.mark + k]
         /\ session' \in SessionType
         /\ session'.nets = Undone(Above(Top), session.nets)
         /\ Len(session'.nets) <= Len(session.nets)
         /\ session'.active = IF Top.active \in IdsOf(session') THEN Top.active ELSE FirstOf(session')
         /\ session'.selection = IF Top.selection # Nothing /\ Top.selection.net \notin IdsOf(session')
                                 THEN Nothing ELSE Top.selection
         /\ session'.style = Top.style
         /\ undo' \in Seq(UndoType) /\ Len(undo') = Top.mark
         /\ \A k \in 1..Top.mark : undo'[k] = undo[k]
<1>1. /\ undo \in Seq(UndoType) /\ Len(undo) \in Nat /\ Top.mark \in 0..Len(undo) /\ Top \in FrameType
  BY TopIs DEF FramesInv
<1>2. /\ Above(Top) \in Seq(UndoType)
      /\ Len(Above(Top)) = Len(undo) - Top.mark
      /\ \A k \in 1..(Len(undo) - Top.mark) : Above(Top)[k] = undo[Top.mark + k]
  <2>1. Top.mark + 1 \in 1..(Len(undo) + 1) /\ Len(undo) \in 0..Len(undo) /\ Top.mark + 1 <= Len(undo) + 1
    BY <1>1
  <2>2. /\ Above(Top) \in Seq(UndoType)
        /\ Len(Above(Top)) = Len(undo) - (Top.mark + 1) + 1
        /\ \A k \in 1..(Len(undo) - (Top.mark + 1) + 1) : Above(Top)[k] = undo[(Top.mark + 1) + k - 1]
    BY <1>1, <2>1, Part DEF Above
  <2>3. /\ Len(undo) - (Top.mark + 1) + 1 = Len(undo) - Top.mark
        /\ \A k \in 1..(Len(undo) - Top.mark) : (Top.mark + 1) + k - 1 = Top.mark + k
    BY <1>1
  <2> QED
    BY <2>2, <2>3
<1>3. PICK nets : nets = Undone(Above(Top), session.nets)
  OBVIOUS
<1>4. nets \in Seq(NetworkType) /\ Len(nets) <= Len(session.nets)
  BY <1>2, <1>3, UndoneType, SessionIs DEF SessionInv
<1>5. PICK s : s = [session EXCEPT !.nets = nets]
  OBVIOUS
<1>6. s \in SessionType /\ s.nets = nets
  BY <1>4, <1>5 DEF SessionInv, SessionType
<1>7. PICK active, selection, style :
        /\ active = IF Top.active \in IdsOf(s) THEN Top.active ELSE FirstOf(s)
        /\ selection = IF Top.selection # Nothing /\ Top.selection.net \notin IdsOf(s)
                       THEN Nothing ELSE Top.selection
        /\ style = Top.style
  OBVIOUS
<1>8. active \in Ids /\ selection \in SelectionType /\ style \in BOOLEAN
  <2>1. active \in Ids /\ style \in BOOLEAN
    BY <1>1, <1>6, <1>7, FrameIs, FirstIs
  <2>2. Top.selection \in SelectionType /\ Nothing \in SelectionType
    BY <1>1, FrameIs DEF SelectionType
  <2> QED
    BY <1>7, <2>1, <2>2
<1>9. session' = [s EXCEPT !.active = active, !.selection = selection, !.style = style]
      /\ undo' = SubSeq(undo, 1, Top.mark)
  BY <1>3, <1>5, <1>7 DEF RollBack, Above
<1>10. /\ session' \in SessionType
       /\ session'.nets = nets /\ session'.active = active
       /\ session'.selection = selection /\ session'.style = style
  BY <1>6, <1>8, <1>9 DEF SessionType
<1>11. IdsOf(session') = IdsOf(s) /\ FirstOf(session') = FirstOf(s)
  BY <1>6, <1>10 DEF IdsOf, FirstOf
<1>12. undo' \in Seq(UndoType) /\ Len(undo') = Top.mark /\ \A k \in 1..Top.mark : undo'[k] = undo[k]
  <2>1. 1 \in 1..(Len(undo) + 1) /\ Top.mark \in 0..Len(undo) /\ 1 <= Top.mark + 1
    BY <1>1
  <2>2. /\ undo' \in Seq(UndoType)
        /\ Len(undo') = Top.mark - 1 + 1
        /\ \A k \in 1..(Top.mark - 1 + 1) : undo'[k] = undo[1 + k - 1]
    BY <1>1, <1>9, <2>1, Part
  <2> QED
    BY <1>1, <2>2
<1> QED
  BY <1>2, <1>3, <1>4, <1>7, <1>10, <1>11, <1>12

-----------------------------------------------------------------------------
(* What the ends of a handler do to the frames and to the history.         *)

\* All but the frame on top, the next of which may have been told of its end.
Popped ==
  /\ running' \in Seq(FrameType) /\ Len(running') = Len(running) - 1
  /\ \A k \in 1..Len(running') :
       /\ Same(running'[k], running[k])
       /\ k # Len(running') => running'[k] = running[k]

LEMMA PoppedKeeps ==
  ASSUME FramesInv, ~Idle, Popped, undo' \in Seq(UndoType),
         \/ undo' = undo /\ (Len(running) = 1 => undo' = <<>>)
         \/ Len(undo') = Top.mark
  PROVE  FramesInv'
<1>1. /\ Len(running) \in Nat /\ Len(running) >= 1 /\ Top = running[Len(running)]
      /\ Top.mark \in Nat /\ Len(undo) \in Nat
  BY TopIs
<1>2. /\ running' \in Seq(FrameType) /\ Len(running') = Len(running) - 1
      /\ \A k \in 1..Len(running') : running'[k].mark = running[k].mark
  BY DEF Popped, Same
<1>3. ASSUME NEW k \in 1..Len(running') PROVE running[k].mark <= Len(undo')
  <2>1. k \in 1..Len(running) /\ Len(running) \in 1..Len(running) /\ k <= Len(running)
    BY <1>1, <1>2
  <2>2. running[k].mark <= Len(undo) /\ running[k].mark <= Top.mark
    BY <1>1, <2>1 DEF FramesInv
  <2> QED
    BY <2>2
<1>4. running' = <<>> => undo' = <<>>
  <2> SUFFICES ASSUME running' = <<>> PROVE undo' = <<>>
    OBVIOUS
  <2>1. Len(running) = 1
    BY <1>1, <1>2, EmptySeq
  <2>2. Top.mark = 0
    BY <1>1, <2>1 DEF FramesInv, Idle
  <2> QED
    BY <2>1, <2>2, EmptySeq
<1> QED
  BY <1>1, <1>2, <1>3, <1>4, FramesKept

\* The handler on top of another ends, and did and nested is what the other keeps of it.
LEMMA ParentIs ==
  ASSUME FramesInv, ~Idle, Len(running) # 1
  PROVE  LET above == Front(running) IN
         /\ above \in Seq(FrameType) /\ above # <<>> /\ Len(above) = Len(running) - 1
         /\ Len(running) - 1 \in 1..Len(running)
         /\ Last(above) = running[Len(running) - 1]
         /\ Last(above) \in FrameType
<1>1. /\ Front(running) \in Seq(FrameType) /\ Len(Front(running)) = Len(running) - 1
      /\ Len(running) \in Nat /\ Len(running) >= 1
      /\ \A k \in 1..(Len(running) - 1) : Front(running)[k] = running[k]
  BY TopIs
<1>2. Len(running) - 1 \in 1..(Len(running) - 1)
  BY <1>1
<1>3. Front(running) # <<>>
  BY <1>1, <1>2, EmptySeq
<1>4. Last(Front(running)) \in FrameType /\ Last(Front(running)) = Front(running)[Len(Front(running))]
  BY <1>1, <1>3, AllButTheLast
<1> QED
  BY <1>1, <1>2, <1>3, <1>4

LEMMA PoppedIs ==
  ASSUME FramesInv, ~Idle, Len(running) # 1, NEW frame \in FrameType,
         Same(frame, Last(Front(running))),
         running' = [Front(running) EXCEPT ![Len(Front(running))] = frame]
  PROVE  Popped /\ running' # <<>> /\ running'[Len(running) - 1] = frame
<1> DEFINE above == Front(running)
<1>1. above \in Seq(FrameType) /\ above # <<>> /\ Len(above) = Len(running) - 1
  BY ParentIs
<1>2. Last(above) = running[Len(running) - 1] /\ Len(running) - 1 \in 1..Len(running)
  BY ParentIs
<1>3. Len(running) \in Nat /\ \A k \in 1..(Len(running) - 1) : above[k] = running[k]
  BY TopIs
<1> HIDE DEF above
<1>4. running' = [above EXCEPT ![Len(above)] = frame]
  BY DEF above
<1>5. /\ running' \in Seq(FrameType) /\ Len(running') = Len(above) /\ running' # <<>>
      /\ \A k \in 1..Len(above) : running'[k] = IF k = Len(above) THEN frame ELSE above[k]
  <2>1. LET new == [above EXCEPT ![Len(above)] = frame] IN
        /\ new \in Seq(FrameType) /\ Len(new) = Len(above) /\ new # <<>>
        /\ \A k \in 1..Len(above) : new[k] = IF k = Len(above) THEN frame ELSE above[k]
    BY <1>1, TopReplaced
  <2> QED
    BY <1>4, <2>1
<1>6. Same(frame, running[Len(running) - 1])
  BY <1>2 DEF above
<1>7. ASSUME NEW k \in 1..Len(running')
      PROVE  /\ Same(running'[k], running[k])
             /\ k # Len(running') => running'[k] = running[k]
  BY <1>1, <1>3, <1>5, <1>6 DEF Same
<1> QED
  BY <1>1, <1>2, <1>3, <1>5, <1>7 DEF Popped

LEMMA EmptyFrames ==
  ASSUME FramesInv, ~Idle, Len(running) = 1, running' = <<>>
  PROVE  Popped
<1>1. running' \in Seq(FrameType) /\ Len(running') = 0
  BY EmptySeq
<1> QED
  BY <1>1 DEF Popped

\* A handler that succeeds.
LEMMA EndOkIs ==
  ASSUME FramesInv, LogInv, EndOk
  PROVE  LET entry == Entry(TRUE, Top.did, Nothing) IN
         /\ ~Idle /\ Popped
         /\ entry \in Entries({Nothing}) /\ entry \in Entries(Jobs \cup {Nothing})
         /\ Len(running) = 1 =>
              /\ running' = <<>> /\ undo' = <<>>
              /\ history' = WithEntry(history, Top.nested, entry)
              /\ history' \in Seq(Entries(Jobs \cup {Nothing}))
              /\ Extends(history', history, Top.nested, entry)
         /\ Len(running) # 1 =>
              LET parent == running[Len(running) - 1]
                  frame  == running'[Len(running) - 1]
              IN  /\ undo' = undo /\ history' = history /\ running' # <<>>
                  /\ frame.did = parent.did \o entry.did
                  /\ frame.nested = WithEntry(parent.nested, Top.nested, entry)
                  /\ Extends(frame.nested, parent.nested, Top.nested, entry)
<1>1. ~Idle
  BY DEF EndOk
<1>2. PICK entry : entry = Entry(TRUE, Top.did, Nothing)
  OBVIOUS
<1>3. Top \in FrameType /\ Top.did \in Seq(OpType) /\ Top.nested \in Seq(Entries({Nothing}))
  BY <1>1, TopIs, FrameIs
<1>4. entry \in Entries({Nothing}) /\ entry \in Entries(Jobs \cup {Nothing}) /\ entry.did \in Seq(OpType)
  BY <1>2, <1>3, EntryIs DEF Entries
<1>5. Top.nested \in Seq(Entries(Jobs \cup {Nothing}))
  <2>1. Entries({Nothing}) \subseteq Entries(Jobs \cup {Nothing})
    BY DEF Entries
  <2> QED
    BY <1>3, <2>1, SeqMonotonic
<1>6. CASE Len(running) = 1
  <2>1. running' = <<>> /\ undo' = <<>> /\ history' = WithEntry(history, Top.nested, entry)
    BY <1>2, <1>6 DEF EndOk
  <2>2. history \in Seq(Entries(Jobs \cup {Nothing}))
    BY DEF LogInv
  <2>3. /\ history' \in Seq(Entries(Jobs \cup {Nothing}))
        /\ Extends(history', history, Top.nested, entry)
    BY <1>4, <1>5, <2>1, <2>2, WithEntryIs
  <2>4. Popped
    BY <1>1, <1>6, <2>1, EmptyFrames
  <2> QED
    BY <1>1, <1>2, <1>4, <1>6, <2>1, <2>3, <2>4
<1>7. CASE Len(running) # 1
  <2> DEFINE parent == Last(Front(running))
  <2>1. parent \in FrameType /\ parent = running[Len(running) - 1]
    BY <1>1, <1>7, ParentIs
  <2>2. parent.did \in Seq(OpType) /\ parent.nested \in Seq(Entries({Nothing}))
    BY <2>1, FrameIs
  <2>3. PICK did, nested : did = parent.did \o entry.did /\ nested = WithEntry(parent.nested, Top.nested, entry)
    OBVIOUS
  <2>4. did \in Seq(OpType)
    BY <1>4, <2>2, <2>3, ConcatProperties
  <2>5. nested \in Seq(Entries({Nothing})) /\ Extends(nested, parent.nested, Top.nested, entry)
    BY <1>3, <1>4, <2>2, <2>3, WithEntryIs
  <2>6. PICK frame : frame = [parent EXCEPT !.did = did, !.nested = nested]
    OBVIOUS
  <2>7. frame \in FrameType /\ frame.did = did /\ frame.nested = nested /\ Same(frame, parent)
    <3> HIDE DEF parent
    <3> QED
      BY <2>1, <2>4, <2>5, <2>6 DEF FrameType, Same
  <2>8. running' = [Front(running) EXCEPT ![Len(Front(running))] = frame] /\ undo' = undo /\ history' = history
    BY <1>2, <1>7, <2>3, <2>6 DEF EndOk
  <2>9. Popped /\ running' # <<>> /\ running'[Len(running) - 1] = frame
    BY <1>1, <1>7, <2>7, <2>8, PoppedIs
  <2> HIDE DEF parent
  <2> QED
    BY <1>1, <1>2, <1>4, <1>7, <2>1, <2>3, <2>5, <2>7, <2>8, <2>9
<1> QED
  BY <1>6, <1>7

\* A handler that raises, and whose end is recorded as a failure.
LEMMA EndFailsIs ==
  ASSUME FramesInv, LogInv, EndFails
  PROVE  LET entry  == Entry(FALSE, Top.did, Nothing)
             nested == RolledBack(Top.nested)
         IN
         /\ ~Idle /\ Popped /\ RollBack(Top)
         /\ entry \in Entries({Nothing}) /\ nested \in Seq(Entries({Nothing}))
         /\ Len(running) = 1 =>
              /\ running' = <<>>
              /\ history' = WithEntry(history, nested, entry)
              /\ history' \in Seq(Entries(Jobs \cup {Nothing}))
              /\ Extends(history', history, nested, entry)
         /\ Len(running) # 1 =>
              LET parent == running[Len(running) - 1]
                  frame  == running'[Len(running) - 1]
              IN  /\ history' = history /\ running' # <<>>
                  /\ frame.did = parent.did
                  /\ frame.nested = WithEntry(parent.nested, nested, entry)
                  /\ Extends(frame.nested, parent.nested, nested, entry)
<1>1. ~Idle /\ RollBack(Top)
  BY DEF EndFails
<1>2. PICK entry : entry = Entry(FALSE, Top.did, Nothing)
  OBVIOUS
<1>3. Top \in FrameType /\ Top.did \in Seq(OpType) /\ Top.nested \in Seq(Entries({Nothing}))
  BY <1>1, TopIs, FrameIs
<1>4. entry \in Entries({Nothing}) /\ entry \in Entries(Jobs \cup {Nothing})
  BY <1>2, <1>3, EntryIs DEF Entries
<1>8. PICK marked : marked = RolledBack(Top.nested)
  OBVIOUS
<1>9. marked \in Seq(Entries({Nothing}))
  BY <1>3, <1>8, RolledBackIs
<1>5. marked \in Seq(Entries(Jobs \cup {Nothing}))
  <2>1. Entries({Nothing}) \subseteq Entries(Jobs \cup {Nothing})
    BY DEF Entries
  <2> QED
    BY <1>9, <2>1, SeqMonotonic
<1>6. CASE Len(running) = 1
  <2>1. running' = <<>> /\ history' = WithEntry(history, marked, entry)
    BY <1>2, <1>8, <1>6 DEF EndFails
  <2>2. history \in Seq(Entries(Jobs \cup {Nothing}))
    BY DEF LogInv
  <2>3. /\ history' \in Seq(Entries(Jobs \cup {Nothing}))
        /\ Extends(history', history, marked, entry)
    BY <1>4, <1>5, <2>1, <2>2, WithEntryIs
  <2>4. Popped
    BY <1>1, <1>6, <2>1, EmptyFrames
  <2> QED
    BY <1>1, <1>2, <1>4, <1>6, <1>8, <1>9, <2>1, <2>3, <2>4
<1>7. CASE Len(running) # 1
  <2> DEFINE parent == Last(Front(running))
  <2>1. parent \in FrameType /\ parent = running[Len(running) - 1]
    BY <1>1, <1>7, ParentIs
  <2>2. parent.nested \in Seq(Entries({Nothing}))
    BY <2>1, FrameIs
  <2>3. PICK nested : nested = WithEntry(parent.nested, marked, entry)
    OBVIOUS
  <2>5. nested \in Seq(Entries({Nothing})) /\ Extends(nested, parent.nested, marked, entry)
    BY <1>9, <1>4, <2>2, <2>3, WithEntryIs
  <2>6. PICK frame : frame = [parent EXCEPT !.nested = nested]
    OBVIOUS
  <2>7. frame \in FrameType /\ frame.did = parent.did /\ frame.nested = nested /\ Same(frame, parent)
    <3> HIDE DEF parent
    <3> QED
      BY <2>1, <2>5, <2>6 DEF FrameType, Same
  <2>8. running' = [Front(running) EXCEPT ![Len(Front(running))] = frame] /\ history' = history
    BY <1>2, <1>8, <1>7, <2>3, <2>6 DEF EndFails
  <2>9. Popped /\ running' # <<>> /\ running'[Len(running) - 1] = frame
    BY <1>1, <1>7, <2>7, <2>8, PoppedIs
  <2> HIDE DEF parent
  <2> QED
    BY <1>1, <1>2, <1>4, <1>7, <1>8, <1>9, <2>1, <2>3, <2>5, <2>7, <2>8, <2>9
<1> QED
  BY <1>6, <1>7

LEMMA EndAbortsIs ==
  ASSUME FramesInv, EndAborts
  PROVE  /\ ~Idle /\ RollBack(Top) /\ Popped
         /\ \A k \in 1..Len(running') : running'[k] = running[k]
<1>1. ~Idle /\ RollBack(Top) /\ running' = Front(running)
  BY DEF EndAborts
<1>2. /\ Front(running) \in Seq(FrameType) /\ Len(Front(running)) = Len(running) - 1
      /\ \A k \in 1..(Len(running) - 1) : Front(running)[k] = running[k]
  BY <1>1, TopIs
<1> QED
  BY <1>1, <1>2 DEF Popped, Same

-----------------------------------------------------------------------------
(* Types are kept, action by action.                                       *)

LEMMA DoKeepsTypes ==
  ASSUME SessionInv, NEW op \in CoreOps, UNCHANGED serial,
         session' = IF Accepts(session, op) THEN Do(session, op, 0) ELSE session
  PROVE  SessionInv'
<1>1. CASE ~Accepts(session, op)
  BY <1>1 DEF SessionInv
<1>2. CASE Accepts(session, op)
  <2>1. session' = Do(session, op, 0) /\ session \in SessionType
    BY <1>2 DEF SessionInv
  <2>2. session' \in SessionType
    BY <1>2, <2>1, DoIs
  <2>3. Len(session'.nets) <= Len(session.nets)
    <3>1. CASE op.do = "close"
      <4>1. session' = Close(session, op.net) /\ op.net \in Ids
        BY <1>2, <2>1, <3>1, DoIs, CoreOpIs
      <4>2. Len(session'.nets) = Len(Without(session.nets, op.net))
        <5>1. Leaves(session', session, op.net)
          BY <2>1, <4>1, CloseIs
        <5> QED
          BY <5>1 DEF Leaves
      <4> QED
        BY <2>1, <4>2, WithoutType, SessionIs
    <3>2. CASE op.do # "close"
      <4>1. session'.nets = session.nets
        BY <1>2, <2>1, <3>2, DoIs, CoreOpIs
      <4> QED
        BY <2>1, <4>1, SessionIs
    <3> QED
      BY <3>1, <3>2
  <2>4. Len(session.nets) \in Nat /\ Len(session'.nets) \in Nat
    BY <2>1, <2>2, SessionIs
  <2> QED
    BY <2>2, <2>3, <2>4 DEF SessionInv
<1> QED
  BY <1>1, <1>2

LEMMA RecordKeepsTypes ==
  ASSUME LogInv, NEW entry \in Entries(Jobs \cup {Nothing}), Record(entry), UNCHANGED <<committed, seqOf>>
  PROVE  LogInv'
<1>1. /\ history' \in Seq(Entries(Jobs \cup {Nothing}))
      /\ Len(history) \in Nat /\ Len(history') = Len(history) + 1
  BY RecordIs
<1>2. Len(history') >= Len(history)
  BY <1>1
<1> QED
  BY <1>1, <1>2, LogKept

LEMMA StepIs ==
  ASSUME Step, steps \in 0..MaxSteps
  PROVE  steps' \in 0..MaxSteps
BY BoundsAssumption DEF Step

LEMMA OpEntry ==
  ASSUME NEW op \in OpType, NEW ok \in BOOLEAN
  PROVE  /\ <<op>> \in Seq(OpType)
         /\ Entry(ok, <<op>>, Nothing) \in Entries({Nothing})
         /\ Entry(ok, <<op>>, Nothing) \in Entries(Jobs \cup {Nothing})
         /\ Entry(ok, <<op>>, Nothing).did \in Seq(OpType)
<1>1. PICK did : did = <<op>>
  OBVIOUS
<1>2. did \in Seq(OpType)
  BY <1>1
<1>3. Entry(ok, did, Nothing) \in Entries({Nothing}) /\ Entry(ok, did, Nothing) \in Entries(Jobs \cup {Nothing})
  BY <1>2, EntryIs
<1>4. Entry(ok, did, Nothing).did \in Seq(OpType)
  BY <1>3 DEF Entries
<1> QED
  BY <1>1, <1>2, <1>3, <1>4

LEMMA AcceptsIs ==
  ASSUME NEW s, NEW op
  PROVE  Accepts(s, op) \in BOOLEAN
BY DEF Accepts

LEMMA TopDoesKeeps ==
  ASSUME FramesInv, ~Idle, NEW did \in Seq(OpType), NEW entries \in Seq(Entries({Nothing})),
         TopDoes(did, entries), undo' \in Seq(UndoType), Len(undo') >= Len(undo)
  PROVE  FramesInv'
<1>1. /\ running' \in Seq(FrameType) /\ Len(running') = Len(running) /\ running' # <<>>
      /\ \A k \in 1..Len(running) : running'[k].mark = running[k].mark
  BY TopDoesIs DEF Same
<1>2. Len(running) \in Nat /\ Len(undo) \in Nat /\ Len(undo') \in Nat
  BY DEF FramesInv
<1>3. \A k \in 1..Len(running) : running[k].mark <= Len(undo) /\ running[k].mark \in Nat
  <2>1. \A k \in 1..Len(running) : running[k] \in FrameType
    BY ElementOfSeq DEF FramesInv
  <2> QED
    BY <2>1, FrameIs DEF FramesInv
<1>4. \A k \in 1..Len(running) : running[k].mark <= Len(undo')
  BY <1>2, <1>3
<1> QED
  BY <1>1, <1>2, <1>4, FramesKept

LEMMA CoreActionTypes ==
  ASSUME TypeInv, NEW op \in CoreOps, CoreAction(op)
  PROVE  TypeInv'
<1>1. SessionInv'
  BY DoKeepsTypes DEF TypeInv, CoreAction
<1>2. FramesInv'
  BY DEF TypeInv, CoreAction, FramesInv, work
<1>3. LogInv'
  <2>1. Entry(Accepts(session, op), <<op>>, Nothing) \in Entries(Jobs \cup {Nothing})
    BY CoreOpIs, OpEntry, AcceptsIs
  <2>2. Record(Entry(Accepts(session, op), <<op>>, Nothing)) /\ UNCHANGED <<committed, seqOf>> /\ LogInv
    BY DEF CoreAction, jobs, TypeInv
  <2> QED
    BY <2>1, <2>2, RecordKeepsTypes
<1>4. RequestsInv'
  BY StepIs DEF TypeInv, CoreAction, RequestsInv, jobs
<1> QED
  BY <1>1, <1>2, <1>3, <1>4 DEF TypeInv

LEMMA NestedActionTypes ==
  ASSUME TypeInv, NEW op \in CoreOps, NestedAction(op)
  PROVE  TypeInv'
<1>1. SessionInv'
  BY DoKeepsTypes DEF TypeInv, NestedAction
<1>2. FramesInv'
  <2>1. PICK entry : entry = Entry(Accepts(session, op), <<op>>, Nothing)
    OBVIOUS
  <2>2. entry \in Entries({Nothing}) /\ entry.did \in Seq(OpType)
    BY <2>1, CoreOpIs, OpEntry, AcceptsIs
  <2>3. PICK entries : entries = <<entry>>
    OBVIOUS
  <2>4. entries \in Seq(Entries({Nothing}))
    BY <2>2, <2>3
  <2>5. TopDoes(entry.did, entries) /\ ~Idle /\ undo' = undo /\ FramesInv
    BY <2>1, <2>3 DEF NestedAction, TypeInv
  <2>6. undo' \in Seq(UndoType) /\ Len(undo') >= Len(undo)
    BY <2>5 DEF FramesInv
  <2> QED
    BY <2>2, <2>4, <2>5, <2>6, TopDoesKeeps
<1>3. LogInv'
  BY DEF TypeInv, NestedAction, LogInv, jobs
<1>4. RequestsInv'
  BY StepIs DEF TypeInv, NestedAction, RequestsInv, jobs
<1> QED
  BY <1>1, <1>2, <1>3, <1>4 DEF TypeInv

LEMMA BeginTypes ==
  ASSUME TypeInv, Begin
  PROVE  TypeInv'
<1>1. SessionInv'
  BY DEF TypeInv, Begin, SessionInv
<1>2. FramesInv'
  <2>1. PICK frame : frame =
          [mark |-> Len(undo), active |-> session.active, selection |-> session.selection,
           style |-> session.style, did |-> <<>>, nested |-> <<>>, before |-> session]
    OBVIOUS
  <2>2. /\ undo \in Seq(UndoType) /\ Len(undo) \in Nat
        /\ running \in Seq(FrameType) /\ Len(running) \in Nat
    BY DEF TypeInv, FramesInv
  <2>3. frame \in FrameType /\ frame.mark = Len(undo)
    <3>1. <<>> \in Seq(OpType) /\ <<>> \in Seq(Entries({Nothing}))
      BY EmptySeq
    <3>2. session \in SessionType /\ session.active \in Ids /\ session.selection \in SelectionType /\ session.style \in BOOLEAN
      BY SessionIs DEF TypeInv, SessionInv
    <3> QED
      BY <2>1, <2>2, <3>1, <3>2 DEF FrameType
  <2>4. running' = Append(running, frame) /\ undo' = undo
    BY <2>1 DEF Begin
  <2>5. /\ running' \in Seq(FrameType) /\ running' # <<>> /\ Len(running') = Len(running) + 1
        /\ \A k \in 1..Len(running) : running'[k] = running[k]
        /\ running'[Len(running) + 1] = frame
    BY <2>2, <2>3, <2>4, AppendProperties
  <2>6. \A k \in 1..Len(running') : running'[k].mark <= Len(undo)
    BY <2>2, <2>3, <2>5 DEF TypeInv, FramesInv
  <2>7. \A i, j \in 1..Len(running') : i <= j => running'[i].mark <= running'[j].mark
    BY <2>2, <2>3, <2>5, <2>6 DEF TypeInv, FramesInv
  <2>8. running'[1].mark = 0
    <3>1. CASE running = <<>>
      <4>1. Len(running) = 0 /\ Len(undo) = 0
        BY <3>1, EmptySeq DEF TypeInv, FramesInv
      <4> QED
        BY <2>3, <2>5, <4>1
    <3>2. CASE running # <<>>
      <4>1. 1 \in 1..Len(running)
        BY <2>2, <3>2, EmptySeq
      <4> QED
        BY <2>5, <3>2, <4>1 DEF TypeInv, FramesInv
    <3> QED
      BY <3>1, <3>2
  <2> QED
    BY <2>2, <2>4, <2>5, <2>6, <2>7, <2>8 DEF FramesInv
<1>3. LogInv'
  BY DEF TypeInv, Begin, LogInv, jobs
<1>4. RequestsInv'
  BY StepIs DEF TypeInv, Begin, RequestsInv, jobs
<1> QED
  BY <1>1, <1>2, <1>3, <1>4 DEF TypeInv

LEMMA EndOkTypes ==
  ASSUME TypeInv, EndOk
  PROVE  TypeInv'
<1>1. SessionInv'
  BY DEF TypeInv, EndOk, SessionInv
<1>2. FramesInv'
  <2>1. ~Idle /\ Popped /\ (Len(running) = 1 => undo' = <<>>) /\ (Len(running) # 1 => undo' = undo)
    BY EndOkIs DEF TypeInv
  <2>2. CASE Len(running) = 1
    <3>1. /\ 1 \in 1..Len(running) /\ Top = running[1] /\ running # <<>> /\ FramesInv
      BY <2>1, <2>2, TopIs DEF TypeInv
    <3>2. Top.mark = 0
      BY <3>1 DEF FramesInv
    <3>3. undo' \in Seq(UndoType) /\ Len(undo') = Top.mark
      BY <2>1, <2>2, <3>2, EmptySeq
    <3> QED
      BY <2>1, <3>1, <3>3, PoppedKeeps
  <2>3. CASE Len(running) # 1
    <3>1. undo' \in Seq(UndoType) /\ undo' = undo /\ (Len(running) = 1 => undo' = <<>>)
      BY <2>1, <2>3 DEF TypeInv, FramesInv
    <3> QED
      BY <2>1, <3>1, PoppedKeeps DEF TypeInv
  <2> QED
    BY <2>2, <2>3
<1>3. LogInv'
  <2>1. /\ Len(running) = 1 => /\ history' \in Seq(Entries(Jobs \cup {Nothing}))
                               /\ \E nested, entry : nested \in Seq(Entries({Nothing})) /\ Extends(history', history, nested, entry)
        /\ Len(running) # 1 => history' = history
    <3>1. Top.nested \in Seq(Entries({Nothing}))
      BY EndOkIs, TopIs, FrameIs DEF TypeInv
    <3> QED
      BY <3>1, EndOkIs DEF TypeInv
  <2>2. UNCHANGED <<committed, seqOf>>
    BY DEF EndOk, jobs
  <2>3. CASE Len(running) = 1
    <3>1. PICK nested, entry : nested \in Seq(Entries({Nothing})) /\ Extends(history', history, nested, entry)
      BY <2>1, <2>3
    <3>2. Len(history') = Len(history) + Len(nested) + 1 /\ Len(nested) \in Nat /\ Len(history) \in Nat
      BY <3>1, LenProperties DEF Extends, TypeInv, LogInv
    <3>3. Len(history') >= Len(history)
      BY <3>2
    <3> QED
      BY <2>1, <2>2, <2>3, <3>3, LogKept DEF TypeInv
  <2>4. CASE Len(running) # 1
    BY <2>1, <2>2, <2>4 DEF TypeInv, LogInv
  <2> QED
    BY <2>3, <2>4
<1>4. RequestsInv'
  BY DEF TypeInv, EndOk, RequestsInv, jobs
<1> QED
  BY <1>1, <1>2, <1>3, <1>4 DEF TypeInv

LEMMA RollBackTypes ==
  ASSUME SessionInv, FramesInv, ~Idle, RollBack(Top), Popped, UNCHANGED serial
  PROVE  SessionInv' /\ FramesInv'
<1>1. session' \in SessionType /\ Len(session'.nets) <= Len(session.nets)
  BY RollBackIs
<1>2. undo' \in Seq(UndoType) /\ Len(undo') = Top.mark
  BY RollBackIs
<1>3. SessionInv'
  <2>1. Len(session.nets) \in Nat /\ Len(session'.nets) \in Nat /\ serial \in Nat
    BY <1>1, SessionIs, BoundsAssumption DEF SessionInv
  <2> QED
    BY <1>1, <2>1 DEF SessionInv
<1> QED
  BY <1>2, <1>3, PoppedKeeps

LEMMA EndFailsTypes ==
  ASSUME TypeInv, EndFails
  PROVE  TypeInv'
<1>1. ~Idle /\ Popped /\ RollBack(Top) /\ serial' = serial
  BY EndFailsIs DEF TypeInv, EndFails
<1>2. SessionInv' /\ FramesInv'
  BY <1>1, RollBackTypes DEF TypeInv
<1>3. LogInv'
  <2>1. PICK nested, entry : nested = RolledBack(Top.nested) /\ entry = Entry(FALSE, Top.did, Nothing)
    OBVIOUS
  <2>2. UNCHANGED <<committed, seqOf>>
    BY DEF EndFails, jobs
  <2>3. CASE Len(running) = 1
    <3>1. /\ history' \in Seq(Entries(Jobs \cup {Nothing}))
          /\ Extends(history', history, nested, entry) /\ nested \in Seq(Entries({Nothing}))
      BY <2>1, <2>3, EndFailsIs DEF TypeInv
    <3>2. Len(history') = Len(history) + Len(nested) + 1 /\ Len(nested) \in Nat /\ Len(history) \in Nat
      BY <3>1, LenProperties DEF Extends, TypeInv, LogInv
    <3>3. Len(history') >= Len(history)
      BY <3>2
    <3> QED
      BY <2>2, <3>1, <3>3, LogKept DEF TypeInv
  <2>4. CASE Len(running) # 1
    <3>1. history' = history
      BY <2>4, EndFailsIs DEF TypeInv
    <3> QED
      BY <2>2, <3>1 DEF TypeInv, LogInv
  <2> QED
    BY <2>3, <2>4
<1>4. RequestsInv'
  BY DEF TypeInv, EndFails, RequestsInv, jobs
<1> QED
  BY <1>2, <1>3, <1>4 DEF TypeInv

LEMMA EndAbortsTypes ==
  ASSUME TypeInv, EndAborts
  PROVE  TypeInv'
<1>1. ~Idle /\ Popped /\ RollBack(Top) /\ serial' = serial
  BY EndAbortsIs DEF TypeInv, EndAborts
<1>2. SessionInv' /\ FramesInv'
  BY <1>1, RollBackTypes DEF TypeInv
<1>3. LogInv'
  BY DEF TypeInv, EndAborts, LogInv, jobs
<1>4. RequestsInv'
  BY DEF TypeInv, EndAborts, RequestsInv, jobs
<1> QED
  BY <1>2, <1>3, <1>4 DEF TypeInv

\* A network was added to the session, as the latest that was made.
LEMMA AddedKeeps ==
  ASSUME SessionInv, serial < MaxNets, serial' = serial + 1, NEW h \in NetworkType,
         session' \in SessionType, session'.nets = Append(session.nets, h)
  PROVE  SessionInv'
<1>1. session.nets \in Seq(NetworkType) /\ Len(session.nets) \in Nat
  BY SessionIs DEF SessionInv
<1>2. Len(session'.nets) = Len(session.nets) + 1
  BY <1>1, AppendProperties
<1> QED
  BY <1>1, <1>2, BoundsAssumption DEF SessionInv

LEMMA RoomIs ==
  ASSUME SessionInv, serial < MaxNets
  PROVE  /\ session \in SessionType /\ Len(session.nets) < MaxNets /\ serial + 1 \in 1..MaxNets
BY SessionIs, BoundsAssumption DEF SessionInv

LEMMA AddNetworkIs ==
  ASSUME SessionInv, AddNetwork
  PROVE  LET h == Handle(FreshId(session), serial + 1, Nothing, 0, None, 0) IN
         /\ h \in NetworkType
         /\ session' \in SessionType /\ session'.nets = Append(session.nets, h)
         /\ session'.active = IF session.active = None THEN FreshId(session) ELSE session.active
         /\ session'.selection = session.selection /\ session'.style = session.style
<1>1. session \in SessionType /\ Len(session.nets) < MaxNets /\ serial + 1 \in 1..MaxNets
  BY RoomIs DEF AddNetwork
<1>3. PICK object \in 1..MaxNets : object = serial + 1
  BY <1>1
<1>2. PICK source \in Jobs \cup {Nothing} : source = Nothing
  OBVIOUS
<1> DEFINE r == Register(session, object, source, 0, None, 0)
           h == Handle(FreshId(session), object, source, 0, None, 0)
<1>4. /\ h \in NetworkType /\ r \in SessionType
      /\ r.nets = Append(session.nets, h)
      /\ r.active = session.active /\ r.selection = session.selection /\ r.style = session.style
  BY <1>1, AddIs
<1>5. PICK active : active = IF r.active = None THEN FreshId(session) ELSE r.active
  OBVIOUS
<1>6. session' = [r EXCEPT !.active = active]
  BY <1>2, <1>3, <1>5 DEF AddNetwork
<1> HIDE DEF r, h
<1>7. active \in Ids
  BY <1>1, <1>4, <1>5, FreshIs, SessionIs, BoundsAssumption DEF Ids
<1>8. /\ session' \in SessionType /\ session'.nets = r.nets /\ session'.active = active
      /\ session'.selection = r.selection /\ session'.style = r.style
  BY <1>4, <1>6, <1>7 DEF SessionType
<1> QED
  BY <1>2, <1>3, <1>4, <1>5, <1>8 DEF h

LEMMA AddNetworkTypes ==
  ASSUME TypeInv, AddNetwork
  PROVE  TypeInv'
<1>1. SessionInv'
  <2>1. SessionInv /\ serial < MaxNets /\ serial' = serial + 1
    BY DEF AddNetwork, TypeInv
  <2> QED
    BY <2>1, AddNetworkIs, AddedKeeps
<1>2. FramesInv'
  BY DEF TypeInv, AddNetwork, FramesInv, work
<1>3. LogInv'
  BY DEF TypeInv, AddNetwork, LogInv, jobs
<1>4. RequestsInv'
  BY StepIs DEF TypeInv, AddNetwork, RequestsInv, jobs
<1> QED
  BY <1>1, <1>2, <1>3, <1>4 DEF TypeInv

LEMMA EditKeeps ==
  ASSUME SessionInv, NEW id \in Ids, Known(session, id), session' = Edit(session, id), UNCHANGED serial
  PROVE  SessionInv'
<1>1. session' \in SessionType /\ Len(session'.nets) = Len(session.nets)
  BY EditIs DEF SessionInv
<1> QED
  BY <1>1 DEF SessionInv

LEMMA IdOps ==
  ASSUME NEW id \in Ids
  PROVE  Op("edit", id) \in OpType /\ Op("derive", id) \in OpType
BY DEF Op, OpType

LEMMA MutateInsideTypes ==
  ASSUME TypeInv, NEW id \in Ids, MutateInside(id)
  PROVE  TypeInv'
<1>1. SessionInv'
  BY EditKeeps DEF TypeInv, MutateInside
<1>2. FramesInv'
  <2>1. PICK n : n = session.nets[At(session, id)]
    OBVIOUS
  <2>2. n \in NetworkType
    BY <2>1, AtIs DEF TypeInv, SessionInv, MutateInside
  <2>3. PICK u : u = [kind |-> "mutated", object |-> n.object, id |-> n.id, edits |-> n.edits, version |-> n.version]
    OBVIOUS
  <2>4. u \in UndoType
    BY <2>2, <2>3, BoundsAssumption DEF NetworkType, UndoType, Objects
  <2>5. undo' = Append(undo, u) /\ TopDoes(<<Op("edit", id)>>, <<>>) /\ ~Idle
    BY <2>1, <2>3 DEF MutateInside
  <2>6. undo' \in Seq(UndoType) /\ Len(undo') >= Len(undo)
    <3>1. undo \in Seq(UndoType) /\ Len(undo) \in Nat
      BY DEF TypeInv, FramesInv
    <3> QED
      BY <2>4, <2>5, <3>1, AppendProperties
  <2>7. PICK did, entries : did = <<Op("edit", id)>> /\ entries = <<>>
    OBVIOUS
  <2>8. did \in Seq(OpType) /\ entries \in Seq(Entries({Nothing})) /\ TopDoes(did, entries)
    BY <2>5, <2>7, IdOps, EmptySeq
  <2> QED
    BY <2>5, <2>6, <2>8, TopDoesKeeps DEF TypeInv
<1>3. LogInv'
  BY DEF TypeInv, MutateInside, LogInv, jobs
<1>4. RequestsInv'
  BY StepIs DEF TypeInv, MutateInside, RequestsInv, jobs
<1> QED
  BY <1>1, <1>2, <1>3, <1>4 DEF TypeInv

LEMMA MutateOutsideTypes ==
  ASSUME TypeInv, NEW id \in Ids, MutateOutside(id)
  PROVE  TypeInv'
<1>1. SessionInv'
  BY EditKeeps DEF TypeInv, MutateOutside
<1>2. FramesInv'
  BY DEF TypeInv, MutateOutside, FramesInv, work
<1>3. LogInv'
  <2>1. PICK none : none = <<>>
    OBVIOUS
  <2>2. Entry(TRUE, none, Nothing) \in Entries(Jobs \cup {Nothing})
    BY <2>1, EmptySeq, EntryIs
  <2>3. Record(Entry(TRUE, none, Nothing)) /\ UNCHANGED <<committed, seqOf>> /\ LogInv
    BY <2>1 DEF MutateOutside, jobs, TypeInv
  <2> QED
    BY <2>2, <2>3, RecordKeepsTypes
<1>4. RequestsInv'
  BY StepIs DEF TypeInv, MutateOutside, RequestsInv, jobs
<1> QED
  BY <1>1, <1>2, <1>3, <1>4 DEF TypeInv

LEMMA DeriveKeeps ==
  ASSUME SessionInv, NEW id \in Ids, Known(session, id), serial < MaxNets,
         session' = Derive(session, serial + 1, id), serial' = serial + 1
  PROVE  SessionInv'
<1>1. session \in SessionType /\ Len(session.nets) < MaxNets /\ serial + 1 \in 1..MaxNets
  BY RoomIs
<1>2. PICK object : object = serial + 1
  OBVIOUS
<1>3. PICK h \in NetworkType : session' \in SessionType /\ session'.nets = Append(session.nets, h)
  BY <1>1, <1>2, DeriveIs
<1> QED
  BY <1>3, AddedKeeps

LEMMA DeriveInsideTypes ==
  ASSUME TypeInv, NEW id \in Ids, DeriveInside(id)
  PROVE  TypeInv'
<1>1. SessionInv'
  BY DeriveKeeps DEF TypeInv, DeriveInside
<1>2. FramesInv'
  <2>1. PICK u : u = [kind |-> "derived", object |-> 0, id |-> FreshId(session), edits |-> 0, version |-> 0]
    OBVIOUS
  <2>2. FreshId(session) \in 1..MaxNets
    BY RoomIs, FreshIs DEF DeriveInside, TypeInv
  <2>4. u \in UndoType
    BY <2>1, <2>2, BoundsAssumption DEF UndoType, Objects
  <2>5. undo' = Append(undo, u) /\ TopDoes(<<Op("derive", id)>>, <<>>) /\ ~Idle
    BY <2>1 DEF DeriveInside
  <2>6. undo' \in Seq(UndoType) /\ Len(undo') >= Len(undo)
    <3>1. undo \in Seq(UndoType) /\ Len(undo) \in Nat
      BY DEF TypeInv, FramesInv
    <3> QED
      BY <2>4, <2>5, <3>1, AppendProperties
  <2>7. PICK did, entries : did = <<Op("derive", id)>> /\ entries = <<>>
    OBVIOUS
  <2>8. did \in Seq(OpType) /\ entries \in Seq(Entries({Nothing})) /\ TopDoes(did, entries)
    BY <2>5, <2>7, IdOps, EmptySeq
  <2> QED
    BY <2>5, <2>6, <2>8, TopDoesKeeps DEF TypeInv
<1>3. LogInv'
  BY DEF TypeInv, DeriveInside, LogInv, jobs
<1>4. RequestsInv'
  BY StepIs DEF TypeInv, DeriveInside, RequestsInv, jobs
<1> QED
  BY <1>1, <1>2, <1>3, <1>4 DEF TypeInv

LEMMA DeriveOutsideTypes ==
  ASSUME TypeInv, NEW id \in Ids, DeriveOutside(id)
  PROVE  TypeInv'
<1>1. SessionInv'
  BY DeriveKeeps DEF TypeInv, DeriveOutside
<1>2. FramesInv'
  BY DEF TypeInv, DeriveOutside, FramesInv, work
<1>3. LogInv'
  BY DEF TypeInv, DeriveOutside, LogInv, jobs
<1>4. RequestsInv'
  BY StepIs DEF TypeInv, DeriveOutside, RequestsInv, jobs
<1> QED
  BY <1>1, <1>2, <1>3, <1>4 DEF TypeInv

LEMMA GotoIs ==
  ASSUME RequestsInv, NEW p \in Jobs \cup Selectors, NEW from,
         NEW to \in {"idle", "loaded", "finish", "parsing", "apply", "ended"}, Goto(p, from, to)
  PROVE  /\ pc' \in [Jobs \cup Selectors -> {"idle", "loaded", "finish", "parsing", "apply", "ended"}]
         /\ pc[p] = from /\ pc'[p] = to
         /\ \A q \in Jobs \cup Selectors : q # p => pc'[q] = pc[q]
BY DEF RequestsInv, Goto

LEMMA JobsMoveAlone ==
  ASSUME RequestsInv, NEW j \in Jobs, NEW from,
         NEW to \in {"idle", "loaded", "finish", "parsing", "apply", "ended"}, Goto(j, from, to),
         UNCHANGED <<prepared, steps, silent>>
  PROVE  RequestsInv'
<1>1. /\ pc' \in [Jobs \cup Selectors -> {"idle", "loaded", "finish", "parsing", "apply", "ended"}]
      /\ \A q \in Jobs \cup Selectors : q # j => pc'[q] = pc[q]
  BY GotoIs
<1>2. \A r \in Selectors : r # j
  BY RequestsAssumption
<1> QED
  BY <1>1, <1>2 DEF RequestsInv

LEMMA LoadTypes ==
  ASSUME TypeInv, NEW j \in Jobs, NEW outcome \in {"loaded", "finish"}, Load(j, outcome)
  PROVE  TypeInv'
<1>1. SessionInv' /\ FramesInv' /\ LogInv'
  BY DEF TypeInv, Load, SessionInv, FramesInv, LogInv, work
<1>2. RequestsInv'
  BY JobsMoveAlone DEF TypeInv, Load
<1> QED
  BY <1>1, <1>2 DEF TypeInv

LEMMA OpenEntry ==
  ASSUME NEW j \in Jobs
  PROVE  /\ Entry(TRUE, <<Op("open", j)>>, j) \in Entries(Jobs \cup {Nothing})
         /\ Entry(FALSE, <<>>, j) \in Entries(Jobs \cup {Nothing})
<1>1. PICK did : did = <<Op("open", j)>>
  OBVIOUS
<1>2. did \in Seq(OpType) /\ <<>> \in Seq(OpType)
  BY <1>1, EmptySeq DEF Op, OpType
<1>3. PICK none : none = <<>>
  OBVIOUS
<1>4. Entry(TRUE, did, j) \in Entries(Jobs \cup {Nothing})
  BY <1>2, EntryIs
<1>5. Entry(FALSE, none, j) \in Entries(Jobs \cup {Nothing})
  BY <1>2, <1>3, EntryIs
<1> QED
  BY <1>1, <1>3, <1>4, <1>5

LEMMA CommitIs ==
  ASSUME SessionInv, NEW j \in Jobs, Commit(j)
  PROVE  LET h == Handle(FreshId(session), serial + 1, j, 0, None, 0) IN
         /\ h \in NetworkType
         /\ session' \in SessionType /\ session'.nets = Append(session.nets, h)
         /\ session'.active = FreshId(session) /\ session'.selection = session.selection
         /\ session'.style = session.style
<1>1. session \in SessionType /\ Len(session.nets) < MaxNets /\ serial + 1 \in 1..MaxNets
  BY RoomIs DEF Commit
<1>2. PICK object \in 1..MaxNets : object = serial + 1
  BY <1>1
<1>3. j \in Jobs \cup {Nothing}
  OBVIOUS
<1>4. LET o == Open(session, object, j) IN
      /\ Handle(FreshId(session), object, j, 0, None, 0) \in NetworkType
      /\ o \in SessionType
      /\ o.nets = Append(session.nets, Handle(FreshId(session), object, j, 0, None, 0))
      /\ o.active = FreshId(session) /\ o.selection = session.selection /\ o.style = session.style
  BY <1>1, <1>3, OpenIs
<1>5. session' = Open(session, object, j)
  BY <1>2 DEF Commit
<1> QED
  BY <1>2, <1>4, <1>5

LEMMA CommitTypes ==
  ASSUME TypeInv, NEW j \in Jobs, Commit(j)
  PROVE  TypeInv'
<1>1. SessionInv'
  <2>1. SessionInv /\ serial < MaxNets /\ serial' = serial + 1
    BY DEF Commit, TypeInv
  <2> QED
    BY <2>1, CommitIs, AddedKeeps
<1>2. FramesInv'
  BY DEF TypeInv, Commit, FramesInv, work
<1>3. LogInv'
  <2>1. /\ Record(Entry(TRUE, <<Op("open", j)>>, j)) /\ LogInv
        /\ committed' = [committed EXCEPT ![j] = Len(history) + 1] /\ seqOf' = seqOf
    BY DEF Commit, TypeInv
  <2>2. /\ history' \in Seq(Entries(Jobs \cup {Nothing}))
        /\ Len(history) \in Nat /\ Len(history') = Len(history) + 1
    BY <2>1, OpenEntry, RecordIs
  <2>3. 0..Len(history) \subseteq 0..Len(history') /\ Len(history) + 1 \in 0..Len(history')
    BY <2>2
  <2> QED
    BY <2>1, <2>2, <2>3 DEF LogInv
<1>4. RequestsInv'
  BY JobsMoveAlone DEF TypeInv, Commit
<1> QED
  BY <1>1, <1>2, <1>3, <1>4 DEF TypeInv

LEMMA FinishTypes ==
  ASSUME TypeInv, NEW j \in Jobs, Finish(j)
  PROVE  TypeInv'
<1>1. SessionInv' /\ FramesInv'
  BY DEF TypeInv, Finish, SessionInv, FramesInv, work
<1>2. LogInv'
  <2>1. LogInv /\ committed' = [committed EXCEPT ![j] = 0]
        /\ seqOf' = [seqOf EXCEPT ![j] = IF committed[j] # 0 THEN committed[j] ELSE Len(history) + 1]
    BY DEF Finish, TypeInv
  <2>2. /\ history' \in Seq(Entries(Jobs \cup {Nothing})) /\ Len(history) \in Nat
        /\ Len(history') = IF committed[j] # 0 THEN Len(history) ELSE Len(history) + 1
    <3>1. CASE committed[j] # 0
      BY <2>1, <3>1 DEF Finish, LogInv
    <3>2. CASE committed[j] = 0
      <4>1. Record(Entry(FALSE, <<>>, j))
        BY <3>2 DEF Finish
      <4> QED
        BY <2>1, <3>2, <4>1, OpenEntry, RecordIs
    <3> QED
      BY <3>1, <3>2
  <2>3. PICK seq : seq = IF committed[j] # 0 THEN committed[j] ELSE Len(history) + 1
    OBVIOUS
  <2>4. 0..Len(history) \subseteq 0..Len(history') /\ seq \in 0..Len(history') /\ 0 \in 0..Len(history')
    BY <2>1, <2>2, <2>3 DEF LogInv
  <2> QED
    BY <2>1, <2>2, <2>3, <2>4 DEF LogInv
<1>3. RequestsInv'
  BY JobsMoveAlone DEF TypeInv, Finish
<1> QED
  BY <1>1, <1>2, <1>3 DEF TypeInv

LEMMA SelectorsMove ==
  ASSUME RequestsInv, NEW r \in Selectors, NEW from,
         NEW to \in {"idle", "loaded", "finish", "parsing", "apply", "ended"}, Goto(r, from, to),
         NEW p \in PreparedType, prepared' = [prepared EXCEPT ![r] = p],
         UNCHANGED <<steps, silent>>
  PROVE  RequestsInv'
<1>1. /\ pc' \in [Jobs \cup Selectors -> {"idle", "loaded", "finish", "parsing", "apply", "ended"}]
      /\ \A q \in Jobs \cup Selectors : q # r => pc'[q] = pc[q]
  BY GotoIs
<1>2. p # Nothing
  BY NothingAssumption DEF PreparedType, Ids, Objects
<1>3. /\ prepared' \in [Selectors -> PreparedType \cup {Nothing}]
      /\ prepared'[r] = p /\ \A q \in Selectors : q # r => prepared'[q] = prepared[q]
  BY DEF RequestsInv
<1> QED
  BY <1>1, <1>2, <1>3 DEF RequestsInv

LEMMA PrepareTypes ==
  ASSUME TypeInv, NEW r \in Selectors, NEW id \in Ids, Prepare(r, id)
  PROVE  TypeInv'
<1>1. SessionInv' /\ FramesInv' /\ LogInv'
  BY DEF TypeInv, Prepare, SessionInv, FramesInv, LogInv, work
<1>2. RequestsInv'
  <2>1. PICK p : p = IF Known(session, id)
                     THEN LET n == session.nets[At(session, id)]
                          IN [arg |-> id, object |-> n.object, version |-> n.version, edits |-> n.edits]
                     ELSE [arg |-> id, object |-> 0, version |-> 0, edits |-> 0]
    OBVIOUS
  <2>2. p \in PreparedType
    <3>1. CASE Known(session, id)
      <4>1. PICK n : n = session.nets[At(session, id)]
        OBVIOUS
      <4>2. n \in NetworkType
        BY <3>1, <4>1, AtIs DEF TypeInv, SessionInv
      <4>3. p = [arg |-> id, object |-> n.object, version |-> n.version, edits |-> n.edits]
        BY <2>1, <3>1, <4>1
      <4> QED
        BY <4>2, <4>3, BoundsAssumption DEF NetworkType, PreparedType, Objects
    <3>2. CASE ~Known(session, id)
      BY <2>1, <3>2, BoundsAssumption DEF PreparedType, Objects
    <3> QED
      BY <3>1, <3>2
  <2>3. /\ Goto(r, "idle", "parsing") /\ prepared' = [prepared EXCEPT ![r] = p]
        /\ UNCHANGED <<steps, silent>> /\ RequestsInv
    BY <2>1 DEF Prepare, TypeInv
  <2> QED
    BY <2>2, <2>3, SelectorsMove
<1> QED
  BY <1>1, <1>2 DEF TypeInv

LEMMA ParseIs ==
  ASSUME TypeInv, NEW r \in Selectors, Parse(r)
  PROVE  \E p \in PreparedType :
           /\ prepared' = [prepared EXCEPT ![r] = p]
           /\ p.arg = prepared[r].arg /\ p.object = prepared[r].object /\ p.version = prepared[r].version
           /\ \/ p.edits = prepared[r].edits /\ \A k \in 1..Len(session.nets) : session.nets[k].object # p.object
              \/ \E k \in 1..Len(session.nets) :
                   session.nets[k].object = p.object /\ p.edits = session.nets[k].edits
<1> DEFINE open == {k \in DOMAIN session.nets : session.nets[k].object = prepared[r].object}
<1>1. /\ session \in SessionType /\ DOMAIN session.nets = 1..Len(session.nets)
      /\ \A k \in 1..Len(session.nets) : session.nets[k] \in NetworkType
  BY SessionIs DEF TypeInv, SessionInv
<1>2. prepared[r] \in PreparedType /\ r \in DOMAIN prepared
  BY DEF TypeInv, RequestsInv, Parse, Goto
<1>3. PICK edits : edits = IF open = {} THEN prepared[r].edits ELSE session.nets[CHOOSE k \in open : TRUE].edits
  OBVIOUS
<1>4. \/ edits = prepared[r].edits /\ open = {}
      \/ \E k \in open : edits = session.nets[k].edits
  BY <1>3
<1>5. edits \in Nat
  BY <1>1, <1>2, <1>4 DEF PreparedType, NetworkType
<1>6. PICK p : p = [prepared[r] EXCEPT !.edits = edits]
  OBVIOUS
<1>7. /\ p \in PreparedType /\ p.arg = prepared[r].arg /\ p.object = prepared[r].object
      /\ p.version = prepared[r].version /\ p.edits = edits
  BY <1>2, <1>5, <1>6 DEF PreparedType
<1>8. prepared' = [prepared EXCEPT ![r] = p]
  BY <1>3, <1>6 DEF Parse
<1>9. \/ p.edits = prepared[r].edits /\ \A k \in 1..Len(session.nets) : session.nets[k].object # p.object
      \/ \E k \in 1..Len(session.nets) :
           session.nets[k].object = p.object /\ p.edits = session.nets[k].edits
  BY <1>1, <1>4, <1>7
<1> QED
  BY <1>7, <1>8, <1>9

LEMMA ParseTypes ==
  ASSUME TypeInv, NEW r \in Selectors, Parse(r)
  PROVE  TypeInv'
<1>1. SessionInv' /\ FramesInv' /\ LogInv'
  BY DEF TypeInv, Parse, SessionInv, FramesInv, LogInv, work
<1>2. PICK p \in PreparedType : prepared' = [prepared EXCEPT ![r] = p]
  BY ParseIs
<1>3. Goto(r, "parsing", "apply") /\ UNCHANGED <<steps, silent>> /\ RequestsInv
  BY DEF Parse, TypeInv
<1>4. RequestsInv'
  BY <1>2, <1>3, SelectorsMove
<1> QED
  BY <1>1, <1>4 DEF TypeInv

LEMMA ParseFailsTypes ==
  ASSUME TypeInv, NEW r \in Selectors, ParseFails(r)
  PROVE  TypeInv'
<1>1. SessionInv' /\ FramesInv' /\ LogInv'
  BY DEF TypeInv, ParseFails, SessionInv, FramesInv, LogInv, work
<1>2. prepared[r] \in PreparedType
  BY DEF TypeInv, RequestsInv, ParseFails, Goto
<1>3. PICK p : p = [prepared[r] EXCEPT !.object = 0]
  OBVIOUS
<1>4. p \in PreparedType
  BY <1>2, <1>3, BoundsAssumption DEF PreparedType, Objects
<1>5. /\ Goto(r, "parsing", "apply") /\ prepared' = [prepared EXCEPT ![r] = p]
      /\ UNCHANGED <<steps, silent>> /\ RequestsInv
  BY <1>3 DEF ParseFails, TypeInv
<1>6. RequestsInv'
  BY <1>4, <1>5, SelectorsMove
<1> QED
  BY <1>1, <1>6 DEF TypeInv

LEMMA UnchangedIs ==
  ASSUME NEW p
  PROVE  Unchanged(p) \in BOOLEAN
BY DEF Unchanged

\* A selection that was parsed is applied, or refused.
LEMMA SelectIs ==
  ASSUME TypeInv, NEW r \in Selectors, Select(r)
  PROVE  LET p == prepared[r]
             n == session.nets[At(session, p.arg)]
         IN  /\ p \in PreparedType
             /\ ~Unchanged(p) => session' = session
             /\ Unchanged(p) =>
                  /\ At(session, p.arg) \in 1..Len(session.nets) /\ n \in NetworkType
                  /\ n.object = p.object /\ n.version = p.version
                  /\ session' \in SessionType
                  /\ session'.selection = Payload(n, p.edits)
                  /\ session'.nets = session.nets /\ session'.active = session.active
                  /\ session'.style = session.style
<1>1. PICK p : p = prepared[r]
  OBVIOUS
<1>2. p \in PreparedType /\ session \in SessionType
  BY <1>1 DEF TypeInv, RequestsInv, Select, Goto, SessionInv
<1>3. CASE ~Unchanged(p)
  BY <1>1, <1>2, <1>3 DEF Select
<1>4. CASE Unchanged(p)
  <2>1. PICK n : n = session.nets[At(session, p.arg)]
    OBVIOUS
  <2>2. p.arg \in Ids /\ p.edits \in Nat
    BY <1>2 DEF PreparedType
  <2>3. Known(session, p.arg) /\ n.object = p.object /\ n.version = p.version
    BY <1>4, <2>1 DEF Unchanged
  <2>4. At(session, p.arg) \in 1..Len(session.nets) /\ n \in NetworkType
    BY <1>2, <2>1, <2>2, <2>3, AtIs
  <2>5. PICK selection : selection = Payload(n, p.edits)
    OBVIOUS
  <2>6. selection \in SelectionType
    BY <2>2, <2>4, <2>5, PayloadIs
  <2>7. session' = [session EXCEPT !.selection = selection]
    BY <1>1, <1>4, <2>1, <2>5 DEF Select
  <2>8. /\ session' \in SessionType /\ session'.selection = selection
        /\ session'.nets = session.nets /\ session'.active = session.active
        /\ session'.style = session.style
    BY <1>2, <2>6, <2>7 DEF SessionType
  <2> QED
    BY <1>1, <1>2, <1>4, <2>1, <2>3, <2>4, <2>5, <2>8
<1> QED
  BY <1>3, <1>4

LEMMA SelectTypes ==
  ASSUME TypeInv, NEW r \in Selectors, Select(r)
  PROVE  TypeInv'
<1>1. SessionInv'
  <2>1. session' \in SessionType /\ session'.nets = session.nets
    BY SelectIs DEF TypeInv, SessionInv
  <2> QED
    BY <2>1 DEF TypeInv, SessionInv, Select
<1>2. FramesInv'
  BY DEF TypeInv, Select, FramesInv, work
<1>3. LogInv'
  <2>1. PICK op : op = Op("select", prepared[r].arg)
    OBVIOUS
  <2>2. op \in OpType
    <3>1. prepared[r].arg \in Ids
      BY SelectIs DEF PreparedType
    <3> QED
      BY <2>1, <3>1 DEF Op, OpType
  <2>3. Entry(Unchanged(prepared[r]), <<op>>, Nothing) \in Entries(Jobs \cup {Nothing})
    BY <2>2, OpEntry, UnchangedIs
  <2>4. Record(Entry(Unchanged(prepared[r]), <<op>>, Nothing)) /\ UNCHANGED <<committed, seqOf>> /\ LogInv
    BY <2>1 DEF Select, TypeInv
  <2> QED
    BY <2>3, <2>4, RecordKeepsTypes
<1>4. RequestsInv'
  <2>1. /\ pc' \in [Jobs \cup Selectors -> {"idle", "loaded", "finish", "parsing", "apply", "ended"}]
        /\ pc[r] = "apply" /\ \A q \in Jobs \cup Selectors : q # r => pc'[q] = pc[q]
    BY GotoIs DEF TypeInv, Select
  <2> QED
    BY <2>1 DEF TypeInv, Select, RequestsInv
<1> QED
  BY <1>1, <1>2, <1>3, <1>4 DEF TypeInv

LEMMA InitTypes == Init => TypeInv
<1> SUFFICES ASSUME Init PROVE TypeInv
  OBVIOUS
<1>1. SessionInv
  <2>1. PICK h : h = Handle(1, 1, Nothing, 0, None, 0)
    OBVIOUS
  <2>2. h \in NetworkType
    BY <2>1, BoundsAssumption DEF Handle, NetworkType, None, Closed, Objects
  <2>3. PICK nets : nets = <<h>>
    OBVIOUS
  <2>4. nets \in Seq(NetworkType) /\ Len(nets) = 1
    BY <2>2, <2>3
  <2>5. session = [nets |-> nets, active |-> 1, selection |-> Nothing, style |-> FALSE]
    BY <2>1, <2>3 DEF Init, Launched
  <2>6. 1 \in Ids /\ Nothing \in SelectionType /\ serial = 1
    BY BoundsAssumption DEF Ids, SelectionType, Init
  <2>7. session \in SessionType
    BY <2>4, <2>5, <2>6 DEF SessionType
  <2>8. session.nets = nets
    BY <2>5
  <2>9. serial \in 1..MaxNets
    BY <2>6, BoundsAssumption
  <2>10. Len(session.nets) <= serial
    <3>1. Len(session.nets) = 1
      BY <2>4, <2>8
    <3> QED
      BY <2>6, <3>1
  <2> QED
    BY <2>7, <2>9, <2>10 DEF SessionInv
<1>2. FramesInv
  <2>1. running \in Seq(FrameType) /\ undo \in Seq(UndoType) /\ Len(running) = 0 /\ running = <<>> /\ undo = <<>>
    BY EmptySeq DEF Init
  <2> QED
    BY <2>1 DEF FramesInv
<1>3. LogInv
  <2>1. history \in Seq(Entries(Jobs \cup {Nothing})) /\ Len(history) = 0
    BY EmptySeq DEF Init
  <2> QED
    BY <2>1 DEF LogInv, Init
<1>4. RequestsInv
  <2>1. /\ pc = [p \in Jobs \cup Selectors |-> "idle"]
        /\ prepared = [r \in Selectors |-> Nothing] /\ steps = 0 /\ silent = FALSE
    BY DEF Init
  <2>2. /\ pc \in [Jobs \cup Selectors -> {"idle", "loaded", "finish", "parsing", "apply", "ended"}]
        /\ \A r \in Selectors : pc[r] = "idle"
    BY <2>1
  <2>3. prepared \in [Selectors -> PreparedType \cup {Nothing}]
    BY <2>1
  <2>4. steps \in 0..MaxSteps
    <3>1. 0 \in 0..MaxSteps
      BY BoundsAssumption
    <3> QED
      BY <2>1, <3>1
  <2>5. silent \in BOOLEAN
    BY <2>1
  <2> QED
    BY <2>2, <2>3, <2>4, <2>5 DEF RequestsInv
<1> QED
  BY <1>1, <1>2, <1>3, <1>4 DEF TypeInv

LEMMA NextTypes == TypeInv /\ [Next]_vars => TypeInv'
<1> SUFFICES ASSUME TypeInv, [Next]_vars PROVE TypeInv'
  OBVIOUS
<1>1. CASE UNCHANGED vars
  BY <1>1 DEF vars, work, jobs, TypeInv, SessionInv, FramesInv, LogInv, RequestsInv
<1>2. ASSUME NEW op \in CoreOps, CoreAction(op) \/ NestedAction(op) PROVE TypeInv'
  BY <1>2, CoreActionTypes, NestedActionTypes
<1>3. CASE Begin \/ EndOk \/ EndFails \/ EndAborts \/ AddNetwork
  BY <1>3, BeginTypes, EndOkTypes, EndFailsTypes, EndAbortsTypes, AddNetworkTypes
<1>4. ASSUME NEW id \in 0..MaxNets,
             MutateInside(id) \/ MutateOutside(id) \/ DeriveInside(id) \/ DeriveOutside(id)
      PROVE  TypeInv'
  BY <1>4, MutateInsideTypes, MutateOutsideTypes, DeriveInsideTypes, DeriveOutsideTypes DEF Ids
<1>5. ASSUME NEW j \in Jobs, Load(j, "loaded") \/ Load(j, "finish") \/ Commit(j) \/ Finish(j)
      PROVE  TypeInv'
  BY <1>5, LoadTypes, CommitTypes, FinishTypes
<1>6. ASSUME NEW r \in Selectors,
             (\E id \in 0..MaxNets : Prepare(r, id)) \/ Parse(r) \/ ParseFails(r) \/ Select(r)
      PROVE  TypeInv'
  BY <1>6, PrepareTypes, ParseTypes, ParseFailsTypes, SelectTypes DEF Ids
<1> QED
  BY <1>1, <1>2, <1>3, <1>4, <1>5, <1>6 DEF Next

\* All the session's state keeps its type, for any jobs, requests, plugin
\* handlers and bounds; among it what the id of a new network rests on, that
\* there is always one that is free.
THEOREM TypeCorrect == Spec => []TypeOK
<1>1. TypeInv => TypeOK
  <2> SUFFICES ASSUME TypeInv PROVE TypeOK
    OBVIOUS
  <2>1. DOMAIN running = 1..Len(running)
    BY DEF TypeInv, FramesInv
  <2> QED
    BY <2>1 DEF TypeInv, TypeOK, SessionInv, FramesInv, LogInv, RequestsInv, Idle
<1> QED
  BY <1>1, InitTypes, NextTypes, PTL DEF Spec

-----------------------------------------------------------------------------
(* One entry a job.                                                        *)

OfJob(j) == {k \in DOMAIN history : history[k].by = j}

\* What is recorded of a job, where it stands: nothing before it is committed,
\* then the entry that _finish is to find.
JobInv(j) ==
  /\ pc[j] \in {"idle", "loaded"} => committed[j] = 0 /\ OfJob(j) = {}
  /\ pc[j] = "finish" => OfJob(j) = IF committed[j] = 0 THEN {} ELSE {committed[j]}
  /\ pc[j] = "ended" => OfJob(j) = {seqOf[j]}

JobsInv == \A j \in Jobs : JobInv(j)

\* A step that records nothing of j.
NothingOf(j) ==
  /\ history' \in Seq(Entries(Jobs \cup {Nothing})) /\ Len(history') >= Len(history)
  /\ \A k \in 1..Len(history) : history'[k] = history[k]
  /\ \A k \in (Len(history) + 1)..Len(history') : history'[k].by # j

LEMMA NothingOfIs ==
  ASSUME LogInv, NEW j, NothingOf(j)
  PROVE  OfJob(j)' = OfJob(j)
<1>1. /\ DOMAIN history = 1..Len(history) /\ DOMAIN history' = 1..Len(history')
      /\ Len(history) \in Nat /\ Len(history') \in Nat
  BY DEF LogInv, NothingOf
<1>2. \A k \in 1..Len(history') : k \in 1..Len(history) \/ k \in (Len(history) + 1)..Len(history')
  BY <1>1
<1>3. 1..Len(history) \subseteq 1..Len(history')
  BY <1>1 DEF NothingOf
<1>4. OfJob(j)' = {k \in 1..Len(history') : history'[k].by = j}
  BY <1>1 DEF OfJob
<1>5. OfJob(j) = {k \in 1..Len(history) : history[k].by = j}
  BY <1>1 DEF OfJob
<1> QED
  BY <1>2, <1>3, <1>4, <1>5 DEF NothingOf

LEMMA JobStays ==
  ASSUME NEW j, JobInv(j), OfJob(j)' = OfJob(j),
         pc'[j] = pc[j], committed'[j] = committed[j], seqOf'[j] = seqOf[j]
  PROVE  JobInv(j)'
BY DEF JobInv

\* Jobs that stay where they are keep what is recorded of them.
LEMMA JobsStay ==
  ASSUME LogInv, JobsInv, NEW some \in SUBSET Jobs,
         \A j \in some : /\ NothingOf(j) \/ history' = history
                         /\ pc'[j] = pc[j] /\ committed'[j] = committed[j] /\ seqOf'[j] = seqOf[j]
  PROVE  \A j \in some : JobInv(j)'
<1> SUFFICES ASSUME NEW j \in some PROVE JobInv(j)'
  OBVIOUS
<1>1. OfJob(j)' = OfJob(j)
  <2>1. CASE NothingOf(j)
    BY <2>1, NothingOfIs
  <2>2. CASE history' = history
    BY <2>2 DEF OfJob
  <2> QED
    BY <2>1, <2>2
<1> QED
  BY <1>1, JobStays DEF JobsInv

LEMMA RecordedIs ==
  ASSUME LogInv, NEW entry \in Entries(Jobs \cup {Nothing}), Record(entry)
  PROVE  /\ \A j : entry.by # j => NothingOf(j)
         /\ \A j : entry.by = j => OfJob(j)' = OfJob(j) \cup {Len(history) + 1}
<1>1. /\ history' \in Seq(Entries(Jobs \cup {Nothing})) /\ history \in Seq(Entries(Jobs \cup {Nothing}))
      /\ Len(history) \in Nat /\ Len(history') = Len(history) + 1
      /\ \A k \in 1..Len(history) : history'[k] = history[k]
      /\ history'[Len(history) + 1] = entry
  BY RecordIs DEF LogInv
<1>2. /\ DOMAIN history = 1..Len(history) /\ DOMAIN history' = 1..Len(history')
      /\ 1..Len(history') = 1..Len(history) \cup {Len(history) + 1}
      /\ (Len(history) + 1)..Len(history') = {Len(history) + 1} /\ Len(history') >= Len(history)
  BY <1>1
<1>3. ASSUME NEW j, entry.by # j PROVE NothingOf(j)
  BY <1>1, <1>2, <1>3 DEF NothingOf
<1>4. ASSUME NEW j, entry.by = j PROVE OfJob(j)' = OfJob(j) \cup {Len(history) + 1}
  <2>1. OfJob(j)' = {k \in 1..Len(history') : history'[k].by = j}
    BY <1>2 DEF OfJob
  <2>2. OfJob(j) = {k \in 1..Len(history) : history[k].by = j}
    BY <1>2 DEF OfJob
  <2> QED
    BY <1>1, <1>2, <1>4, <2>1, <2>2
<1> QED
  BY <1>3, <1>4

\* The entries a handler's Actions leave are no job's.
LEMMA ExtendsIs ==
  ASSUME LogInv, NEW nested \in Seq(Entries({Nothing})), NEW entry \in Entries({Nothing}),
         history' \in Seq(Entries(Jobs \cup {Nothing})), Extends(history', history, nested, entry),
         NEW j \in Jobs
  PROVE  NothingOf(j)
<1>1. Len(history) \in Nat /\ Len(nested) \in Nat /\ entry.by = Nothing
  BY DEF LogInv, Entries
<1>2. \A i \in 1..Len(nested) : nested[i].by = Nothing
  <2>1. \A i \in 1..Len(nested) : nested[i] \in Entries({Nothing})
    BY ElementOfSeq
  <2> QED
    BY <2>1 DEF Entries
<1>3. j # Nothing
  BY NothingAssumption
<1>4. Len(history') = Len(history) + Len(nested) + 1
  BY DEF Extends
<1>5. ASSUME NEW k \in (Len(history) + 1)..Len(history') PROVE history'[k].by # j
  <2>1. CASE k = Len(history) + Len(nested) + 1
    BY <1>1, <1>3, <2>1 DEF Extends
  <2>2. CASE k # Len(history) + Len(nested) + 1
    <3>1. k - Len(history) \in 1..Len(nested) /\ k = Len(history) + (k - Len(history))
      BY <1>1, <1>4, <2>2
    <3>2. history'[k].by = nested[k - Len(history)].by
      BY <3>1 DEF Extends
    <3> QED
      BY <1>2, <1>3, <3>1, <3>2
  <2> QED
    BY <2>1, <2>2
<1> QED
  BY <1>1, <1>4, <1>5 DEF NothingOf, Extends

LEMMA PlainRecords ==
  ASSUME LogInv, JobsInv, NEW entry \in Entries({Nothing}), entry \in Entries(Jobs \cup {Nothing}),
         Record(entry), \A j \in Jobs : pc'[j] = pc[j], UNCHANGED <<committed, seqOf>>
  PROVE  JobsInv'
<1>1. entry.by = Nothing
  BY DEF Entries
<1>2. \A j \in Jobs : NothingOf(j)
  BY <1>1, RecordedIs, NothingAssumption
<1> QED
  BY <1>2, JobsStay DEF JobsInv

LEMMA EndJobs ==
  ASSUME TypeInv, JobsInv, EndOk \/ EndFails
  PROVE  JobsInv'
<1>1. UNCHANGED jobs
  BY DEF EndOk, EndFails
<1>2. \A j \in Jobs : NothingOf(j) \/ history' = history
  <2> SUFFICES ASSUME NEW j \in Jobs PROVE NothingOf(j) \/ history' = history
    OBVIOUS
  <2>1. ~Idle
    BY DEF EndOk, EndFails
  <2>2. Top.nested \in Seq(Entries({Nothing}))
    BY <2>1, TopIs, FrameIs DEF TypeInv
  <2>3. CASE EndOk
    BY <2>2, <2>3, EndOkIs, ExtendsIs DEF TypeInv
  <2>4. CASE EndFails
    BY <2>4, EndFailsIs, ExtendsIs DEF TypeInv
  <2> QED
    BY <2>3, <2>4
<1> QED
  BY <1>1, <1>2, JobsStay DEF JobsInv, TypeInv, jobs

LEMMA LoadJobs ==
  ASSUME TypeInv, JobsInv, NEW j \in Jobs, NEW outcome \in {"loaded", "finish"}, Load(j, outcome)
  PROVE  JobsInv'
<1>1. /\ pc[j] = "idle" /\ pc'[j] = outcome /\ \A i \in Jobs : i # j => pc'[i] = pc[i]
  BY GotoIs DEF Load, TypeInv
<1>2. UNCHANGED <<history, committed, seqOf>>
  BY DEF Load
<1>3. \A i \in Jobs \ {j} : JobInv(i)'
  BY <1>1, <1>2, JobsStay DEF TypeInv
<1>4. JobInv(j)'
  <2>1. OfJob(j)' = OfJob(j)
    BY <1>2 DEF OfJob
  <2>2. committed[j] = 0 /\ OfJob(j) = {}
    BY <1>1 DEF JobsInv, JobInv
  <2> QED
    BY <1>1, <1>2, <2>1, <2>2 DEF JobInv
<1> QED
  BY <1>3, <1>4 DEF JobsInv

LEMMA CommitJobs ==
  ASSUME TypeInv, JobsInv, NEW j \in Jobs, Commit(j)
  PROVE  JobsInv'
<1> DEFINE entry == Entry(TRUE, <<Op("open", j)>>, j)
<1>1. /\ pc[j] = "loaded" /\ pc'[j] = "finish" /\ \A i \in Jobs : i # j => pc'[i] = pc[i]
  BY GotoIs DEF Commit, TypeInv
<1>2. /\ LogInv /\ entry \in Entries(Jobs \cup {Nothing}) /\ entry.by = j /\ Record(entry)
      /\ committed' = [committed EXCEPT ![j] = Len(history) + 1] /\ seqOf' = seqOf
  BY OpenEntry DEF Commit, Entry, TypeInv
<1>3. committed'[j] = Len(history) + 1 /\ \A i \in Jobs : i # j => committed'[i] = committed[i]
  BY <1>2 DEF LogInv
<1>4. \A i \in Jobs \ {j} : JobInv(i)'
  <2>1. \A i \in Jobs \ {j} : NothingOf(i)
    BY <1>2, RecordedIs
  <2> QED
    BY <1>1, <1>2, <1>3, <2>1, JobsStay
<1>5. JobInv(j)'
  <2>1. OfJob(j) = {}
    BY <1>1 DEF JobsInv, JobInv
  <2>2. OfJob(j)' = {Len(history) + 1}
    BY <1>2, <2>1, RecordedIs
  <2>3. Len(history) + 1 # 0
    BY <1>2 DEF LogInv
  <2> QED
    BY <1>1, <1>3, <2>2, <2>3 DEF JobInv
<1> QED
  BY <1>4, <1>5 DEF JobsInv

LEMMA FinishJobs ==
  ASSUME TypeInv, JobsInv, NEW j \in Jobs, Finish(j)
  PROVE  JobsInv'
<1> DEFINE entry == Entry(FALSE, <<>>, j)
           seq == IF committed[j] # 0 THEN committed[j] ELSE Len(history) + 1
<1>1. /\ pc[j] = "finish" /\ pc'[j] = "ended" /\ \A i \in Jobs : i # j => pc'[i] = pc[i]
  BY GotoIs DEF Finish, TypeInv
<1>2. /\ LogInv /\ entry \in Entries(Jobs \cup {Nothing}) /\ entry.by = j
      /\ committed' = [committed EXCEPT ![j] = 0] /\ seqOf' = [seqOf EXCEPT ![j] = seq]
  BY OpenEntry DEF Finish, Entry, TypeInv
<1>3. /\ seqOf'[j] = seq
      /\ \A i \in Jobs : i # j => committed'[i] = committed[i] /\ seqOf'[i] = seqOf[i]
  BY <1>2 DEF LogInv
<1>4. \A i \in Jobs \ {j} : JobInv(i)'
  <2>1. \A i \in Jobs \ {j} : NothingOf(i) \/ history' = history
    BY <1>2, RecordedIs DEF Finish
  <2> QED
    BY <1>1, <1>2, <1>3, <2>1, JobsStay
<1>5. OfJob(j)' = {seq}
  <2>1. OfJob(j) = IF committed[j] = 0 THEN {} ELSE {committed[j]}
    BY <1>1 DEF JobsInv, JobInv
  <2>2. CASE committed[j] # 0
    <3>1. history' = history
      BY <2>2 DEF Finish
    <3>2. OfJob(j)' = OfJob(j)
      BY <3>1 DEF OfJob
    <3> QED
      BY <2>1, <2>2, <3>2
  <2>3. CASE committed[j] = 0
    <3>1. Record(entry)
      BY <2>3 DEF Finish
    <3> QED
      BY <1>2, <2>1, <2>3, <3>1, RecordedIs
  <2> QED
    BY <2>2, <2>3
<1>6. JobInv(j)'
  BY <1>1, <1>3, <1>5 DEF JobInv
<1> QED
  BY <1>4, <1>6 DEF JobsInv

LEMMA SelectorsAreNoJobs ==
  ASSUME TypeInv, NEW r \in Selectors, NEW from,
         NEW to \in {"idle", "loaded", "finish", "parsing", "apply", "ended"}, Goto(r, from, to)
  PROVE  \A j \in Jobs : pc'[j] = pc[j]
BY GotoIs, RequestsAssumption DEF TypeInv

LEMMA QuietSteps ==
  ASSUME TypeInv, JobsInv, \A j \in Jobs : pc'[j] = pc[j], UNCHANGED <<history, committed, seqOf>>
  PROVE  JobsInv'
BY JobsStay DEF JobsInv, TypeInv

LEMMA RecordingSteps ==
  ASSUME TypeInv, JobsInv, NEW op \in OpType, NEW ok \in BOOLEAN, Record(Entry(ok, <<op>>, Nothing)),
         \A j \in Jobs : pc'[j] = pc[j], UNCHANGED <<committed, seqOf>>
  PROVE  JobsInv'
BY OpEntry, PlainRecords DEF TypeInv

LEMMA InitJobs == Init => JobsInv
<1> SUFFICES ASSUME Init, NEW j \in Jobs PROVE JobInv(j)
  BY DEF JobsInv
<1>1. pc[j] = "idle" /\ committed[j] = 0 /\ OfJob(j) = {}
  BY DEF Init, OfJob
<1> QED
  BY <1>1 DEF JobInv

LEMMA NextJobs == TypeInv /\ JobsInv /\ [Next]_vars => JobsInv'
<1> SUFFICES ASSUME TypeInv, JobsInv, [Next]_vars PROVE JobsInv'
  OBVIOUS
<1>1. CASE UNCHANGED vars
  BY <1>1, QuietSteps DEF vars, jobs
<1>2. ASSUME NEW op \in CoreOps, CoreAction(op) PROVE JobsInv'
  <2>1. op \in OpType /\ Accepts(session, op) \in BOOLEAN
    BY CoreOpIs, AcceptsIs
  <2>2. Record(Entry(Accepts(session, op), <<op>>, Nothing)) /\ UNCHANGED <<pc, committed, seqOf>>
    BY <1>2 DEF CoreAction, jobs
  <2> QED
    BY <2>1, <2>2, RecordingSteps
<1>3. ASSUME NEW op \in CoreOps, NestedAction(op) PROVE JobsInv'
  BY <1>3, QuietSteps DEF NestedAction, jobs
<1>4. CASE Begin \/ AddNetwork \/ EndAborts
  BY <1>4, QuietSteps DEF Begin, AddNetwork, EndAborts, jobs
<1>5. CASE EndOk \/ EndFails
  BY <1>5, EndJobs
<1>6. ASSUME NEW id \in 0..MaxNets, MutateInside(id) \/ DeriveInside(id) \/ DeriveOutside(id)
      PROVE  JobsInv'
  BY <1>6, QuietSteps DEF MutateInside, DeriveInside, DeriveOutside, jobs
<1>7. ASSUME NEW id \in 0..MaxNets, MutateOutside(id) PROVE JobsInv'
  <2>1. PICK none : none = <<>>
    OBVIOUS
  <2>2. none \in Seq(OpType)
    BY <2>1, EmptySeq
  <2>3. Record(Entry(TRUE, none, Nothing)) /\ UNCHANGED <<pc, committed, seqOf>>
    BY <1>7, <2>1 DEF MutateOutside, jobs
  <2> QED
    BY <2>2, <2>3, EntryIs, PlainRecords DEF TypeInv
<1>8. ASSUME NEW j \in Jobs, Load(j, "loaded") \/ Load(j, "finish") \/ Commit(j) \/ Finish(j)
      PROVE  JobsInv'
  BY <1>8, LoadJobs, CommitJobs, FinishJobs
<1>9. ASSUME NEW r \in Selectors, (\E id \in 0..MaxNets : Prepare(r, id)) \/ Parse(r) \/ ParseFails(r)
      PROVE  JobsInv'
  <2>1. \E from : \E to \in {"parsing", "apply"} : Goto(r, from, to)
    BY <1>9 DEF Prepare, Parse, ParseFails
  <2>2. \A j \in Jobs : pc'[j] = pc[j]
    BY <2>1, SelectorsAreNoJobs
  <2>3. UNCHANGED <<history, committed, seqOf>>
    BY <1>9 DEF Prepare, Parse, ParseFails
  <2> QED
    BY <2>2, <2>3, QuietSteps
<1>10. ASSUME NEW r \in Selectors, Select(r) PROVE JobsInv'
  <2>1. PICK op : op = Op("select", prepared[r].arg)
    OBVIOUS
  <2>2. op \in OpType /\ Unchanged(prepared[r]) \in BOOLEAN
    BY <1>10, <2>1, SelectIs, UnchangedIs DEF PreparedType, Op, OpType
  <2>3. \A j \in Jobs : pc'[j] = pc[j]
    BY <1>10, SelectorsAreNoJobs DEF Select
  <2>4. Record(Entry(Unchanged(prepared[r]), <<op>>, Nothing)) /\ UNCHANGED <<committed, seqOf>>
    BY <1>10, <2>1 DEF Select
  <2> QED
    BY <2>2, <2>3, <2>4, RecordingSteps
<1> QED
  BY <1>1, <1>2, <1>3, <1>4, <1>5, <1>6, <1>7, <1>8, <1>9, <1>10 DEF Next

\* Whatever else runs, a job that ended has one entry in the history, and its
\* history_seq is that entry: _commit and _finish never both record it.
THEOREM JobsRecordedOnce == Spec => []JobsAreRecordedOnce
<1>1. JobsInv => JobsAreRecordedOnce
  BY DEF JobsInv, JobInv, JobsAreRecordedOnce, OfJob
<1> QED
  BY <1>1, InitTypes, NextTypes, InitJobs, NextJobs, PTL DEF Spec

-----------------------------------------------------------------------------
(* Nested entries and their parents.                                       *)

\* A list of entries in which those that have a parent by now come before it,
\* and none is called applied whose parent is not.
Nests(list) ==
  \A k \in 1..Len(list) : list[k].parent # 0 =>
    /\ list[k].parent \in (k + 1)..Len(list)
    /\ list[k].ok => list[list[k].parent].ok

NestInv == Nests(history) /\ \A k \in 1..Len(running) : Nests(running[k].nested)

LEMMA NestsExtended ==
  ASSUME NEW S, NEW list \in Seq(Entries(S)), NEW nested \in Seq(Entries({Nothing})), NEW entry, NEW all,
         Extends(all, list, nested, entry), Nests(list), Nests(nested),
         entry.parent = 0, entry.ok \/ \A k \in 1..Len(nested) : ~nested[k].ok
  PROVE  Nests(all)
<1> DEFINE here == Len(list) + Len(nested) + 1
<1>1. /\ Len(list) \in Nat /\ Len(nested) \in Nat /\ here \in Nat
      /\ Len(all) = here /\ all[here] = entry
      /\ \A k \in 1..Len(list) : all[k] = list[k]
  BY DEF Extends
<1>2. ASSUME NEW k \in 1..Len(all), all[k].parent # 0
      PROVE  /\ all[k].parent \in (k + 1)..Len(all)
             /\ all[k].ok => all[all[k].parent].ok
  <2>1. CASE k \in 1..Len(list)
    <3>1. all[k] = list[k] /\ list[k].parent \in (k + 1)..Len(list)
          /\ (list[k].ok => list[list[k].parent].ok)
      BY <1>1, <1>2, <2>1 DEF Nests
    <3>2. list[k].parent \in 1..Len(list) /\ Len(list) <= Len(all)
      BY <1>1, <2>1, <3>1
    <3>3. all[list[k].parent] = list[list[k].parent]
      BY <1>1, <3>2
    <3> QED
      BY <1>1, <2>1, <3>1, <3>2, <3>3
  <2>2. CASE k \notin 1..Len(list) /\ k # here
    <3>1. PICK i \in 1..Len(nested) : k = Len(list) + i
      <4>1. k \in 1..(Len(list) + Len(nested) + 1)
        BY <1>1
      <4>2. k - Len(list) \in 1..Len(nested)
        BY <1>1, <2>2, <4>1
      <4>3. k = Len(list) + (k - Len(list))
        BY <1>1, <4>1
      <4> QED
        BY <4>2, <4>3
    <3>2. /\ all[k].ok = nested[i].ok
          /\ all[k].parent = IF nested[i].parent = 0 THEN here ELSE nested[i].parent + Len(list)
      BY <3>1 DEF Extends
    <3>3. CASE nested[i].parent = 0
      <4>1. all[k].parent = here /\ all[here].ok = entry.ok
        BY <1>1, <3>2, <3>3
      <4>2. here \in (k + 1)..Len(all)
        BY <1>1, <3>1
      <4>3. nested[i].ok => entry.ok
        OBVIOUS
      <4> QED
        BY <3>2, <4>1, <4>2, <4>3
    <3>4. CASE nested[i].parent # 0
      <4>1. PICK p : p = nested[i].parent
        OBVIOUS
      <4>2. p \in (i + 1)..Len(nested) /\ (nested[i].ok => nested[p].ok)
        BY <3>4, <4>1 DEF Nests
      <4>3. p \in 1..Len(nested)
        BY <1>1, <4>2
      <4>4. all[Len(list) + p].ok = nested[p].ok
        BY <4>3 DEF Extends
      <4>5. all[k].parent = Len(list) + p /\ Len(list) + p \in (k + 1)..Len(all)
        BY <1>1, <3>1, <3>2, <3>4, <4>1, <4>2
      <4> QED
        BY <3>2, <4>2, <4>4, <4>5
    <3> QED
      BY <3>3, <3>4
  <2>3. CASE k = here
    BY <1>1, <1>2, <2>3
  <2> QED
    BY <2>1, <2>2, <2>3
<1> QED
  BY <1>2 DEF Nests

\* A list that is longer by an entry that has no parent yet.
LEMMA NestsLonger ==
  ASSUME NEW S, NEW list \in Seq(Entries(S)), NEW all, Nests(list), Len(all) = Len(list) + 1,
         \A k \in 1..Len(list) : all[k] = list[k], all[Len(list) + 1].parent = 0
  PROVE  Nests(all)
<1>1. Len(list) \in Nat
  OBVIOUS
<1>2. ASSUME NEW k \in 1..Len(all), all[k].parent # 0
      PROVE  /\ all[k].parent \in (k + 1)..Len(all)
             /\ all[k].ok => all[all[k].parent].ok
  <2>1. k \in 1..Len(list) /\ all[k] = list[k]
    BY <1>1, <1>2
  <2>2. list[k].parent \in (k + 1)..Len(list) /\ (list[k].ok => list[list[k].parent].ok)
    BY <1>2, <2>1 DEF Nests
  <2>3. list[k].parent \in 1..Len(list)
    BY <1>1, <2>1, <2>2
  <2>4. all[list[k].parent] = list[list[k].parent]
    BY <2>3
  <2> QED
    BY <1>1, <2>1, <2>2, <2>3, <2>4
<1> QED
  BY <1>2 DEF Nests

LEMMA NestsRolledBack ==
  ASSUME NEW nested \in Seq(Entries({Nothing})), Nests(nested)
  PROVE  Nests(RolledBack(nested)) /\ \A k \in 1..Len(RolledBack(nested)) : ~RolledBack(nested)[k].ok
BY RolledBackIs DEF Nests

LEMMA NestsRecorded ==
  ASSUME LogInv, NEW entry \in Entries(Jobs \cup {Nothing}), entry.parent = 0, Record(entry),
         Nests(history)
  PROVE  Nests(history')
BY RecordIs, NestsLonger DEF LogInv

LEMMA NestsTopDoes ==
  ASSUME FramesInv, NestInv, ~Idle, NEW did \in Seq(OpType), NEW entries \in Seq(Entries({Nothing})),
         TopDoes(did, entries),
         entries = <<>> \/ \E e \in Entries({Nothing}) : entries = <<e>> /\ e.parent = 0
  PROVE  \A k \in 1..Len(running') : Nests(running'[k].nested)
<1>1. /\ Len(running') = Len(running) /\ Len(running) \in 1..Len(running)
      /\ \A k \in 1..Len(running) : k # Len(running) => running'[k] = running[k]
      /\ running'[Len(running)].nested = Top.nested \o entries
      /\ Top = running[Len(running)] /\ Top.nested \in Seq(Entries({Nothing}))
  BY TopIs, TopDoesIs, FrameIs
<1>2. Nests(Top.nested)
  BY <1>1 DEF NestInv
<1>3. Nests(Top.nested \o entries)
  <2>1. CASE entries = <<>>
    BY <1>1, <1>2, <2>1
  <2>2. CASE \E e \in Entries({Nothing}) : entries = <<e>> /\ e.parent = 0
    <3>1. PICK e \in Entries({Nothing}) : entries = <<e>> /\ e.parent = 0
      BY <2>2
    <3>2. PICK all : all = Top.nested \o <<e>>
      OBVIOUS
    <3>3. /\ Len(all) = Len(Top.nested) + 1 /\ all[Len(Top.nested) + 1] = e
          /\ \A k \in 1..Len(Top.nested) : all[k] = Top.nested[k]
      BY <1>1, <3>2
    <3>4. Nests(all)
      BY <1>1, <1>2, <3>1, <3>3, NestsLonger
    <3> QED
      BY <3>1, <3>2, <3>4
  <2> QED
    BY <2>1, <2>2
<1> QED
  BY <1>1, <1>3 DEF NestInv

LEMMA EmptyNests == Nests(<<>>)
BY DEF Nests

\* Frames that are popped: only the parent's list can have changed.
LEMMA NestsPopped ==
  ASSUME FramesInv, NestInv, ~Idle, Popped,
         Len(running) # 1 => Nests(running'[Len(running) - 1].nested)
  PROVE  \A k \in 1..Len(running') : Nests(running'[k].nested)
<1>1. Len(running) \in Nat /\ Len(running) >= 1 /\ Len(running') = Len(running) - 1
  BY TopIs DEF Popped
<1> SUFFICES ASSUME NEW k \in 1..Len(running') PROVE Nests(running'[k].nested)
  OBVIOUS
<1>2. k \in 1..Len(running) /\ Len(running) # 1
  BY <1>1
<1> QED
  BY <1>1, <1>2 DEF Popped, NestInv

LEMMA EndOkNests ==
  ASSUME TypeInv, NestInv, EndOk
  PROVE  NestInv'
<1>1. PICK entry : entry = Entry(TRUE, Top.did, Nothing)
  OBVIOUS
<1>2. ~Idle /\ FramesInv /\ LogInv /\ history \in Seq(Entries(Jobs \cup {Nothing}))
  BY DEF EndOk, TypeInv, LogInv
<1>3. entry.ok /\ entry.parent = 0
  BY <1>1 DEF Entry
<1>4. /\ Top \in FrameType /\ Top.nested \in Seq(Entries({Nothing})) /\ Nests(Top.nested)
      /\ Top = running[Len(running)]
  BY <1>2, TopIs, FrameIs DEF NestInv
<1>5. CASE Len(running) = 1
  <2>1. running' = <<>> /\ Extends(history', history, Top.nested, entry)
    BY <1>1, <1>2, <1>5, EndOkIs
  <2>2. Nests(history')
    BY <1>2, <1>3, <1>4, <2>1, NestsExtended DEF NestInv
  <2> QED
    BY <2>1, <2>2 DEF NestInv
<1>6. CASE Len(running) # 1
  <2>1. PICK parent : parent = running[Len(running) - 1]
    OBVIOUS
  <2>2. Len(running) - 1 \in 1..Len(running) /\ parent \in FrameType
    BY <1>2, <1>6, <2>1, ParentIs
  <2>3. parent.nested \in Seq(Entries({Nothing})) /\ Nests(parent.nested)
    BY <2>1, <2>2, FrameIs DEF NestInv
  <2>4. Popped /\ history' = history /\ Extends(running'[Len(running) - 1].nested, parent.nested, Top.nested, entry)
    BY <1>1, <1>2, <1>6, <2>1, EndOkIs
  <2>5. Nests(running'[Len(running) - 1].nested)
    BY <1>3, <1>4, <2>3, <2>4, NestsExtended
  <2> QED
    BY <1>2, <2>4, <2>5, NestsPopped DEF NestInv
<1> QED
  BY <1>5, <1>6

LEMMA EndFailsNests ==
  ASSUME TypeInv, NestInv, EndFails
  PROVE  NestInv'
<1>1. PICK entry : entry = Entry(FALSE, Top.did, Nothing)
  OBVIOUS
<1>2. ~Idle /\ FramesInv /\ LogInv /\ history \in Seq(Entries(Jobs \cup {Nothing}))
  BY DEF EndFails, TypeInv, LogInv
<1>3. entry.parent = 0
  BY <1>1 DEF Entry
<1>4. PICK nested : nested = RolledBack(Top.nested)
  OBVIOUS
<1>5. /\ Top.nested \in Seq(Entries({Nothing})) /\ Nests(Top.nested)
  BY <1>2, TopIs, FrameIs DEF NestInv
<1>6. /\ nested \in Seq(Entries({Nothing})) /\ Nests(nested)
      /\ \A k \in 1..Len(nested) : ~nested[k].ok
  BY <1>4, <1>5, NestsRolledBack, RolledBackIs
<1>7. CASE Len(running) = 1
  <2>1. running' = <<>> /\ Extends(history', history, nested, entry)
    BY <1>1, <1>2, <1>4, <1>7, EndFailsIs
  <2>2. Nests(history')
    BY <1>2, <1>3, <1>6, <2>1, NestsExtended DEF NestInv
  <2> QED
    BY <2>1, <2>2 DEF NestInv
<1>8. CASE Len(running) # 1
  <2>1. PICK parent : parent = running[Len(running) - 1]
    OBVIOUS
  <2>2. Len(running) - 1 \in 1..Len(running) /\ parent \in FrameType
    BY <1>2, <1>8, <2>1, ParentIs
  <2>3. parent.nested \in Seq(Entries({Nothing})) /\ Nests(parent.nested)
    BY <2>1, <2>2, FrameIs DEF NestInv
  <2>4. Popped /\ history' = history /\ Extends(running'[Len(running) - 1].nested, parent.nested, nested, entry)
    BY <1>1, <1>2, <1>4, <1>8, <2>1, EndFailsIs
  <2>5. Nests(running'[Len(running) - 1].nested)
    BY <1>3, <1>6, <2>3, <2>4, NestsExtended
  <2> QED
    BY <1>2, <2>4, <2>5, NestsPopped DEF NestInv
<1> QED
  BY <1>7, <1>8

LEMMA EndAbortsNests ==
  ASSUME TypeInv, NestInv, EndAborts
  PROVE  NestInv'
<1>1. ~Idle /\ FramesInv /\ history' = history
  BY DEF EndAborts, TypeInv
<1>2. Popped /\ \A k \in 1..Len(running') : running'[k] = running[k]
  BY <1>1, EndAbortsIs
<1>3. \A k \in 1..Len(running') : k \in 1..Len(running)
  BY <1>1, <1>2, TopIs DEF Popped
<1> QED
  BY <1>1, <1>2, <1>3 DEF NestInv

LEMMA BeginNests ==
  ASSUME TypeInv, NestInv, Begin
  PROVE  NestInv'
<1>1. PICK frame : /\ running' = Append(running, frame) /\ frame.nested = <<>>
                   /\ history' = history
  BY DEF Begin
<1>2. running \in Seq(FrameType)
  BY DEF TypeInv, FramesInv
<1>3. /\ Len(running') = Len(running) + 1 /\ Len(running) \in Nat
      /\ running'[Len(running) + 1] = frame
      /\ \A k \in 1..Len(running) : running'[k] = running[k]
  BY <1>1, <1>2
<1> QED
  BY <1>1, <1>3, EmptyNests DEF NestInv

LEMMA NestsQuiet ==
  ASSUME NestInv, UNCHANGED <<running, history>>
  PROVE  NestInv'
BY DEF NestInv

LEMMA RecordsNest ==
  ASSUME TypeInv, NestInv, NEW entry \in Entries(Jobs \cup {Nothing}), entry.parent = 0,
         Record(entry), UNCHANGED running
  PROVE  NestInv'
BY NestsRecorded DEF NestInv, TypeInv

LEMMA NextNests == TypeInv /\ NestInv /\ [Next]_vars => NestInv'
<1> SUFFICES ASSUME TypeInv, NestInv, [Next]_vars PROVE NestInv'
  OBVIOUS
<1>1. CASE UNCHANGED vars
  BY <1>1, NestsQuiet DEF vars, work
<1>2. ASSUME NEW op \in CoreOps, CoreAction(op) PROVE NestInv'
  <2>1. PICK entry : entry = Entry(Accepts(session, op), <<op>>, Nothing)
    OBVIOUS
  <2>2. entry \in Entries(Jobs \cup {Nothing}) /\ entry.parent = 0
    BY <2>1, CoreOpIs, AcceptsIs, OpEntry DEF Entry
  <2>3. Record(entry) /\ UNCHANGED running
    BY <1>2, <2>1 DEF CoreAction, work
  <2> QED
    BY <2>2, <2>3, RecordsNest
<1>3. ASSUME NEW op \in CoreOps, NestedAction(op) PROVE NestInv'
  <2>1. PICK entry : entry = Entry(Accepts(session, op), <<op>>, Nothing)
    OBVIOUS
  <2>2. entry \in Entries({Nothing}) /\ entry.parent = 0 /\ entry.did \in Seq(OpType)
    BY <2>1, CoreOpIs, AcceptsIs, OpEntry DEF Entry
  <2>3. ~Idle /\ TopDoes(entry.did, <<entry>>) /\ history' = history /\ FramesInv
    BY <1>3, <2>1 DEF NestedAction, TypeInv
  <2>4. <<entry>> \in Seq(Entries({Nothing}))
    BY <2>2
  <2> QED
    BY <2>2, <2>3, <2>4, NestsTopDoes DEF NestInv
<1>4. CASE Begin \/ EndOk \/ EndFails \/ EndAborts
  BY <1>4, BeginNests, EndOkNests, EndFailsNests, EndAbortsNests
<1>5. ASSUME NEW id \in 0..MaxNets, MutateInside(id) \/ DeriveInside(id) PROVE NestInv'
  <2>1. PICK did : ~Idle /\ did \in Seq(OpType) /\ TopDoes(did, <<>>) /\ history' = history
    <3>1. <<Op("edit", id)>> \in Seq(OpType) /\ <<Op("derive", id)>> \in Seq(OpType)
      BY IdOps DEF Ids
    <3> QED
      BY <1>5, <3>1 DEF MutateInside, DeriveInside
  <2>2. <<>> \in Seq(Entries({Nothing})) /\ FramesInv
    BY DEF TypeInv
  <2> QED
    BY <2>1, <2>2, NestsTopDoes DEF NestInv
<1>6. ASSUME NEW id \in 0..MaxNets, MutateOutside(id) PROVE NestInv'
  <2>1. PICK none : none = <<>>
    OBVIOUS
  <2>2. PICK entry : entry = Entry(TRUE, none, Nothing)
    OBVIOUS
  <2>3. entry \in Entries(Jobs \cup {Nothing})
    BY <2>1, <2>2, EmptySeq, EntryIs
  <2>4. entry.parent = 0
    BY <2>2 DEF Entry
  <2>5. Record(entry) /\ UNCHANGED running
    BY <1>6, <2>1, <2>2 DEF MutateOutside, work
  <2> QED
    BY <2>3, <2>4, <2>5, RecordsNest
<1>7. CASE AddNetwork \/ \E id \in 0..MaxNets : DeriveOutside(id)
  BY <1>7, NestsQuiet DEF AddNetwork, DeriveOutside, work
<1>8. ASSUME NEW j \in Jobs, Load(j, "loaded") \/ Load(j, "finish") \/ Commit(j) \/ Finish(j)
      PROVE  NestInv'
  <2>1. UNCHANGED running
    BY <1>8 DEF Load, Commit, Finish, work
  <2>2. \/ history' = history
        \/ Record(Entry(TRUE, <<Op("open", j)>>, j)) \/ Record(Entry(FALSE, <<>>, j))
    BY <1>8 DEF Load, Commit, Finish
  <2>3. /\ Entry(TRUE, <<Op("open", j)>>, j).parent = 0 /\ Entry(FALSE, <<>>, j).parent = 0
        /\ Entry(TRUE, <<Op("open", j)>>, j) \in Entries(Jobs \cup {Nothing})
        /\ Entry(FALSE, <<>>, j) \in Entries(Jobs \cup {Nothing})
    BY OpenEntry DEF Entry
  <2> QED
    BY <2>1, <2>2, <2>3, RecordsNest, NestsQuiet
<1>9. ASSUME NEW r \in Selectors, (\E id \in 0..MaxNets : Prepare(r, id)) \/ Parse(r) \/ ParseFails(r)
      PROVE  NestInv'
  BY <1>9, NestsQuiet DEF Prepare, Parse, ParseFails, work
<1>10. ASSUME NEW r \in Selectors, Select(r) PROVE NestInv'
  <2>1. PICK op : op = Op("select", prepared[r].arg)
    OBVIOUS
  <2>2. PICK entry : entry = Entry(Unchanged(prepared[r]), <<op>>, Nothing)
    OBVIOUS
  <2>3. op \in OpType /\ Unchanged(prepared[r]) \in BOOLEAN
    BY <1>10, <2>1, SelectIs, UnchangedIs DEF PreparedType, Op, OpType
  <2>4. entry \in Entries(Jobs \cup {Nothing}) /\ entry.parent = 0
    BY <2>2, <2>3, OpEntry DEF Entry
  <2>5. Record(entry) /\ UNCHANGED running
    BY <1>10, <2>1, <2>2 DEF Select, work
  <2> QED
    BY <2>4, <2>5, RecordsNest
<1> QED
  BY <1>1, <1>2, <1>3, <1>4, <1>5, <1>6, <1>7, <1>8, <1>9, <1>10 DEF Next

\* However deep handlers nest Actions and whichever of them fail, the history
\* has a nested entry before its parent, and never as applied when the parent
\* was undone.
THEOREM NestedEntriesFollow == Spec => []NestedEntriesFollowTheirParent
<1>1. Init => NestInv
  BY DEF Init, NestInv, Nests
<1>2. TypeInv /\ NestInv => NestedEntriesFollowTheirParent
  <2>1. ASSUME TypeInv PROVE DOMAIN history = 1..Len(history)
    BY <2>1 DEF TypeInv, LogInv
  <2> QED
    BY <2>1 DEF NestInv, Nests, NestedEntriesFollowTheirParent
<1> QED
  BY <1>1, <1>2, InitTypes, NextTypes, NextNests, PTL DEF Spec

-----------------------------------------------------------------------------
(* What refers to networks refers to open ones.                            *)

\* A session whose references are to the networks they were made for, where n
\* handles were ever made.
Apart(nets) == \A i, j \in 1..Len(nets) :
                 nets[i].id = nets[j].id \/ nets[i].object = nets[j].object => i = j

Numbered(nets, n) == \A k \in 1..Len(nets) : nets[k].object <= n

BasesLive(nets) == \A k \in 1..Len(nets) : nets[k].from \in 1..MaxNets =>
  \E i \in 1..Len(nets) : nets[i].id = nets[k].from /\ nets[i].object = nets[k].fromObject

ActiveLive(s) ==
  /\ s.active = None <=> s.nets = <<>>
  /\ s.active # None => \E k \in 1..Len(s.nets) : s.nets[k].id = s.active

SelectionLive(s) == s.selection # Nothing =>
  \E k \in 1..Len(s.nets) : s.nets[k].id = s.selection.net /\ s.nets[k].object = s.selection.object

Live(s, n) ==
  /\ s \in SessionType
  /\ Apart(s.nets) /\ Numbered(s.nets, n) /\ BasesLive(s.nets)
  /\ ActiveLive(s) /\ SelectionLive(s)

\* The same network, whatever edits it had; or one that lost its base since.
Alike(n, m) == n.id = m.id /\ n.object = m.object /\ n.from = m.from /\ n.fromObject = m.fromObject
Comes(n, m) == /\ n.id = m.id /\ n.object = m.object /\ n.fromObject = m.fromObject
               /\ n.from \in {m.from, Closed}

Descends(t, s) == \A k \in 1..Len(t.nets) : \E i \in 1..Len(s.nets) : Comes(t.nets[k], s.nets[i])

Derives(records, low, high, id) ==
  \E l \in (low + 1)..high : records[l].kind = "derived" /\ records[l].id = id

\* The networks of s, after what the records from low to high tell of: each is
\* one that they derived, or one that was there before.
Grown(records, low, high, before, s) == \A k \in 1..Len(s.nets) :
  IF Derives(records, low, high, s.nets[k].id)
  THEN \A i \in 1..Len(before.nets) : before.nets[i].object # s.nets[k].object
  ELSE \E i \in 1..Len(before.nets) : Comes(s.nets[k], before.nets[i])

Saved(frame) == /\ frame.active = frame.before.active /\ frame.selection = frame.before.selection
                /\ frame.style = frame.before.style

RefsInv ==
  /\ Live(session, serial)
  /\ \A i \in 1..Len(running) :
       /\ Live(running[i].before, serial) /\ Saved(running[i])
       /\ Grown(undo, running[i].mark, Len(undo), running[i].before, session)
  /\ \A i, j \in 1..Len(running) : i < j =>
       Grown(undo, running[i].mark, running[j].mark, running[i].before, running[j].before)

\* One network, or none, is taken out of some.
Keeps(left, nets, id) ==
  /\ Apart(left)
  /\ \A k \in 1..Len(left) : left[k].id # id /\ \E i \in 1..Len(nets) : left[k] = nets[i]
  /\ \A i \in 1..Len(nets) : nets[i].id # id => \E k \in 1..Len(left) : left[k] = nets[i]

LEMMA WithoutKeeps ==
  ASSUME NEW nets \in Seq(NetworkType), Apart(nets), NEW id
  PROVE  Keeps(Without(nets, id), nets, id)
<1>1. Len(nets) \in Nat
  OBVIOUS
<1>2. CASE Without(nets, id) = nets /\ \A k \in 1..Len(nets) : nets[k].id # id
  <2>1. \A k \in 1..Len(nets) : nets[k].id # id /\ \E i \in 1..Len(nets) : nets[k] = nets[i]
    BY <1>2
  <2> QED
    BY <1>2, <2>1 DEF Keeps
<1>3. ASSUME NEW i \in 1..Len(nets), nets[i].id = id, Without(nets, id) = RemoveAt(nets, i)
      PROVE  Keeps(Without(nets, id), nets, id)
  <2>1. PICK left : left = RemoveAt(nets, i)
    OBVIOUS
  <2>2. /\ Len(left) = Len(nets) - 1
        /\ \A k \in 1..Len(left) : left[k] = IF k < i THEN nets[k] ELSE nets[k + 1]
    BY <2>1, RemoveAtIs
  <2>3. \A k \in 1..Len(nets) : nets[k].id = id => k = i
    BY <1>3 DEF Apart
  <2>4. ASSUME NEW k \in 1..Len(left)
        PROVE  \E m \in 1..Len(nets) : m = (IF k < i THEN k ELSE k + 1) /\ left[k] = nets[m] /\ m # i
    <3>1. PICK m : m = IF k < i THEN k ELSE k + 1
      OBVIOUS
    <3>2. m \in 1..Len(nets) /\ m # i
      BY <1>1, <2>2, <3>1
    <3>3. left[k] = nets[m]
      BY <2>2, <3>1
    <3> QED
      BY <3>1, <3>2, <3>3
  <2>5. ASSUME NEW k \in 1..Len(left), NEW l \in 1..Len(left),
               left[k].id = left[l].id \/ left[k].object = left[l].object
        PROVE  k = l
    <3>1. PICK m \in 1..Len(nets) : m = (IF k < i THEN k ELSE k + 1) /\ left[k] = nets[m]
      BY <2>4
    <3>2. PICK o \in 1..Len(nets) : o = (IF l < i THEN l ELSE l + 1) /\ left[l] = nets[o]
      BY <2>4
    <3>3. m = o
      BY <2>5, <3>1, <3>2 DEF Apart
    <3> QED
      BY <1>1, <3>1, <3>2, <3>3
  <2>6. \A k \in 1..Len(left) : left[k].id # id /\ \E m \in 1..Len(nets) : left[k] = nets[m]
    BY <2>3, <2>4
  <2>7. ASSUME NEW m \in 1..Len(nets), nets[m].id # id PROVE \E k \in 1..Len(left) : left[k] = nets[m]
    <3>1. m # i
      BY <1>3, <2>7
    <3>2. CASE m < i
      BY <1>1, <2>2, <3>2
    <3>3. CASE m > i
      <4>1. m - 1 \in 1..Len(left) /\ ~(m - 1 < i) /\ (m - 1) + 1 = m
        BY <1>1, <2>2, <3>3
      <4>2. left[m - 1] = nets[m]
        BY <2>2, <4>1
      <4> QED
        BY <4>1, <4>2
    <3> QED
      BY <3>1, <3>2, <3>3
  <2>8. Apart(left)
    BY <2>5 DEF Apart
  <2>9. Keeps(left, nets, id)
    BY <2>6, <2>7, <2>8 DEF Keeps
  <2> QED
    BY <1>3, <2>1, <2>9
<1> QED
  BY <1>2, <1>3, WithoutIs

-----------------------------------------------------------------------------
(* Rolling back.                                                           *)

\* What k of the records, the latest, leave of some networks.
Remains(x, nets, records, k) ==
  /\ Apart(x)
  /\ \A i \in 1..Len(x) : \E j \in 1..Len(nets) : Alike(x[i], nets[j])
  /\ \A j \in 1..Len(nets) : Derives(records, 0, Len(records), nets[j].id)
                             \/ \E i \in 1..Len(x) : Alike(x[i], nets[j])
  /\ \A i \in 1..Len(x) : ~Derives(records, Len(records) - k, Len(records), x[i].id)

LEMMA AlikeTwice ==
  ASSUME NEW a, NEW b, NEW c, Alike(a, b), Alike(b, c)
  PROVE  Alike(a, c)
BY DEF Alike

LEMMA DerivesMore ==
  ASSUME NEW records, NEW n \in Nat, NEW k \in 1..n, NEW id, Derives(records, n - k, n, id)
  PROVE  \/ records[n - k + 1].kind = "derived" /\ records[n - k + 1].id = id
         \/ Derives(records, n - (k - 1), n, id)
<1>1. PICK l \in (n - k + 1)..n : records[l].kind = "derived" /\ records[l].id = id
  BY DEF Derives
<1>2. l = n - k + 1 \/ l \in ((n - (k - 1)) + 1)..n
  OBVIOUS
<1> QED
  BY <1>1, <1>2 DEF Derives

LEMMA RemainsOne ==
  ASSUME NEW records \in Seq(UndoType), NEW nets \in Seq(NetworkType), NEW x \in Seq(NetworkType),
         NEW k \in 1..Len(records), Remains(x, nets, records, k - 1)
  PROVE  Remains(UndoOne(records[Len(records) - k + 1], x), nets, records, k)
<1> DEFINE n == Len(records)
<1>1. PICK u : u = records[n - k + 1]
  OBVIOUS
<1>2. n \in Nat /\ n - k + 1 \in 1..n /\ u \in UndoType
  <2>1. n \in Nat /\ n - k + 1 \in 1..n
    OBVIOUS
  <2> QED
    BY <1>1, <2>1, ElementOfSeq
<1>3. PICK y : y = UndoOne(u, x)
  OBVIOUS
<1>4. \A id : Derives(records, n - k, n, id) =>
                (u.kind = "derived" /\ u.id = id) \/ Derives(records, n - (k - 1), n, id)
  BY <1>1, <1>2, DerivesMore
<1> HIDE DEF n
<1>5. /\ Apart(x)
      /\ \A i \in 1..Len(x) : \E j \in 1..Len(nets) : Alike(x[i], nets[j])
      /\ \A j \in 1..Len(nets) : Derives(records, 0, n, nets[j].id) \/ \E i \in 1..Len(x) : Alike(x[i], nets[j])
      /\ \A i \in 1..Len(x) : ~Derives(records, n - (k - 1), n, x[i].id)
  BY DEF Remains, n
<1>6. CASE u.kind = "derived"
  <2>1. Keeps(y, x, u.id)
    BY <1>2, <1>3, <1>5, <1>6, UndoOneType, WithoutKeeps
  <2>2. /\ Apart(y)
        /\ \A i \in 1..Len(y) : y[i].id # u.id /\ \E j \in 1..Len(x) : y[i] = x[j]
        /\ \A i \in 1..Len(x) : x[i].id # u.id => \E j \in 1..Len(y) : y[j] = x[i]
    BY <2>1 DEF Keeps
  <2>3. Derives(records, 0, n, u.id)
    <3>1. n - k + 1 \in (0 + 1)..n
      BY <1>2
    <3> QED
      BY <1>1, <1>6, <3>1 DEF Derives
  <2>4. ASSUME NEW j \in 1..Len(nets), ~Derives(records, 0, n, nets[j].id)
        PROVE  \E i \in 1..Len(y) : Alike(y[i], nets[j])
    <3>1. PICK i \in 1..Len(x) : Alike(x[i], nets[j])
      BY <1>5, <2>4
    <3>2. x[i].id # u.id
      BY <2>3, <2>4, <3>1 DEF Alike
    <3> QED
      BY <2>2, <3>1, <3>2
  <2>5. \A i \in 1..Len(y) : \E j \in 1..Len(nets) : Alike(y[i], nets[j])
    BY <1>5, <2>2
  <2>6. ASSUME NEW i \in 1..Len(y) PROVE ~Derives(records, n - k, n, y[i].id)
    <3>1. PICK j \in 1..Len(x) : y[i] = x[j]
      BY <2>2
    <3>2. y[i].id # u.id /\ ~Derives(records, n - (k - 1), n, y[i].id)
      BY <1>5, <2>2, <3>1
    <3> QED
      BY <1>4, <3>2
  <2> QED
    BY <1>1, <1>3, <2>2, <2>4, <2>5, <2>6 DEF Remains, n
<1>7. CASE u.kind # "derived"
  <2>1. /\ Len(y) = Len(x)
        /\ \A i \in 1..Len(x) : Alike(y[i], x[i])
    BY <1>2, <1>3, <1>7, UndoOneType DEF Alike
  <2>2. Apart(y)
    <3>1. \A i \in 1..Len(x) : y[i].id = x[i].id /\ y[i].object = x[i].object
      BY <2>1 DEF Alike
    <3> QED
      BY <1>5, <2>1, <3>1 DEF Apart
  <2>3. \A i \in 1..Len(y) : \E j \in 1..Len(nets) : Alike(y[i], nets[j])
    BY <1>5, <2>1, AlikeTwice
  <2>4. ASSUME NEW j \in 1..Len(nets), ~Derives(records, 0, n, nets[j].id)
        PROVE  \E i \in 1..Len(y) : Alike(y[i], nets[j])
    BY <1>5, <2>1, <2>4, AlikeTwice
  <2>5. \A i \in 1..Len(y) : ~Derives(records, n - k, n, y[i].id)
    <3>1. \A i \in 1..Len(y) : y[i].id = x[i].id
      BY <2>1 DEF Alike
    <3> QED
      BY <1>4, <1>5, <1>7, <2>1, <3>1
  <2> QED
    BY <1>1, <1>3, <2>2, <2>3, <2>4, <2>5 DEF Remains, n
<1> QED
  BY <1>6, <1>7

LEMMA UndoneRemains ==
  ASSUME NEW records \in Seq(UndoType), NEW nets \in Seq(NetworkType), Apart(nets)
  PROVE  /\ Undone(records, nets) \in Seq(NetworkType)
         /\ Remains(Undone(records, nets), nets, records, Len(records))
<1> DEFINE good == [k \in 0..Len(records) |-> {x \in Seq(NetworkType) : Remains(x, nets, records, k)}]
<1>1. Len(records) \in Nat
  OBVIOUS
<1>2. nets \in good[0]
  <2>1. \A i \in 1..Len(nets) : Alike(nets[i], nets[i])
    BY DEF Alike
  <2>2. \A i \in 1..Len(nets) : ~Derives(records, Len(records) - 0, Len(records), nets[i].id)
    <3>1. ((Len(records) - 0) + 1)..Len(records) = {}
      BY <1>1
    <3> QED
      BY <3>1 DEF Derives
  <2>3. Remains(nets, nets, records, 0)
    BY <2>1, <2>2 DEF Remains
  <2>4. 0 \in 0..Len(records)
    BY <1>1
  <2> QED
    BY <2>3, <2>4
<1>3. ASSUME NEW k \in 1..Len(records), NEW x \in Seq(NetworkType), x \in good[k - 1]
      PROVE  UndoOne(records[Len(records) - k + 1], x) \in good[k]
  <2>1. k - 1 \in 0..Len(records) /\ k \in 0..Len(records) /\ Len(records) - k + 1 \in 1..Len(records)
    BY <1>1
  <2>2. Remains(x, nets, records, k - 1)
    BY <1>3, <2>1
  <2>3. Remains(UndoOne(records[Len(records) - k + 1], x), nets, records, k)
    BY <2>2, RemainsOne
  <2>4. UndoOne(records[Len(records) - k + 1], x) \in Seq(NetworkType)
    BY <2>1, ElementOfSeq, UndoOneType
  <2> QED
    BY <2>1, <2>3, <2>4
<1>4. \A x : x \in good[Len(records)] => Remains(x, nets, records, Len(records))
  BY <1>1
<1> HIDE DEF good
<1> QED
  BY <1>2, <1>3, <1>4, UndoneIs

-----------------------------------------------------------------------------
(* Steps that keep references live.                                        *)

LEMMA ViewLive ==
  ASSUME NEW s, NEW n, Live(s, n), NEW t \in SessionType, t.nets = s.nets, ActiveLive(t), SelectionLive(t)
  PROVE  Live(t, n)
BY DEF Live

LEMMA ComesTwice ==
  ASSUME NEW a, NEW b, NEW c, Comes(a, b), Comes(b, c)
  PROVE  Comes(a, c)
BY DEF Comes

LEMMA OrphanedComes ==
  ASSUME NEW n \in NetworkType, NEW id
  PROVE  Comes(Orphaned(n, id), n)
BY OrphanedIs DEF Comes

LEMMA CloseLive ==
  ASSUME NEW s, NEW n, Live(s, n), NEW id \in 1..MaxNets
  PROVE  Live(Close(s, id), n) /\ Descends(Close(s, id), s)
<1>1. PICK c : c = Close(s, id)
  OBVIOUS
<1>2. PICK left : left = Without(s.nets, id)
  OBVIOUS
<1>3. /\ s \in SessionType /\ id \in Ids /\ s.nets \in Seq(NetworkType)
      /\ Apart(s.nets) /\ Numbered(s.nets, n) /\ BasesLive(s.nets)
      /\ ActiveLive(s) /\ SelectionLive(s)
  BY SessionIs DEF Live, Ids
<1>4. /\ c \in SessionType /\ Leaves(c, s, id)
  BY <1>1, <1>3, CloseIs
<1>5. /\ Len(c.nets) = Len(left)
      /\ \A k \in 1..Len(left) : c.nets[k] = Orphaned(left[k], id)
      /\ c.active = IF s.active = id THEN FirstOf([s EXCEPT !.nets = left]) ELSE s.active
      /\ c.selection = IF s.selection # Nothing /\ s.selection.net = id THEN Nothing ELSE s.selection
  BY <1>2, <1>4 DEF Leaves
<1>6. /\ Apart(left) /\ left \in Seq(NetworkType)
      /\ \A k \in 1..Len(left) : left[k].id # id /\ \E i \in 1..Len(s.nets) : left[k] = s.nets[i]
      /\ \A i \in 1..Len(s.nets) : s.nets[i].id # id => \E k \in 1..Len(left) : left[k] = s.nets[i]
  <2>1. Keeps(Without(s.nets, id), s.nets, id) /\ Without(s.nets, id) \in Seq(NetworkType)
    BY <1>3, WithoutKeeps, WithoutType
  <2>2. Keeps(left, s.nets, id) /\ left \in Seq(NetworkType)
    BY <1>2, <2>1
  <2> QED
    BY <2>2 DEF Keeps
<1>7. \A k \in 1..Len(left) :
        /\ left[k] \in NetworkType /\ c.nets[k].id = left[k].id /\ c.nets[k].object = left[k].object
        /\ c.nets[k].fromObject = left[k].fromObject
        /\ c.nets[k].from = IF left[k].from = id THEN Closed ELSE left[k].from
  BY <1>5, <1>6, ElementOfSeq, OrphanedIs
<1>8. Apart(c.nets)
  BY <1>5, <1>6, <1>7 DEF Apart
<1>9. Numbered(c.nets, n)
  <2>1. SUFFICES ASSUME NEW k \in 1..Len(left) PROVE c.nets[k].object <= n
    BY <1>5 DEF Numbered
  <2>2. PICK i \in 1..Len(s.nets) : left[k] = s.nets[i]
    BY <1>6
  <2>3. s.nets[i].object <= n
    BY <1>3 DEF Numbered
  <2>4. c.nets[k].object = s.nets[i].object
    BY <1>7, <2>2
  <2> QED
    BY <2>3, <2>4
<1>10. BasesLive(c.nets)
  <2>1. SUFFICES ASSUME NEW k \in 1..Len(left), c.nets[k].from \in 1..MaxNets
        PROVE  \E i \in 1..Len(left) : c.nets[i].id = c.nets[k].from /\ c.nets[i].object = c.nets[k].fromObject
    BY <1>5 DEF BasesLive
  <2>2. Closed \notin 1..MaxNets
    BY BoundsAssumption DEF Closed
  <2>3. left[k].from = c.nets[k].from /\ left[k].from # id /\ left[k].fromObject = c.nets[k].fromObject
    BY <1>7, <2>1, <2>2
  <2>4. PICK i \in 1..Len(s.nets) : s.nets[i].id = left[k].from /\ s.nets[i].object = left[k].fromObject
    <3>1. PICK o \in 1..Len(s.nets) : left[k] = s.nets[o]
      BY <1>6, <2>1
    <3>2. s.nets[o].from \in 1..MaxNets
      BY <2>1, <2>3, <3>1
    <3> QED
      BY <1>3, <3>1, <3>2 DEF BasesLive
  <2>5. PICK m \in 1..Len(left) : left[m] = s.nets[i]
    BY <1>6, <2>3, <2>4
  <2>6. c.nets[m].id = c.nets[k].from /\ c.nets[m].object = c.nets[k].fromObject
    BY <1>7, <2>3, <2>4, <2>5
  <2> QED
    BY <2>6
<1>11. ActiveLive(c)
  <2>1. DOMAIN c.nets = 1..Len(left) /\ c.nets \in Seq(NetworkType)
    BY <1>4, <1>5, SessionIs
  <2>2. CASE s.active = id
    <3>1. PICK l : l = [s EXCEPT !.nets = left]
      OBVIOUS
    <3>2. l \in SessionType /\ l.nets = left /\ c.active = FirstOf(l)
      BY <1>3, <1>5, <1>6, <2>2, <3>1 DEF SessionType
    <3>3. /\ left = <<>> => c.active = None
          /\ left # <<>> => c.active # None /\ c.active \in IdsOf(l)
      BY <3>2, FirstIs
    <3>4. left = <<>> <=> c.nets = <<>>
      BY <1>5, <1>6, <2>1, EmptySeq
    <3>5. DOMAIN left = 1..Len(left)
      BY <1>6
    <3>6. left # <<>> => \E k \in 1..Len(left) : left[k].id = c.active
      BY <3>2, <3>3, <3>5 DEF IdsOf
    <3> QED
      BY <1>5, <1>7, <3>3, <3>4, <3>6 DEF ActiveLive
  <2>3. CASE s.active # id /\ s.active = None
    <3>1. s.nets = <<>> /\ Len(s.nets) = 0
      BY <1>3, <2>3, EmptySeq DEF ActiveLive
    <3>2. Len(left) = 0
      <4>1. Len(left) \in Nat /\ Len(left) <= Len(s.nets)
        BY <1>2, <1>3, WithoutType
      <4> QED
        BY <3>1, <4>1
    <3>3. c.nets = <<>>
      BY <1>5, <2>1, <3>2, EmptySeq
    <3> QED
      BY <1>5, <2>3, <3>3 DEF ActiveLive
  <2>4. CASE s.active # id /\ s.active # None
    <3>1. PICK k \in 1..Len(s.nets) : s.nets[k].id = s.active
      BY <1>3, <2>4 DEF ActiveLive
    <3>2. PICK i \in 1..Len(left) : left[i] = s.nets[k]
      BY <1>6, <2>4, <3>1
    <3>3. c.nets[i].id = c.active /\ i \in 1..Len(c.nets)
      BY <1>5, <1>7, <2>4, <3>1, <3>2
    <3>4. c.nets # <<>>
      BY <2>1, <3>3, EmptySeq
    <3> QED
      BY <1>5, <2>4, <3>3, <3>4 DEF ActiveLive
  <2> QED
    BY <2>2, <2>3, <2>4
<1>12. SelectionLive(c)
  <2>1. SUFFICES ASSUME c.selection # Nothing
        PROVE  \E k \in 1..Len(c.nets) : c.nets[k].id = c.selection.net /\ c.nets[k].object = c.selection.object
    BY DEF SelectionLive
  <2>2. c.selection = s.selection /\ s.selection # Nothing /\ s.selection.net # id
    BY <1>5, <2>1
  <2>3. PICK k \in 1..Len(s.nets) : s.nets[k].id = s.selection.net /\ s.nets[k].object = s.selection.object
    BY <1>3, <2>2 DEF SelectionLive
  <2>4. PICK i \in 1..Len(left) : left[i] = s.nets[k]
    BY <1>6, <2>2, <2>3
  <2>5. i \in 1..Len(c.nets) /\ c.nets[i].id = c.selection.net /\ c.nets[i].object = c.selection.object
    BY <1>5, <1>7, <2>2, <2>3, <2>4
  <2> QED
    BY <2>5
<1>13. Descends(c, s)
  <2>1. ASSUME NEW k \in 1..Len(left) PROVE \E i \in 1..Len(s.nets) : Comes(c.nets[k], s.nets[i])
    <3>1. PICK i \in 1..Len(s.nets) : left[k] = s.nets[i]
      BY <1>6
    <3>2. Comes(c.nets[k], left[k])
      BY <1>5, <1>7, OrphanedComes
    <3> QED
      BY <3>1, <3>2
  <2> QED
    BY <1>5, <2>1 DEF Descends
<1>14. Live(c, n)
  BY <1>4, <1>8, <1>9, <1>10, <1>11, <1>12 DEF Live
<1> QED
  BY <1>1, <1>13, <1>14

LEMMA SameDescends ==
  ASSUME NEW s, NEW t, t.nets = s.nets
  PROVE  Descends(t, s)
BY DEF Descends, Comes

LEMMA KnownIs ==
  ASSUME NEW s \in SessionType, NEW id \in IdsOf(s)
  PROVE  \E k \in 1..Len(s.nets) : s.nets[k].id = id
BY SessionIs DEF IdsOf

LEMMA SomeNets ==
  ASSUME NEW s \in SessionType, NEW k \in 1..Len(s.nets)
  PROVE  /\ s.nets # <<>> /\ s.nets[k].id \in 1..MaxNets /\ s.nets[k].id # None
         /\ s.nets[k].object \in Nat
<1>1. s.nets[k] \in NetworkType /\ s.nets \in Seq(NetworkType)
  BY SessionIs
<1>2. s.nets # <<>>
  BY <1>1, EmptySeq
<1>3. s.nets[k].id \in 1..MaxNets /\ s.nets[k].object \in 1..MaxNets
  BY <1>1 DEF NetworkType
<1>4. \A i \in 1..MaxNets : i \in Nat /\ i # None
  BY BoundsAssumption DEF None
<1> QED
  BY <1>2, <1>3, <1>4

LEMMA DoLive ==
  ASSUME NEW s, NEW n, Live(s, n), NEW op \in CoreOps, Accepts(s, op)
  PROVE  Live(Do(s, op, 0), n) /\ Descends(Do(s, op, 0), s)
<1>1. PICK t : t = Do(s, op, 0)
  OBVIOUS
<1>2. s \in SessionType /\ ActiveLive(s) /\ SelectionLive(s)
  BY DEF Live
<1>3. /\ t \in SessionType
      /\ op.do \in {"close", "activate", "select", "clear", "style"}
      /\ op.do \in {"close", "activate"} => op.net \in 1..MaxNets
  BY <1>1, <1>2, DoIs, CoreOpIs
<1>4. CASE op.do = "close"
  BY <1>2, <1>3, <1>4, DoIs, CloseLive
<1>5. CASE op.do = "activate"
  <2>1. t.nets = s.nets /\ t.active = op.net /\ t.selection = s.selection /\ op.net \in IdsOf(s)
    BY <1>1, <1>2, <1>5, DoIs
  <2>2. PICK k \in 1..Len(t.nets) : t.nets[k].id = op.net
    BY <1>2, <2>1, KnownIs
  <2>3. t.nets # <<>> /\ op.net # None
    BY <1>3, <2>2, SomeNets
  <2>4. ActiveLive(t)
    BY <2>1, <2>2, <2>3 DEF ActiveLive
  <2>5. SelectionLive(t)
    BY <1>2, <2>1 DEF SelectionLive
  <2> QED
    BY <1>1, <1>3, <2>1, <2>4, <2>5, ViewLive, SameDescends
<1>6. CASE op.do = "select"
  <2>1. PICK k : k = At(s, op.net)
    OBVIOUS
  <2>2. k \in 1..Len(s.nets) /\ t.selection = Payload(s.nets[k], s.nets[k].edits)
        /\ t.nets = s.nets /\ t.active = s.active
    BY <1>1, <1>2, <1>6, <2>1, DoIs
  <2>3. s.nets[k] \in NetworkType /\ s.nets[k].edits \in Nat
    BY <1>2, <2>2, SessionIs DEF NetworkType
  <2>4. t.selection.net = s.nets[k].id /\ t.selection.object = s.nets[k].object
    BY <2>2, <2>3, PayloadIs
  <2>5. SelectionLive(t)
    BY <2>2, <2>4 DEF SelectionLive
  <2>6. ActiveLive(t)
    BY <1>2, <2>2 DEF ActiveLive
  <2> QED
    BY <1>1, <1>3, <2>2, <2>5, <2>6, ViewLive, SameDescends
<1>7. CASE op.do = "clear"
  <2>1. t.nets = s.nets /\ t.active = s.active /\ t.selection = Nothing
    BY <1>1, <1>2, <1>7, DoIs
  <2>2. ActiveLive(t) /\ SelectionLive(t)
    BY <1>2, <2>1 DEF ActiveLive, SelectionLive
  <2> QED
    BY <1>1, <1>3, <2>1, <2>2, ViewLive, SameDescends
<1>8. CASE op.do = "style"
  <2>1. t.nets = s.nets /\ t.active = s.active /\ t.selection = s.selection
    BY <1>1, <1>2, <1>8, DoIs
  <2>2. ActiveLive(t) /\ SelectionLive(t)
    BY <1>2, <2>1 DEF ActiveLive, SelectionLive
  <2> QED
    BY <1>1, <1>3, <2>1, <2>2, ViewLive, SameDescends
<1> QED
  BY <1>3, <1>4, <1>5, <1>6, <1>7, <1>8

LEMMA EditLive ==
  ASSUME NEW s, NEW n, Live(s, n), NEW id \in Ids, Known(s, id)
  PROVE  Live(Edit(s, id), n) /\ Descends(Edit(s, id), s)
<1>1. PICK e : e = Edit(s, id)
  OBVIOUS
<1>2. /\ s \in SessionType /\ Apart(s.nets) /\ Numbered(s.nets, n) /\ BasesLive(s.nets)
      /\ ActiveLive(s) /\ SelectionLive(s)
  BY DEF Live
<1>3. /\ e \in SessionType /\ Len(e.nets) = Len(s.nets)
      /\ e.active = s.active /\ e.selection = s.selection
  BY <1>1, <1>2, EditIs
<1>4. \A k \in 1..Len(s.nets) : Alike(e.nets[k], s.nets[k])
  BY <1>1, <1>2, EditIs, EditedIs DEF Alike
<1>5. \A k \in 1..Len(s.nets) :
        /\ e.nets[k].id = s.nets[k].id /\ e.nets[k].object = s.nets[k].object
        /\ e.nets[k].from = s.nets[k].from /\ e.nets[k].fromObject = s.nets[k].fromObject
  BY <1>4 DEF Alike
<1>6. Apart(e.nets)
  BY <1>2, <1>3, <1>5 DEF Apart
<1>7. Numbered(e.nets, n)
  BY <1>2, <1>3, <1>5 DEF Numbered
<1>8. BasesLive(e.nets)
  BY <1>2, <1>3, <1>5 DEF BasesLive
<1>9. e.nets = <<>> <=> s.nets = <<>>
  <2>1. e.nets \in Seq(NetworkType) /\ s.nets \in Seq(NetworkType)
    BY <1>2, <1>3, SessionIs
  <2> QED
    BY <1>3, <2>1, EmptySeq
<1>10. ActiveLive(e)
  BY <1>2, <1>3, <1>5, <1>9 DEF ActiveLive
<1>11. SelectionLive(e)
  BY <1>2, <1>3, <1>5 DEF SelectionLive
<1>12. Descends(e, s)
  BY <1>3, <1>5 DEF Descends, Comes
<1> QED
  BY <1>1, <1>3, <1>6, <1>7, <1>8, <1>10, <1>11, <1>12 DEF Live

\* A network is registered, by Open, by Derive or from Python.
LEMMA AppendLive ==
  ASSUME NEW s, NEW n \in Nat, Live(s, n), NEW h \in NetworkType, NEW t \in SessionType,
         t.nets = Append(s.nets, h), t.selection = s.selection,
         t.active = h.id \/ (s.active # None /\ t.active = s.active),
         h.id \notin IdsOf(s), h.object = n + 1,
         h.from \in 1..MaxNets =>
           \E i \in 1..Len(s.nets) : s.nets[i].id = h.from /\ s.nets[i].object = h.fromObject
  PROVE  Live(t, n + 1)
<1>1. /\ s \in SessionType /\ Apart(s.nets) /\ Numbered(s.nets, n) /\ BasesLive(s.nets)
      /\ ActiveLive(s) /\ SelectionLive(s)
  BY DEF Live
<1>2. /\ s.nets \in Seq(NetworkType) /\ Len(s.nets) \in Nat /\ DOMAIN s.nets = 1..Len(s.nets)
      /\ \A k \in 1..Len(s.nets) : s.nets[k] \in NetworkType
  BY <1>1, SessionIs
<1>3. /\ Len(t.nets) = Len(s.nets) + 1 /\ t.nets[Len(s.nets) + 1] = h
      /\ \A k \in 1..Len(s.nets) : t.nets[k] = s.nets[k]
      /\ 1..Len(t.nets) = 1..Len(s.nets) \cup {Len(s.nets) + 1} /\ Len(s.nets) + 1 \in 1..Len(t.nets)
  BY <1>2
<1>4. \A k \in 1..Len(s.nets) : s.nets[k].id # h.id /\ s.nets[k].object # h.object
  <2>1. \A k \in 1..Len(s.nets) : s.nets[k].id # h.id
    BY <1>2 DEF IdsOf
  <2>2. \A k \in 1..Len(s.nets) : s.nets[k].object \in Nat /\ s.nets[k].object <= n
    BY <1>1, SomeNets DEF Numbered
  <2> QED
    BY <2>1, <2>2
<1>5. Apart(t.nets)
  BY <1>1, <1>3, <1>4 DEF Apart
<1>6. Numbered(t.nets, n + 1)
  <2>1. \A k \in 1..Len(s.nets) : s.nets[k].object \in Nat /\ s.nets[k].object <= n
    BY <1>1, SomeNets DEF Numbered
  <2> QED
    BY <1>3, <2>1 DEF Numbered
<1>7. BasesLive(t.nets)
  <2>1. ASSUME NEW k \in 1..Len(s.nets), t.nets[k].from \in 1..MaxNets
        PROVE  \E i \in 1..Len(s.nets) : t.nets[i].id = t.nets[k].from /\ t.nets[i].object = t.nets[k].fromObject
    BY <1>1, <1>3, <2>1 DEF BasesLive
  <2>2. h.from \in 1..MaxNets =>
          \E i \in 1..Len(s.nets) : t.nets[i].id = h.from /\ t.nets[i].object = h.fromObject
    BY <1>3
  <2> QED
    BY <1>3, <2>1, <2>2 DEF BasesLive
<1>8. ActiveLive(t)
  <2>1. t.nets # <<>> /\ h.id # None
    BY <1>3, SomeNets
  <2>2. \E k \in 1..Len(t.nets) : t.nets[k].id = t.active
    BY <1>1, <1>3 DEF ActiveLive
  <2>3. t.active # None
    BY <2>1
  <2> QED
    BY <2>1, <2>2, <2>3 DEF ActiveLive
<1>9. SelectionLive(t)
  BY <1>1, <1>3 DEF SelectionLive
<1> QED
  BY <1>5, <1>6, <1>7, <1>8, <1>9 DEF Live

\* How what has grown since a frame began goes on.
LEMMA GrownSame ==
  ASSUME NEW us, NEW vs, NEW low, NEW high, \A l \in (low + 1)..high : vs[l] = us[l],
         NEW before, NEW s, Grown(us, low, high, before, s)
  PROVE  Grown(vs, low, high, before, s)
<1>1. \A id : Derives(vs, low, high, id) <=> Derives(us, low, high, id)
  BY DEF Derives
<1> QED
  BY <1>1 DEF Grown

LEMMA GrownFollows ==
  ASSUME NEW us, NEW low, NEW high, NEW before, NEW s, NEW t,
         Grown(us, low, high, before, s), Descends(t, s)
  PROVE  Grown(us, low, high, before, t)
<1>1. ASSUME NEW k \in 1..Len(t.nets)
      PROVE  IF Derives(us, low, high, t.nets[k].id)
             THEN \A i \in 1..Len(before.nets) : before.nets[i].object # t.nets[k].object
             ELSE \E i \in 1..Len(before.nets) : Comes(t.nets[k], before.nets[i])
  <2>1. PICK m \in 1..Len(s.nets) : Comes(t.nets[k], s.nets[m])
    BY DEF Descends
  <2>2. t.nets[k].id = s.nets[m].id /\ t.nets[k].object = s.nets[m].object
    BY <2>1 DEF Comes
  <2>3. CASE Derives(us, low, high, s.nets[m].id)
    BY <2>2, <2>3 DEF Grown
  <2>4. CASE ~Derives(us, low, high, s.nets[m].id)
    <3>1. PICK i \in 1..Len(before.nets) : Comes(s.nets[m], before.nets[i])
      BY <2>4 DEF Grown
    <3>2. Comes(t.nets[k], before.nets[i])
      BY <2>1, <3>1, ComesTwice
    <3> QED
      BY <2>2, <2>4, <3>2
  <2> QED
    BY <2>3, <2>4
<1> QED
  BY <1>1 DEF Grown

\* An edit that can be undone derives nothing.
LEMMA GrownEdited ==
  ASSUME NEW us \in Seq(UndoType), NEW u \in UndoType, u.kind # "derived", NEW low \in 0..Len(us),
         NEW before, NEW s, Grown(us, low, Len(us), before, s)
  PROVE  Grown(Append(us, u), low, Len(us) + 1, before, s)
<1>1. PICK vs : vs = Append(us, u)
  OBVIOUS
<1>2. Len(us) \in Nat /\ vs[Len(us) + 1] = u /\ \A l \in 1..Len(us) : vs[l] = us[l]
  BY <1>1
<1>3. \A l \in (low + 1)..(Len(us) + 1) : (l \in (low + 1)..Len(us) /\ l \in 1..Len(us)) \/ l = Len(us) + 1
  BY <1>2
<1>4. \A l \in (low + 1)..Len(us) : l \in (low + 1)..(Len(us) + 1) /\ l \in 1..Len(us)
  BY <1>2
<1>5. \A id : Derives(vs, low, Len(us) + 1, id) <=> Derives(us, low, Len(us), id)
  BY <1>2, <1>3, <1>4 DEF Derives
<1> QED
  BY <1>1, <1>5 DEF Grown

LEMMA GrownDerived ==
  ASSUME NEW us \in Seq(UndoType), NEW u \in UndoType, u.kind = "derived", NEW low \in 0..Len(us),
         NEW before, NEW s \in SessionType, Grown(us, low, Len(us), before, s),
         NEW h \in NetworkType, NEW t, t.nets = Append(s.nets, h), h.id = u.id, u.id \notin IdsOf(s),
         \A i \in 1..Len(before.nets) : before.nets[i].object # h.object
  PROVE  Grown(Append(us, u), low, Len(us) + 1, before, t)
<1>1. PICK vs : vs = Append(us, u)
  OBVIOUS
<1>2. Len(us) \in Nat /\ vs[Len(us) + 1] = u /\ \A l \in 1..Len(us) : vs[l] = us[l]
  BY <1>1
<1>3. \A l \in (low + 1)..(Len(us) + 1) : (l \in (low + 1)..Len(us) /\ l \in 1..Len(us)) \/ l = Len(us) + 1
  BY <1>2
<1>4. /\ Len(us) + 1 \in (low + 1)..(Len(us) + 1)
      /\ \A l \in (low + 1)..Len(us) : l \in (low + 1)..(Len(us) + 1) /\ l \in 1..Len(us)
  BY <1>2
<1>5. \A id : id # u.id => (Derives(vs, low, Len(us) + 1, id) <=> Derives(us, low, Len(us), id))
  BY <1>2, <1>3, <1>4 DEF Derives
<1>6. Derives(vs, low, Len(us) + 1, u.id)
  BY <1>2, <1>4 DEF Derives
<1>7. /\ s.nets \in Seq(NetworkType) /\ Len(s.nets) \in Nat /\ DOMAIN s.nets = 1..Len(s.nets)
  BY SessionIs
<1>8. /\ Len(t.nets) = Len(s.nets) + 1 /\ t.nets[Len(s.nets) + 1] = h
      /\ \A k \in 1..Len(s.nets) : t.nets[k] = s.nets[k] /\ s.nets[k].id # u.id
      /\ 1..Len(t.nets) = 1..Len(s.nets) \cup {Len(s.nets) + 1}
  BY <1>7 DEF IdsOf
<1>9. ASSUME NEW k \in 1..Len(t.nets)
      PROVE  IF Derives(vs, low, Len(us) + 1, t.nets[k].id)
             THEN \A i \in 1..Len(before.nets) : before.nets[i].object # t.nets[k].object
             ELSE \E i \in 1..Len(before.nets) : Comes(t.nets[k], before.nets[i])
  <2>1. CASE k = Len(s.nets) + 1
    BY <1>6, <1>8, <2>1
  <2>2. CASE k \in 1..Len(s.nets)
    <3>1. /\ t.nets[k] = s.nets[k]
          /\ Derives(vs, low, Len(us) + 1, s.nets[k].id) <=> Derives(us, low, Len(us), s.nets[k].id)
      BY <1>5, <1>8, <2>2
    <3> QED
      BY <2>2, <3>1 DEF Grown
  <2> QED
    BY <1>8, <2>1, <2>2
<1> QED
  BY <1>1, <1>9 DEF Grown

LEMMA LiveLater ==
  ASSUME NEW s, NEW n \in Nat, Live(s, n)
  PROVE  /\ Live(s, n + 1)
         /\ \A i \in 1..Len(s.nets) : s.nets[i].object # n + 1
<1>1. s \in SessionType /\ Numbered(s.nets, n)
  BY DEF Live
<1>2. \A k \in 1..Len(s.nets) : s.nets[k].object \in Nat /\ s.nets[k].object <= n
  BY <1>1, SomeNets DEF Numbered
<1>3. \A k \in 1..Len(s.nets) : s.nets[k].object <= n + 1 /\ s.nets[k].object # n + 1
  BY <1>2
<1> QED
  BY <1>3 DEF Live, Numbered

\* Rolled back, the session has of the networks that were open when the Action
\* began those that are open still.
LEMMA RolledBackLive ==
  ASSUME SessionInv, FramesInv, RefsInv, ~Idle, RollBack(Top)
  PROVE  Live(session', serial) /\ Descends(session', Top.before)
<1>1. PICK top : top = Top
  OBVIOUS
<1>2. PICK records : records = Above(top)
  OBVIOUS
<1>3. PICK x : x = session'.nets
  OBVIOUS
<1>4. PICK nets : nets = session.nets
  OBVIOUS
<1>5. PICK b : b = top.before
  OBVIOUS
<1>6. /\ Len(running) \in 1..Len(running) /\ top = running[Len(running)]
      /\ top.mark \in 0..Len(undo) /\ Len(undo) \in Nat
  BY <1>1, TopIs
<1>7. /\ Live(b, serial) /\ Saved(top) /\ Grown(undo, top.mark, Len(undo), b, session)
      /\ Live(session, serial)
  BY <1>5, <1>6 DEF RefsInv
<1>8. /\ records \in Seq(UndoType) /\ Len(records) = Len(undo) - top.mark
      /\ \A k \in 1..(Len(undo) - top.mark) : records[k] = undo[top.mark + k]
      /\ session' \in SessionType /\ x = Undone(records, nets)
  BY <1>1, <1>2, <1>3, <1>4, RollBackIs
<1>9. /\ session'.active = IF top.active \in IdsOf(session') THEN top.active ELSE FirstOf(session')
      /\ session'.selection = IF top.selection # Nothing /\ top.selection.net \notin IdsOf(session')
                              THEN Nothing ELSE top.selection
  BY <1>1, RollBackIs
<1>10. /\ session \in SessionType /\ nets \in Seq(NetworkType) /\ Apart(nets) /\ Numbered(nets, serial)
       /\ BasesLive(nets)
  BY <1>4, <1>7, SessionIs DEF Live
<1>11. Remains(x, nets, records, Len(records)) /\ x \in Seq(NetworkType)
  BY <1>8, <1>10, UndoneRemains
<1>12. ASSUME NEW id
       PROVE  Derives(records, 0, Len(records), id) <=> Derives(undo, top.mark, Len(undo), id)
  <2>1. ASSUME NEW l \in (0 + 1)..Len(records), records[l].kind = "derived", records[l].id = id
        PROVE  Derives(undo, top.mark, Len(undo), id)
    <3>1. top.mark + l \in (top.mark + 1)..Len(undo) /\ l \in 1..(Len(undo) - top.mark)
      BY <1>6, <1>8
    <3>2. records[l] = undo[top.mark + l]
      BY <1>8, <3>1
    <3> QED
      BY <2>1, <3>1, <3>2 DEF Derives
  <2>2. ASSUME NEW l \in (top.mark + 1)..Len(undo), undo[l].kind = "derived", undo[l].id = id
        PROVE  Derives(records, 0, Len(records), id)
    <3>1. /\ l - top.mark \in (0 + 1)..Len(records) /\ l - top.mark \in 1..(Len(undo) - top.mark)
          /\ top.mark + (l - top.mark) = l
      BY <1>6, <1>8
    <3>2. records[l - top.mark] = undo[l]
      BY <1>8, <3>1
    <3> QED
      BY <2>2, <3>1, <3>2 DEF Derives
  <2> QED
    BY <2>1, <2>2 DEF Derives
<1>13. Len(records) - Len(records) = 0
  BY <1>6, <1>8
<1>14. /\ Apart(x)
       /\ \A i \in 1..Len(x) : \E j \in 1..Len(nets) : Alike(x[i], nets[j])
       /\ \A j \in 1..Len(nets) : Derives(undo, top.mark, Len(undo), nets[j].id)
                                  \/ \E i \in 1..Len(x) : Alike(x[i], nets[j])
       /\ \A i \in 1..Len(x) : ~Derives(undo, top.mark, Len(undo), x[i].id)
  BY <1>11, <1>12, <1>13 DEF Remains
<1>15. ASSUME NEW k \in 1..Len(x)
       PROVE  \E i \in 1..Len(b.nets) : Comes(x[k], b.nets[i])
  <2>1. PICK j \in 1..Len(nets) : Alike(x[k], nets[j])
    BY <1>14
  <2>2. ~Derives(undo, top.mark, Len(undo), nets[j].id)
    BY <1>14, <2>1 DEF Alike
  <2>3. PICK i \in 1..Len(b.nets) : Comes(nets[j], b.nets[i])
    BY <1>4, <1>7, <2>2 DEF Grown
  <2> QED
    BY <2>1, <2>3 DEF Alike, Comes
<1>16. Descends(session', b)
  BY <1>3, <1>15 DEF Descends
<1>17. Numbered(x, serial)
  <2> SUFFICES ASSUME NEW k \in 1..Len(x) PROVE x[k].object <= serial
    BY DEF Numbered
  <2>1. PICK j \in 1..Len(nets) : Alike(x[k], nets[j])
    BY <1>14
  <2> QED
    BY <1>10, <2>1 DEF Alike, Numbered
<1>18. BasesLive(x)
  <2> SUFFICES ASSUME NEW k \in 1..Len(x), x[k].from \in 1..MaxNets
               PROVE  \E i \in 1..Len(x) : x[i].id = x[k].from /\ x[i].object = x[k].fromObject
    BY DEF BasesLive
  <2>1. PICK j \in 1..Len(nets) : Alike(x[k], nets[j])
    BY <1>14
  <2>2. PICK o \in 1..Len(nets) : nets[o].id = x[k].from /\ nets[o].object = x[k].fromObject
    BY <1>10, <2>1 DEF Alike, BasesLive
  <2>3. PICK i \in 1..Len(b.nets) : Comes(x[k], b.nets[i])
    BY <1>15
  <2>4. Closed \notin 1..MaxNets
    BY BoundsAssumption DEF Closed
  <2>5. b.nets[i].from = x[k].from /\ b.nets[i].fromObject = x[k].fromObject
    BY <2>3, <2>4 DEF Comes
  <2>6. PICK m \in 1..Len(b.nets) : b.nets[m].object = x[k].fromObject
    BY <1>7, <2>5 DEF Live, BasesLive
  <2>7. ~Derives(undo, top.mark, Len(undo), nets[o].id)
    BY <1>4, <1>7, <2>2, <2>6 DEF Grown
  <2>8. PICK p \in 1..Len(x) : Alike(x[p], nets[o])
    BY <1>14, <2>7
  <2> QED
    BY <2>2, <2>8 DEF Alike
<1>19. ActiveLive(session')
  <2>1. CASE top.active \in IdsOf(session')
    <3>1. PICK k \in 1..Len(x) : x[k].id = top.active
      <4>1. \E k \in 1..Len(session'.nets) : session'.nets[k].id = top.active
        BY <1>8, <2>1, KnownIs
      <4> QED
        BY <1>3, <4>1
    <3>2. x # <<>> /\ top.active # None
      BY <1>3, <1>8, <3>1, SomeNets
    <3> QED
      BY <1>3, <1>9, <2>1, <3>1, <3>2 DEF ActiveLive
  <2>2. CASE top.active \notin IdsOf(session')
    <3>1. session'.active = FirstOf(session')
      BY <1>9, <2>2
    <3>2. session'.nets # <<>> =>
            session'.active # None /\ \E k \in 1..Len(session'.nets) : session'.nets[k].id = session'.active
      BY <1>8, <3>1, FirstIs, KnownIs
    <3>3. session'.nets = <<>> => session'.active = None
      BY <1>8, <3>1, FirstIs
    <3> QED
      BY <3>2, <3>3 DEF ActiveLive
  <2> QED
    BY <2>1, <2>2
<1>20. SelectionLive(session')
  <2> SUFFICES ASSUME session'.selection # Nothing
               PROVE  \E k \in 1..Len(x) : x[k].id = session'.selection.net
                                           /\ x[k].object = session'.selection.object
    BY <1>3 DEF SelectionLive
  <2>1. session'.selection = top.selection /\ top.selection.net \in IdsOf(session')
        /\ top.selection = b.selection /\ b.selection # Nothing
    BY <1>5, <1>7, <1>9 DEF Saved
  <2>2. PICK k \in 1..Len(x) : x[k].id = top.selection.net
    <3>1. \E k \in 1..Len(session'.nets) : session'.nets[k].id = top.selection.net
      BY <1>8, <2>1, KnownIs
    <3> QED
      BY <1>3, <3>1
  <2>3. PICK i \in 1..Len(b.nets) : b.nets[i].id = top.selection.net /\ b.nets[i].object = top.selection.object
    BY <1>7, <2>1 DEF Live, SelectionLive
  <2>4. PICK m \in 1..Len(b.nets) : Comes(x[k], b.nets[m])
    BY <1>15
  <2>5. m = i
    BY <1>7, <2>2, <2>3, <2>4 DEF Live, Apart, Comes
  <2> QED
    BY <2>1, <2>2, <2>3, <2>4, <2>5 DEF Comes
<1> QED
  BY <1>1, <1>3, <1>5, <1>8, <1>14, <1>16, <1>17, <1>18, <1>19, <1>20 DEF Live

\* Steps that leave the frames' records as they are.
LEMMA InsideRefs ==
  ASSUME TypeInv, RefsInv, Live(session', serial), UNCHANGED <<undo, serial>>,
         Descends(session', session), Len(running') <= Len(running),
         \A k \in 1..Len(running') : Same(running'[k], running[k])
  PROVE  RefsInv'
<1>1. Len(running) \in Nat /\ \A k \in 1..Len(running') : k \in 1..Len(running)
  BY DEF TypeInv, FramesInv
<1>2. \A k \in 1..Len(running') :
        /\ running'[k].mark = running[k].mark /\ running'[k].before = running[k].before
        /\ running'[k].active = running[k].active /\ running'[k].selection = running[k].selection
        /\ running'[k].style = running[k].style
  BY DEF Same
<1>3. ASSUME NEW i \in 1..Len(running')
      PROVE  /\ Live(running'[i].before, serial) /\ Saved(running'[i])
             /\ Grown(undo, running'[i].mark, Len(undo), running'[i].before, session')
  <2>1. /\ Live(running[i].before, serial) /\ Saved(running[i])
        /\ Grown(undo, running[i].mark, Len(undo), running[i].before, session)
    BY <1>1 DEF RefsInv
  <2>2. Grown(undo, running[i].mark, Len(undo), running[i].before, session')
    BY <2>1, GrownFollows
  <2> QED
    BY <1>2, <2>1, <2>2 DEF Saved
<1>4. ASSUME NEW i \in 1..Len(running'), NEW j \in 1..Len(running'), i < j
      PROVE  Grown(undo, running'[i].mark, running'[j].mark, running'[i].before, running'[j].before)
  BY <1>1, <1>2, <1>4 DEF RefsInv
<1> QED
  BY <1>3, <1>4 DEF RefsInv

LEMMA QuietRefs ==
  ASSUME TypeInv, RefsInv, UNCHANGED <<session, running, undo, serial>>
  PROVE  RefsInv'
BY DEF RefsInv

LEMMA IdleRefs ==
  ASSUME Live(session', serial'), running' = <<>>
  PROVE  RefsInv'
BY DEF RefsInv

LEMMA BeginRefs ==
  ASSUME TypeInv, RefsInv, Begin
  PROVE  RefsInv'
<1>1. PICK frame : frame =
        [mark |-> Len(undo), active |-> session.active, selection |-> session.selection,
         style |-> session.style, did |-> <<>>, nested |-> <<>>, before |-> session]
  OBVIOUS
<1>2. running' = Append(running, frame) /\ UNCHANGED <<session, undo, serial>>
  BY <1>1 DEF Begin
<1>3. running \in Seq(FrameType) /\ Len(running) \in Nat /\ Len(undo) \in Nat
  BY DEF TypeInv, FramesInv
<1>4. /\ Len(running') = Len(running) + 1 /\ running'[Len(running) + 1] = frame
      /\ \A k \in 1..Len(running) : running'[k] = running[k]
  BY <1>2, <1>3
<1>5. frame.mark = Len(undo) /\ frame.before = session /\ Saved(frame)
  BY <1>1 DEF Saved
<1>6. Grown(undo, Len(undo), Len(undo), session, session)
  <2>1. (Len(undo) + 1)..Len(undo) = {}
    BY <1>3
  <2>2. \A id : ~Derives(undo, Len(undo), Len(undo), id)
    BY <2>1 DEF Derives
  <2>3. \A k \in 1..Len(session.nets) : Comes(session.nets[k], session.nets[k])
    BY DEF Comes
  <2> QED
    BY <2>2, <2>3 DEF Grown
<1>7. ASSUME NEW i \in 1..Len(running')
      PROVE  /\ Live(running'[i].before, serial) /\ Saved(running'[i])
             /\ Grown(undo, running'[i].mark, Len(undo), running'[i].before, session)
  <2>1. CASE i = Len(running) + 1
    BY <1>4, <1>5, <1>6, <2>1 DEF RefsInv
  <2>2. CASE i \in 1..Len(running)
    BY <1>4, <2>2 DEF RefsInv
  <2> QED
    BY <1>3, <1>4, <2>1, <2>2
<1>8. ASSUME NEW i \in 1..Len(running'), NEW j \in 1..Len(running'), i < j
      PROVE  Grown(undo, running'[i].mark, running'[j].mark, running'[i].before, running'[j].before)
  <2>1. i \in 1..Len(running) /\ running'[i] = running[i]
    BY <1>3, <1>4, <1>8
  <2>2. CASE j = Len(running) + 1
    BY <1>4, <1>5, <2>1, <2>2 DEF RefsInv
  <2>3. CASE j \in 1..Len(running)
    BY <1>4, <1>8, <2>1, <2>3 DEF RefsInv
  <2> QED
    BY <1>3, <1>4, <2>2, <2>3
<1> QED
  BY <1>2, <1>7, <1>8 DEF RefsInv

\* A handler does what can be undone.
LEMMA RecordedRefs ==
  ASSUME TypeInv, RefsInv, NEW u \in UndoType, undo' = Append(undo, u),
         Live(session', serial'), serial' \in {serial, serial + 1},
         Len(running') = Len(running),
         \A k \in 1..Len(running) : Same(running'[k], running[k]),
         \A i \in 1..Len(running) :
           Grown(Append(undo, u), running[i].mark, Len(undo) + 1, running[i].before, session')
  PROVE  RefsInv'
<1>1. /\ Len(running) \in Nat /\ undo \in Seq(UndoType) /\ Len(undo) \in Nat /\ serial \in Nat
      /\ Len(undo') = Len(undo) + 1 /\ \A l \in 1..Len(undo) : undo'[l] = undo[l]
  BY BoundsAssumption DEF TypeInv, FramesInv, SessionInv
<1>2. \A k \in 1..Len(running) :
        /\ running'[k].mark = running[k].mark /\ running'[k].before = running[k].before
        /\ running'[k].active = running[k].active /\ running'[k].selection = running[k].selection
        /\ running'[k].style = running[k].style
  BY DEF Same
<1>3. ASSUME NEW i \in 1..Len(running)
      PROVE  /\ Live(running'[i].before, serial') /\ Saved(running'[i])
             /\ Grown(undo', running'[i].mark, Len(undo'), running'[i].before, session')
  <2>1. Live(running[i].before, serial) /\ Saved(running[i])
    BY DEF RefsInv
  <2>2. Live(running[i].before, serial')
    BY <1>1, <2>1, LiveLater
  <2>3. Saved(running'[i])
    BY <1>2, <2>1 DEF Saved
  <2> QED
    BY <1>1, <1>2, <2>2, <2>3
<1>4. ASSUME NEW i \in 1..Len(running), NEW j \in 1..Len(running), i < j
      PROVE  Grown(undo', running'[i].mark, running'[j].mark, running'[i].before, running'[j].before)
  <2>1. Grown(undo, running[i].mark, running[j].mark, running[i].before, running[j].before)
    BY <1>4 DEF RefsInv
  <2>2. running[i].mark \in Nat /\ running[j].mark \in Nat /\ running[j].mark <= Len(undo)
    BY FrameIs, ElementOfSeq DEF TypeInv, FramesInv
  <2>3. \A l \in (running[i].mark + 1)..running[j].mark : l \in 1..Len(undo)
    BY <1>1, <2>2
  <2>4. \A l \in (running[i].mark + 1)..running[j].mark : undo'[l] = undo[l]
    BY <1>1, <2>3
  <2>5. Grown(undo', running[i].mark, running[j].mark, running[i].before, running[j].before)
    BY <2>1, <2>4, GrownSame
  <2> QED
    BY <1>2, <2>5
<1> QED
  BY <1>3, <1>4 DEF RefsInv

LEMMA TopDoesSame ==
  ASSUME TypeInv, ~Idle, NEW did \in Seq(OpType), NEW entries \in Seq(Entries({Nothing})), TopDoes(did, entries)
  PROVE  Len(running') = Len(running) /\ \A k \in 1..Len(running) : Same(running'[k], running[k])
BY TopDoesIs DEF TypeInv

LEMMA MarksIn ==
  ASSUME TypeInv, NEW i \in 1..Len(running)
  PROVE  running[i].mark \in 0..Len(undo)
<1>1. running[i].mark \in Nat /\ running[i].mark <= Len(undo) /\ Len(undo) \in Nat
  BY FrameIs, ElementOfSeq DEF TypeInv, FramesInv
<1> QED
  BY <1>1

\* The record of an edit, and of a network that was derived.
LEMMA UndoRecords ==
  ASSUME NEW n \in NetworkType, NEW id \in 1..MaxNets
  PROVE  /\ [kind |-> "mutated", object |-> n.object, id |-> n.id,
             edits |-> n.edits, version |-> n.version] \in UndoType
         /\ [kind |-> "derived", object |-> 0, id |-> id, edits |-> 0, version |-> 0] \in UndoType
<1>1. 0 \in Objects /\ 1..MaxNets \subseteq Objects
  BY BoundsAssumption DEF Objects
<1>2. n.object \in 1..MaxNets /\ n.id \in 1..MaxNets /\ n.edits \in Nat /\ n.version \in Nat
  BY DEF NetworkType
<1> QED
  BY <1>1, <1>2 DEF UndoType

LEMMA MutateInsideRefs ==
  ASSUME TypeInv, RefsInv, NEW id \in Ids, MutateInside(id)
  PROVE  RefsInv'
<1>1. PICK n : n = session.nets[At(session, id)]
  OBVIOUS
<1>2. PICK u : u = [kind |-> "mutated", object |-> n.object, id |-> n.id,
                    edits |-> n.edits, version |-> n.version]
  OBVIOUS
<1>3. /\ ~Idle /\ Known(session, id) /\ undo' = Append(undo, u) /\ session' = Edit(session, id)
      /\ TopDoes(<<Op("edit", id)>>, <<>>) /\ serial' = serial
  BY <1>1, <1>2 DEF MutateInside
<1>4. session \in SessionType /\ undo \in Seq(UndoType) /\ 1 \in 1..MaxNets
  BY BoundsAssumption DEF TypeInv, SessionInv, FramesInv
<1>5. n \in NetworkType
  BY <1>1, <1>3, <1>4, AtIs
<1>6. u \in UndoType /\ u.kind # "derived"
  BY <1>2, <1>4, <1>5, UndoRecords
<1>7. Live(session', serial) /\ Descends(session', session)
  BY <1>3, EditLive DEF RefsInv
<1>8. <<Op("edit", id)>> \in Seq(OpType) /\ <<>> \in Seq(Entries({Nothing}))
  BY IdOps
<1>9. Len(running') = Len(running) /\ \A k \in 1..Len(running) : Same(running'[k], running[k])
  BY <1>3, <1>8, TopDoesSame
<1>10. ASSUME NEW i \in 1..Len(running)
       PROVE  Grown(Append(undo, u), running[i].mark, Len(undo) + 1, running[i].before, session')
  <2>1. Grown(undo, running[i].mark, Len(undo), running[i].before, session)
    BY DEF RefsInv
  <2>2. Grown(undo, running[i].mark, Len(undo), running[i].before, session')
    BY <1>7, <2>1, GrownFollows
  <2> QED
    BY <1>4, <1>6, <2>2, MarksIn, GrownEdited
<1> QED
  BY <1>3, <1>6, <1>7, <1>9, <1>10, RecordedRefs

\* The copy of a network is registered.
LEMMA DeriveLive ==
  ASSUME TypeInv, RefsInv, NEW id \in Ids, Known(session, id), serial < MaxNets,
         session' = Derive(session, serial + 1, id)
  PROVE  /\ Live(session', serial + 1)
         /\ \E h \in NetworkType : /\ session'.nets = Append(session.nets, h)
                                   /\ h.id = FreshId(session) /\ h.object = serial + 1
         /\ FreshId(session) \in 1..MaxNets /\ FreshId(session) \notin IdsOf(session)
<1>1. /\ session \in SessionType /\ Len(session.nets) < MaxNets /\ serial + 1 \in 1..MaxNets
      /\ serial \in Nat
  BY RoomIs, BoundsAssumption DEF TypeInv, SessionInv
<1>2. PICK b : b = session.nets[At(session, id)]
  OBVIOUS
<1>3. PICK h : h = Handle(FreshId(session), serial + 1, b.source, b.edits, b.id, b.object)
  OBVIOUS
<1>4. /\ h \in NetworkType /\ session' \in SessionType /\ session'.nets = Append(session.nets, h)
      /\ session'.active = session.active /\ session'.selection = session.selection
  BY <1>1, <1>2, <1>3, DeriveIs
<1>5. h.id = FreshId(session) /\ h.object = serial + 1 /\ h.from = b.id /\ h.fromObject = b.object
  BY <1>3 DEF Handle
<1>6. FreshId(session) \in 1..MaxNets /\ FreshId(session) \notin IdsOf(session)
  BY <1>1, FreshIs
<1>7. At(session, id) \in 1..Len(session.nets)
  BY <1>1, AtIs
<1>8. \E i \in 1..Len(session.nets) : session.nets[i].id = h.from /\ session.nets[i].object = h.fromObject
  BY <1>2, <1>5, <1>7
<1>9. session.active # None
  <2>1. session.nets # <<>>
    BY <1>1, <1>7, SomeNets
  <2> QED
    BY <2>1 DEF RefsInv, Live, ActiveLive
<1>10. Live(session, serial)
  BY DEF RefsInv
<1>11. Live(session', serial + 1)
  BY <1>1, <1>4, <1>5, <1>6, <1>8, <1>9, <1>10, AppendLive
<1> QED
  BY <1>4, <1>5, <1>6, <1>11

LEMMA DeriveInsideRefs ==
  ASSUME TypeInv, RefsInv, NEW id \in Ids, DeriveInside(id)
  PROVE  RefsInv'
<1>1. PICK u : u = [kind |-> "derived", object |-> 0, id |-> FreshId(session), edits |-> 0, version |-> 0]
  OBVIOUS
<1>2. /\ ~Idle /\ Known(session, id) /\ serial < MaxNets /\ undo' = Append(undo, u)
      /\ session' = Derive(session, serial + 1, id)
      /\ TopDoes(<<Op("derive", id)>>, <<>>) /\ serial' = serial + 1
  BY <1>1 DEF DeriveInside
<1>3. session \in SessionType /\ undo \in Seq(UndoType) /\ serial \in Nat
  BY BoundsAssumption DEF TypeInv, SessionInv, FramesInv
<1>4. /\ Live(session', serial + 1)
      /\ FreshId(session) \in 1..MaxNets /\ FreshId(session) \notin IdsOf(session)
  BY <1>2, DeriveLive
<1>5. PICK h \in NetworkType : /\ session'.nets = Append(session.nets, h)
                               /\ h.id = FreshId(session) /\ h.object = serial + 1
  BY <1>2, DeriveLive
<1>6. u \in UndoType /\ u.kind = "derived" /\ u.id = h.id
  BY <1>1, <1>4, <1>5, UndoRecords
<1>7. <<Op("derive", id)>> \in Seq(OpType) /\ <<>> \in Seq(Entries({Nothing}))
  BY IdOps
<1>8. Len(running') = Len(running) /\ \A k \in 1..Len(running) : Same(running'[k], running[k])
  BY <1>2, <1>7, TopDoesSame
<1>9. ASSUME NEW i \in 1..Len(running)
      PROVE  Grown(Append(undo, u), running[i].mark, Len(undo) + 1, running[i].before, session')
  <2>1. Grown(undo, running[i].mark, Len(undo), running[i].before, session)
        /\ Live(running[i].before, serial)
    BY DEF RefsInv
  <2>2. \A m \in 1..Len(running[i].before.nets) : running[i].before.nets[m].object # h.object
    BY <1>3, <1>5, <2>1, LiveLater
  <2>3. running[i].mark \in 0..Len(undo) /\ u.id \notin IdsOf(session)
    BY <1>4, <1>5, <1>6, MarksIn
  <2> QED
    BY <1>3, <1>5, <1>6, <2>1, <2>2, <2>3, GrownDerived
<1> QED
  BY <1>2, <1>4, <1>6, <1>8, <1>9, RecordedRefs

LEMMA EndOkRefs ==
  ASSUME TypeInv, RefsInv, EndOk
  PROVE  RefsInv'
<1>1. FramesInv /\ LogInv /\ UNCHANGED <<session, serial>>
  BY DEF EndOk, TypeInv
<1>2. Live(session, serial)
  BY DEF RefsInv
<1>3. CASE Len(running) = 1
  BY <1>1, <1>2, <1>3, EndOkIs, IdleRefs
<1>4. CASE Len(running) # 1
  <2>1. Popped /\ undo' = undo /\ Len(running') <= Len(running)
    BY <1>1, <1>4, EndOkIs DEF Popped
  <2> QED
    BY <1>1, <1>2, <2>1, InsideRefs, SameDescends DEF Popped
<1> QED
  BY <1>3, <1>4

LEMMA RollBackRefs ==
  ASSUME TypeInv, RefsInv, ~Idle, RollBack(Top), Popped, UNCHANGED serial
  PROVE  RefsInv'
<1>1. /\ SessionInv /\ FramesInv /\ Len(undo) \in Nat
  BY DEF TypeInv, FramesInv
<1>2. PICK top : top = Top
  OBVIOUS
<1>3. /\ Len(running) \in Nat /\ Len(running) >= 1 /\ Len(running) \in 1..Len(running)
      /\ top = running[Len(running)] /\ top.mark \in 0..Len(undo)
  BY <1>1, <1>2, TopIs
<1>4. Live(session', serial) /\ Descends(session', top.before)
  BY <1>1, <1>2, RolledBackLive
<1>5. Len(undo') = top.mark /\ \A l \in 1..top.mark : undo'[l] = undo[l]
  BY <1>1, <1>2, RollBackIs
<1>6. Len(running') = Len(running) - 1 /\ \A k \in 1..Len(running') : Same(running'[k], running[k])
  BY DEF Popped
<1>7. \A k \in 1..Len(running') :
        /\ running'[k].mark = running[k].mark /\ running'[k].before = running[k].before
        /\ running'[k].active = running[k].active /\ running'[k].selection = running[k].selection
        /\ running'[k].style = running[k].style
  BY <1>6 DEF Same
<1>8. \A k \in 1..Len(running') : k \in 1..Len(running) /\ k < Len(running)
  BY <1>3, <1>6
<1>9. \A i, j \in 1..Len(running) : i <= j => running[i].mark \in Nat /\ running[i].mark <= running[j].mark
  BY <1>1, MarksIn DEF FramesInv
<1>10. ASSUME NEW i \in 1..Len(running')
       PROVE  /\ Live(running'[i].before, serial) /\ Saved(running'[i])
              /\ Grown(undo', running'[i].mark, Len(undo'), running'[i].before, session')
  <2>1. Live(running[i].before, serial) /\ Saved(running[i])
    BY <1>8 DEF RefsInv
  <2>2. Grown(undo, running[i].mark, top.mark, running[i].before, top.before)
    BY <1>3, <1>8 DEF RefsInv
  <2>3. Grown(undo, running[i].mark, top.mark, running[i].before, session')
    BY <1>4, <2>2, GrownFollows
  <2>4. running[i].mark \in Nat /\ top.mark \in Nat
    BY <1>1, <1>3, <1>8, <1>9
  <2>5. \A l \in (running[i].mark + 1)..top.mark : l \in 1..top.mark
    BY <2>4
  <2>6. Grown(undo', running[i].mark, top.mark, running[i].before, session')
    BY <1>5, <2>3, <2>5, GrownSame
  <2>7. Saved(running'[i])
    BY <1>7, <2>1 DEF Saved
  <2> QED
    BY <1>5, <1>7, <2>1, <2>6, <2>7
<1>11. ASSUME NEW i \in 1..Len(running'), NEW j \in 1..Len(running'), i < j
       PROVE  Grown(undo', running'[i].mark, running'[j].mark, running'[i].before, running'[j].before)
  <2>1. Grown(undo, running[i].mark, running[j].mark, running[i].before, running[j].before)
    BY <1>8, <1>11 DEF RefsInv
  <2>2. running[i].mark \in Nat /\ running[j].mark \in Nat /\ running[j].mark <= top.mark /\ top.mark \in Nat
    BY <1>1, <1>3, <1>8, <1>9
  <2>3. \A l \in (running[i].mark + 1)..running[j].mark : l \in 1..top.mark
    BY <2>2
  <2>4. Grown(undo', running[i].mark, running[j].mark, running[i].before, running[j].before)
    BY <1>5, <2>1, <2>3, GrownSame
  <2> QED
    BY <1>7, <2>4
<1> QED
  BY <1>4, <1>10, <1>11 DEF RefsInv

LEMMA EndFailsRefs ==
  ASSUME TypeInv, RefsInv, EndFails \/ EndAborts
  PROVE  RefsInv'
<1>1. FramesInv /\ LogInv
  BY DEF TypeInv
<1>2. ~Idle /\ RollBack(Top) /\ Popped
  BY <1>1, EndFailsIs, EndAbortsIs
<1>3. UNCHANGED serial
  BY DEF EndFails, EndAborts
<1> QED
  BY <1>2, <1>3, RollBackRefs

LEMMA CoreRefs ==
  ASSUME TypeInv, RefsInv, NEW op \in CoreOps, CoreAction(op) \/ NestedAction(op)
  PROVE  RefsInv'
<1>1. Live(session, serial) /\ serial' = serial
      /\ session' = IF Accepts(session, op) THEN Do(session, op, 0) ELSE session
  BY DEF RefsInv, CoreAction, NestedAction
<1>2. Live(session', serial) /\ Descends(session', session)
  <2>1. CASE Accepts(session, op)
    BY <1>1, <2>1, DoLive
  <2>2. CASE ~Accepts(session, op)
    BY <1>1, <2>2, SameDescends
  <2> QED
    BY <2>1, <2>2
<1>3. CASE CoreAction(op)
  <2>1. running' = <<>>
    BY <1>3 DEF CoreAction, work, Idle
  <2> QED
    BY <1>1, <1>2, <2>1, IdleRefs
<1>4. CASE NestedAction(op)
  <2>1. PICK entry : entry = Entry(Accepts(session, op), <<op>>, Nothing)
    OBVIOUS
  <2>2. ~Idle /\ TopDoes(entry.did, <<entry>>) /\ undo' = undo
    BY <1>4, <2>1 DEF NestedAction
  <2>3. entry.did \in Seq(OpType) /\ entry \in Entries({Nothing})
    BY <2>1, CoreOpIs, AcceptsIs, OpEntry
  <2>4. <<entry>> \in Seq(Entries({Nothing}))
    BY <2>3
  <2>5. Len(running') = Len(running) /\ \A k \in 1..Len(running) : Same(running'[k], running[k])
    BY <2>2, <2>3, <2>4, TopDoesSame
  <2>6. Len(running) \in Nat
    BY DEF TypeInv, FramesInv
  <2>7. Len(running') <= Len(running)
    BY <2>5, <2>6
  <2> QED
    BY <1>1, <1>2, <2>2, <2>5, <2>7, InsideRefs
<1> QED
  BY <1>3, <1>4

LEMMA OutsideRefs ==
  ASSUME TypeInv, RefsInv, NEW id \in Ids, MutateOutside(id) \/ DeriveOutside(id)
  PROVE  RefsInv'
<1>1. running' = <<>>
  BY DEF MutateOutside, DeriveOutside, work, Idle
<1>2. Live(session', serial')
  <2>1. CASE MutateOutside(id)
    <3>1. Live(session, serial) /\ Known(session, id) /\ session' = Edit(session, id) /\ serial' = serial
      BY <2>1 DEF RefsInv, MutateOutside
    <3> QED
      BY <3>1, EditLive
  <2>2. CASE DeriveOutside(id)
    <3>1. /\ Known(session, id) /\ serial < MaxNets
          /\ session' = Derive(session, serial + 1, id) /\ serial' = serial + 1
      BY <2>2 DEF DeriveOutside
    <3> QED
      BY <3>1, DeriveLive
  <2> QED
    BY <2>1, <2>2
<1> QED
  BY <1>1, <1>2, IdleRefs

LEMMA RegisteringRefs ==
  ASSUME TypeInv, RefsInv, AddNetwork \/ \E j \in Jobs : Commit(j)
  PROVE  RefsInv'
<1>1. running' = <<>> /\ serial < MaxNets /\ serial' = serial + 1
  BY DEF AddNetwork, Commit, work, Idle
<1>2. /\ session \in SessionType /\ Len(session.nets) < MaxNets
      /\ serial \in Nat /\ Live(session, serial) /\ SessionInv
  BY <1>1, RoomIs, BoundsAssumption DEF TypeInv, SessionInv, RefsInv
<1>3. FreshId(session) \notin IdsOf(session)
  BY <1>2, FreshIs
<1>4. \A source : LET h == Handle(FreshId(session), serial + 1, source, 0, None, 0)
                  IN  h.id = FreshId(session) /\ h.object = serial + 1 /\ h.from = 0
  BY DEF Handle, None
<1>5. 0 \notin 1..MaxNets
  BY BoundsAssumption
<1>6. CASE AddNetwork
  <2>1. PICK h : h = Handle(FreshId(session), serial + 1, Nothing, 0, None, 0)
    OBVIOUS
  <2>2. /\ h \in NetworkType /\ session' \in SessionType /\ session'.nets = Append(session.nets, h)
        /\ session'.active = IF session.active = None THEN FreshId(session) ELSE session.active
        /\ session'.selection = session.selection
    BY <1>2, <1>6, <2>1, AddNetworkIs
  <2>3. h.id = FreshId(session) /\ h.object = serial + 1 /\ h.from = 0
    BY <1>4, <2>1
  <2>4. Live(session', serial + 1)
    BY <1>2, <1>3, <1>5, <2>2, <2>3, AppendLive
  <2> QED
    BY <1>1, <2>4, IdleRefs
<1>7. ASSUME NEW j \in Jobs, Commit(j) PROVE RefsInv'
  <2>1. PICK h : h = Handle(FreshId(session), serial + 1, j, 0, None, 0)
    OBVIOUS
  <2>2. /\ h \in NetworkType /\ session' \in SessionType /\ session'.nets = Append(session.nets, h)
        /\ session'.active = FreshId(session) /\ session'.selection = session.selection
    BY <1>2, <1>7, <2>1, CommitIs
  <2>3. h.id = FreshId(session) /\ h.object = serial + 1 /\ h.from = 0
    BY <1>4, <2>1
  <2>4. Live(session', serial + 1)
    BY <1>2, <1>3, <1>5, <2>2, <2>3, AppendLive
  <2> QED
    BY <1>1, <2>4, IdleRefs
<1> QED
  BY <1>6, <1>7

LEMMA SelectRefs ==
  ASSUME TypeInv, RefsInv, NEW r \in Selectors, Select(r)
  PROVE  RefsInv'
<1>1. running' = <<>> /\ serial' = serial /\ Live(session, serial)
  BY DEF Select, work, Idle, RefsInv
<1>2. PICK p : p = prepared[r]
  OBVIOUS
<1>3. PICK k : k = At(session, p.arg)
  OBVIOUS
<1>4. CASE ~Unchanged(p)
  BY <1>1, <1>2, <1>4, SelectIs, IdleRefs
<1>5. CASE Unchanged(p)
  <2>1. /\ p \in PreparedType /\ k \in 1..Len(session.nets) /\ session.nets[k] \in NetworkType
        /\ session' \in SessionType /\ session'.selection = Payload(session.nets[k], p.edits)
        /\ session'.nets = session.nets /\ session'.active = session.active
    BY <1>2, <1>3, <1>5, SelectIs
  <2>2. p.edits \in Nat
    BY <2>1 DEF PreparedType
  <2>3. /\ session'.selection.net = session.nets[k].id
        /\ session'.selection.object = session.nets[k].object
    BY <2>1, <2>2, PayloadIs
  <2>4. SelectionLive(session')
    BY <2>1, <2>3 DEF SelectionLive
  <2>5. ActiveLive(session')
    BY <1>1, <2>1 DEF Live, ActiveLive
  <2> QED
    BY <1>1, <2>1, <2>4, <2>5, ViewLive, IdleRefs
<1> QED
  BY <1>4, <1>5

LEMMA InitRefs == Init => RefsInv
<1> SUFFICES ASSUME Init PROVE RefsInv
  OBVIOUS
<1>1. PICK h : h = Handle(1, 1, Nothing, 0, None, 0)
  OBVIOUS
<1>2. session = [nets |-> <<h>>, active |-> 1, selection |-> Nothing, style |-> FALSE]
      /\ running = <<>> /\ serial = 1
  BY <1>1 DEF Init, Launched
<1>3. h.id = 1 /\ h.object = 1 /\ h.from = 0
  BY <1>1 DEF Handle, None
<1>4. PICK nets : nets = <<h>>
  OBVIOUS
<1>5. nets # <<>> /\ 1..Len(nets) = {1} /\ nets[1] = h
  BY <1>4
<1>6. Apart(nets) /\ Numbered(nets, 1) /\ BasesLive(nets)
  <2>1. 0 \notin 1..MaxNets
    BY BoundsAssumption
  <2> QED
    BY <1>3, <1>5, <2>1 DEF Apart, Numbered, BasesLive
<1>7. session.nets = nets /\ session.active = 1 /\ session.selection = Nothing
  BY <1>2, <1>4
<1>8. ActiveLive(session) /\ SelectionLive(session)
  BY <1>3, <1>5, <1>7 DEF ActiveLive, SelectionLive, None
<1>9. session \in SessionType
  BY InitTypes DEF TypeInv, SessionInv
<1>10. Live(session, serial)
  BY <1>2, <1>6, <1>7, <1>8, <1>9 DEF Live
<1> QED
  BY <1>2, <1>10 DEF RefsInv

LEMMA NextRefs == TypeInv /\ RefsInv /\ [Next]_vars => RefsInv'
<1> SUFFICES ASSUME TypeInv, RefsInv, [Next]_vars PROVE RefsInv'
  OBVIOUS
<1>1. CASE UNCHANGED vars
  BY <1>1, QuietRefs DEF vars, work
<1>2. ASSUME NEW op \in CoreOps, CoreAction(op) \/ NestedAction(op) PROVE RefsInv'
  BY <1>2, CoreRefs
<1>3. CASE Begin \/ EndOk \/ EndFails \/ EndAborts
  BY <1>3, BeginRefs, EndOkRefs, EndFailsRefs
<1>4. CASE AddNetwork \/ \E j \in Jobs : Commit(j)
  BY <1>4, RegisteringRefs
<1>5. ASSUME NEW id \in 0..MaxNets,
             MutateInside(id) \/ MutateOutside(id) \/ DeriveInside(id) \/ DeriveOutside(id)
      PROVE  RefsInv'
  BY <1>5, MutateInsideRefs, DeriveInsideRefs, OutsideRefs DEF Ids
<1>6. ASSUME NEW j \in Jobs, Load(j, "loaded") \/ Load(j, "finish") \/ Finish(j) PROVE RefsInv'
  BY <1>6, QuietRefs DEF Load, Finish, work
<1>7. ASSUME NEW r \in Selectors, (\E id \in 0..MaxNets : Prepare(r, id)) \/ Parse(r) \/ ParseFails(r)
      PROVE  RefsInv'
  BY <1>7, QuietRefs DEF Prepare, Parse, ParseFails, work
<1>8. ASSUME NEW r \in Selectors, Select(r) PROVE RefsInv'
  BY <1>8, SelectRefs
<1> QED
  BY <1>1, <1>2, <1>3, <1>4, <1>5, <1>6, <1>7, <1>8 DEF Next

\* The active network, the selection and the base of a copy are networks that
\* are open, and the very ones they were made for, whatever closes, derives,
\* fails and is rolled back in between, and although ids are used again.
THEOREM ReferencesLive == Spec => []ReferencesAreLive
<1>1. RefsInv => ReferencesAreLive
  <2> SUFFICES ASSUME RefsInv PROVE ReferencesAreLive
    OBVIOUS
  <2>1. /\ session \in SessionType /\ Apart(session.nets) /\ BasesLive(session.nets)
        /\ ActiveLive(session) /\ SelectionLive(session)
    BY DEF RefsInv, Live
  <2>2. /\ DOMAIN session.nets = 1..Len(session.nets)
        /\ Range(session.nets) = {session.nets[k] : k \in 1..Len(session.nets)}
    BY <2>1, SessionIs DEF Range
  <2>3. Cardinality(IdsOf(session)) = Len(session.nets)
    BY <2>1, IdsAre DEF Apart
  <2>4. session.active # None => session.active \in IdsOf(session)
    BY <2>1, <2>2 DEF ActiveLive, IdsOf
  <2>5. session.selection # Nothing =>
          \E n \in Range(session.nets) :
            n.id = session.selection.net /\ n.object = session.selection.object
    BY <2>1, <2>2 DEF SelectionLive
  <2>6. \A n \in Range(session.nets) : n.from \in 1..MaxNets =>
          \E m \in Range(session.nets) : m.id = n.from /\ m.object = n.fromObject
    BY <2>1, <2>2 DEF BasesLive
  <2> QED
    BY <2>1, <2>3, <2>4, <2>5, <2>6 DEF ReferencesAreLive, ActiveLive
<1> QED
  BY <1>1, InitTypes, NextTypes, InitRefs, NextRefs, PTL DEF Spec

-----------------------------------------------------------------------------
(* Failed Actions.                                                         *)

\* Undoing one more record, the latest, is undoing it and then the others.
LEMMA UndoneMore ==
  ASSUME NEW records \in Seq(UndoType), NEW u \in UndoType, NEW nets \in Seq(NetworkType)
  PROVE  Undone(Append(records, u), nets) = Undone(records, UndoOne(u, nets))
<1> DEFINE V == Seq(NetworkType)
           n == Len(records)
           all == Append(records, u)
           step == [k \in 1..n |-> [x \in V |-> UndoOne(records[n - k + 1], x)]]
<1>1. /\ n \in Nat /\ all \in Seq(UndoType) /\ Len(all) = n + 1 /\ all[n + 1] = u
      /\ \A k \in 1..n : all[k] = records[k] /\ records[k] \in UndoType
  BY ElementOfSeq
<1>2. \A k \in 1..n : n - k + 1 \in 1..n
  BY <1>1
<1>3. step \in Steps(V, n)
  <2>1. \A k \in 1..n : \A x \in V : UndoOne(records[n - k + 1], x) \in V
    BY <1>1, <1>2, UndoOneType
  <2> QED
    BY <2>1 DEF Steps
<1>4. UndoOne(u, nets) \in V
  BY UndoOneType
<1>5. \A k \in 1..n : \A x \in V : step[k][x] = UndoOne(records[n - k + 1], x)
  OBVIOUS
<1>6. n = Len(records)
  OBVIOUS
<1>7. V = Seq(NetworkType)
  OBVIOUS
<1> HIDE DEF step, V, n, all
<1>8. PICK f : IsRun(f, V, n, UndoOne(u, nets), step)
  BY <1>1, <1>3, <1>4, Iterated
<1>9. /\ \A k \in 0..n : f[k] \in V
      /\ f[0] = UndoOne(u, nets) /\ \A k \in 1..n : f[k] = step[k][f[k - 1]]
  BY <1>8 DEF IsRun
<1>10. \A k \in 1..n : k - 1 \in 0..n /\ k \in 0..n
  BY <1>1
<1>11. \A k \in 1..n : f[k] = UndoOne(records[n - k + 1], f[k - 1])
  BY <1>5, <1>9, <1>10
<1>12. Undone(records, UndoOne(u, nets)) = f[n]
  <2> DEFINE good == [k \in 0..n |-> {f[k]}]
  <2>1. \A k \in 0..n : good[k] = {f[k]}
    OBVIOUS
  <2> HIDE DEF good
  <2>2. UndoOne(u, nets) \in good[0]
    BY <1>1, <1>9, <2>1
  <2>3. \A k \in 1..n : \A x \in Seq(NetworkType) :
          x \in good[k - 1] => UndoOne(records[n - k + 1], x) \in good[k]
    BY <1>10, <1>11, <2>1
  <2>4. Undone(records, UndoOne(u, nets)) \in good[n]
    BY <1>4, <1>6, <1>7, <2>2, <2>3, UndoneIs
  <2> QED
    BY <1>1, <2>1, <2>4
<1>13. Undone(all, nets) = f[n]
  <2> DEFINE good == [k \in 0..(n + 1) |-> IF k = 0 THEN {nets} ELSE {f[k - 1]}]
  <2>1. /\ good[0] = {nets}
        /\ \A k \in 1..(n + 1) : good[k] = {f[k - 1]}
    BY <1>1
  <2> HIDE DEF good
  <2>2. nets \in good[0]
    BY <2>1
  <2>3. ASSUME NEW k \in 1..(n + 1), NEW x \in Seq(NetworkType), x \in good[k - 1]
        PROVE  UndoOne(all[(n + 1) - k + 1], x) \in good[k]
    <3>1. CASE k = 1
      <4>1. x = nets /\ (n + 1) - k + 1 = n + 1 /\ good[k] = {f[0]}
        BY <1>1, <2>1, <2>3, <3>1
      <4> QED
        BY <1>1, <1>9, <4>1
    <3>2. CASE k # 1
      <4>1. /\ k - 1 \in 1..n /\ k - 1 \in 1..(n + 1) /\ (k - 1) - 1 = k - 2
            /\ (n + 1) - k + 1 = n - (k - 1) + 1
            /\ n - (k - 1) + 1 \in 1..n
        BY <1>1, <3>2
      <4>2. x = f[(k - 1) - 1]
        BY <2>1, <2>3, <4>1
      <4>3. all[(n + 1) - k + 1] = records[n - (k - 1) + 1]
        BY <1>1, <4>1
      <4>4. UndoOne(all[(n + 1) - k + 1], x) = f[k - 1]
        BY <1>11, <4>1, <4>2, <4>3
      <4> QED
        BY <2>1, <4>4
    <3> QED
      BY <3>1, <3>2
  <2>4. Undone(all, nets) \in good[n + 1]
    <3>1. \A k \in 1..Len(all) : \A x \in Seq(NetworkType) :
            x \in good[k - 1] => UndoOne(all[Len(all) - k + 1], x) \in good[k]
      BY <1>1, <2>3
    <3>2. Undone(all, nets) \in good[Len(all)]
      BY <1>1, <2>2, <3>1, UndoneIs
    <3> QED
      BY <1>1, <3>2
  <2>5. n + 1 \in 1..(n + 1) /\ (n + 1) - 1 = n
    BY <1>1
  <2> QED
    BY <2>1, <2>4, <2>5
<1> QED
  BY <1>12, <1>13 DEF all

LEMMA UndoneNone ==
  ASSUME NEW nets
  PROVE  Undone(<<>>, nets) = nets
<1> DEFINE Made(g) == g = [k \in 0..Len(<<>>) |-> IF k = 0 THEN nets
                           ELSE UndoOne(<<>>[Len(<<>>) - k + 1], g[k - 1])]
           after == CHOOSE g : Made(g)
<1>1. Made([k \in 0..0 |-> nets])
  OBVIOUS
<1>2. Made(after)
  <2>1. \E g : Made(g)
    BY <1>1
  <2> HIDE DEF Made
  <2> QED
    BY <2>1
<1>3. after[0] = nets
  <2> HIDE DEF after
  <2> QED
    BY <1>2
<1>4. Undone(<<>>, nets) = after[Len(<<>>)]
  BY DEF Undone
<1>5. Len(<<>>) = 0
  OBVIOUS
<1> HIDE DEF after
<1> QED
  BY <1>3, <1>4, <1>5

\* What undoing the records from low to high makes of s: what was before.
Exact(us, low, high, before, s) == Undone(SubSeq(us, low + 1, high), s.nets) = before.nets

\* An Action leaves, with what it recorded, what it found.
ExactInv ==
  /\ \A i \in 1..Len(running) :
       Exact(undo, running[i].mark, Len(undo), running[i].before, session)
  /\ \A i, j \in 1..Len(running) : i < j =>
       Exact(undo, running[i].mark, running[j].mark, running[i].before, running[j].before)

LEMMA SamePart ==
  ASSUME NEW us \in Seq(UndoType), NEW vs \in Seq(UndoType), NEW low \in Nat, NEW high \in Nat,
         low <= high, high <= Len(us), high <= Len(vs), \A l \in 1..high : vs[l] = us[l]
  PROVE  SubSeq(vs, low + 1, high) = SubSeq(us, low + 1, high)
<1>1. Len(us) \in Nat /\ Len(vs) \in Nat
  OBVIOUS
<1>2. /\ low + 1 \in 1..(Len(us) + 1) /\ low + 1 \in 1..(Len(vs) + 1) /\ low + 1 <= high + 1
      /\ high \in 0..Len(us) /\ high \in 0..Len(vs)
  BY <1>1
<1>3. PICK m : m = low + 1
  OBVIOUS
<1>4. PICK p : p = SubSeq(us, m, high)
  OBVIOUS
<1>5. PICK q : q = SubSeq(vs, m, high)
  OBVIOUS
<1>6. /\ p \in Seq(UndoType) /\ q \in Seq(UndoType)
      /\ Len(p) = high - m + 1 /\ Len(q) = high - m + 1
      /\ \A i \in 1..(high - m + 1) : p[i] = us[m + i - 1] /\ q[i] = vs[m + i - 1]
  BY <1>2, <1>3, <1>4, <1>5, Part
<1>7. \A i \in 1..(high - m + 1) : m + i - 1 \in 1..high
  BY <1>2, <1>3
<1>8. \A i \in 1..Len(p) : p[i] = q[i]
  BY <1>6, <1>7
<1>9. p = q
  BY <1>6, <1>8, SeqEqual
<1> QED
  BY <1>3, <1>4, <1>5, <1>9

LEMMA LongerPart ==
  ASSUME NEW us \in Seq(UndoType), NEW u \in UndoType, NEW low \in 0..Len(us)
  PROVE  /\ SubSeq(Append(us, u), low + 1, Len(us) + 1) = Append(SubSeq(us, low + 1, Len(us)), u)
         /\ SubSeq(us, low + 1, Len(us)) \in Seq(UndoType)
<1>1. PICK vs : vs = Append(us, u)
  OBVIOUS
<1>2. /\ Len(us) \in Nat /\ vs \in Seq(UndoType) /\ Len(vs) = Len(us) + 1 /\ vs[Len(us) + 1] = u
      /\ \A l \in 1..Len(us) : vs[l] = us[l]
  BY <1>1
<1>3. PICK n : n = Len(us)
  OBVIOUS
<1>4. PICK m : m = low + 1
  OBVIOUS
<1>5. /\ n \in Nat /\ m \in 1..(n + 1) /\ low \in Nat /\ m <= n + 1 /\ m <= (n + 1) + 1
      /\ n \in 0..n /\ n + 1 \in 0..(n + 1) /\ m \in 1..((n + 1) + 1)
  BY <1>2, <1>3, <1>4
<1>6. PICK p : p = SubSeq(us, m, n)
  OBVIOUS
<1>7. PICK q : q = SubSeq(vs, m, n + 1)
  OBVIOUS
<1>8. /\ p \in Seq(UndoType) /\ Len(p) = n - m + 1
      /\ \A i \in 1..(n - m + 1) : p[i] = us[m + i - 1]
  BY <1>3, <1>5, <1>6, Part
<1>9. /\ q \in Seq(UndoType) /\ Len(q) = (n + 1) - m + 1
      /\ \A i \in 1..((n + 1) - m + 1) : q[i] = vs[m + i - 1]
  BY <1>2, <1>3, <1>5, <1>7, Part
<1>10. PICK r : r = Append(p, u)
  OBVIOUS
<1>11. /\ r \in Seq(UndoType) /\ Len(r) = Len(q) /\ Len(q) = Len(p) + 1
       /\ r[Len(p) + 1] = u /\ \A i \in 1..Len(p) : r[i] = p[i]
  BY <1>5, <1>8, <1>9, <1>10
<1>12. ASSUME NEW i \in 1..Len(r) PROVE r[i] = q[i]
  <2>1. CASE i = Len(p) + 1
    <3>1. m + i - 1 = n + 1 /\ i \in 1..((n + 1) - m + 1)
      BY <1>5, <1>8, <2>1
    <3> QED
      BY <1>2, <1>3, <1>9, <1>11, <2>1, <3>1
  <2>2. CASE i # Len(p) + 1
    <3>1. i \in 1..Len(p) /\ i \in 1..(n - m + 1) /\ i \in 1..((n + 1) - m + 1) /\ m + i - 1 \in 1..n
      <4>1. n \in Nat /\ m \in Nat /\ 1 <= m /\ i \in Nat /\ 1 <= i
        BY <1>5, <1>8, <1>11
      <4>2. Len(p) = n - m + 1 /\ Len(r) = n - m + 2 /\ i # n - m + 2 /\ i <= n - m + 2
        BY <1>5, <1>8, <1>11, <2>2
      <4> QED
        BY <4>1, <4>2
    <3> QED
      BY <1>2, <1>3, <1>8, <1>9, <1>11, <3>1
  <2> QED
    BY <2>1, <2>2
<1>13. r = q
  BY <1>9, <1>11, <1>12, SeqEqual
<1> QED
  BY <1>1, <1>3, <1>4, <1>6, <1>7, <1>8, <1>10, <1>13

\* A record undoes what it was made for.
LEMMA UndoesEdit ==
  ASSUME NEW s \in SessionType, Apart(s.nets), NEW id \in Ids, Known(s, id), NEW u \in UndoType,
         u.kind # "derived", u.object = s.nets[At(s, id)].object,
         u.edits = s.nets[At(s, id)].edits, u.version = s.nets[At(s, id)].version
  PROVE  UndoOne(u, Edit(s, id).nets) = s.nets
<1>1. PICK i : i = At(s, id)
  OBVIOUS
<1>2. PICK e : e = Edit(s, id)
  OBVIOUS
<1>3. PICK x : x = UndoOne(u, e.nets)
  OBVIOUS
<1>4. /\ i \in 1..Len(s.nets) /\ e \in SessionType /\ Len(e.nets) = Len(s.nets)
      /\ s.nets[i] \in NetworkType
      /\ \A k \in 1..Len(s.nets) : e.nets[k] = IF k = i THEN Edited(s.nets[i]) ELSE s.nets[k]
  BY <1>1, <1>2, EditIs
<1>5. s.nets \in Seq(NetworkType) /\ e.nets \in Seq(NetworkType)
  BY <1>4, SessionIs
<1>6. /\ x \in Seq(NetworkType) /\ Len(x) = Len(s.nets)
      /\ \A k \in 1..Len(s.nets) :
           /\ x[k].id = e.nets[k].id /\ x[k].object = e.nets[k].object
           /\ x[k].source = e.nets[k].source
           /\ x[k].from = e.nets[k].from /\ x[k].fromObject = e.nets[k].fromObject
           /\ x[k].edits = IF e.nets[k].object = u.object THEN u.edits ELSE e.nets[k].edits
           /\ x[k].version = IF e.nets[k].object = u.object THEN u.version ELSE e.nets[k].version
  BY <1>3, <1>4, <1>5, UndoOneType
<1>7. ASSUME NEW k \in 1..Len(x) PROVE x[k] = s.nets[k]
  <2>1. x[k] \in NetworkType /\ s.nets[k] \in NetworkType /\ k \in 1..Len(s.nets)
    BY <1>5, <1>6, ElementOfSeq
  <2>2. /\ x[k].id = s.nets[k].id /\ x[k].object = s.nets[k].object /\ x[k].source = s.nets[k].source
        /\ x[k].from = s.nets[k].from /\ x[k].fromObject = s.nets[k].fromObject
        /\ x[k].edits = s.nets[k].edits /\ x[k].version = s.nets[k].version
    <3>1. CASE k = i
      <4>1. e.nets[k] = Edited(s.nets[i]) /\ u.object = s.nets[i].object
            /\ u.edits = s.nets[i].edits /\ u.version = s.nets[i].version
        BY <1>1, <1>4, <2>1, <3>1
      <4>2. /\ e.nets[k].id = s.nets[i].id /\ e.nets[k].object = s.nets[i].object
            /\ e.nets[k].source = s.nets[i].source
            /\ e.nets[k].from = s.nets[i].from /\ e.nets[k].fromObject = s.nets[i].fromObject
        BY <1>4, <4>1, EditedIs
      <4>3. e.nets[k].object = u.object
        BY <4>1, <4>2
      <4>4. x[k].edits = u.edits /\ x[k].version = u.version
        BY <1>6, <2>1, <4>3
      <4>5. /\ x[k].id = e.nets[k].id /\ x[k].object = e.nets[k].object /\ x[k].source = e.nets[k].source
            /\ x[k].from = e.nets[k].from /\ x[k].fromObject = e.nets[k].fromObject
        BY <1>6, <2>1
      <4> QED
        BY <3>1, <4>1, <4>2, <4>4, <4>5
    <3>2. CASE k # i
      <4>1. e.nets[k] = s.nets[k]
        BY <1>4, <2>1, <3>2
      <4>2. s.nets[k].object # u.object
        BY <1>1, <1>4, <2>1, <3>2 DEF Apart
      <4> QED
        BY <1>6, <2>1, <4>1, <4>2
    <3> QED
      BY <3>1, <3>2
  <2>3. PICK a : a = x[k]
    OBVIOUS
  <2>4. PICK b : b = s.nets[k]
    OBVIOUS
  <2>5. a \in NetworkType /\ b \in NetworkType
    BY <2>1, <2>3, <2>4
  <2>6. /\ a.id = b.id /\ a.object = b.object /\ a.source = b.source
        /\ a.from = b.from /\ a.fromObject = b.fromObject /\ a.edits = b.edits /\ a.version = b.version
    BY <2>2, <2>3, <2>4
  <2>7. a = b
    BY <2>5, <2>6 DEF NetworkType
  <2> QED
    BY <2>3, <2>4, <2>7
<1>8. x = s.nets
  BY <1>5, <1>6, <1>7, SeqEqual
<1> QED
  BY <1>2, <1>3, <1>8

LEMMA UndoesDerive ==
  ASSUME NEW s \in SessionType, NEW h \in NetworkType, h.id \notin IdsOf(s), NEW u \in UndoType,
         u.kind = "derived", u.id = h.id
  PROVE  UndoOne(u, Append(s.nets, h)) = s.nets
<1>1. PICK nets : nets = Append(s.nets, h)
  OBVIOUS
<1>2. s.nets \in Seq(NetworkType) /\ Len(s.nets) \in Nat /\ DOMAIN s.nets = 1..Len(s.nets)
  BY SessionIs
<1>3. /\ nets \in Seq(NetworkType) /\ Len(nets) = Len(s.nets) + 1 /\ nets[Len(s.nets) + 1] = h
      /\ \A k \in 1..Len(s.nets) : nets[k] = s.nets[k] /\ s.nets[k].id # h.id
      /\ Len(s.nets) + 1 \in 1..Len(nets)
  BY <1>1, <1>2 DEF IdsOf
<1>4. PICK i \in 1..Len(nets) : nets[i].id = h.id /\ Without(nets, h.id) = RemoveAt(nets, i)
  BY <1>3, WithoutIs
<1>5. i = Len(s.nets) + 1
  BY <1>2, <1>3, <1>4
<1>6. PICK x : x = RemoveAt(nets, i)
  OBVIOUS
<1>7. /\ x \in Seq(NetworkType) /\ Len(x) = Len(nets) - 1
      /\ \A k \in 1..(Len(nets) - 1) : x[k] = IF k < i THEN nets[k] ELSE nets[k + 1]
  BY <1>3, <1>6, RemoveAtIs
<1>8. Len(x) = Len(s.nets) /\ \A k \in 1..Len(x) : x[k] = s.nets[k]
  BY <1>2, <1>3, <1>5, <1>7
<1>9. x = s.nets
  BY <1>2, <1>7, <1>8, SeqEqual
<1>10. UndoOne(u, nets) = Without(nets, h.id)
  BY <1>3, UndoOneType
<1> QED
  BY <1>1, <1>4, <1>6, <1>9, <1>10

LEMMA InsideExact ==
  ASSUME TypeInv, ExactInv, session'.nets = session.nets, undo' = undo, Len(running') <= Len(running),
         \A k \in 1..Len(running') : Same(running'[k], running[k])
  PROVE  ExactInv'
<1>1. Len(running) \in Nat /\ \A k \in 1..Len(running') : k \in 1..Len(running)
  BY DEF TypeInv, FramesInv
<1>2. \A k \in 1..Len(running') :
        running'[k].mark = running[k].mark /\ running'[k].before = running[k].before
  BY DEF Same
<1> QED
  BY <1>1, <1>2 DEF ExactInv, Exact

LEMMA IdleExact ==
  ASSUME running' = <<>>
  PROVE  ExactInv'
BY DEF ExactInv

LEMMA QuietExact ==
  ASSUME ExactInv, UNCHANGED <<session, running, undo>>
  PROVE  ExactInv'
BY DEF ExactInv, Exact

LEMMA BeginExact ==
  ASSUME TypeInv, ExactInv, Begin
  PROVE  ExactInv'
<1>1. PICK frame : frame =
        [mark |-> Len(undo), active |-> session.active, selection |-> session.selection,
         style |-> session.style, did |-> <<>>, nested |-> <<>>, before |-> session]
  OBVIOUS
<1>2. running' = Append(running, frame) /\ UNCHANGED <<session, undo>>
      /\ frame.mark = Len(undo) /\ frame.before = session
  BY <1>1 DEF Begin
<1>3. running \in Seq(FrameType) /\ Len(running) \in Nat /\ Len(undo) \in Nat
  BY DEF TypeInv, FramesInv
<1>4. /\ Len(running') = Len(running) + 1 /\ running'[Len(running) + 1] = frame
      /\ \A k \in 1..Len(running) : running'[k] = running[k]
  BY <1>2, <1>3
<1>5. Exact(undo, Len(undo), Len(undo), session, session)
  <2>1. SubSeq(undo, Len(undo) + 1, Len(undo)) = <<>>
    BY <1>3, SubSeqEmpty
  <2> QED
    BY <2>1, UndoneNone DEF Exact
<1>6. ASSUME NEW i \in 1..Len(running')
      PROVE  Exact(undo, running'[i].mark, Len(undo), running'[i].before, session)
  <2>1. CASE i = Len(running) + 1
    BY <1>2, <1>4, <1>5, <2>1
  <2>2. CASE i \in 1..Len(running)
    BY <1>4, <2>2 DEF ExactInv
  <2> QED
    BY <1>3, <1>4, <2>1, <2>2
<1>7. ASSUME NEW i \in 1..Len(running'), NEW j \in 1..Len(running'), i < j
      PROVE  Exact(undo, running'[i].mark, running'[j].mark, running'[i].before, running'[j].before)
  <2>1. i \in 1..Len(running) /\ running'[i] = running[i]
    BY <1>3, <1>4, <1>7
  <2>2. CASE j = Len(running) + 1
    BY <1>2, <1>4, <2>1, <2>2 DEF ExactInv
  <2>3. CASE j \in 1..Len(running)
    BY <1>4, <1>7, <2>1, <2>3 DEF ExactInv
  <2> QED
    BY <1>3, <1>4, <2>2, <2>3
<1> QED
  BY <1>2, <1>6, <1>7 DEF ExactInv

LEMMA RecordedExact ==
  ASSUME TypeInv, ExactInv, NEW u \in UndoType, undo' = Append(undo, u),
         session' \in SessionType, UndoOne(u, session'.nets) = session.nets,
         Len(running') = Len(running),
         \A k \in 1..Len(running) : Same(running'[k], running[k])
  PROVE  ExactInv'
<1>1. /\ Len(running) \in Nat /\ undo \in Seq(UndoType) /\ Len(undo) \in Nat
      /\ undo' \in Seq(UndoType) /\ Len(undo') = Len(undo) + 1
      /\ \A l \in 1..Len(undo) : undo'[l] = undo[l]
  BY DEF TypeInv, FramesInv
<1>2. \A k \in 1..Len(running) :
        running'[k].mark = running[k].mark /\ running'[k].before = running[k].before
  BY DEF Same
<1>3. session'.nets \in Seq(NetworkType)
  BY SessionIs
<1>4. ASSUME NEW i \in 1..Len(running)
      PROVE  Exact(undo', running'[i].mark, Len(undo'), running'[i].before, session')
  <2>1. PICK low : low = running[i].mark
    OBVIOUS
  <2>2. low \in 0..Len(undo)
    BY <2>1, MarksIn
  <2>3. PICK part : part = SubSeq(undo, low + 1, Len(undo))
    OBVIOUS
  <2>4. part \in Seq(UndoType) /\ SubSeq(Append(undo, u), low + 1, Len(undo) + 1) = Append(part, u)
    BY <1>1, <2>2, <2>3, LongerPart
  <2>5. Undone(Append(part, u), session'.nets) = Undone(part, UndoOne(u, session'.nets))
    BY <1>3, <2>4, UndoneMore
  <2>6. Undone(part, session.nets) = running[i].before.nets
    BY <2>1, <2>3 DEF ExactInv, Exact
  <2>7. Undone(SubSeq(undo', low + 1, Len(undo')), session'.nets) = running[i].before.nets
    BY <1>1, <2>4, <2>5, <2>6
  <2> QED
    BY <1>2, <2>1, <2>7 DEF Exact
<1>5. ASSUME NEW i \in 1..Len(running), NEW j \in 1..Len(running), i < j
      PROVE  Exact(undo', running'[i].mark, running'[j].mark, running'[i].before, running'[j].before)
  <2>1. Exact(undo, running[i].mark, running[j].mark, running[i].before, running[j].before)
    BY <1>5 DEF ExactInv
  <2>2. /\ running[i].mark \in Nat /\ running[j].mark \in Nat /\ running[j].mark <= Len(undo)
        /\ running[i].mark <= running[j].mark
    BY <1>5, MarksIn DEF TypeInv, FramesInv
  <2>3. running[j].mark <= Len(undo') /\ \A l \in 1..running[j].mark : undo'[l] = undo[l]
    BY <1>1, <2>2
  <2>4. SubSeq(undo', running[i].mark + 1, running[j].mark) = SubSeq(undo, running[i].mark + 1, running[j].mark)
    BY <1>1, <2>2, <2>3, SamePart
  <2> QED
    BY <1>2, <2>1, <2>4 DEF Exact
<1> QED
  BY <1>4, <1>5 DEF ExactInv

LEMMA MutateInsideExact ==
  ASSUME TypeInv, RefsInv, ExactInv, NEW id \in Ids, MutateInside(id)
  PROVE  ExactInv'
<1>1. PICK n : n = session.nets[At(session, id)]
  OBVIOUS
<1>2. PICK u : u = [kind |-> "mutated", object |-> n.object, id |-> n.id,
                    edits |-> n.edits, version |-> n.version]
  OBVIOUS
<1>3. /\ ~Idle /\ Known(session, id) /\ undo' = Append(undo, u) /\ session' = Edit(session, id)
      /\ TopDoes(<<Op("edit", id)>>, <<>>)
  BY <1>1, <1>2 DEF MutateInside
<1>4. session \in SessionType /\ 1 \in 1..MaxNets /\ Apart(session.nets)
  BY BoundsAssumption DEF TypeInv, SessionInv, RefsInv, Live
<1>5. n \in NetworkType /\ session' \in SessionType
  BY <1>1, <1>3, <1>4, AtIs, EditIs
<1>6. /\ u \in UndoType /\ u.kind # "derived" /\ u.object = n.object
      /\ u.edits = n.edits /\ u.version = n.version
  BY <1>2, <1>4, <1>5, UndoRecords
<1>7. UndoOne(u, session'.nets) = session.nets
  BY <1>1, <1>3, <1>4, <1>6, UndoesEdit
<1>8. <<Op("edit", id)>> \in Seq(OpType) /\ <<>> \in Seq(Entries({Nothing}))
  BY IdOps
<1>9. Len(running') = Len(running) /\ \A k \in 1..Len(running) : Same(running'[k], running[k])
  BY <1>3, <1>8, TopDoesSame
<1> QED
  BY <1>3, <1>5, <1>6, <1>7, <1>9, RecordedExact

LEMMA DeriveInsideExact ==
  ASSUME TypeInv, RefsInv, ExactInv, NEW id \in Ids, DeriveInside(id)
  PROVE  ExactInv'
<1>1. PICK u : u = [kind |-> "derived", object |-> 0, id |-> FreshId(session), edits |-> 0, version |-> 0]
  OBVIOUS
<1>2. /\ ~Idle /\ Known(session, id) /\ serial < MaxNets /\ undo' = Append(undo, u)
      /\ session' = Derive(session, serial + 1, id)
      /\ TopDoes(<<Op("derive", id)>>, <<>>)
  BY <1>1 DEF DeriveInside
<1>3. session \in SessionType
  BY DEF TypeInv, SessionInv
<1>4. /\ Live(session', serial + 1)
      /\ FreshId(session) \in 1..MaxNets /\ FreshId(session) \notin IdsOf(session)
  BY <1>2, DeriveLive
<1>5. PICK h \in NetworkType : session'.nets = Append(session.nets, h) /\ h.id = FreshId(session)
  BY <1>2, DeriveLive
<1>6. u \in UndoType /\ u.kind = "derived" /\ u.id = h.id
  BY <1>1, <1>4, <1>5, UndoRecords
<1>7. UndoOne(u, session'.nets) = session.nets
  BY <1>3, <1>4, <1>5, <1>6, UndoesDerive
<1>8. <<Op("derive", id)>> \in Seq(OpType) /\ <<>> \in Seq(Entries({Nothing}))
  BY IdOps
<1>9. Len(running') = Len(running) /\ \A k \in 1..Len(running) : Same(running'[k], running[k])
  BY <1>2, <1>8, TopDoesSame
<1>10. session' \in SessionType
  BY <1>4 DEF Live
<1> QED
  BY <1>2, <1>6, <1>7, <1>9, <1>10, RecordedExact

\* A roll back gives the session that the Action found.
LEMMA RolledBackExact ==
  ASSUME TypeInv, RefsInv, ExactInv, ~Idle, RollBack(Top)
  PROVE  session' = Top.before
<1>1. PICK top : top = Top
  OBVIOUS
<1>2. PICK b : b = top.before
  OBVIOUS
<1>3. SessionInv /\ FramesInv
  BY DEF TypeInv
<1>4. Len(running) \in 1..Len(running) /\ top = running[Len(running)]
  BY <1>1, <1>3, TopIs
<1>5. /\ session' \in SessionType
      /\ session'.nets = Undone(Above(top), session.nets)
      /\ session'.active = IF top.active \in IdsOf(session') THEN top.active ELSE FirstOf(session')
      /\ session'.selection = IF top.selection # Nothing /\ top.selection.net \notin IdsOf(session')
                              THEN Nothing ELSE top.selection
      /\ session'.style = top.style
  BY <1>1, <1>3, RollBackIs
<1>6. session'.nets = b.nets
  BY <1>2, <1>4, <1>5 DEF ExactInv, Exact, Above
<1>7. /\ b \in SessionType /\ ActiveLive(b) /\ SelectionLive(b)
      /\ top.active = b.active /\ top.selection = b.selection /\ top.style = b.style
  BY <1>2, <1>4 DEF RefsInv, Live, Saved
<1>8. DOMAIN session'.nets = 1..Len(session'.nets)
  BY <1>5, SessionIs
<1>9. session'.active = b.active
  <2>1. CASE b.active = None
    <3>1. session'.nets = <<>>
      BY <1>6, <1>7, <2>1 DEF ActiveLive
    <3>2. FirstOf(session') = None
      BY <1>5, <3>1, FirstIs
    <3> QED
      BY <1>5, <1>7, <2>1, <3>2
  <2>2. CASE b.active # None
    <3>1. b.active \in IdsOf(session')
      BY <1>6, <1>7, <1>8, <2>2 DEF ActiveLive, IdsOf
    <3> QED
      BY <1>5, <1>7, <3>1
  <2> QED
    BY <2>1, <2>2
<1>10. session'.selection = b.selection
  <2>1. b.selection # Nothing => b.selection.net \in IdsOf(session')
    BY <1>6, <1>7, <1>8 DEF SelectionLive, IdsOf
  <2> QED
    BY <1>5, <1>7, <2>1
<1>11. session' = b
  BY <1>5, <1>6, <1>7, <1>9, <1>10 DEF SessionType
<1> QED
  BY <1>1, <1>2, <1>11

LEMMA RollBackExactInv ==
  ASSUME TypeInv, RefsInv, ExactInv, ~Idle, RollBack(Top), Popped
  PROVE  ExactInv'
<1>1. SessionInv /\ FramesInv /\ Len(undo) \in Nat /\ undo \in Seq(UndoType)
  BY DEF TypeInv, FramesInv
<1>2. PICK top : top = Top
  OBVIOUS
<1>3. /\ Len(running) \in Nat /\ Len(running) >= 1 /\ Len(running) \in 1..Len(running)
      /\ top = running[Len(running)] /\ top.mark \in 0..Len(undo)
  BY <1>1, <1>2, TopIs
<1>4. session' = top.before
  BY <1>2, RolledBackExact
<1>5. undo' \in Seq(UndoType) /\ Len(undo') = top.mark /\ \A l \in 1..top.mark : undo'[l] = undo[l]
  BY <1>1, <1>2, RollBackIs
<1>6. Len(running') = Len(running) - 1
      /\ \A k \in 1..Len(running') :
           running'[k].mark = running[k].mark /\ running'[k].before = running[k].before
  BY DEF Popped, Same
<1>7. \A k \in 1..Len(running') : k \in 1..Len(running) /\ k < Len(running)
  BY <1>3, <1>6
<1>8. \A i, j \in 1..Len(running) : i <= j => running[i].mark \in Nat /\ running[i].mark <= running[j].mark
  BY <1>1, MarksIn DEF FramesInv
<1>9. ASSUME NEW i \in 1..Len(running), NEW j \in 1..Len(running), i < j
      PROVE  Exact(undo', running[i].mark, running[j].mark, running[i].before, running[j].before)
  <2>1. Exact(undo, running[i].mark, running[j].mark, running[i].before, running[j].before)
    BY <1>9 DEF ExactInv
  <2>2. /\ running[i].mark \in Nat /\ running[j].mark \in Nat /\ running[i].mark <= running[j].mark
        /\ running[j].mark <= top.mark /\ top.mark \in Nat
    BY <1>3, <1>8, <1>9
  <2>3. /\ running[j].mark <= Len(undo) /\ running[j].mark <= Len(undo')
        /\ \A l \in 1..running[j].mark : undo'[l] = undo[l]
    BY <1>1, <1>3, <1>5, <2>2
  <2>4. SubSeq(undo', running[i].mark + 1, running[j].mark) = SubSeq(undo, running[i].mark + 1, running[j].mark)
    BY <1>1, <1>5, <2>2, <2>3, SamePart
  <2> QED
    BY <2>1, <2>4 DEF Exact
<1>10. ASSUME NEW i \in 1..Len(running')
       PROVE  Exact(undo', running'[i].mark, Len(undo'), running'[i].before, session')
  <2>1. Exact(undo', running[i].mark, top.mark, running[i].before, top.before)
    BY <1>3, <1>7, <1>9
  <2> QED
    BY <1>4, <1>5, <1>6, <2>1
<1>11. ASSUME NEW i \in 1..Len(running'), NEW j \in 1..Len(running'), i < j
       PROVE  Exact(undo', running'[i].mark, running'[j].mark, running'[i].before, running'[j].before)
  BY <1>6, <1>7, <1>9, <1>11
<1> QED
  BY <1>10, <1>11 DEF ExactInv

LEMMA NestedExact ==
  ASSUME TypeInv, ExactInv, "close" \notin Nested, NEW op \in CoreOps, NestedAction(op)
  PROVE  ExactInv'
<1>1. PICK entry : entry = Entry(Accepts(session, op), <<op>>, Nothing)
  OBVIOUS
<1>2. /\ ~Idle /\ TopDoes(entry.did, <<entry>>) /\ undo' = undo /\ op.do # "close"
      /\ session' = IF Accepts(session, op) THEN Do(session, op, 0) ELSE session
  BY <1>1 DEF NestedAction
<1>3. session'.nets = session.nets
  <2>1. CASE Accepts(session, op)
    <3>1. op.do \in {"activate", "select", "clear", "style"}
      BY <1>2, CoreOpIs
    <3>2. session \in SessionType
      BY DEF TypeInv, SessionInv
    <3> QED
      BY <1>2, <2>1, <3>1, <3>2, DoIs
  <2>2. CASE ~Accepts(session, op)
    BY <1>2, <2>2
  <2> QED
    BY <2>1, <2>2
<1>4. entry.did \in Seq(OpType) /\ entry \in Entries({Nothing})
  BY <1>1, CoreOpIs, AcceptsIs, OpEntry
<1>5. <<entry>> \in Seq(Entries({Nothing}))
  BY <1>4
<1>6. /\ Len(running') = Len(running) /\ \A k \in 1..Len(running) : Same(running'[k], running[k])
  BY <1>2, <1>4, <1>5, TopDoesSame
<1>7. Len(running) \in Nat
  BY DEF TypeInv, FramesInv
<1>8. Len(running') <= Len(running)
  BY <1>6, <1>7
<1> QED
  BY <1>2, <1>3, <1>6, <1>8, InsideExact

LEMMA EndOkExact ==
  ASSUME TypeInv, ExactInv, EndOk
  PROVE  ExactInv'
<1>1. FramesInv /\ LogInv /\ session' = session /\ Len(running) \in Nat
  BY DEF EndOk, TypeInv, FramesInv
<1>2. CASE Len(running) = 1
  BY <1>1, <1>2, EndOkIs, IdleExact
<1>3. CASE Len(running) # 1
  <2>1. Popped /\ undo' = undo
    BY <1>1, <1>3, EndOkIs
  <2>2. Len(running') <= Len(running) /\ \A k \in 1..Len(running') : Same(running'[k], running[k])
    BY <1>1, <2>1 DEF Popped
  <2> QED
    BY <1>1, <2>1, <2>2, InsideExact
<1> QED
  BY <1>2, <1>3

LEMMA NextExact ==
  ASSUME "close" \notin Nested
  PROVE  TypeInv /\ RefsInv /\ ExactInv /\ [Next]_vars => ExactInv'
<1> SUFFICES ASSUME TypeInv, RefsInv, ExactInv, [Next]_vars PROVE ExactInv'
  OBVIOUS
<1>1. CASE UNCHANGED vars
  BY <1>1, QuietExact DEF vars, work
<1>2. ASSUME NEW op \in CoreOps, CoreAction(op) \/ NestedAction(op) PROVE ExactInv'
  BY <1>2, IdleExact, NestedExact DEF CoreAction, Idle, work
<1>3. CASE Begin
  BY <1>3, BeginExact
<1>4. CASE EndOk
  BY <1>4, EndOkExact
<1>5. CASE EndFails \/ EndAborts
  <2>1. FramesInv /\ LogInv
    BY DEF TypeInv
  <2>2. ~Idle /\ RollBack(Top) /\ Popped
    BY <1>5, <2>1, EndFailsIs, EndAbortsIs
  <2> QED
    BY <2>2, RollBackExactInv
<1>6. CASE AddNetwork
  BY <1>6, IdleExact DEF AddNetwork, Idle, work
<1>7. ASSUME NEW id \in 0..MaxNets,
             MutateInside(id) \/ MutateOutside(id) \/ DeriveInside(id) \/ DeriveOutside(id)
      PROVE  ExactInv'
  <2>1. CASE MutateOutside(id) \/ DeriveOutside(id)
    BY <2>1, IdleExact DEF MutateOutside, DeriveOutside, Idle, work
  <2> QED
    BY <1>7, <2>1, MutateInsideExact, DeriveInsideExact DEF Ids
<1>8. ASSUME NEW j \in Jobs, Load(j, "loaded") \/ Load(j, "finish") \/ Commit(j) \/ Finish(j)
      PROVE  ExactInv'
  <2>1. CASE Commit(j)
    BY <2>1, IdleExact DEF Commit, Idle, work
  <2> QED
    BY <1>8, <2>1, QuietExact DEF Load, Finish, work
<1>9. ASSUME NEW r \in Selectors,
             (\E id \in 0..MaxNets : Prepare(r, id)) \/ Parse(r) \/ ParseFails(r) \/ Select(r)
      PROVE  ExactInv'
  <2>1. CASE Select(r)
    BY <2>1, IdleExact DEF Select, Idle, work
  <2> QED
    BY <1>9, <2>1, QuietExact DEF Prepare, Parse, ParseFails, work
<1> QED
  BY <1>1, <1>2, <1>3, <1>4, <1>5, <1>6, <1>7, <1>8, <1>9 DEF Next

LEMMA LastExtended ==
  ASSUME NEW all, NEW list, NEW nested, NEW entry, Extends(all, list, nested, entry)
  PROVE  Last(all) = entry
BY DEF Extends, Last

\* An Action whose end is recorded as failed, or not at all, was rolled back.
LEMMA ShorterFrames ==
  ASSUME TypeInv, [Next]_vars, Len(running') < Len(running)
  PROVE  EndOk \/ EndFails \/ EndAborts
<1>1. Len(running) \in Nat /\ running \in Seq(FrameType)
  BY DEF TypeInv, FramesInv
<1>2. running' # running /\ Len(running') # Len(running)
  BY <1>1
<1>3. CASE UNCHANGED vars
  BY <1>2, <1>3 DEF vars, work
<1>4. ASSUME NEW op \in CoreOps, CoreAction(op) \/ NestedAction(op) PROVE FALSE
  <2>1. CASE CoreAction(op)
    BY <1>2, <2>1 DEF CoreAction, work
  <2>2. CASE NestedAction(op)
    <3>1. PICK entry : entry = Entry(Accepts(session, op), <<op>>, Nothing)
      OBVIOUS
    <3>2. ~Idle /\ TopDoes(entry.did, <<entry>>)
      BY <2>2, <3>1 DEF NestedAction
    <3>3. entry.did \in Seq(OpType) /\ entry \in Entries({Nothing})
      BY <3>1, CoreOpIs, AcceptsIs, OpEntry
    <3>4. <<entry>> \in Seq(Entries({Nothing}))
      BY <3>3
    <3> QED
      BY <1>2, <3>2, <3>3, <3>4, TopDoesSame
  <2> QED
    BY <1>4, <2>1, <2>2
<1>5. ~Begin
  <2>1. \A frame : Len(Append(running, frame)) = Len(running) + 1
    BY <1>1
  <2>2. SUFFICES ASSUME Begin PROVE FALSE
    OBVIOUS
  <2>3. Len(running') = Len(running) + 1
    BY <2>1, <2>2 DEF Begin
  <2> QED
    BY <1>1, <2>3
<1>6. ~AddNetwork
  BY <1>2 DEF AddNetwork, work
<1>7. ASSUME NEW id \in 0..MaxNets,
             MutateInside(id) \/ MutateOutside(id) \/ DeriveInside(id) \/ DeriveOutside(id)
      PROVE  FALSE
  <2>1. CASE MutateOutside(id) \/ DeriveOutside(id)
    BY <1>2, <2>1 DEF MutateOutside, DeriveOutside, work
  <2>2. CASE MutateInside(id) \/ DeriveInside(id)
    <3>1. <<Op("edit", id)>> \in Seq(OpType) /\ <<Op("derive", id)>> \in Seq(OpType)
          /\ <<>> \in Seq(Entries({Nothing}))
      BY IdOps DEF Ids
    <3>2. ~Idle /\ \E did \in Seq(OpType) : TopDoes(did, <<>>)
      BY <2>2, <3>1 DEF MutateInside, DeriveInside
    <3> QED
      BY <1>2, <3>1, <3>2, TopDoesSame
  <2> QED
    BY <1>7, <2>1, <2>2
<1>8. ASSUME NEW j \in Jobs, Load(j, "loaded") \/ Load(j, "finish") \/ Commit(j) \/ Finish(j)
      PROVE  FALSE
  BY <1>2, <1>8 DEF Load, Commit, Finish, work
<1>9. ASSUME NEW r \in Selectors,
             (\E id \in 0..MaxNets : Prepare(r, id)) \/ Parse(r) \/ ParseFails(r) \/ Select(r)
      PROVE  FALSE
  BY <1>2, <1>9 DEF Prepare, Parse, ParseFails, Select, work
<1> QED
  BY <1>3, <1>4, <1>5, <1>6, <1>7, <1>8, <1>9 DEF Next

LEMMA SuccessIsToldSo ==
  ASSUME TypeInv, EndOk
  PROVE  /\ Len(history') > Len(history) => Last(history').ok
         /\ running' # <<>> => Last(Last(running').nested).ok
         /\ ~(history' = history /\ Len(running) = 1)
<1>1. PICK entry : entry = Entry(TRUE, Top.did, Nothing)
  OBVIOUS
<1>2. entry.ok
  BY <1>1 DEF Entry
<1>3. FramesInv /\ LogInv /\ Len(running) \in Nat /\ Len(history) \in Nat
  BY DEF TypeInv, FramesInv, LogInv
<1>4. CASE Len(running) = 1
  <2>1. running' = <<>> /\ Extends(history', history, Top.nested, entry)
    BY <1>1, <1>3, <1>4, EndOkIs
  <2>2. Len(Top.nested) \in Nat
    BY <1>3, TopIs, FrameIs DEF EndOk
  <2>3. Len(history') = Len(history) + Len(Top.nested) + 1
    BY <2>1 DEF Extends
  <2>4. history' # history
    BY <1>3, <2>2, <2>3
  <2> QED
    BY <1>2, <2>1, <2>4, LastExtended
<1>5. CASE Len(running) # 1
  <2>1. PICK frame : frame = running'[Len(running) - 1]
    OBVIOUS
  <2>2. /\ history' = history /\ Popped
        /\ Extends(frame.nested, running[Len(running) - 1].nested, Top.nested, entry)
    BY <1>1, <1>3, <1>5, <2>1, EndOkIs
  <2>3. Last(running') = frame
    BY <2>1, <2>2 DEF Popped, Last
  <2>4. Last(frame.nested) = entry
    BY <2>2, LastExtended
  <2> QED
    BY <1>2, <1>3, <1>5, <2>2, <2>3, <2>4
<1> QED
  BY <1>4, <1>5

\* When no handler closes networks, an Action that fails has changed nothing:
\* networks, edits, active network, selection and style are what they were
\* before it began, whatever it and the Actions nested in it did.
THEOREM FailuresChangeNothing ==
  ASSUME "close" \notin Nested
  PROVE  Spec => FailedActionChangesNothing
<1>1. Init => ExactInv
  BY DEF Init, ExactInv
<1>2. TypeInv /\ RefsInv /\ ExactInv /\ [Next]_vars =>
        [/\ Len(running') < Len(running)
         /\ \/ Len(history') > Len(history) /\ ~Last(history').ok
            \/ running' # <<>> /\ Len(Last(running').nested) > Len(running[Len(running')].nested)
                 /\ ~Last(Last(running').nested).ok
            \/ history' = history /\ Len(running) = 1
         => session' = Top.before]_vars
  <2> SUFFICES ASSUME TypeInv, RefsInv, ExactInv, [Next]_vars, Len(running') < Len(running),
                      \/ Len(history') > Len(history) /\ ~Last(history').ok
                      \/ running' # <<>> /\ ~Last(Last(running').nested).ok
                      \/ history' = history /\ Len(running) = 1
               PROVE  session' = Top.before
    OBVIOUS
  <2>1. EndFails \/ EndAborts
    BY ShorterFrames, SuccessIsToldSo
  <2>2. FramesInv /\ LogInv
    BY DEF TypeInv
  <2>3. ~Idle /\ RollBack(Top)
    BY <2>1, <2>2, EndFailsIs, EndAbortsIs
  <2> QED
    BY <2>3, RolledBackExact
<1> QED
  BY <1>1, <1>2, InitTypes, NextTypes, InitRefs, NextRefs, NextExact, PTL DEF Spec, FailedActionChangesNothing

-----------------------------------------------------------------------------
(* A selection is of the tables it is applied to.                          *)

\* One step of a network that no handler takes back: its tables stay, or get
\* edits and a higher version.
Follows(n, m) ==
  /\ n.object = m.object
  /\ (n.version = m.version /\ n.edits = m.edits) \/ n.version > m.version

\* Every network was there before, or is the handle that was made last.
Onward(nets, before, n) == \A k \in 1..Len(nets) :
  nets[k].object > n \/ \E i \in 1..Len(before) : Follows(nets[k], before[i])

\* What a request carries of the network it asked for: a version the network
\* has passed, or its present one with its present tables.
ParsedOf(p, nets, n) ==
  /\ p.object <= n
  /\ \A k \in 1..Len(nets) : nets[k].object = p.object =>
       /\ p.version <= nets[k].version
       /\ p.version = nets[k].version => p.edits = nets[k].edits

ParsesInv == \A r \in Selectors :
  pc[r] \in {"parsing", "apply"} => ParsedOf(prepared[r], session.nets, serial)

LEMMA SameFollows == \A n : Follows(n, n)
BY DEF Follows

LEMMA SameOnward ==
  ASSUME NEW nets, NEW n
  PROVE  Onward(nets, nets, n)
BY SameFollows DEF Onward

LEMMA StillParsed ==
  ASSUME NEW p \in PreparedType, NEW nets \in Seq(NetworkType), NEW before \in Seq(NetworkType),
         NEW n \in Nat, NEW m \in Nat, n <= m, ParsedOf(p, before, n), Onward(nets, before, n)
  PROVE  ParsedOf(p, nets, m)
<1>1. /\ \A k \in 1..Len(nets) : nets[k].object \in Nat /\ nets[k].version \in Nat
      /\ \A i \in 1..Len(before) : before[i].object \in Nat /\ before[i].version \in Nat
  <2>1. \A h \in NetworkType : h.object \in Nat /\ h.version \in Nat
    BY BoundsAssumption DEF NetworkType
  <2> QED
    BY <2>1, ElementOfSeq
<1>2. p.object \in Nat /\ p.version \in Nat /\ p.object <= n
  BY DEF PreparedType, Objects, ParsedOf
<1>3. ASSUME NEW k \in 1..Len(nets), nets[k].object = p.object
      PROVE  /\ p.version <= nets[k].version
             /\ p.version = nets[k].version => p.edits = nets[k].edits
  <2>1. ~(nets[k].object > n)
    BY <1>1, <1>2, <1>3
  <2>2. PICK i \in 1..Len(before) : Follows(nets[k], before[i])
    BY <2>1 DEF Onward
  <2>3. before[i].object = p.object
    BY <1>3, <2>2 DEF Follows
  <2>4. /\ p.version <= before[i].version
        /\ p.version = before[i].version => p.edits = before[i].edits
    BY <2>3 DEF ParsedOf
  <2>5. CASE nets[k].version = before[i].version /\ nets[k].edits = before[i].edits
    BY <2>4, <2>5
  <2>6. CASE nets[k].version > before[i].version
    <3>1. p.version < nets[k].version
      BY <1>1, <1>2, <2>4, <2>6
    <3> QED
      BY <1>1, <1>2, <3>1
  <2> QED
    BY <2>2, <2>5, <2>6 DEF Follows
<1>4. p.object <= m
  BY <1>2
<1> QED
  BY <1>3, <1>4 DEF ParsedOf

\* A step of the session that no request makes.
LEMMA OthersMove ==
  ASSUME TypeInv, ParsesInv, SessionInv', serial <= serial', UNCHANGED prepared,
         \A r \in Selectors : pc'[r] \in {"parsing", "apply"} => pc[r] \in {"parsing", "apply"},
         Onward(session'.nets, session.nets, serial)
  PROVE  ParsesInv'
<1> SUFFICES ASSUME NEW r \in Selectors, pc'[r] \in {"parsing", "apply"}
             PROVE  ParsedOf(prepared[r], session'.nets, serial')
  BY DEF ParsesInv
<1>1. pc[r] \in {"parsing", "apply"} /\ prepared[r] \in PreparedType
  BY DEF TypeInv, RequestsInv
<1>2. session.nets \in Seq(NetworkType) /\ session'.nets \in Seq(NetworkType)
  BY SessionIs DEF TypeInv, SessionInv
<1>3. serial \in Nat /\ serial' \in Nat
  BY BoundsAssumption DEF TypeInv, SessionInv
<1>4. ParsedOf(prepared[r], session.nets, serial)
  BY <1>1 DEF ParsesInv
<1> QED
  BY <1>1, <1>2, <1>3, <1>4, StillParsed

LEMMA WithoutOnward ==
  ASSUME NEW s, NEW n, Live(s, n), NEW id \in 1..MaxNets
  PROVE  Onward(Close(s, id).nets, s.nets, n)
<1>1. s \in SessionType /\ Apart(s.nets) /\ s.nets \in Seq(NetworkType) /\ id \in Ids
  BY SessionIs DEF Live, Ids
<1> DEFINE left == Without(s.nets, id)
<1>2. \A k \in 1..Len(left) : \E i \in 1..Len(s.nets) : left[k] = s.nets[i]
  BY <1>1, WithoutKeeps DEF Keeps
<1>3. /\ Len(Close(s, id).nets) = Len(left)
      /\ \A k \in 1..Len(left) : Close(s, id).nets[k] = Orphaned(left[k], id)
  BY <1>1, CloseIs DEF Leaves
<1>4. left \in Seq(NetworkType)
  BY <1>1, WithoutType
<1> HIDE DEF left
<1>5. ASSUME NEW k \in 1..Len(left)
      PROVE  \E i \in 1..Len(s.nets) : Follows(Close(s, id).nets[k], s.nets[i])
  <2>1. PICK i \in 1..Len(s.nets) : left[k] = s.nets[i]
    BY <1>2
  <2>2. left[k] \in NetworkType
    BY <1>4, ElementOfSeq
  <2>3. /\ Orphaned(left[k], id).object = left[k].object
        /\ Orphaned(left[k], id).version = left[k].version
        /\ Orphaned(left[k], id).edits = left[k].edits
    BY <2>2 DEF Orphaned, NetworkType
  <2> QED
    BY <1>3, <2>1, <2>3 DEF Follows
<1> QED
  BY <1>3, <1>5 DEF Onward

LEMMA DoOnward ==
  ASSUME NEW s, NEW n, Live(s, n), NEW op \in CoreOps, Accepts(s, op)
  PROVE  Onward(Do(s, op, 0).nets, s.nets, n)
<1>1. s \in SessionType
  BY DEF Live
<1>2. CASE op.do = "close"
  BY <1>1, <1>2, CoreOpIs, DoIs, WithoutOnward
<1>3. CASE op.do # "close"
  <2>1. Do(s, op, 0).nets = s.nets
    BY <1>1, <1>3, CoreOpIs, DoIs
  <2> QED
    BY <2>1, SameOnward
<1> QED
  BY <1>2, <1>3

LEMMA EditOnward ==
  ASSUME NEW s \in SessionType, NEW n, NEW id \in Ids, Known(s, id)
  PROVE  Onward(Edit(s, id).nets, s.nets, n)
<1>1. PICK i \in 1..Len(s.nets) :
        /\ s.nets[i] \in NetworkType
        /\ Len(Edit(s, id).nets) = Len(s.nets)
        /\ \A k \in 1..Len(s.nets) : Edit(s, id).nets[k] = IF k = i THEN Edited(s.nets[i]) ELSE s.nets[k]
  BY EditIs
<1>2. s.nets[i].version \in Nat
  BY <1>1 DEF NetworkType
<1>3. Follows(Edited(s.nets[i]), s.nets[i])
  BY <1>1, <1>2, EditedIs DEF Follows
<1> QED
  BY <1>1, <1>3, SameFollows DEF Onward

LEMMA AppendOnward ==
  ASSUME NEW nets \in Seq(NetworkType), NEW h, NEW n \in Nat, h.object = n + 1
  PROVE  Onward(Append(nets, h), nets, n)
<1> SUFFICES ASSUME NEW k \in 1..(Len(nets) + 1)
             PROVE  \/ Append(nets, h)[k].object > n
                    \/ \E i \in 1..Len(nets) : Follows(Append(nets, h)[k], nets[i])
  BY DEF Onward
<1>1. CASE k = Len(nets) + 1
  BY <1>1
<1>2. CASE k # Len(nets) + 1
  <2>1. k \in 1..Len(nets) /\ Append(nets, h)[k] = nets[k]
    BY <1>2
  <2> QED
    BY <2>1, SameFollows
<1> QED
  BY <1>1, <1>2

LEMMA QuietParses ==
  ASSUME TypeInv, ParsesInv, SessionInv', UNCHANGED <<session, serial, prepared>>,
         \A r \in Selectors : pc'[r] \in {"parsing", "apply"} => pc[r] \in {"parsing", "apply"}
  PROVE  ParsesInv'
<1>1. Onward(session'.nets, session.nets, serial)
  BY SameOnward
<1>2. serial <= serial'
  BY BoundsAssumption DEF TypeInv, SessionInv
<1> QED
  BY <1>1, <1>2, OthersMove

LEMMA CoreParses ==
  ASSUME TypeInv, RefsInv, ParsesInv, SessionInv', NEW op \in CoreOps, CoreAction(op) \/ NestedAction(op)
  PROVE  ParsesInv'
<1>1. /\ session' = IF Accepts(session, op) THEN Do(session, op, 0) ELSE session
      /\ UNCHANGED <<serial, prepared, pc>>
  BY DEF CoreAction, NestedAction, jobs
<1>2. Live(session, serial)
  BY DEF RefsInv
<1>3. Onward(session'.nets, session.nets, serial)
  BY <1>1, <1>2, DoOnward, SameOnward
<1>4. serial <= serial'
  BY <1>1, BoundsAssumption DEF TypeInv, SessionInv
<1> QED
  BY <1>1, <1>3, <1>4, OthersMove

LEMMA MutateParses ==
  ASSUME TypeInv, ParsesInv, SessionInv', NEW id \in Ids, MutateInside(id) \/ MutateOutside(id)
  PROVE  ParsesInv'
<1>1. Known(session, id) /\ session' = Edit(session, id) /\ UNCHANGED <<serial, prepared, pc>>
  BY DEF MutateInside, MutateOutside, jobs
<1>2. Onward(session'.nets, session.nets, serial)
  BY <1>1, EditOnward DEF TypeInv, SessionInv
<1>3. serial <= serial'
  BY <1>1, BoundsAssumption DEF TypeInv, SessionInv
<1> QED
  BY <1>1, <1>2, <1>3, OthersMove

\* A network is registered, under the number of the next handle.
LEMMA RegisterParses ==
  ASSUME TypeInv, ParsesInv, SessionInv', serial' = serial + 1, UNCHANGED prepared,
         \A r \in Selectors : pc'[r] = pc[r],
         NEW h, h.object = serial + 1, session'.nets = Append(session.nets, h)
  PROVE  ParsesInv'
<1>1. session.nets \in Seq(NetworkType) /\ serial \in Nat
  BY SessionIs, BoundsAssumption DEF TypeInv, SessionInv
<1>2. Onward(session'.nets, session.nets, serial)
  BY <1>1, AppendOnward
<1>3. serial <= serial'
  BY <1>1
<1> QED
  BY <1>2, <1>3, OthersMove

LEMMA RegisteringParses ==
  ASSUME TypeInv, RefsInv, ParsesInv, SessionInv', NEW id \in Ids,
         DeriveInside(id) \/ DeriveOutside(id) \/ AddNetwork \/ \E j \in Jobs : Commit(j)
  PROVE  ParsesInv'
<1>1. CASE DeriveInside(id) \/ DeriveOutside(id)
  <2>1. /\ Known(session, id) /\ serial < MaxNets /\ session' = Derive(session, serial + 1, id)
        /\ serial' = serial + 1 /\ UNCHANGED <<prepared, pc>>
    BY <1>1 DEF DeriveInside, DeriveOutside, jobs
  <2>2. PICK h \in NetworkType : session'.nets = Append(session.nets, h) /\ h.object = serial + 1
    BY <2>1, DeriveLive
  <2> QED
    BY <2>1, <2>2, RegisterParses
<1>2. CASE AddNetwork
  <2>1. PICK h : h = Handle(FreshId(session), serial + 1, Nothing, 0, None, 0)
    OBVIOUS
  <2>2. session'.nets = Append(session.nets, h)
    BY <1>2, <2>1, AddNetworkIs DEF TypeInv
  <2>3. h.object = serial + 1
    BY <2>1 DEF Handle
  <2>4. serial' = serial + 1 /\ UNCHANGED <<prepared, pc>>
    BY <1>2 DEF AddNetwork, jobs
  <2> QED
    BY <2>2, <2>3, <2>4, RegisterParses
<1>3. ASSUME NEW j \in Jobs, Commit(j) PROVE ParsesInv'
  <2>1. PICK h : h = Handle(FreshId(session), serial + 1, j, 0, None, 0)
    OBVIOUS
  <2>2. session'.nets = Append(session.nets, h)
    BY <1>3, <2>1, CommitIs DEF TypeInv
  <2>3. h.object = serial + 1
    BY <2>1 DEF Handle
  <2>4. serial' = serial + 1 /\ UNCHANGED prepared /\ Goto(j, "loaded", "finish")
    BY <1>3 DEF Commit
  <2>5. \A r \in Selectors : pc'[r] = pc[r]
    BY <2>4, GotoIs, RequestsAssumption DEF TypeInv
  <2> QED
    BY <2>2, <2>3, <2>4, <2>5, RegisterParses
<1> QED
  BY <1>1, <1>2, <1>3

\* A request takes what it looks at from the session as it is.
LEMMA RequestParses ==
  ASSUME TypeInv, ParsesInv, NEW r \in Selectors, UNCHANGED <<session, serial>>,
         \A q \in Selectors : q # r => pc'[q] = pc[q],
         NEW p, prepared' = [prepared EXCEPT ![r] = p], ParsedOf(p, session.nets, serial)
  PROVE  ParsesInv'
<1>1. \A q \in Selectors : prepared'[q] = IF q = r THEN p ELSE prepared[q]
  BY DEF TypeInv, RequestsInv
<1> QED
  BY <1>1 DEF ParsesInv

LEMMA PrepareParses ==
  ASSUME TypeInv, RefsInv, ParsesInv, NEW r \in Selectors, NEW id \in Ids, Prepare(r, id)
  PROVE  ParsesInv'
<1>1. session \in SessionType /\ serial \in Nat /\ 0 <= serial
      /\ Apart(session.nets) /\ Numbered(session.nets, serial)
  BY BoundsAssumption DEF TypeInv, SessionInv, RefsInv, Live
<1>2. UNCHANGED <<session, serial>> /\ \A q \in Selectors : q # r => pc'[q] = pc[q]
  BY GotoIs DEF TypeInv, Prepare
<1>3. \A k \in 1..Len(session.nets) : session.nets[k] \in NetworkType /\ session.nets[k].object \in 1..MaxNets
                                      /\ session.nets[k].version \in Nat
  BY <1>1, SessionIs DEF NetworkType
<1>4. CASE Known(session, id)
  <2>1. PICK i \in 1..Len(session.nets) : i = At(session, id)
    BY <1>1, <1>4, AtIs
  <2>2. PICK n \in NetworkType : n = session.nets[i]
    BY <1>3
  <2>3. PICK p : p = [arg |-> id, object |-> n.object, version |-> n.version, edits |-> n.edits]
    OBVIOUS
  <2>4. prepared' = [prepared EXCEPT ![r] = p]
    BY <1>4, <2>1, <2>2, <2>3 DEF Prepare
  <2>5. p.object = n.object /\ p.version = n.version /\ p.edits = n.edits
    BY <2>3
  <2>6. p.object <= serial
    BY <1>1, <2>2, <2>5 DEF Numbered
  <2>7. \A k \in 1..Len(session.nets) : session.nets[k].object = p.object => k = i
    BY <1>1, <2>2, <2>5 DEF Apart
  <2>8. n.version <= n.version
    BY <1>3, <2>2
  <2>9. ParsedOf(p, session.nets, serial)
    BY <2>2, <2>5, <2>6, <2>7, <2>8 DEF ParsedOf
  <2> QED
    BY <1>2, <2>4, <2>9, RequestParses
<1>5. CASE ~Known(session, id)
  <2>1. PICK p : p = [arg |-> id, object |-> 0, version |-> 0, edits |-> 0]
    OBVIOUS
  <2>2. prepared' = [prepared EXCEPT ![r] = p] /\ p.object = 0
    BY <1>5, <2>1 DEF Prepare
  <2>3. \A k \in 1..Len(session.nets) : session.nets[k].object # 0
    BY <1>3, BoundsAssumption
  <2>4. ParsedOf(p, session.nets, serial)
    BY <1>1, <2>2, <2>3 DEF ParsedOf
  <2> QED
    BY <1>2, <2>2, <2>4, RequestParses
<1> QED
  BY <1>4, <1>5

\* What was parsed is of the tables there were then, in the midst of a plugin
\* Action or not; it is of an edited network if the version says so.
LEMMA ParseParses ==
  ASSUME TypeInv, RefsInv, ParsesInv, NEW r \in Selectors, Parse(r)
  PROVE  ParsesInv'
<1>1. PICK p \in PreparedType :
        /\ prepared' = [prepared EXCEPT ![r] = p]
        /\ p.object = prepared[r].object /\ p.version = prepared[r].version
        /\ \/ \A k \in 1..Len(session.nets) : session.nets[k].object # p.object
           \/ \E k \in 1..Len(session.nets) :
                session.nets[k].object = p.object /\ p.edits = session.nets[k].edits
  BY ParseIs
<1>2. Apart(session.nets)
  BY DEF RefsInv, Live
<1>3. pc[r] = "parsing" /\ UNCHANGED <<session, serial>> /\ \A q \in Selectors : q # r => pc'[q] = pc[q]
  BY GotoIs DEF TypeInv, Parse
<1>4. ParsedOf(prepared[r], session.nets, serial)
  BY <1>3 DEF ParsesInv
<1>5. p.object <= serial
      /\ \A k \in 1..Len(session.nets) : session.nets[k].object = p.object => p.version <= session.nets[k].version
  BY <1>1, <1>4 DEF ParsedOf
<1>6. \A k \in 1..Len(session.nets) : session.nets[k].object = p.object => p.edits = session.nets[k].edits
  BY <1>1, <1>2 DEF Apart
<1>7. ParsedOf(p, session.nets, serial)
  BY <1>5, <1>6 DEF ParsedOf
<1> QED
  BY <1>1, <1>3, <1>7, RequestParses

LEMMA ParseFailsParses ==
  ASSUME TypeInv, ParsesInv, NEW r \in Selectors, ParseFails(r)
  PROVE  ParsesInv'
<1>1. prepared[r] \in PreparedType /\ prepared' = [prepared EXCEPT ![r].object = 0]
      /\ UNCHANGED <<session, serial>> /\ \A q \in Selectors : q # r => pc'[q] = pc[q]
  BY GotoIs DEF TypeInv, RequestsInv, ParseFails, Goto
<1>2. PICK p : p = [prepared[r] EXCEPT !.object = 0]
  OBVIOUS
<1>3. p.object = 0
  BY <1>1, <1>2 DEF PreparedType
<1>4. prepared' = [prepared EXCEPT ![r] = p]
  BY <1>1, <1>2
<1>5. \A k \in 1..Len(session.nets) : session.nets[k].object # 0
  <2>1. \A h \in NetworkType : h.object # 0
    BY BoundsAssumption DEF NetworkType
  <2> QED
    BY <2>1, SessionIs DEF TypeInv, SessionInv
<1>6. 0 <= serial
  BY BoundsAssumption DEF TypeInv, SessionInv
<1>7. ParsedOf(p, session.nets, serial)
  BY <1>3, <1>5, <1>6 DEF ParsedOf
<1> QED
  BY <1>1, <1>4, <1>7, RequestParses

LEMMA SelectParses ==
  ASSUME TypeInv, ParsesInv, SessionInv', NEW r \in Selectors, Select(r)
  PROVE  ParsesInv'
<1>1. session'.nets = session.nets
  BY SelectIs
<1>2. Onward(session'.nets, session.nets, serial)
  BY <1>1, SameOnward
<1>3. UNCHANGED <<prepared, serial>> /\ pc[r] = "apply" /\ pc'[r] = "ended"
      /\ \A q \in Selectors : q # r => pc'[q] = pc[q]
  BY GotoIs DEF TypeInv, Select
<1>4. \A q \in Selectors : pc'[q] \in {"parsing", "apply"} => pc[q] \in {"parsing", "apply"}
  BY <1>3
<1>5. serial <= serial'
  BY <1>3, BoundsAssumption DEF TypeInv, SessionInv
<1> QED
  BY <1>2, <1>3, <1>4, <1>5, OthersMove

LEMMA NextParses ==
  ASSUME ~Failing
  PROVE  TypeInv /\ RefsInv /\ ParsesInv /\ [Next]_vars => ParsesInv'
<1> SUFFICES ASSUME TypeInv, RefsInv, ParsesInv, [Next]_vars PROVE ParsesInv'
  OBVIOUS
<1>0. SessionInv'
  BY NextTypes DEF TypeInv
<1>1. CASE UNCHANGED vars
  BY <1>0, <1>1, QuietParses DEF vars, jobs
<1>2. ASSUME NEW op \in CoreOps, CoreAction(op) \/ NestedAction(op) PROVE ParsesInv'
  BY <1>0, <1>2, CoreParses
<1>3. CASE Begin \/ EndOk
  BY <1>0, <1>3, QuietParses DEF Begin, EndOk, jobs
<1>4. CASE EndFails \/ EndAborts
  BY <1>4 DEF EndFails, EndAborts
<1>5. CASE AddNetwork \/ \E j \in Jobs : Commit(j)
  <2>1. 0 \in Ids
    BY BoundsAssumption DEF Ids
  <2> QED
    BY <1>0, <1>5, <2>1, RegisteringParses
<1>6. ASSUME NEW id \in 0..MaxNets,
             MutateInside(id) \/ MutateOutside(id) \/ DeriveInside(id) \/ DeriveOutside(id)
      PROVE  ParsesInv'
  BY <1>0, <1>6, MutateParses, RegisteringParses DEF Ids
<1>7. ASSUME NEW j \in Jobs, Load(j, "loaded") \/ Load(j, "finish") \/ Finish(j) PROVE ParsesInv'
  <2>1. UNCHANGED <<session, serial, prepared>>
    BY <1>7 DEF Load, Finish
  <2>2. Goto(j, "idle", "loaded") \/ Goto(j, "idle", "finish") \/ Goto(j, "finish", "ended")
    BY <1>7 DEF Load, Finish
  <2>3. \A r \in Selectors : pc'[r] = pc[r]
    BY <2>2, GotoIs, RequestsAssumption DEF TypeInv
  <2> QED
    BY <1>0, <2>1, <2>3, QuietParses
<1>8. ASSUME NEW r \in Selectors,
             (\E id \in 0..MaxNets : Prepare(r, id)) \/ Parse(r) \/ ParseFails(r) \/ Select(r)
      PROVE  ParsesInv'
  BY <1>0, <1>8, PrepareParses, ParseParses, ParseFailsParses, SelectParses DEF Ids
<1> QED
  BY <1>1, <1>2, <1>3, <1>4, <1>5, <1>6, <1>7, <1>8 DEF Next

\* Only Select ends a request that was parsed.
LEMMA RequestEnds ==
  ASSUME TypeInv, [Next]_vars, NEW r \in Selectors, pc[r] = "apply", pc'[r] = "ended"
  PROVE  Select(r)
<1>1. CASE UNCHANGED vars
  BY <1>1 DEF vars, jobs
<1>2. ASSUME NEW op \in CoreOps, CoreAction(op) \/ NestedAction(op) PROVE FALSE
  BY <1>2 DEF CoreAction, NestedAction, jobs
<1>3. CASE Begin \/ EndOk \/ EndFails \/ EndAborts \/ AddNetwork
  BY <1>3 DEF Begin, EndOk, EndFails, EndAborts, AddNetwork, jobs
<1>4. ASSUME NEW id \in 0..MaxNets,
             MutateInside(id) \/ MutateOutside(id) \/ DeriveInside(id) \/ DeriveOutside(id)
      PROVE  FALSE
  BY <1>4 DEF MutateInside, MutateOutside, DeriveInside, DeriveOutside, jobs
<1>5. ASSUME NEW j \in Jobs, Load(j, "loaded") \/ Load(j, "finish") \/ Commit(j) \/ Finish(j) PROVE FALSE
  <2>1. \/ Goto(j, "idle", "loaded") \/ Goto(j, "idle", "finish")
        \/ Goto(j, "loaded", "finish") \/ Goto(j, "finish", "ended")
    BY <1>5 DEF Load, Commit, Finish
  <2>2. pc'[r] = pc[r]
    BY <2>1, GotoIs, RequestsAssumption DEF TypeInv
  <2> QED
    BY <2>2
<1>6. ASSUME NEW q \in Selectors,
             (\E id \in 0..MaxNets : Prepare(q, id)) \/ Parse(q) \/ ParseFails(q)
      PROVE  FALSE
  <2>1. Goto(q, "idle", "parsing") \/ Goto(q, "parsing", "apply")
    BY <1>6 DEF Prepare, Parse, ParseFails
  <2> QED
    BY <2>1, GotoIs DEF TypeInv
<1>7. ASSUME NEW q \in Selectors, Select(q) PROVE Select(r)
  <2>1. Goto(q, "apply", "ended")
    BY <1>7 DEF Select
  <2>2. q = r
    BY <2>1, GotoIs DEF TypeInv
  <2> QED
    BY <1>7, <2>2
<1> QED
  BY <1>1, <1>2, <1>3, <1>4, <1>5, <1>6, <1>7 DEF Next

\* When no handler fails, a selection made from an utterance is of the tables
\* its network has: the version tells every edit since, also one made in the
\* midst of the parse. (A handler that fails makes the version return.)
THEOREM SelectionsAreOfTheTables ==
  ASSUME ~Failing
  PROVE  Spec => SelectionIsOfTheAppliedTables
<1>1. Init => ParsesInv
  BY DEF Init, ParsesInv
<1>2. TypeInv /\ RefsInv /\ ParsesInv /\ [Next]_vars =>
        [\A r \in Selectors :
           pc[r] = "apply" /\ pc'[r] = "ended" /\ session'.selection # session.selection =>
             \E n \in Range(session'.nets) :
               n.object = session'.selection.object /\ n.edits = session'.selection.edits]_vars
  <2> SUFFICES ASSUME TypeInv, ParsesInv, [Next]_vars, NEW r \in Selectors,
                      pc[r] = "apply", pc'[r] = "ended", session'.selection # session.selection
               PROVE  \E n \in Range(session'.nets) :
                        n.object = session'.selection.object /\ n.edits = session'.selection.edits
    OBVIOUS
  <2>1. Select(r)
    BY RequestEnds
  <2>2. PICK p \in PreparedType : p = prepared[r]
    BY DEF TypeInv, RequestsInv
  <2>3. PICK k : k = At(session, p.arg)
    OBVIOUS
  <2>4. Unchanged(p)
    BY <2>1, <2>2, SelectIs
  <2>5. /\ k \in 1..Len(session.nets) /\ session.nets[k] \in NetworkType
        /\ session.nets[k].object = p.object /\ session.nets[k].version = p.version
        /\ session'.selection = Payload(session.nets[k], p.edits)
        /\ session'.nets = session.nets
    BY <2>1, <2>2, <2>3, <2>4, SelectIs
  <2>6. p.edits = session.nets[k].edits
    BY <2>2, <2>5 DEF ParsesInv, ParsedOf
  <2>7. /\ session'.selection.object = session.nets[k].object
        /\ session'.selection.edits = p.edits
    BY <2>5 DEF Payload
  <2>8. session'.nets[k] \in Range(session'.nets)
    BY <2>5, SessionIs DEF Range, TypeInv, SessionInv
  <2> QED
    BY <2>5, <2>6, <2>7, <2>8
<1> QED
  BY <1>1, <1>2, InitTypes, NextTypes, InitRefs, NextRefs, NextParses, PTL
     DEF Spec, SelectionIsOfTheAppliedTables

-----------------------------------------------------------------------------
(* The history replays.                                                    *)

\* Networks, and sessions, that differ in nothing python can speak of.
Twins(n, m) == /\ n.id = m.id /\ n.source = m.source /\ n.from = m.from
               /\ n.edits = m.edits /\ n.version = m.version

TwinNets(a, b) == Len(a) = Len(b) /\ \A k \in 1..Len(a) : Twins(a[k], b[k])

SameSelection(x, y) ==
  /\ x = Nothing <=> y = Nothing
  /\ x # Nothing => x.net = y.net /\ x.edits = y.edits

Akin(s, t) ==
  /\ s \in SessionType /\ t \in SessionType
  /\ TwinNets(s.nets, t.nets) /\ SameSelection(s.selection, t.selection)
  /\ s.active = t.active /\ s.style = t.style

\* Ids name networks.
OneEach(nets) == \A i, j \in 1..Len(nets) : nets[i].id = nets[j].id => i = j

LEMMA AkinSame == \A s \in SessionType : Akin(s, s)
BY DEF Akin, TwinNets, Twins, SameSelection

LEMMA AkinTwice ==
  ASSUME NEW s, NEW t, NEW u, Akin(s, t), Akin(t, u)
  PROVE  Akin(s, u)
<1>1. TwinNets(s.nets, u.nets)
  BY DEF Akin, TwinNets, Twins
<1>2. SameSelection(s.selection, u.selection)
  BY DEF Akin, SameSelection
<1> QED
  BY <1>1, <1>2 DEF Akin

LEMMA AkinBack ==
  ASSUME NEW s, NEW t, Akin(s, t)
  PROVE  Akin(t, s)
<1>1. TwinNets(t.nets, s.nets)
  BY DEF Akin, TwinNets, Twins
<1>2. SameSelection(t.selection, s.selection)
  BY DEF Akin, SameSelection
<1> QED
  BY <1>1, <1>2 DEF Akin

LEMMA AkinPlain ==
  ASSUME NEW s, NEW t, Akin(s, t)
  PROVE  Plain(s) = Plain(t)
<1> DEFINE Bare(n) == [n EXCEPT !.object = 0, !.fromObject = 0]
<1>1. s \in SessionType /\ t \in SessionType /\ TwinNets(s.nets, t.nets)
      /\ SameSelection(s.selection, t.selection) /\ s.active = t.active /\ s.style = t.style
  BY DEF Akin
<1>2. /\ DOMAIN s.nets = 1..Len(s.nets) /\ DOMAIN t.nets = 1..Len(s.nets)
      /\ \A k \in 1..Len(s.nets) : s.nets[k] \in NetworkType /\ t.nets[k] \in NetworkType
  BY <1>1, SessionIs DEF TwinNets
<1>3. ASSUME NEW n \in NetworkType, NEW m \in NetworkType, Twins(n, m)
      PROVE  Bare(n) = Bare(m)
  BY <1>3 DEF NetworkType, Twins
<1>4. PICK p : p = [k \in 1..Len(s.nets) |-> Bare(s.nets[k])]
  OBVIOUS
<1>5. PICK q : q = [k \in 1..Len(s.nets) |-> Bare(t.nets[k])]
  OBVIOUS
<1>6. p = q
  <2>1. \A k \in 1..Len(s.nets) : Bare(s.nets[k]) = Bare(t.nets[k])
    BY <1>1, <1>2, <1>3 DEF TwinNets
  <2> HIDE DEF Bare
  <2> QED
    BY <1>4, <1>5, <2>1
<1>7. PICK x : x = IF s.selection = Nothing THEN Nothing ELSE [s.selection EXCEPT !.object = 0]
  OBVIOUS
<1>8. PICK y : y = IF t.selection = Nothing THEN Nothing ELSE [t.selection EXCEPT !.object = 0]
  OBVIOUS
<1>9. x = y
  <2>1. s.selection \in SelectionType /\ t.selection \in SelectionType
    BY <1>1, SessionIs
  <2>2. CASE s.selection = Nothing
    BY <1>1, <1>7, <1>8, <2>2 DEF SameSelection
  <2>3. CASE s.selection # Nothing
    <3>1. /\ s.selection \in [net : 1..MaxNets, object : 1..MaxNets, edits : Nat]
          /\ t.selection \in [net : 1..MaxNets, object : 1..MaxNets, edits : Nat]
          /\ t.selection # Nothing
          /\ s.selection.net = t.selection.net /\ s.selection.edits = t.selection.edits
      BY <1>1, <2>1, <2>3 DEF SameSelection, SelectionType
    <3>2. [s.selection EXCEPT !.object = 0] = [t.selection EXCEPT !.object = 0]
      BY <3>1
    <3> QED
      BY <1>7, <1>8, <2>3, <3>1, <3>2
  <2> QED
    BY <2>2, <2>3
<1>10. Plain(s) = [s EXCEPT !.nets = p, !.selection = x]
  BY <1>2, <1>4, <1>7 DEF Plain
<1>11. Plain(t) = [t EXCEPT !.nets = q, !.selection = y]
  BY <1>2, <1>5, <1>8 DEF Plain
<1>12. [s EXCEPT !.nets = p, !.selection = x] = [t EXCEPT !.nets = p, !.selection = x]
  BY <1>1 DEF SessionType
<1> QED
  BY <1>6, <1>9, <1>10, <1>11, <1>12

LEMMA AkinIds ==
  ASSUME NEW s, NEW t, Akin(s, t)
  PROVE  IdsOf(s) = IdsOf(t) /\ \A id : Target(s, id) = Target(t, id) /\ Known(s, id) = Known(t, id)
<1>1. IdsOf(s) = IdsOf(t)
  BY SessionIs DEF Akin, TwinNets, Twins, IdsOf
<1>2. \A id : Target(s, id) = Target(t, id)
  BY DEF Akin, Target
<1> QED
  BY <1>1, <1>2 DEF Known

LEMMA AkinAt ==
  ASSUME NEW s, NEW t, Akin(s, t), OneEach(s.nets), NEW id \in Ids, Known(s, id)
  PROVE  /\ At(t, id) = At(s, id) /\ At(s, id) \in 1..Len(s.nets)
         /\ s.nets[At(s, id)] \in NetworkType /\ t.nets[At(s, id)] \in NetworkType
         /\ Twins(s.nets[At(s, id)], t.nets[At(s, id)])
<1>1. s \in SessionType /\ t \in SessionType /\ Known(t, id) /\ Target(s, id) = Target(t, id)
      /\ Len(s.nets) = Len(t.nets)
      /\ \A k \in 1..Len(s.nets) : Twins(s.nets[k], t.nets[k])
  BY AkinIds DEF Akin, TwinNets
<1>2. PICK i : i = At(s, id)
  OBVIOUS
<1>3. PICK j : j = At(t, id)
  OBVIOUS
<1>4. i \in 1..Len(s.nets) /\ s.nets[i] \in NetworkType /\ s.nets[i].id = Target(s, id)
  BY <1>1, <1>2, AtIs
<1>5. j \in 1..Len(s.nets) /\ t.nets[j] \in NetworkType /\ t.nets[j].id = Target(s, id)
  BY <1>1, <1>3, AtIs
<1>6. i = j
  BY <1>1, <1>4, <1>5 DEF OneEach, Twins
<1> QED
  BY <1>1, <1>2, <1>3, <1>4, <1>5, <1>6

LEMMA AkinFresh ==
  ASSUME NEW s, NEW t, Akin(s, t)
  PROVE  FreshId(s) = FreshId(t)
BY AkinIds DEF FreshId

LEMMA AppendTwins ==
  ASSUME NEW a \in Seq(NetworkType), NEW b \in Seq(NetworkType), TwinNets(a, b), NEW h, NEW g, Twins(h, g)
  PROVE  TwinNets(Append(a, h), Append(b, g))
<1>1. Len(Append(a, h)) = Len(Append(b, g))
  BY DEF TwinNets
<1>2. ASSUME NEW k \in 1..(Len(a) + 1) PROVE Twins(Append(a, h)[k], Append(b, g)[k])
  <2>1. CASE k = Len(a) + 1
    BY <2>1 DEF TwinNets
  <2>2. CASE k # Len(a) + 1
    <3>1. k \in 1..Len(a) /\ k \in 1..Len(b) /\ Append(a, h)[k] = a[k] /\ Append(b, g)[k] = b[k]
      BY <2>2 DEF TwinNets
    <3> QED
      BY <3>1 DEF TwinNets
  <2> QED
    BY <2>1, <2>2
<1> QED
  BY <1>1, <1>2 DEF TwinNets

LEMMA WithoutTwins ==
  ASSUME NEW a \in Seq(NetworkType), NEW b \in Seq(NetworkType), TwinNets(a, b), OneEach(a), NEW id
  PROVE  TwinNets(Without(a, id), Without(b, id))
<1>1. Len(a) \in Nat /\ Len(b) = Len(a) /\ \A k \in 1..Len(a) : Twins(a[k], b[k]) /\ a[k].id = b[k].id
  BY DEF TwinNets, Twins
<1>2. CASE \A k \in 1..Len(a) : a[k].id # id
  <2>1. Without(a, id) = a
    BY <1>2, WithoutIs
  <2>2. Without(b, id) = b
    BY <1>1, <1>2, WithoutIs
  <2> QED
    BY <2>1, <2>2
<1>3. ASSUME NEW l \in 1..Len(a), a[l].id = id PROVE TwinNets(Without(a, id), Without(b, id))
  <2>1. PICK i \in 1..Len(a) : a[i].id = id /\ Without(a, id) = RemoveAt(a, i)
    BY <1>3, WithoutIs
  <2>2. PICK j \in 1..Len(b) : b[j].id = id /\ Without(b, id) = RemoveAt(b, j)
    BY <1>1, <1>3, WithoutIs
  <2>3. i = j
    BY <1>1, <2>1, <2>2 DEF OneEach
  <2>4. /\ Len(RemoveAt(a, i)) = Len(a) - 1
        /\ \A k \in 1..(Len(a) - 1) : RemoveAt(a, i)[k] = IF k < i THEN a[k] ELSE a[k + 1]
    BY RemoveAtIs
  <2>5. /\ Len(RemoveAt(b, i)) = Len(a) - 1
        /\ \A k \in 1..(Len(a) - 1) : RemoveAt(b, i)[k] = IF k < i THEN b[k] ELSE b[k + 1]
    BY <1>1, RemoveAtIs
  <2>6. ASSUME NEW k \in 1..(Len(a) - 1) PROVE Twins(RemoveAt(a, i)[k], RemoveAt(b, i)[k])
    <3>1. k \in 1..Len(a) /\ k + 1 \in 1..Len(a)
      BY <1>1
    <3> QED
      BY <1>1, <2>4, <2>5, <3>1
  <2> QED
    BY <2>1, <2>2, <2>3, <2>4, <2>5, <2>6 DEF TwinNets
<1> QED
  BY <1>2, <1>3

LEMMA FirstTwins ==
  ASSUME NEW s, NEW t, s.nets \in Seq(NetworkType), t.nets \in Seq(NetworkType), TwinNets(s.nets, t.nets)
  PROVE  FirstOf(s) = FirstOf(t)
<1>1. Len(s.nets) = Len(t.nets) /\ \A k \in 1..Len(s.nets) : s.nets[k].id = t.nets[k].id
  BY DEF TwinNets, Twins
<1>2. CASE s.nets = <<>>
  <2>1. t.nets = <<>>
    BY <1>1, <1>2, EmptySeq
  <2> QED
    BY <1>2, <2>1 DEF FirstOf
<1>3. CASE s.nets # <<>>
  <2>1. 1 \in 1..Len(s.nets) /\ t.nets # <<>>
    BY <1>1, <1>3, EmptySeq
  <2> QED
    BY <1>1, <1>3, <2>1 DEF FirstOf
<1> QED
  BY <1>2, <1>3

LEMMA CloseAkin ==
  ASSUME NEW s, NEW t, Akin(s, t), OneEach(s.nets), NEW id \in Ids
  PROVE  Akin(Close(s, id), Close(t, id))
<1>1. /\ s \in SessionType /\ t \in SessionType
      /\ s.nets \in Seq(NetworkType) /\ t.nets \in Seq(NetworkType)
      /\ TwinNets(s.nets, t.nets) /\ SameSelection(s.selection, t.selection)
      /\ s.active = t.active /\ s.style = t.style
  BY SessionIs DEF Akin
<1>2. PICK c : c = Close(s, id)
  OBVIOUS
<1>3. PICK d : d = Close(t, id)
  OBVIOUS
<1>4. PICK a : a = Without(s.nets, id)
  OBVIOUS
<1>5. PICK b : b = Without(t.nets, id)
  OBVIOUS
<1>6. a \in Seq(NetworkType) /\ b \in Seq(NetworkType)
  BY <1>1, <1>4, <1>5, WithoutType
<1>7. TwinNets(a, b)
  BY <1>1, <1>4, <1>5, WithoutTwins
<1>8. /\ c \in SessionType /\ Len(c.nets) = Len(a)
      /\ \A k \in 1..Len(a) : c.nets[k] = Orphaned(a[k], id)
      /\ c.active = IF s.active = id THEN FirstOf([s EXCEPT !.nets = a]) ELSE s.active
      /\ c.selection = IF s.selection # Nothing /\ s.selection.net = id THEN Nothing ELSE s.selection
      /\ c.style = s.style
  BY <1>1, <1>2, <1>4, CloseIs DEF Leaves
<1>9. /\ d \in SessionType /\ Len(d.nets) = Len(b)
      /\ \A k \in 1..Len(b) : d.nets[k] = Orphaned(b[k], id)
      /\ d.active = IF t.active = id THEN FirstOf([t EXCEPT !.nets = b]) ELSE t.active
      /\ d.selection = IF t.selection # Nothing /\ t.selection.net = id THEN Nothing ELSE t.selection
      /\ d.style = t.style
  BY <1>1, <1>3, <1>5, CloseIs DEF Leaves
<1>10. FirstOf([s EXCEPT !.nets = a]) = FirstOf([t EXCEPT !.nets = b])
  <2>1. [s EXCEPT !.nets = a].nets = a /\ [t EXCEPT !.nets = b].nets = b
    BY <1>1, <1>6, NetsReplaced
  <2> QED
    BY <1>6, <1>7, <2>1, FirstTwins
<1>11. TwinNets(c.nets, d.nets)
  <2>1. Len(c.nets) = Len(a) /\ Len(d.nets) = Len(a) /\ \A k \in 1..Len(a) : Twins(a[k], b[k])
    BY <1>7, <1>8, <1>9 DEF TwinNets
  <2>2. \A k \in 1..Len(a) : c.nets[k] = Orphaned(a[k], id) /\ d.nets[k] = Orphaned(b[k], id)
                             /\ a[k] \in NetworkType /\ b[k] \in NetworkType
    BY <1>6, <1>7, <1>8, <1>9, ElementOfSeq DEF TwinNets
  <2>3. \A n, m \in NetworkType : Twins(n, m) => Twins(Orphaned(n, id), Orphaned(m, id))
    BY OrphanedIs DEF Twins
  <2> QED
    BY <2>1, <2>2, <2>3 DEF TwinNets
<1>12. SameSelection(c.selection, d.selection)
  BY <1>1, <1>8, <1>9 DEF SameSelection
<1>13. c.active = d.active /\ c.style = d.style
  BY <1>1, <1>8, <1>9, <1>10
<1> QED
  BY <1>2, <1>3, <1>8, <1>9, <1>11, <1>12, <1>13 DEF Akin

LEMMA EditAkin ==
  ASSUME NEW s, NEW t, Akin(s, t), OneEach(s.nets), NEW id \in Ids, Known(s, id)
  PROVE  Akin(Edit(s, id), Edit(t, id))
<1>1. /\ s \in SessionType /\ t \in SessionType /\ TwinNets(s.nets, t.nets)
      /\ SameSelection(s.selection, t.selection) /\ s.active = t.active /\ s.style = t.style
  BY DEF Akin
<1>2. PICK i : i = At(s, id)
  OBVIOUS
<1>3. /\ i = At(t, id) /\ i \in 1..Len(s.nets) /\ Known(t, id)
      /\ s.nets[i] \in NetworkType /\ t.nets[i] \in NetworkType /\ Twins(s.nets[i], t.nets[i])
  BY <1>2, AkinAt, AkinIds
<1>4. PICK c : c = Edit(s, id)
  OBVIOUS
<1>5. PICK d : d = Edit(t, id)
  OBVIOUS
<1>6. /\ c \in SessionType /\ Len(c.nets) = Len(s.nets)
      /\ \A k \in 1..Len(s.nets) : c.nets[k] = IF k = i THEN Edited(s.nets[i]) ELSE s.nets[k]
  BY <1>1, <1>2, <1>4, EditIs
<1>7. /\ d \in SessionType /\ Len(d.nets) = Len(t.nets)
      /\ \A k \in 1..Len(t.nets) : d.nets[k] = IF k = i THEN Edited(t.nets[i]) ELSE t.nets[k]
  BY <1>1, <1>3, <1>5, EditIs
<1>8. Twins(Edited(s.nets[i]), Edited(t.nets[i]))
  BY <1>3, EditedIs DEF Twins
<1>9. TwinNets(c.nets, d.nets)
  BY <1>1, <1>6, <1>7, <1>8 DEF TwinNets
<1>10. /\ c.selection = s.selection /\ c.active = s.active /\ c.style = s.style
       /\ d.selection = t.selection /\ d.active = t.active /\ d.style = t.style
  BY <1>1, <1>4, <1>5, SessionIs DEF Edit, SessionType
<1> QED
  BY <1>1, <1>4, <1>5, <1>6, <1>7, <1>9, <1>10 DEF Akin

LEMMA HandleTwins ==
  ASSUME NEW id, NEW a, NEW b, NEW source, NEW edits, NEW from, NEW x, NEW y
  PROVE  Twins(Handle(id, a, source, edits, from, x), Handle(id, b, source, edits, from, y))
BY DEF Twins, Handle

LEMMA OpenAkin ==
  ASSUME NEW s, NEW t, Akin(s, t), Len(s.nets) < MaxNets, NEW source \in Jobs \cup {Nothing},
         NEW a \in 1..MaxNets, NEW b \in 1..MaxNets
  PROVE  Akin(Open(s, a, source), Open(t, b, source))
<1>1. /\ s \in SessionType /\ t \in SessionType /\ TwinNets(s.nets, t.nets) /\ Len(t.nets) < MaxNets
      /\ s.nets \in Seq(NetworkType) /\ t.nets \in Seq(NetworkType)
      /\ SameSelection(s.selection, t.selection) /\ s.active = t.active /\ s.style = t.style
  BY SessionIs DEF Akin, TwinNets
<1>2. PICK o : o = Open(s, a, source)
  OBVIOUS
<1>3. PICK p : p = Open(t, b, source)
  OBVIOUS
<1>4. PICK h : h = Handle(FreshId(s), a, source, 0, None, 0)
  OBVIOUS
<1>5. PICK g : g = Handle(FreshId(t), b, source, 0, None, 0)
  OBVIOUS
<1>6. FreshId(s) = FreshId(t)
  BY AkinFresh
<1>7. /\ o \in SessionType /\ o.nets = Append(s.nets, h)
      /\ o.active = FreshId(s) /\ o.selection = s.selection /\ o.style = s.style
  BY <1>1, <1>2, <1>4, OpenIs
<1>8. /\ p \in SessionType /\ p.nets = Append(t.nets, g)
      /\ p.active = FreshId(t) /\ p.selection = t.selection /\ p.style = t.style
  BY <1>1, <1>3, <1>5, OpenIs
<1>9. Twins(h, g)
  BY <1>4, <1>5, <1>6, HandleTwins
<1>10. TwinNets(o.nets, p.nets)
  BY <1>1, <1>7, <1>8, <1>9, AppendTwins
<1> QED
  BY <1>1, <1>2, <1>3, <1>6, <1>7, <1>8, <1>10 DEF Akin

LEMMA DeriveAkin ==
  ASSUME NEW s, NEW t, Akin(s, t), OneEach(s.nets), Len(s.nets) < MaxNets, NEW id \in Ids, Known(s, id),
         NEW a \in 1..MaxNets, NEW b \in 1..MaxNets
  PROVE  Akin(Derive(s, a, id), Derive(t, b, id))
<1>1. /\ s \in SessionType /\ t \in SessionType /\ TwinNets(s.nets, t.nets) /\ Len(t.nets) < MaxNets
      /\ s.nets \in Seq(NetworkType) /\ t.nets \in Seq(NetworkType) /\ Known(t, id)
      /\ SameSelection(s.selection, t.selection) /\ s.active = t.active /\ s.style = t.style
  BY SessionIs, AkinIds DEF Akin, TwinNets
<1>2. PICK x : x = s.nets[At(s, id)]
  OBVIOUS
<1>3. PICK y : y = t.nets[At(t, id)]
  OBVIOUS
<1>4. Twins(x, y)
  BY <1>2, <1>3, AkinAt
<1>5. PICK o : o = Derive(s, a, id)
  OBVIOUS
<1>6. PICK p : p = Derive(t, b, id)
  OBVIOUS
<1>7. PICK h : h = Handle(FreshId(s), a, x.source, x.edits, x.id, x.object)
  OBVIOUS
<1>8. PICK g : g = Handle(FreshId(t), b, y.source, y.edits, y.id, y.object)
  OBVIOUS
<1>9. /\ o \in SessionType /\ o.nets = Append(s.nets, h)
      /\ o.active = s.active /\ o.selection = s.selection /\ o.style = s.style
  BY <1>1, <1>2, <1>5, <1>7, DeriveIs
<1>10. /\ p \in SessionType /\ p.nets = Append(t.nets, g)
       /\ p.active = t.active /\ p.selection = t.selection /\ p.style = t.style
  BY <1>1, <1>3, <1>6, <1>8, DeriveIs
<1>11. Twins(h, g)
  BY <1>4, <1>7, <1>8, AkinFresh, HandleTwins DEF Twins
<1>12. TwinNets(o.nets, p.nets)
  BY <1>1, <1>9, <1>10, <1>11, AppendTwins
<1> QED
  BY <1>1, <1>5, <1>6, <1>9, <1>10, <1>12 DEF Akin

\* An operation that a session takes, as it is recorded in "did".
Able(s, op) ==
  \/ op \in CoreOps /\ Accepts(s, op)
  \/ op.do = "open" /\ op.net \in Jobs /\ Len(s.nets) < MaxNets
  \/ op.do = "derive" /\ op.net \in Ids /\ Known(s, op.net) /\ Len(s.nets) < MaxNets
  \/ op.do = "edit" /\ op.net \in Ids /\ Known(s, op.net)

LEMMA CoreDo ==
  ASSUME NEW s, NEW op \in CoreOps, NEW a
  PROVE  Do(s, op, a) = Do(s, op, 0)
<1>1. op.do \in {"close", "activate", "select", "clear", "style"}
  BY CoreOpIs
<1> QED
  BY <1>1 DEF Do

LEMMA SelectsAkin ==
  ASSUME NEW s, NEW t, Akin(s, t), OneEach(s.nets), NEW op \in CoreOps, op.do = "select", Accepts(s, op),
         Accepts(t, op)
  PROVE  Akin(Do(s, op, 0), Do(t, op, 0))
<1>1. s \in SessionType /\ t \in SessionType /\ op.net \in Ids /\ Known(s, op.net)
      /\ s.active = t.active /\ s.style = t.style /\ TwinNets(s.nets, t.nets)
  BY CoreOpIs DEF Akin, Accepts
<1>2. PICK c : c = Do(s, op, 0)
  OBVIOUS
<1>3. PICK d : d = Do(t, op, 0)
  OBVIOUS
<1>4. PICK n : n = s.nets[At(s, op.net)]
  OBVIOUS
<1>5. PICK m : m = t.nets[At(t, op.net)]
  OBVIOUS
<1>6. n \in NetworkType /\ m \in NetworkType /\ Twins(n, m)
  BY <1>1, <1>4, <1>5, AkinAt
<1>7. /\ c \in SessionType /\ c.selection = Payload(n, n.edits)
      /\ c.nets = s.nets /\ c.active = s.active /\ c.style = s.style
  BY <1>1, <1>2, <1>4, DoIs
<1>8. /\ d \in SessionType /\ d.selection = Payload(m, m.edits)
      /\ d.nets = t.nets /\ d.active = t.active /\ d.style = t.style
  BY <1>1, <1>3, <1>5, DoIs
<1>9. n.edits \in Nat /\ m.edits \in Nat
  BY <1>6 DEF NetworkType
<1>10. SameSelection(c.selection, d.selection)
  BY <1>6, <1>7, <1>8, <1>9, PayloadIs DEF SameSelection, Twins
<1> QED
  BY <1>1, <1>2, <1>3, <1>7, <1>8, <1>10 DEF Akin

LEMMA CoreAkin ==
  ASSUME NEW s, NEW t, Akin(s, t), OneEach(s.nets), NEW op \in CoreOps, Accepts(s, op)
  PROVE  Accepts(t, op) /\ Akin(Do(s, op, 0), Do(t, op, 0))
<1>1. s \in SessionType /\ t \in SessionType /\ op.net \in Ids
      /\ s.active = t.active /\ s.style = t.style /\ TwinNets(s.nets, t.nets)
      /\ SameSelection(s.selection, t.selection)
  BY CoreOpIs DEF Akin
<1>2. Accepts(t, op)
  BY <1>1, AkinIds DEF Accepts
<1>3. PICK c : c = Do(s, op, 0)
  OBVIOUS
<1>4. PICK d : d = Do(t, op, 0)
  OBVIOUS
<1>5. CASE op.do = "close"
  <2>1. c = Close(s, op.net) /\ d = Close(t, op.net)
    BY <1>1, <1>2, <1>3, <1>4, <1>5, DoIs
  <2> QED
    BY <1>1, <1>2, <1>3, <1>4, <2>1, CloseAkin
<1>6. CASE op.do = "activate"
  <2>1. /\ c \in SessionType /\ c.nets = s.nets /\ c.active = op.net /\ c.selection = s.selection
        /\ c.style = s.style
    BY <1>1, <1>3, <1>6, DoIs
  <2>2. /\ d \in SessionType /\ d.nets = t.nets /\ d.active = op.net /\ d.selection = t.selection
        /\ d.style = t.style
    BY <1>1, <1>2, <1>4, <1>6, DoIs
  <2> QED
    BY <1>1, <1>2, <1>3, <1>4, <2>1, <2>2 DEF Akin
<1>7. CASE op.do = "select"
  BY <1>2, <1>7, SelectsAkin
<1>8. CASE op.do = "clear"
  <2>1. /\ c \in SessionType /\ c.nets = s.nets /\ c.active = s.active /\ c.selection = Nothing
        /\ c.style = s.style
    BY <1>1, <1>3, <1>8, DoIs
  <2>2. /\ d \in SessionType /\ d.nets = t.nets /\ d.active = t.active /\ d.selection = Nothing
        /\ d.style = t.style
    BY <1>1, <1>2, <1>4, <1>8, DoIs
  <2> QED
    BY <1>1, <1>2, <1>3, <1>4, <2>1, <2>2 DEF Akin, SameSelection
<1>9. CASE op.do = "style"
  <2>1. c \in SessionType /\ c.nets = s.nets /\ c.active = s.active /\ c.selection = s.selection
    BY <1>1, <1>3, <1>9, DoIs
  <2>2. d \in SessionType /\ d.nets = t.nets /\ d.active = t.active /\ d.selection = t.selection
    BY <1>1, <1>2, <1>4, <1>9, DoIs
  <2>3. c.style = TRUE /\ d.style = TRUE
    BY <1>1, <1>3, <1>4, <1>9, StyleReplaced DEF Do
  <2> QED
    BY <1>1, <1>2, <1>3, <1>4, <2>1, <2>2, <2>3 DEF Akin
<1> QED
  BY <1>5, <1>6, <1>7, <1>8, <1>9, CoreOpIs

\* What an operation does to two sessions that are akin, python could not tell.
LEMMA DoAkin ==
  ASSUME NEW s, NEW t, Akin(s, t), OneEach(s.nets), NEW op, Able(s, op), NEW a \in 1..MaxNets, NEW b \in 1..MaxNets
  PROVE  Able(t, op) /\ Akin(Do(s, op, a), Do(t, op, b))
<1>1. Len(s.nets) = Len(t.nets) /\ \A id : Known(s, id) = Known(t, id)
  BY AkinIds DEF Akin, TwinNets
<1>2. CASE op \in CoreOps /\ Accepts(s, op)
  <2>1. Accepts(t, op) /\ Akin(Do(s, op, 0), Do(t, op, 0))
    BY <1>2, CoreAkin
  <2>2. Do(s, op, a) = Do(s, op, 0) /\ Do(t, op, b) = Do(t, op, 0)
    BY <1>2, CoreDo
  <2> QED
    BY <1>2, <2>1, <2>2 DEF Able
<1>3. CASE op.do = "open" /\ op.net \in Jobs /\ Len(s.nets) < MaxNets
  <2>1. Do(s, op, a) = Open(s, a, op.net) /\ Do(t, op, b) = Open(t, b, op.net)
    BY <1>3 DEF Do
  <2>2. Akin(Open(s, a, op.net), Open(t, b, op.net))
    BY <1>3, OpenAkin
  <2> QED
    BY <1>1, <1>3, <2>1, <2>2 DEF Able
<1>4. CASE op.do = "derive" /\ op.net \in Ids /\ Known(s, op.net) /\ Len(s.nets) < MaxNets
  <2>1. Do(s, op, a) = Derive(s, a, op.net) /\ Do(t, op, b) = Derive(t, b, op.net)
    BY <1>4 DEF Do
  <2>2. Akin(Derive(s, a, op.net), Derive(t, b, op.net))
    BY <1>4, DeriveAkin
  <2> QED
    BY <1>1, <1>4, <2>1, <2>2 DEF Able
<1>5. CASE op.do = "edit" /\ op.net \in Ids /\ Known(s, op.net)
  <2>1. Do(s, op, a) = Edit(s, op.net) /\ Do(t, op, b) = Edit(t, op.net)
    BY <1>5 DEF Do
  <2>2. Akin(Edit(s, op.net), Edit(t, op.net))
    BY <1>5, EditAkin
  <2> QED
    BY <1>1, <1>5, <2>1, <2>2 DEF Able
<1> QED
  BY <1>2, <1>3, <1>4, <1>5 DEF Able

-----------------------------------------------------------------------------

\* A run of operations one after the other, each on a session that takes it.
Trace(f, s, did) ==
  /\ f \in [0..Len(did) -> SessionType]
  /\ f[0] = s
  /\ \A k \in 1..Len(did) :
       OneEach(f[k - 1].nets) /\ Able(f[k - 1], did[k]) /\ f[k] = Do(f[k - 1], did[k], 1)

\* They lead from s to t.
Leads(s, did, t) == \E f : Trace(f, s, did) /\ Akin(f[Len(did)], t)

LEMMA LeadsOn ==
  ASSUME NEW s, NEW did, NEW t, NEW u, Leads(s, did, t), Akin(t, u)
  PROVE  Leads(s, did, u)
BY AkinTwice DEF Leads

LEMMA LeadsNowhere ==
  ASSUME NEW s, NEW t, Akin(s, t)
  PROVE  Leads(s, <<>>, t)
<1>1. PICK f : f = [k \in 0..0 |-> s]
  OBVIOUS
<1>2. s \in SessionType /\ f \in [0..0 -> SessionType] /\ f[0] = s
  BY <1>1 DEF Akin
<1>3. Trace(f, s, <<>>)
  BY <1>2 DEF Trace
<1> QED
  BY <1>2, <1>3 DEF Leads

\* One operation more.
LEMMA LeadsFurther ==
  ASSUME NEW s, NEW did \in Seq(OpType), NEW t, Leads(s, did, t), NEW op \in OpType, OneEach(t.nets), Able(t, op),
         NEW a \in 1..MaxNets
  PROVE  Leads(s, did \o <<op>>, Do(t, op, a))
<1>1. PICK f : Trace(f, s, did) /\ Akin(f[Len(did)], t)
  BY DEF Leads
<1>2. PICK n \in Nat : n = Len(did)
  OBVIOUS
<1>3. PICK more : more = did \o <<op>>
  OBVIOUS
<1>4. Len(more) = n + 1 /\ more[n + 1] = op /\ \A k \in 1..n : more[k] = did[k]
  BY <1>2, <1>3
<1>5. /\ f \in [0..n -> SessionType] /\ f[0] = s /\ f[n] \in SessionType
      /\ \A k \in 1..n : OneEach(f[k - 1].nets) /\ Able(f[k - 1], did[k]) /\ f[k] = Do(f[k - 1], did[k], 1)
  BY <1>1, <1>2 DEF Trace
<1>6. Akin(t, f[n]) /\ Akin(f[n], t) /\ 1 \in 1..MaxNets
  BY <1>1, <1>2, AkinBack, BoundsAssumption
<1>7. Able(f[n], op)
  BY <1>6, DoAkin
<1>8. OneEach(f[n].nets)
  BY <1>6 DEF OneEach, Akin, TwinNets, Twins
<1>9. PICK new : new = Do(f[n], op, 1)
  OBVIOUS
<1>10. Akin(new, Do(t, op, a)) /\ new \in SessionType
  BY <1>6, <1>7, <1>8, <1>9, DoAkin DEF Akin
<1>11. PICK g : g = [k \in 0..(n + 1) |-> IF k = n + 1 THEN new ELSE f[k]]
  OBVIOUS
<1>12. \A k \in 0..n : k \in 0..(n + 1) /\ k # n + 1 /\ g[k] = f[k]
  BY <1>11
<1>13. g[n + 1] = new
  BY <1>11
<1>14. g \in [0..(n + 1) -> SessionType]
  BY <1>5, <1>10, <1>11
<1>15. ASSUME NEW k \in 1..(n + 1)
       PROVE  OneEach(g[k - 1].nets) /\ Able(g[k - 1], more[k]) /\ g[k] = Do(g[k - 1], more[k], 1)
  <2>1. CASE k = n + 1
    <3>1. g[k - 1] = f[n] /\ more[k] = op /\ g[k] = new
      BY <1>4, <1>12, <1>13, <2>1
    <3> QED
      BY <1>7, <1>8, <1>9, <3>1
  <2>2. CASE k # n + 1
    <3>1. k \in 1..n /\ k - 1 \in 0..n /\ k \in 0..n
      BY <2>2
    <3>2. g[k - 1] = f[k - 1] /\ more[k] = did[k] /\ g[k] = f[k]
      BY <1>4, <1>12, <3>1
    <3> QED
      BY <1>5, <3>1, <3>2
  <2> QED
    BY <2>1, <2>2
<1>16. g[0] = s
  BY <1>5, <1>12
<1>17. Trace(g, s, more)
  BY <1>4, <1>14, <1>15, <1>16 DEF Trace
<1> QED
  BY <1>3, <1>4, <1>10, <1>13, <1>17 DEF Leads

\* One run after another.
LEMMA LeadsThere ==
  ASSUME NEW s, NEW did \in Seq(OpType), NEW t, Leads(s, did, t),
         NEW rest \in Seq(OpType), NEW u, Leads(t, rest, u)
  PROVE  Leads(s, did \o rest, u)
<1>1. PICK g : Trace(g, t, rest) /\ Akin(g[Len(rest)], u)
  BY DEF Leads
<1>2. PICK n \in Nat : n = Len(rest)
  OBVIOUS
<1>3. /\ g \in [0..n -> SessionType] /\ g[0] = t
      /\ \A k \in 1..n : OneEach(g[k - 1].nets) /\ Able(g[k - 1], rest[k]) /\ g[k] = Do(g[k - 1], rest[k], 1)
  BY <1>1, <1>2 DEF Trace
<1> DEFINE Goes(k) == Leads(s, did \o SubSeq(rest, 1, k), g[k])
<1> HIDE DEF Goes
<1>4. PICK good : good = {k \in 0..n : Goes(k)}
  OBVIOUS
<1>5. 0 \in good
  <2>1. SubSeq(rest, 1, 0) = <<>> /\ did \o <<>> = did
    OBVIOUS
  <2>2. Goes(0)
    BY <1>3, <2>1 DEF Goes
  <2> QED
    BY <1>4, <2>2
<1>6. ASSUME NEW k \in 1..n, k - 1 \in good PROVE k \in good
  <2>1. PICK some : some = SubSeq(rest, 1, k - 1)
    OBVIOUS
  <2>2. some \in Seq(OpType) /\ SubSeq(rest, 1, k) = some \o <<rest[k]>> /\ rest[k] \in OpType
    <3>1. k \in 1..Len(rest) /\ k - 1 \in 0..Len(rest) /\ k \in Nat /\ 1 \in 1..(Len(rest) + 1) /\ 1 <= (k - 1) + 1
          /\ k \in 0..Len(rest) /\ 1 <= k + 1
      BY <1>2
    <3>2. some \in Seq(OpType) /\ Len(some) = k - 1 /\ \A i \in 1..(k - 1) : some[i] = rest[i]
      <4>1. /\ some \in Seq(OpType) /\ Len(some) = (k - 1) - 1 + 1
            /\ \A i \in 1..((k - 1) - 1 + 1) : some[i] = rest[1 + i - 1]
        BY <2>1, <3>1, Part
      <4> QED
        BY <3>1, <4>1
    <3>3. PICK all : all = SubSeq(rest, 1, k)
      OBVIOUS
    <3>4. all \in Seq(OpType) /\ Len(all) = k /\ \A i \in 1..k : all[i] = rest[i]
      <4>1. all \in Seq(OpType) /\ Len(all) = k - 1 + 1 /\ \A i \in 1..(k - 1 + 1) : all[i] = rest[1 + i - 1]
        BY <3>1, <3>3, Part
      <4> QED
        BY <3>1, <4>1
    <3>5. rest[k] \in OpType
      BY <3>1, ElementOfSeq
    <3>6. PICK one : one = some \o <<rest[k]>>
      OBVIOUS
    <3>7. one \in Seq(OpType) /\ Len(one) = k /\ \A i \in 1..k : one[i] = rest[i]
      <4>1. one \in Seq(OpType) /\ Len(one) = Len(some) + 1 /\ one[Len(some) + 1] = rest[k]
            /\ \A i \in 1..Len(some) : one[i] = some[i]
        BY <3>2, <3>5, <3>6
      <4>2. \A i \in 1..k : i \in 1..(k - 1) \/ i = k
        OBVIOUS
      <4> QED
        BY <3>1, <3>2, <4>1, <4>2
    <3>8. one = all
      BY <3>4, <3>7, SeqEqual
    <3> QED
      BY <3>2, <3>3, <3>5, <3>6, <3>8
  <2>3. Leads(s, did \o some, g[k - 1])
    <3>1. Goes(k - 1)
      BY <1>4, <1>6
    <3> QED
      BY <2>1, <3>1 DEF Goes
  <2>4. did \o some \in Seq(OpType) /\ (did \o some) \o <<rest[k]>> = did \o (some \o <<rest[k]>>)
    BY <2>2
  <2>5. OneEach(g[k - 1].nets) /\ Able(g[k - 1], rest[k]) /\ g[k] = Do(g[k - 1], rest[k], 1) /\ 1 \in 1..MaxNets
    BY <1>3, BoundsAssumption
  <2>6. Leads(s, (did \o some) \o <<rest[k]>>, g[k])
    BY <2>2, <2>3, <2>4, <2>5, LeadsFurther
  <2>7. Goes(k)
    BY <2>2, <2>4, <2>6 DEF Goes
  <2> QED
    BY <1>4, <2>7
<1>7. n \in good
  BY <1>5, <1>6, UpTo
<1>8. SubSeq(rest, 1, n) = rest
  BY <1>2
<1>9. Goes(n)
  BY <1>4, <1>7
<1>10. Leads(s, did \o rest, g[n])
  BY <1>8, <1>9 DEF Goes
<1> QED
  BY <1>1, <1>2, <1>10, LeadsOn

-----------------------------------------------------------------------------

LEMMA RedoneIs ==
  ASSUME NEW did \in Seq(OpType), NEW s, NEW f, Trace(f, s, did)
  PROVE  Redone(did, s) = f[Len(did)]
<1> DEFINE Made(g) == g = [k \in 0..Len(did) |-> IF k = 0 THEN s ELSE Do(g[k - 1], did[k], 1)]
           after == CHOOSE g : Made(g)
<1>1. Redone(did, s) = after[Len(did)]
  BY DEF Redone
<1>2. PICK n \in Nat : n = Len(did)
  OBVIOUS
<1>3. /\ f \in [0..n -> SessionType] /\ f[0] = s
      /\ \A k \in 1..n : f[k] = Do(f[k - 1], did[k], 1)
  BY <1>2 DEF Trace
<1>4. Made(f)
  BY <1>2, <1>3
<1>5. Made(after)
  BY <1>4
<1> HIDE DEF after
<1>6. after[0] = s /\ \A k \in 1..n : after[k] = Do(after[k - 1], did[k], 1)
  BY <1>2, <1>5
<1>7. PICK good : good = {k \in 0..n : after[k] = f[k]}
  OBVIOUS
<1>8. 0 \in good
  BY <1>3, <1>6, <1>7
<1>9. ASSUME NEW k \in 1..n, k - 1 \in good PROVE k \in good
  BY <1>3, <1>6, <1>7, <1>9
<1>10. n \in good
  BY <1>8, <1>9, UpTo
<1> QED
  BY <1>1, <1>2, <1>7, <1>10

\* The sessions that replaying some entries goes through.
Retraces(f, entries) ==
  /\ f \in [0..Len(entries) -> SessionType]
  /\ f[0] = Launched
  /\ \A k \in 1..Len(entries) :
       f[k] = IF entries[k].ok /\ entries[k].parent = 0 THEN Redone(entries[k].did, f[k - 1]) ELSE f[k - 1]

\* Replaying some entries gives a session akin to t.
Replays(entries, t) == \E f : Retraces(f, entries) /\ Akin(f[Len(entries)], t)

LEMMA ReplayIs ==
  ASSUME NEW who, NEW entries \in Seq(Entries(who)), NEW t, Replays(entries, t)
  PROVE  Akin(Replay(entries), t)
<1>1. PICK f : Retraces(f, entries) /\ Akin(f[Len(entries)], t)
  BY DEF Replays
<1> DEFINE Made(g) == g = [k \in 0..Len(entries) |->
                            IF k = 0 THEN Launched
                            ELSE IF entries[k].ok /\ entries[k].parent = 0 THEN Redone(entries[k].did, g[k - 1])
                            ELSE g[k - 1]]
           after == CHOOSE g : Made(g)
<1>2. Replay(entries) = after[Len(entries)]
  BY DEF Replay
<1>3. PICK n \in Nat : n = Len(entries)
  OBVIOUS
<1>4. /\ f \in [0..n -> SessionType] /\ f[0] = Launched
      /\ \A k \in 1..n :
           f[k] = IF entries[k].ok /\ entries[k].parent = 0 THEN Redone(entries[k].did, f[k - 1]) ELSE f[k - 1]
  BY <1>1, <1>3 DEF Retraces
<1>5. Made(f)
  BY <1>3, <1>4
<1>6. Made(after)
  BY <1>5
<1> HIDE DEF after
<1>7. /\ after[0] = Launched
      /\ \A k \in 1..n :
           after[k] = IF entries[k].ok /\ entries[k].parent = 0 THEN Redone(entries[k].did, after[k - 1])
                      ELSE after[k - 1]
  BY <1>3, <1>6
<1>8. PICK good : good = {k \in 0..n : after[k] = f[k]}
  OBVIOUS
<1>9. 0 \in good
  BY <1>4, <1>7, <1>8
<1>10. ASSUME NEW k \in 1..n, k - 1 \in good PROVE k \in good
  BY <1>4, <1>7, <1>8, <1>10
<1>11. n \in good
  BY <1>9, <1>10, UpTo
<1> QED
  BY <1>1, <1>2, <1>3, <1>8, <1>11

LEMMA ReplaysNothing ==
  ASSUME NEW t, Akin(Launched, t)
  PROVE  Replays(<<>>, t)
<1>1. PICK f : f = [k \in 0..0 |-> Launched]
  OBVIOUS
<1>2. f \in [0..0 -> SessionType] /\ f[0] = Launched
  BY <1>1 DEF Akin
<1>3. Retraces(f, <<>>)
  BY <1>2 DEF Retraces
<1> QED
  BY <1>2, <1>3 DEF Replays

LEMMA ReplaysOn ==
  ASSUME NEW entries, NEW t, NEW u, Replays(entries, t), Akin(t, u)
  PROVE  Replays(entries, u)
BY AkinTwice DEF Replays

\* An entry more, with those nested in it: they are replayed by its own python.
LEMMA ReplaysMore ==
  ASSUME NEW who, NEW list \in Seq(Entries(who)), NEW inner, NEW nested \in Seq(Entries(inner)),
         NEW entry \in Entries(who), NEW all, Extends(all, list, nested, entry), entry.parent = 0,
         NEW b, NEW s, Replays(list, b), IF entry.ok THEN Leads(b, entry.did, s) ELSE b = s
  PROVE  Replays(all, s)
<1>1. PICK f : Retraces(f, list) /\ Akin(f[Len(list)], b)
  BY DEF Replays
<1>2. PICK n \in Nat : n = Len(list)
  OBVIOUS
<1>3. PICK m \in Nat : m = Len(nested)
  OBVIOUS
<1>4. /\ f \in [0..n -> SessionType] /\ f[0] = Launched /\ f[n] \in SessionType
      /\ \A k \in 1..n :
           f[k] = IF list[k].ok /\ list[k].parent = 0 THEN Redone(list[k].did, f[k - 1]) ELSE f[k - 1]
  BY <1>1, <1>2 DEF Retraces
<1>5. /\ Len(all) = n + m + 1 /\ all[n + m + 1] = entry
      /\ \A k \in 1..n : all[k] = list[k]
  BY <1>2, <1>3 DEF Extends
<1>6. ASSUME NEW k \in 1..m PROVE all[n + k].parent # 0
  <2>1. nested[k].parent \in Nat
    <3>1. k \in 1..Len(nested)
      BY <1>3
    <3>2. nested[k] \in Entries(inner)
      BY <3>1, ElementOfSeq
    <3> QED
      BY <3>2 DEF Entries
  <2>2. all[n + k].parent = IF nested[k].parent = 0 THEN n + m + 1 ELSE nested[k].parent + n
    BY <1>2, <1>3 DEF Extends
  <2> QED
    BY <2>1, <2>2
<1>7. PICK new : /\ new \in SessionType /\ Akin(new, s)
                 /\ new = IF entry.ok THEN Redone(entry.did, f[n]) ELSE f[n]
  <2>1. CASE entry.ok
    <3>1. entry.did \in Seq(OpType) /\ <<>> \in Seq(OpType) /\ <<>> \o entry.did = entry.did
      BY DEF Entries
    <3>2. Leads(f[n], <<>>, b)
      BY <1>1, <1>2, LeadsNowhere
    <3>3. Leads(f[n], <<>> \o entry.did, s)
      BY <2>1, <3>1, <3>2, LeadsThere
    <3>4. PICK h : Trace(h, f[n], entry.did) /\ Akin(h[Len(entry.did)], s)
      BY <3>1, <3>3 DEF Leads
    <3>5. Redone(entry.did, f[n]) = h[Len(entry.did)]
      BY <3>1, <3>4, RedoneIs
    <3> QED
      BY <2>1, <3>4, <3>5 DEF Akin
  <2>2. CASE ~entry.ok
    BY <1>1, <1>2, <1>4, <2>2
  <2> QED
    BY <2>1, <2>2
<1>8. PICK g : g = [k \in 0..(n + m + 1) |-> IF k <= n THEN f[k] ELSE IF k <= n + m THEN f[n] ELSE new]
  OBVIOUS
<1>9. g \in [0..(n + m + 1) -> SessionType]
  BY <1>4, <1>7, <1>8
<1>10. /\ \A k \in 0..n : k \in 0..(n + m + 1) /\ g[k] = f[k]
       /\ \A k \in n..(n + m) : g[k] = f[n]
       /\ g[n + m + 1] = new
  BY <1>8
<1>11. ASSUME NEW k \in 1..(n + m + 1)
       PROVE  g[k] = IF all[k].ok /\ all[k].parent = 0 THEN Redone(all[k].did, g[k - 1]) ELSE g[k - 1]
  <2>1. CASE k \in 1..n
    <3>1. k \in 0..n /\ k - 1 \in 0..n
      BY <2>1
    <3>2. g[k] = f[k] /\ g[k - 1] = f[k - 1] /\ all[k] = list[k]
      BY <1>5, <1>10, <2>1, <3>1
    <3> QED
      BY <1>4, <2>1, <3>2
  <2>2. CASE k \in (n + 1)..(n + m)
    <3>1. k - n \in 1..m /\ n + (k - n) = k /\ k \in n..(n + m) /\ k - 1 \in n..(n + m)
      BY <2>2
    <3>2. all[k].parent # 0
      BY <1>6, <3>1
    <3> QED
      BY <1>10, <3>1, <3>2
  <2>3. CASE k = n + m + 1
    <3>1. k - 1 \in n..(n + m)
      BY <2>3
    <3>2. g[k - 1] = f[n] /\ g[k] = new /\ all[k] = entry
      BY <1>5, <1>10, <2>3, <3>1
    <3> QED
      BY <1>7, <3>2
  <2> QED
    BY <2>1, <2>2, <2>3
<1>12. g[0] = Launched
  BY <1>4, <1>10
<1>13. Retraces(g, all)
  BY <1>5, <1>9, <1>11, <1>12 DEF Retraces
<1> QED
  BY <1>5, <1>7, <1>10, <1>13 DEF Replays

-----------------------------------------------------------------------------
(* The entries there are tell of everything, step by step: the history, of *)
(* the session in which the outermost handler began; what each handler has *)
(* done, of the session in which the next one began, or of that there is.  *)

Settled(frames, s) == IF frames = <<>> THEN s ELSE frames[1].before

Got(frames, s, i) == IF i = Len(frames) THEN s ELSE frames[i + 1].before

ReplayInv ==
  /\ ~silent => Replays(history, Settled(running, session))
  /\ \A i \in 1..Len(running) : Leads(running[i].before, running[i].did, Got(running, session, i))

LEMMA NowhereLeads ==
  ASSUME NEW s \in SessionType
  PROVE  Leads(s, <<>>, s)
BY AkinSame, LeadsNowhere

LEMMA OneLeads ==
  ASSUME NEW s \in SessionType, OneEach(s.nets), NEW op \in OpType, Able(s, op), NEW a \in 1..MaxNets
  PROVE  Leads(s, <<op>>, Do(s, op, a))
<1>1. PICK none : none = <<>>
  OBVIOUS
<1>2. none \in Seq(OpType) /\ none \o <<op>> = <<op>>
  BY <1>1, EmptySeq
<1>3. Leads(s, none, s)
  BY <1>1, NowhereLeads
<1>4. Leads(s, none \o <<op>>, Do(s, op, a))
  BY <1>2, <1>3, LeadsFurther
<1> QED
  BY <1>2, <1>4

LEMMA IdsApart ==
  ASSUME TypeInv, RefsInv
  PROVE  session \in SessionType /\ OneEach(session.nets)
BY DEF TypeInv, SessionInv, RefsInv, Live, Apart, OneEach

\* What a core Action does, and its entry.
LEMMA CoreLeads ==
  ASSUME TypeInv, RefsInv, NEW op \in CoreOps,
         session' = IF Accepts(session, op) THEN Do(session, op, 0) ELSE session
  PROVE  LET entry == Entry(Accepts(session, op), <<op>>, Nothing) IN
         /\ entry.parent = 0 /\ entry.ok = Accepts(session, op)
         /\ ~entry.ok => session' = session
         /\ Leads(session, entry.did, session')
<1>1. PICK did : did = <<op>>
  OBVIOUS
<1>2. did \in Seq(OpType) /\ op \in OpType
  BY <1>1, CoreOpIs
<1>3. PICK ok \in BOOLEAN : ok = Accepts(session, op)
  BY AcceptsIs
<1>4. PICK entry : entry = Entry(ok, did, Nothing)
  OBVIOUS
<1>5. entry.parent = 0 /\ entry.ok = ok /\ entry.did = IF ok THEN did ELSE <<>>
  BY <1>4 DEF Entry
<1>6. session \in SessionType /\ OneEach(session.nets)
  BY IdsApart
<1>7. CASE ok
  <2>1. Able(session, op) /\ 1 \in 1..MaxNets
    BY <1>3, <1>7, BoundsAssumption DEF Able
  <2>2. Leads(session, <<op>>, Do(session, op, 1))
    BY <1>2, <1>6, <2>1, OneLeads
  <2>3. Do(session, op, 1) = Do(session, op, 0)
    BY CoreDo
  <2>4. session' = Do(session, op, 0)
    BY <1>3, <1>7
  <2> QED
    BY <1>1, <1>3, <1>4, <1>5, <1>7, <2>2, <2>3, <2>4
<1>8. CASE ~ok
  <2>1. session' = session
    BY <1>3, <1>8
  <2> QED
    BY <1>1, <1>3, <1>4, <1>5, <1>6, <1>8, <2>1, NowhereLeads
<1> QED
  BY <1>7, <1>8

\* An Action outside any handler.
LEMMA IdleReplays ==
  ASSUME TypeInv, ReplayInv, Idle, running' = running, silent' = silent,
         NEW entry \in Entries(Jobs \cup {Nothing}), Record(entry), entry.parent = 0,
         IF entry.ok THEN Leads(session, entry.did, session') ELSE session = session'
  PROVE  ReplayInv'
<1>1. running = <<>> /\ Len(running') = 0
  BY DEF Idle
<1>2. LogInv
  BY DEF TypeInv
<1>3. PICK none : none = <<>>
  OBVIOUS
<1>4. /\ none \in Seq(Entries({Nothing})) /\ Len(none) = 0
      /\ history \in Seq(Entries(Jobs \cup {Nothing})) /\ Len(history) \in Nat
  BY <1>2, <1>3, EmptySeq DEF LogInv
<1>5. Extends(history', history, none, entry)
  <2>1. /\ Len(history') = Len(history) + 1 /\ history'[Len(history) + 1] = entry
        /\ \A k \in 1..Len(history) : history'[k] = history[k]
    BY <1>2, RecordIs
  <2>2. Len(history) + Len(none) + 1 = Len(history) + 1 /\ 1..Len(none) = {}
    BY <1>4
  <2> QED
    BY <2>1, <2>2 DEF Extends
<1>6. ~silent => Replays(history, session)
  BY <1>1 DEF ReplayInv, Settled
<1>7. ~silent => Replays(history', session')
  BY <1>3, <1>4, <1>5, <1>6, ReplaysMore
<1> QED
  BY <1>1, <1>7 DEF ReplayInv, Settled

LEMMA SilentReplays ==
  ASSUME running' = <<>>, silent'
  PROVE  ReplayInv'
BY DEF ReplayInv

LEMMA QuietReplays ==
  ASSUME ReplayInv, UNCHANGED <<session, running, history, silent>>
  PROVE  ReplayInv'
BY DEF ReplayInv, Settled, Got

LEMMA BeforeIs ==
  ASSUME TypeInv
  PROVE  /\ Len(running) \in Nat
         /\ \A k \in 1..Len(running) : running[k].before \in SessionType /\ running[k].did \in Seq(OpType)
BY ElementOfSeq, FrameIs DEF TypeInv, FramesInv

\* The handler on top goes on.
LEMMA InsideReplays ==
  ASSUME TypeInv, ReplayInv, ~Idle, UNCHANGED <<history, silent>>,
         NEW did \in Seq(OpType), NEW entries \in Seq(Entries({Nothing})), TopDoes(did, entries),
         Leads(session, did, session')
  PROVE  ReplayInv'
<1>1. FramesInv
  BY DEF TypeInv
<1>2. PICK n \in Nat : n = Len(running)
  BY <1>1, TopIs
<1>3. n >= 1 /\ Top = running[n] /\ running # <<>> /\ n \in 1..n
  BY <1>1, <1>2, TopIs
<1>4. /\ Len(running') = n /\ running' # <<>>
      /\ \A k \in 1..n : running'[k].before = running[k].before
      /\ \A k \in 1..n : k # n => running'[k] = running[k]
      /\ running'[n].did = Top.did \o did
  BY <1>1, <1>2, TopDoesIs DEF Same
<1>5. Settled(running', session') = Settled(running, session)
  BY <1>3, <1>4 DEF Settled
<1>6. ASSUME NEW i \in 1..n
      PROVE  Leads(running'[i].before, running'[i].did, Got(running', session', i))
  <2>1. Leads(running[i].before, running[i].did, Got(running, session, i))
    BY <1>2 DEF ReplayInv
  <2>2. CASE i = n
    <3>1. Leads(running[n].before, running[n].did, session)
      BY <1>2, <2>1, <2>2 DEF Got
    <3>2. running[n].did \in Seq(OpType)
      BY <1>2, <1>3, BeforeIs
    <3>3. Leads(running[n].before, running[n].did \o did, session')
      BY <3>1, <3>2, LeadsThere
    <3>4. Got(running', session', i) = session'
      BY <1>4, <2>2 DEF Got
    <3> QED
      BY <1>3, <1>4, <2>2, <3>3, <3>4
  <2>3. CASE i # n
    <3>1. i + 1 \in 1..n
      BY <2>3
    <3>2. Got(running', session', i) = Got(running, session, i)
      BY <1>2, <1>4, <2>3, <3>1 DEF Got
    <3> QED
      BY <1>4, <2>1, <2>3, <3>2
  <2> QED
    BY <2>2, <2>3
<1> QED
  BY <1>4, <1>5, <1>6 DEF ReplayInv

LEMMA BeginReplays ==
  ASSUME TypeInv, ReplayInv, Begin
  PROVE  ReplayInv'
<1>1. PICK frame : frame =
        [mark |-> Len(undo), active |-> session.active, selection |-> session.selection,
         style |-> session.style, did |-> <<>>, nested |-> <<>>, before |-> session]
  OBVIOUS
<1>2. running' = Append(running, frame) /\ UNCHANGED <<session, history, silent>>
      /\ frame.did = <<>> /\ frame.before = session
  BY <1>1 DEF Begin
<1>3. running \in Seq(FrameType) /\ session \in SessionType
  BY DEF TypeInv, FramesInv, SessionInv
<1>4. PICK n \in Nat : n = Len(running)
  BY <1>3
<1>5. /\ Len(running') = n + 1 /\ running'[n + 1] = frame
      /\ \A k \in 1..n : running'[k] = running[k]
  BY <1>2, <1>3, <1>4
<1>6. running' # <<>>
  BY <1>5
<1>7. Settled(running', session') = Settled(running, session)
  <2>1. CASE running = <<>>
    <3>1. n = 0
      BY <1>4, <2>1
    <3> QED
      BY <1>2, <1>5, <1>6, <2>1, <3>1 DEF Settled
  <2>2. CASE running # <<>>
    <3>1. 1 \in 1..n
      BY <1>3, <1>4, <2>2, EmptySeq
    <3> QED
      BY <1>5, <1>6, <2>2, <3>1 DEF Settled
  <2> QED
    BY <2>1, <2>2
<1>8. ASSUME NEW i \in 1..(n + 1)
      PROVE  Leads(running'[i].before, running'[i].did, Got(running', session', i))
  <2>1. CASE i = n + 1
    <3>1. Got(running', session', i) = session
      BY <1>2, <1>5, <2>1 DEF Got
    <3> QED
      BY <1>2, <1>3, <1>5, <2>1, <3>1, NowhereLeads
  <2>2. CASE i \in 1..n
    <3>1. Leads(running[i].before, running[i].did, Got(running, session, i))
      BY <1>4, <2>2 DEF ReplayInv
    <3>2. Got(running', session', i) = Got(running, session, i)
      <4>1. i # n + 1 /\ (i = n \/ i + 1 \in 1..n)
        BY <2>2
      <4>2. Got(running', session', i) = running'[i + 1].before
        BY <1>5, <4>1 DEF Got
      <4>3. CASE i = n
        BY <1>2, <1>4, <1>5, <4>2, <4>3 DEF Got
      <4>4. CASE i # n
        BY <1>4, <1>5, <4>1, <4>2, <4>4 DEF Got
      <4> QED
        BY <4>3, <4>4
    <3> QED
      BY <1>5, <2>2, <3>1, <3>2
  <2> QED
    BY <2>1, <2>2
<1> QED
  BY <1>2, <1>5, <1>7, <1>8 DEF ReplayInv

\* The handler on top succeeds: what it did is its parent's, or its entry's.
LEMMA EndOkReplays ==
  ASSUME TypeInv, ReplayInv, EndOk
  PROVE  ReplayInv'
<1>1. FramesInv /\ LogInv /\ UNCHANGED <<session, silent>> /\ ~Idle
  BY DEF EndOk, TypeInv
<1>2. PICK n \in Nat : n = Len(running)
  BY <1>1, TopIs
<1>3. /\ n >= 1 /\ n \in 1..n /\ Top = running[n] /\ running # <<>> /\ Top \in FrameType
  BY <1>1, <1>2, TopIs
<1>4. PICK entry : entry = Entry(TRUE, Top.did, Nothing)
  OBVIOUS
<1>5. entry.ok = TRUE /\ entry.did = Top.did /\ entry.parent = 0
  BY <1>4 DEF Entry
<1>6. Top.did \in Seq(OpType) /\ Top.nested \in Seq(Entries({Nothing}))
  BY <1>3, FrameIs
<1>7. Leads(running[n].before, Top.did, session)
  BY <1>2, <1>3 DEF ReplayInv, Got
<1>8. CASE n = 1
  <2>1. running' = <<>> /\ Extends(history', history, Top.nested, entry)
        /\ entry \in Entries(Jobs \cup {Nothing}) /\ history \in Seq(Entries(Jobs \cup {Nothing}))
    BY <1>1, <1>2, <1>4, <1>8, EndOkIs DEF LogInv
  <2>2. ~silent => Replays(history, running[1].before)
    BY <1>3 DEF ReplayInv, Settled
  <2>3. IF entry.ok THEN Leads(running[1].before, entry.did, session) ELSE running[1].before = session
    BY <1>5, <1>7, <1>8
  <2>4. ~silent => Replays(history', session)
    BY <1>5, <1>6, <2>1, <2>2, <2>3, ReplaysMore
  <2>5. Settled(running', session') = session /\ 1..Len(running') = {}
    BY <1>1, <2>1 DEF Settled
  <2> QED
    BY <1>1, <2>4, <2>5 DEF ReplayInv
<1>9. CASE n # 1
  <2>1. /\ Popped /\ history' = history /\ running' # <<>>
        /\ running'[n - 1].did = running[n - 1].did \o entry.did
    BY <1>1, <1>2, <1>4, <1>9, EndOkIs
  <2>2. /\ Len(running') = n - 1
        /\ \A k \in 1..(n - 1) : running'[k].before = running[k].before
        /\ \A k \in 1..(n - 1) : k # n - 1 => running'[k] = running[k]
    BY <1>2, <2>1 DEF Popped, Same
  <2>3. n - 1 \in 1..n /\ n - 1 \in 1..(n - 1) /\ 1 \in 1..(n - 1) /\ (n - 1) + 1 = n /\ n - 1 # n
    BY <1>3, <1>9
  <2>4. Settled(running', session') = Settled(running, session)
    BY <1>3, <2>1, <2>2, <2>3 DEF Settled
  <2>5. ASSUME NEW i \in 1..(n - 1)
        PROVE  Leads(running'[i].before, running'[i].did, Got(running', session', i))
    <3>1. i \in 1..n /\ i # n /\ Got(running, session, i) = running[i + 1].before
      BY <1>2 DEF Got
    <3>2. Leads(running[i].before, running[i].did, running[i + 1].before)
      BY <1>2, <3>1 DEF ReplayInv
    <3>3. CASE i = n - 1
      <4>1. Leads(running[n - 1].before, running[n - 1].did, running[n].before)
        BY <2>3, <3>2, <3>3
      <4>2. running[n - 1].did \in Seq(OpType)
        BY <1>2, <2>3, BeforeIs
      <4>3. Leads(running[n - 1].before, running[n - 1].did \o entry.did, session)
        BY <1>5, <1>6, <1>7, <4>1, <4>2, LeadsThere
      <4>4. Got(running', session', i) = session
        BY <1>1, <2>2, <3>3 DEF Got
      <4> QED
        BY <2>1, <2>2, <2>3, <3>3, <4>3, <4>4
    <3>4. CASE i # n - 1
      <4>1. i + 1 \in 1..(n - 1)
        BY <3>4
      <4>2. Got(running', session', i) = running[i + 1].before
        BY <2>2, <3>4, <4>1 DEF Got
      <4> QED
        BY <2>2, <3>2, <3>4, <4>2
    <3> QED
      BY <3>3, <3>4
  <2> QED
    BY <1>1, <2>1, <2>2, <2>4, <2>5 DEF ReplayInv
<1> QED
  BY <1>8, <1>9

\* It raises: the session is as it was before it, and it is none's doing.
LEMMA FailedReplays ==
  ASSUME TypeInv, ReplayInv, ~Idle, Popped, session' = Top.before, silent' = silent,
         \A k \in 1..Len(running') : running'[k].did = running[k].did,
         ~silent /\ running' # <<>> => history' = history,
         ~silent /\ running' = <<>> /\ Replays(history, session') => Replays(history', session')
  PROVE  ReplayInv'
<1>1. FramesInv
  BY DEF TypeInv
<1>2. PICK n \in Nat : n = Len(running)
  BY <1>1, TopIs
<1>3. n >= 1 /\ Top = running[n] /\ running # <<>>
  BY <1>1, <1>2, TopIs
<1>4. /\ Len(running') = n - 1 /\ running' \in Seq(FrameType)
      /\ \A k \in 1..(n - 1) : running'[k].before = running[k].before /\ running'[k].did = running[k].did
  BY <1>2 DEF Popped, Same
<1>5. session' = running[n].before
  BY <1>3
<1>6. ~silent => Replays(history, running[1].before)
  BY <1>3 DEF ReplayInv, Settled
<1>7. ~silent => Replays(history', Settled(running', session'))
  <2>1. CASE running' = <<>>
    <3>1. n = 1
      BY <1>3, <1>4, <2>1
    <3>2. Settled(running', session') = session'
      BY <2>1 DEF Settled
    <3> QED
      BY <1>5, <1>6, <2>1, <3>1, <3>2
  <2>2. CASE running' # <<>>
    <3>1. 1 \in 1..(n - 1)
      BY <1>3, <1>4, <2>2, EmptySeq
    <3>2. Settled(running', session') = running[1].before
      BY <1>4, <2>2, <3>1 DEF Settled
    <3> QED
      BY <1>6, <2>2, <3>2
  <2> QED
    BY <2>1, <2>2
<1>8. ASSUME NEW i \in 1..(n - 1)
      PROVE  Leads(running'[i].before, running'[i].did, Got(running', session', i))
  <2>1. i \in 1..n /\ i # n /\ Got(running, session, i) = running[i + 1].before
    BY <1>2 DEF Got
  <2>2. Leads(running[i].before, running[i].did, running[i + 1].before)
    BY <1>2, <2>1 DEF ReplayInv
  <2>3. Got(running', session', i) = running[i + 1].before
    <3>1. CASE i = n - 1
      BY <1>4, <1>5, <3>1 DEF Got
    <3>2. CASE i # n - 1
      <4>1. i + 1 \in 1..(n - 1)
        BY <3>2
      <4> QED
        BY <1>4, <3>2, <4>1 DEF Got
    <3> QED
      BY <3>1, <3>2
  <2> QED
    BY <1>4, <2>2, <2>3
<1> QED
  BY <1>4, <1>7, <1>8 DEF ReplayInv

LEMMA EndFailsReplays ==
  ASSUME TypeInv, RefsInv, ExactInv, ReplayInv, EndFails
  PROVE  ReplayInv'
<1>1. FramesInv /\ LogInv /\ silent' = silent
  BY DEF EndFails, TypeInv
<1>2. ~Idle /\ Popped /\ RollBack(Top)
  BY <1>1, EndFailsIs
<1>3. session' = Top.before
  BY <1>2, RolledBackExact
<1>4. PICK n \in Nat : n = Len(running) /\ n >= 1
  BY <1>1, <1>2, TopIs
<1>5. /\ Len(running') = n - 1
      /\ \A k \in 1..(n - 1) : k # n - 1 => running'[k] = running[k]
  BY <1>2, <1>4 DEF Popped
<1>6. CASE n = 1
  <2>1. PICK entry : entry = Entry(FALSE, Top.did, Nothing)
    OBVIOUS
  <2>2. PICK nested : nested = RolledBack(Top.nested)
    OBVIOUS
  <2>3. running' = <<>> /\ Extends(history', history, nested, entry) /\ nested \in Seq(Entries({Nothing}))
        /\ entry \in Entries({Nothing}) /\ history \in Seq(Entries(Jobs \cup {Nothing}))
    BY <1>1, <1>4, <1>6, <2>1, <2>2, EndFailsIs DEF LogInv
  <2>4. entry \in Entries(Jobs \cup {Nothing})
    BY <2>3 DEF Entries
  <2>5. ~entry.ok /\ entry.parent = 0
    BY <2>1 DEF Entry
  <2>6. Replays(history, session') => Replays(history', session')
    BY <2>3, <2>4, <2>5, ReplaysMore
  <2>7. \A k \in 1..Len(running') : running'[k].did = running[k].did
    BY <1>5, <1>6
  <2> QED
    BY <1>1, <1>2, <1>3, <2>3, <2>6, <2>7, FailedReplays
<1>7. CASE n # 1
  <2>1. history' = history /\ running' # <<>> /\ running'[n - 1].did = running[n - 1].did
    BY <1>1, <1>4, <1>7, EndFailsIs
  <2>2. \A k \in 1..Len(running') : running'[k].did = running[k].did
    BY <1>5, <2>1
  <2> QED
    BY <1>1, <1>2, <1>3, <2>1, <2>2, FailedReplays
<1> QED
  BY <1>6, <1>7

LEMMA EndAbortsReplays ==
  ASSUME TypeInv, RefsInv, ExactInv, ReplayInv, EndAborts
  PROVE  ReplayInv'
<1>1. FramesInv /\ silent' = silent /\ history' = history
  BY DEF EndAborts, TypeInv
<1>2. ~Idle /\ Popped /\ RollBack(Top) /\ \A k \in 1..Len(running') : running'[k] = running[k]
  BY <1>1, EndAbortsIs
<1>3. session' = Top.before
  BY <1>2, RolledBackExact
<1> QED
  BY <1>1, <1>2, <1>3, FailedReplays

LEMMA CoreReplays ==
  ASSUME TypeInv, RefsInv, ReplayInv, NEW op \in CoreOps, CoreAction(op) \/ NestedAction(op)
  PROVE  ReplayInv'
<1>1. PICK entry : entry = Entry(Accepts(session, op), <<op>>, Nothing)
  OBVIOUS
<1>2. session' = IF Accepts(session, op) THEN Do(session, op, 0) ELSE session
  BY DEF CoreAction, NestedAction
<1>3. /\ entry.parent = 0
      /\ ~entry.ok => session' = session
      /\ Leads(session, entry.did, session')
  BY <1>1, <1>2, CoreLeads
<1>4. /\ entry.did \in Seq(OpType) /\ entry \in Entries({Nothing})
      /\ entry \in Entries(Jobs \cup {Nothing})
  BY <1>1, CoreOpIs, AcceptsIs, OpEntry
<1>5. CASE CoreAction(op)
  <2>1. Idle /\ running' = running /\ silent' = silent /\ Record(entry)
    BY <1>1, <1>5 DEF CoreAction, work
  <2> QED
    BY <1>3, <1>4, <2>1, IdleReplays
<1>6. CASE NestedAction(op)
  <2>1. ~Idle /\ UNCHANGED <<history, silent>> /\ TopDoes(entry.did, <<entry>>)
    BY <1>1, <1>6 DEF NestedAction
  <2>2. <<entry>> \in Seq(Entries({Nothing}))
    BY <1>4
  <2> QED
    BY <1>3, <1>4, <2>1, <2>2, InsideReplays
<1> QED
  BY <1>5, <1>6

LEMMA MutateInsideReplays ==
  ASSUME TypeInv, RefsInv, ReplayInv, NEW id \in Ids, MutateInside(id)
  PROVE  ReplayInv'
<1>1. PICK op : op = Op("edit", id)
  OBVIOUS
<1>2. op \in OpType /\ op.do = "edit" /\ op.net = id
  BY <1>1, IdOps DEF Op
<1>3. Known(session, id) /\ session' = Edit(session, id)
  BY DEF MutateInside
<1>4. Able(session, op) /\ 1 \in 1..MaxNets
  BY <1>2, <1>3, BoundsAssumption DEF Able
<1>5. session' = Do(session, op, 1)
  BY <1>2, <1>3 DEF Do
<1>6. Leads(session, <<op>>, session')
  BY <1>2, <1>4, <1>5, IdsApart, OneLeads
<1>7. ~Idle /\ UNCHANGED <<history, silent>> /\ TopDoes(<<op>>, <<>>)
  BY <1>1 DEF MutateInside
<1>8. <<op>> \in Seq(OpType) /\ <<>> \in Seq(Entries({Nothing}))
  BY <1>1, IdOps
<1> QED
  BY <1>6, <1>7, <1>8, InsideReplays

LEMMA DeriveInsideReplays ==
  ASSUME TypeInv, RefsInv, ReplayInv, NEW id \in Ids, DeriveInside(id)
  PROVE  ReplayInv'
<1>1. PICK op : op = Op("derive", id)
  OBVIOUS
<1>2. op \in OpType /\ op.do = "derive" /\ op.net = id
  BY <1>1, IdOps DEF Op
<1>3. Known(session, id) /\ session' = Derive(session, serial + 1, id) /\ serial < MaxNets
  BY DEF DeriveInside
<1>4. Len(session.nets) < MaxNets /\ serial + 1 \in 1..MaxNets
  BY <1>3, RoomIs DEF TypeInv
<1>5. Able(session, op)
  BY <1>2, <1>3, <1>4 DEF Able
<1>6. session' = Do(session, op, serial + 1)
  BY <1>2, <1>3 DEF Do
<1>7. Leads(session, <<op>>, session')
  BY <1>2, <1>4, <1>5, <1>6, IdsApart, OneLeads
<1>8. ~Idle /\ UNCHANGED <<history, silent>> /\ TopDoes(<<op>>, <<>>)
  BY <1>1 DEF DeriveInside
<1>9. <<op>> \in Seq(OpType) /\ <<>> \in Seq(Entries({Nothing}))
  BY <1>1, IdOps
<1> QED
  BY <1>7, <1>8, <1>9, InsideReplays

LEMMA CommitReplays ==
  ASSUME TypeInv, RefsInv, ReplayInv, NEW j \in Jobs, Commit(j)
  PROVE  ReplayInv'
<1>1. PICK op : op = Op("open", j)
  OBVIOUS
<1>2. op \in OpType /\ op.do = "open" /\ op.net = j
  BY <1>1 DEF Op, OpType
<1>3. session' = Open(session, serial + 1, j) /\ serial < MaxNets
  BY DEF Commit
<1>4. Len(session.nets) < MaxNets /\ serial + 1 \in 1..MaxNets
  BY <1>3, RoomIs DEF TypeInv
<1>5. Able(session, op)
  BY <1>2, <1>4 DEF Able
<1>6. session' = Do(session, op, serial + 1)
  BY <1>2, <1>3 DEF Do
<1>7. Leads(session, <<op>>, session')
  BY <1>2, <1>4, <1>5, <1>6, IdsApart, OneLeads
<1>8. PICK entry : entry = Entry(TRUE, <<op>>, j)
  OBVIOUS
<1>9. Idle /\ running' = running /\ silent' = silent /\ Record(entry)
  BY <1>1, <1>8 DEF Commit, work
<1>10. entry \in Entries(Jobs \cup {Nothing})
  BY <1>1, <1>8, OpenEntry
<1>11. entry.ok /\ entry.did = <<op>> /\ entry.parent = 0
  BY <1>8 DEF Entry
<1> QED
  BY <1>7, <1>9, <1>10, <1>11, IdleReplays

LEMMA FinishReplays ==
  ASSUME TypeInv, ReplayInv, NEW j \in Jobs, Finish(j)
  PROVE  ReplayInv'
<1>1. Idle /\ UNCHANGED <<session, running, silent>>
  BY DEF Finish, work
<1>2. CASE history' = history
  BY <1>1, <1>2, QuietReplays
<1>3. CASE Record(Entry(FALSE, <<>>, j))
  <2>1. PICK entry : entry = Entry(FALSE, <<>>, j)
    OBVIOUS
  <2>2. entry \in Entries(Jobs \cup {Nothing})
    BY <2>1, OpenEntry
  <2>3. ~entry.ok /\ entry.parent = 0
    BY <2>1 DEF Entry
  <2> QED
    BY <1>1, <1>3, <2>1, <2>2, <2>3, IdleReplays
<1> QED
  BY <1>2, <1>3 DEF Finish

\* A selection that was parsed is the one that selecting by query makes, when
\* it was parsed from the tables that there are.
LEMMA SelectReplays ==
  ASSUME TypeInv, RefsInv, ParsesInv, ReplayInv, NEW r \in Selectors, Select(r)
  PROVE  ReplayInv'
<1>1. PICK p : p = prepared[r]
  OBVIOUS
<1>2. PICK k : k = At(session, p.arg)
  OBVIOUS
<1>3. PICK op : op = Op("select", p.arg)
  OBVIOUS
<1>4. p \in PreparedType /\ session \in SessionType
  BY <1>1, SelectIs, IdsApart
<1>5. op \in CoreOps /\ op.do = "select" /\ op.net = p.arg
  BY <1>3, <1>4 DEF PreparedType, Ids, CoreOps, Op
<1>6. PICK ok \in BOOLEAN : ok = Unchanged(p)
  BY UnchangedIs
<1>7. PICK entry : entry = Entry(ok, <<op>>, Nothing)
  OBVIOUS
<1>8. Idle /\ running' = running /\ silent' = silent /\ Record(entry) /\ pc[r] = "apply"
  BY <1>1, <1>3, <1>6, <1>7 DEF Select, work, Goto
<1>9. entry \in Entries(Jobs \cup {Nothing})
  BY <1>5, <1>7, CoreOpIs, OpEntry
<1>10. entry.ok = ok /\ entry.parent = 0 /\ (ok => entry.did = <<op>>)
  BY <1>7 DEF Entry
<1>11. CASE ~ok
  <2>1. session' = session
    BY <1>1, <1>6, <1>11, SelectIs
  <2> QED
    BY <1>8, <1>9, <1>10, <1>11, <2>1, IdleReplays
<1>12. CASE ok
  <2>1. /\ k \in 1..Len(session.nets) /\ session.nets[k] \in NetworkType
        /\ session.nets[k].object = p.object /\ session.nets[k].version = p.version
        /\ session' \in SessionType /\ session'.selection = Payload(session.nets[k], p.edits)
        /\ session'.nets = session.nets /\ session'.active = session.active
        /\ session'.style = session.style
    BY <1>1, <1>2, <1>6, <1>12, SelectIs
  <2>2. p.edits = session.nets[k].edits
    BY <1>1, <1>8, <2>1 DEF ParsesInv, ParsedOf
  <2>3. Accepts(session, op)
    BY <1>5, <1>6, <1>12 DEF Accepts, Unchanged
  <2>4. PICK t : t = Do(session, op, 0)
    OBVIOUS
  <2>5. /\ t \in SessionType /\ t.selection = Payload(session.nets[k], session.nets[k].edits)
        /\ t.nets = session.nets /\ t.active = session.active /\ t.style = session.style
    BY <1>2, <1>4, <1>5, <2>3, <2>4, DoIs
  <2>6. session' = t
    BY <2>1, <2>2, <2>5 DEF SessionType
  <2>7. Do(session, op, 1) = t
    BY <1>5, <2>4, CoreDo
  <2>8. Able(session, op) /\ 1 \in 1..MaxNets /\ op \in OpType
    BY <1>5, <2>3, CoreOpIs, BoundsAssumption DEF Able
  <2>9. Leads(session, <<op>>, session')
    BY <2>6, <2>7, <2>8, IdsApart, OneLeads
  <2> QED
    BY <1>8, <1>9, <1>10, <1>12, <2>9, IdleReplays
<1> QED
  BY <1>11, <1>12

LEMMA InitReplays == Init => ReplayInv
<1> SUFFICES ASSUME Init PROVE ReplayInv
  OBVIOUS
<1>1. session = Launched /\ running = <<>> /\ history = <<>> /\ Len(running) = 0
  BY DEF Init
<1>2. Launched \in SessionType
  BY <1>1, InitTypes DEF TypeInv, SessionInv
<1>3. Replays(<<>>, Launched)
  BY <1>2, AkinSame, ReplaysNothing
<1> QED
  BY <1>1, <1>3 DEF ReplayInv, Settled

LEMMA NextReplays ==
  ASSUME TypeInv, RefsInv, ReplayInv, [Next]_vars, Failing => ExactInv, Selectors # {} => ParsesInv
  PROVE  ReplayInv'
<1>1. CASE UNCHANGED vars
  BY <1>1, QuietReplays DEF vars, work
<1>2. ASSUME NEW op \in CoreOps, CoreAction(op) \/ NestedAction(op) PROVE ReplayInv'
  BY <1>2, CoreReplays
<1>3. CASE Begin
  BY <1>3, BeginReplays
<1>4. CASE EndOk
  BY <1>4, EndOkReplays
<1>5. CASE EndFails
  BY <1>5, EndFailsReplays DEF EndFails
<1>6. CASE EndAborts
  BY <1>6, EndAbortsReplays DEF EndAborts
<1>7. CASE AddNetwork
  BY <1>7, SilentReplays DEF AddNetwork, Idle, work
<1>8. ASSUME NEW id \in 0..MaxNets,
             MutateInside(id) \/ MutateOutside(id) \/ DeriveInside(id) \/ DeriveOutside(id)
      PROVE  ReplayInv'
  <2>1. CASE MutateOutside(id) \/ DeriveOutside(id)
    BY <2>1, SilentReplays DEF MutateOutside, DeriveOutside, Idle, work
  <2>2. id \in Ids
    BY DEF Ids
  <2> QED
    BY <1>8, <2>1, <2>2, MutateInsideReplays, DeriveInsideReplays
<1>9. ASSUME NEW j \in Jobs, Load(j, "loaded") \/ Load(j, "finish") \/ Commit(j) \/ Finish(j)
      PROVE  ReplayInv'
  <2>1. CASE Load(j, "loaded") \/ Load(j, "finish")
    BY <2>1, QuietReplays DEF Load, work
  <2> QED
    BY <1>9, <2>1, CommitReplays, FinishReplays
<1>10. ASSUME NEW r \in Selectors,
              (\E id \in 0..MaxNets : Prepare(r, id)) \/ Parse(r) \/ ParseFails(r) \/ Select(r)
       PROVE  ReplayInv'
  <2>1. CASE Select(r)
    BY <2>1, SelectReplays
  <2>2. CASE (\E id \in 0..MaxNets : Prepare(r, id)) \/ Parse(r) \/ ParseFails(r)
    BY <2>2, QuietReplays DEF Prepare, Parse, ParseFails, work
  <2> QED
    BY <1>10, <2>1, <2>2
<1> QED
  BY <1>1, <1>2, <1>3, <1>4, <1>5, <1>6, <1>7, <1>8, <1>9, <1>10 DEF Next

LEMMA ReplaysRight ==
  ASSUME TypeInv, ReplayInv
  PROVE  HistoryReplays
<1> SUFFICES ASSUME Idle, ~silent PROVE Plain(session) = Plain(Replay(history))
  BY DEF HistoryReplays
<1>1. Replays(history, session)
  BY DEF ReplayInv, Settled, Idle
<1>2. history \in Seq(Entries(Jobs \cup {Nothing}))
  BY DEF TypeInv, LogInv
<1>3. Akin(Replay(history), session)
  BY <1>1, <1>2, ReplayIs
<1> QED
  BY <1>3, AkinPlain

\* Replaying the history, what succeeded and was dispatched from outside, gives
\* the session as it is, whatever was nested, failed and rolled back, was loaded
\* meanwhile or was refused, unless something was changed that no entry replays.
\* (Where handlers fail, the two ways in which a roll back falls short are left
\* out: networks that they close, and requests that were parsed for a version
\* which returns.)
THEOREM HistoriesReplay ==
  ASSUME Failing => Selectors = {} /\ "close" \notin Nested
  PROVE  Spec => []HistoryReplays
<1>1. Init => ExactInv /\ ParsesInv
  BY DEF Init, ExactInv, ParsesInv
<1>2. TypeInv /\ ReplayInv => HistoryReplays
  BY ReplaysRight
<1>3. CASE Failing
  <2>1. TypeInv /\ RefsInv /\ ExactInv /\ [Next]_vars => ExactInv'
    BY <1>3, NextExact
  <2>2. TypeInv /\ RefsInv /\ ExactInv /\ ReplayInv /\ [Next]_vars => ReplayInv'
    BY <1>3, NextReplays
  <2> QED
    BY <1>1, <1>2, <2>1, <2>2, InitTypes, NextTypes, InitRefs, NextRefs, InitReplays, PTL DEF Spec
<1>4. CASE ~Failing
  <2>1. TypeInv /\ RefsInv /\ ParsesInv /\ [Next]_vars => ParsesInv'
    BY <1>4, NextParses
  <2>2. TypeInv /\ RefsInv /\ ParsesInv /\ ReplayInv /\ [Next]_vars => ReplayInv'
    BY <1>4, NextReplays
  <2> QED
    BY <1>1, <1>2, <2>1, <2>2, InitTypes, NextTypes, InitRefs, NextRefs, InitReplays, PTL DEF Spec
<1> QED
  BY <1>3, <1>4
=============================================================================
