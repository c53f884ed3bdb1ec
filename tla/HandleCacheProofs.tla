------------------------- MODULE HandleCacheProofs -------------------------
(***************************************************************************)
(* That the cache of a network handle never serves an artifact of other    *)
(* tables, for any number of readers, tables, artifacts and edits.         *)
(***************************************************************************)
EXTENDS HandleCache, TLAPS

\* Reading one more table keeps a build a build.
LEMMA WithPartType ==
  ASSUME NEW f \in Slots, NEW t \in Tables, NEW c \in Contents \cup {Unread}
  PROVE  /\ WithPart(f, t, c) \in Slots
         /\ WithPart(f, t, c).art = f.art
         /\ WithPart(f, t, c).gen = f.gen
         /\ WithPart(f, t, c).val = [f.val EXCEPT ![t] = c]
BY DEF WithPart, Slots, Values

\* What cached() keeps of a finished build, and the cache it leaves behind.
LEMMA KeptType ==
  ASSUME TypeOK, NEW f \in Slots
  PROVE  Kept(f) \in Values /\ Stored(f) \subseteq Slots
<1>1. Stored(f) \subseteq Slots
  BY DEF Stored, TypeOK
<1>2. ASSUME SlotsOf(f.art, f.gen) # {}
      PROVE  (CHOOSE e \in SlotsOf(f.art, f.gen) : TRUE) \in Slots
  BY <1>2 DEF SlotsOf, TypeOK
<1>3. Kept(f) \in Values
  BY <1>2 DEF Kept, Slots
<1> QED
  BY <1>1, <1>3

\* The initial states are well typed.
LEMMA InitTypeOK == Init => TypeOK
<1> USE NeedsAssumption, EditsAssumption
<1> SUFFICES ASSUME Init PROVE TypeOK
  OBVIOUS
<1>1. tables \in [Tables -> Contents] /\ edits \in Contents
  BY DEF Init, Contents
<1>2. undo \in Seq(Saved) /\ cache \subseteq Slots
  BY DEF Init
<1>3. window \in [Readers -> [Tables -> SUBSET Contents]]
  BY DEF Init
<1> QED
  BY <1>1, <1>2, <1>3 DEF Init, TypeOK

\* The types of a frame's fields survive every step that touches it.
THEOREM TypeCorrect == Spec => []TypeOK
<1> USE NeedsAssumption, EditsAssumption
<1>1. Init => TypeOK
  BY InitTypeOK
<1>2. TypeOK /\ [Next]_vars => TypeOK'
  <2> SUFFICES ASSUME TypeOK, [Next]_vars PROVE TypeOK'
    OBVIOUS
  <2> USE DEF TypeOK
  <2>1. CASE Prime
    BY <2>1 DEF Prime, Slots, Values, Contents, Blank, handle, readers
  <2>2. CASE RollBack
    <3>1. undo[Len(undo)] \in Saved
      BY <2>2 DEF RollBack
    <3>2. write' \in Writes
      BY <2>2, <3>1 DEF RollBack, Writes, Saved
    <3>3. undo' \in Seq(Saved)
      BY <2>2 DEF RollBack
    <3> QED
      BY <2>2, <3>2, <3>3 DEF RollBack, handle, readers
  <2>3. CASE Commit
    BY <2>3 DEF Commit, handle, readers
  <2>4. CASE Bump
    BY <2>4, SentinelAssumption DEF Bump, Writes, Locked, readers
  <2>5. ASSUME NEW changed \in SUBSET Tables, Mutate(changed) PROVE TypeOK'
    BY <2>5 DEF Mutate, Writes, Saved, Contents, handle, readers
  <2>6. ASSUME NEW t \in Tables, Swap(t) PROVE TypeOK'
    <3>1. write \in Writes /\ write.to[t] \in Contents
      BY <2>6 DEF Swap, Locked, Writes
    <3>2. tables' \in [Tables -> Contents] /\ write' \in Writes
      BY <2>6, <3>1 DEF Swap, Writes
    <3>3. window' \in [Readers -> [Tables -> SUBSET Contents]]
      BY <2>6, <3>1 DEF Swap
    <3> QED
      BY <2>6, <3>2, <3>3 DEF Swap, readers
  <2>7. ASSUME NEW r \in Readers, NEW a \in Artifacts, Hit(r, a) PROVE TypeOK'
    BY <2>7 DEF Hit, Begin, SlotsOf, Slots, handle, readers
  <2>8. ASSUME NEW r \in Readers, NEW a \in Artifacts, Miss(r, a) PROVE TypeOK'
    BY <2>8 DEF Miss, Begin, Slots, Values, Blank, handle, readers
  <2>9. ASSUME NEW r \in Readers, NEW t \in Tables, PartHit(r, t) PROVE TypeOK'
    <3>1. outer[r] \in Slots
      BY <2>9 DEF PartHit, NeedsPart
    <3>2. PICK e \in cache : outer' = [outer EXCEPT ![r] = WithPart(@, t, e.val[t])]
      BY <2>9 DEF PartHit, SlotsOf
    <3>3. e.val[t] \in Contents \cup {Unread}
      BY DEF Slots, Values
    <3>4. outer' \in [Readers -> Slots \cup {Nothing}]
      BY <3>1, <3>2, <3>3, WithPartType
    <3> QED
      BY <2>9, <3>4 DEF PartHit, NeedsPart, handle
  <2>10. ASSUME NEW r \in Readers, NEW t \in Tables, PartMiss(r, t) PROVE TypeOK'
    BY <2>10 DEF PartMiss, NeedsPart, Slots, Values, Blank, handle, readers
  <2>11. ASSUME NEW r \in Readers, NEW t \in Tables, ReadOuter(r, t) PROVE TypeOK'
    <3>1. outer[r] \in Slots /\ tables[t] \in Contents \cup {Unread}
      BY <2>11 DEF ReadOuter
    <3>2. outer' \in [Readers -> Slots \cup {Nothing}] /\ outer'[r] \in Slots
      BY <2>11, <3>1, WithPartType DEF ReadOuter
    <3>3. \A q \in Readers : inner[q] # Nothing => outer'[q] # Nothing
      BY <2>11, <3>2, SentinelAssumption DEF ReadOuter
    <3> QED
      BY <2>11, <3>2, <3>3 DEF ReadOuter, handle
  <2>12. ASSUME NEW r \in Readers, NEW t \in Tables, ReadInner(r, t) PROVE TypeOK'
    <3>1. inner[r] \in Slots /\ tables[t] \in Contents \cup {Unread}
      BY <2>12 DEF ReadInner
    <3>2. inner' \in [Readers -> Slots \cup {Nothing}]
      BY <2>12, <3>1, WithPartType DEF ReadInner
    <3> QED
      BY <2>12, <3>2 DEF ReadInner, handle
  <2>13. ASSUME NEW r \in Readers, NEW t \in Tables, ReturnPart(r, t) PROVE TypeOK'
    <3>1. inner[r] \in Slots
      BY <2>13 DEF ReturnPart
    <3>2. Kept(inner[r])[t] \in Contents \cup {Unread} /\ Stored(inner[r]) \subseteq Slots
      BY <3>1, KeptType DEF Values
    <3>3. outer[r] \in Slots
      BY <2>13 DEF ReturnPart
    <3>4. outer' \in [Readers -> Slots \cup {Nothing}] /\ outer'[r] \in Slots
      BY <2>13, <3>2, <3>3, WithPartType DEF ReturnPart
    <3>5. \A q \in Readers : inner'[q] # Nothing => outer'[q] # Nothing
      BY <2>13 DEF ReturnPart
    <3> QED
      BY <2>13, <3>2, <3>4, <3>5 DEF ReturnPart, handle
  <2>14. ASSUME NEW r \in Readers, Return(r) PROVE TypeOK'
    BY <2>14, KeptType DEF Return, handle, readers
  <2>15. ASSUME NEW r \in Readers, Leave(r) PROVE TypeOK'
    BY <2>15 DEF Leave, handle, readers
  <2>16. CASE UNCHANGED vars
    BY <2>16 DEF vars, handle, readers
  <2> QED
    BY <2>1, <2>2, <2>3, <2>4, <2>5, <2>6, <2>7, <2>8, <2>9, <2>10, <2>11, <2>12,
       <2>13, <2>14, <2>15, <2>16 DEF Next, Writer, Reader
<1> QED
  BY <1>1, <1>2, PTL DEF Spec

-----------------------------------------------------------------------------
(* The invariant. A value is fresh if every table read into it stands as   *)
(* read. Freshness is only claimed while no swap is in progress and for    *)
(* the current generation: a build that overlaps a swap may hold anything, *)
(* and the bump that ends the swap retires its generation.                 *)

Fresh(f) == \A t \in Tables : f.val[t] \in {Unread, tables[t]}

FreshIfCurrent(f) == /\ f.gen <= generation
                     /\ ~Locked /\ f.gen = generation => Fresh(f)

CacheInv == \A e \in cache : e.gen = generation /\ Complete(e) /\ (~Locked => Fresh(e))

BuildsInv == \A r \in Readers :
  /\ outer[r] # Nothing => FreshIfCurrent(outer[r])
  /\ inner[r] # Nothing => /\ FreshIfCurrent(inner[r])
                           /\ outer[r].gen <= inner[r].gen

UnprimedInv == ~primed => ~Locked /\ undo = <<>> /\ \A t \in Tables : tables[t] = 0

\* What a reader holds was in its window, and so are the tables of now.
InWindow(r, val) == \A t \in Tables : val[t] \in window[r][t] \cup {Unread}

WindowInv == \A r \in Readers :
  /\ outer[r] # Nothing => /\ \A t \in Tables : tables[t] \in window[r][t]
                           /\ InWindow(r, outer[r].val)
  /\ inner[r] # Nothing => InWindow(r, inner[r].val)
  /\ answer[r] # Nothing => outer[r] = Nothing /\ InWindow(r, answer[r])

IInv == TypeOK /\ CacheInv /\ BuildsInv /\ UnprimedInv /\ WindowInv

-----------------------------------------------------------------------------

\* While no swap is in progress, what cached() keeps of a current build is
\* fresh, and so is everything it leaves in the cache.
LEMMA KeptIsFresh ==
  ASSUME TypeOK, CacheInv, ~Locked,
         NEW f \in Slots, FreshIfCurrent(f), Complete(f)
  PROVE  /\ f.gen = generation => \A t \in Tables : Kept(f)[t] \in {Unread, tables[t]}
         /\ f.gen # generation => Kept(f) = f.val
         /\ \A e \in Stored(f) : e.gen = generation /\ Complete(e) /\ Fresh(e)
<1>1. CASE f.gen = generation /\ SlotsOf(f.art, f.gen) # {}
  <2>1. (CHOOSE e \in SlotsOf(f.art, f.gen) : TRUE) \in cache
    BY <1>1 DEF SlotsOf
  <2> QED
    BY <1>1, <2>1 DEF Kept, Stored, CacheInv, Fresh
<1>2. CASE f.gen = generation /\ SlotsOf(f.art, f.gen) = {}
  BY <1>2 DEF Kept, Stored, CacheInv, Fresh, FreshIfCurrent
<1>3. CASE f.gen # generation
  BY <1>3 DEF Kept, Stored, CacheInv
<1> QED
  BY <1>1, <1>2, <1>3

\* Every step keeps the invariant.
LEMMA InductiveStep == IInv /\ TypeOK' /\ [Next]_vars => IInv'
<1> USE NeedsAssumption, EditsAssumption, SentinelAssumption
<1> SUFFICES ASSUME IInv, TypeOK', [Next]_vars PROVE IInv'
  OBVIOUS
<1> USE DEF IInv
<1>1. CASE Prime
  <2>1. \A t \in Tables : tables[t] = 0 /\ ~Locked
    BY <1>1 DEF Prime, UnprimedInv
  <2>2. CacheInv'
    <3> SUFFICES ASSUME NEW e \in cache'
                 PROVE  e.gen = generation' /\ Complete(e)' /\ (~Locked' => Fresh(e)')
      BY DEF CacheInv
    <3>1. CASE e \in cache
      BY <1>1, <2>1, <3>1 DEF Prime, CacheInv, Complete, Fresh, Locked, handle
    <3>2. ASSUME NEW t \in Tables,
                 e = [art |-> Base[t], gen |-> generation, val |-> [Blank EXCEPT ![t] = 0]]
          PROVE  e.gen = generation' /\ Complete(e)' /\ Fresh(e)'
      <4>1. e.gen = generation /\ e.val[t] = 0 /\ Needs[e.art] = {t}
        BY <3>2 DEF Blank
      <4>2. 0 # Unread
        BY DEF Contents
      <4>3. \A u \in Tables : e.val[u] \in {Unread, 0}
        BY <3>2 DEF Blank
      <4> QED
        BY <1>1, <2>1, <4>1, <4>2, <4>3 DEF Prime, Complete, Fresh, handle
    <3> QED
      BY <1>1, <3>1, <3>2 DEF Prime
  <2> QED
    BY <1>1, <2>2 DEF Prime, BuildsInv, FreshIfCurrent, Fresh, Locked, UnprimedInv,
                      WindowInv, InWindow, handle, readers
<1>2. CASE RollBack
  BY <1>2 DEF RollBack, CacheInv, BuildsInv, FreshIfCurrent, Fresh, Complete, Locked, UnprimedInv,
              WindowInv, InWindow, handle, readers, TypeOK
<1>3. CASE Commit
  BY <1>3 DEF Commit, CacheInv, BuildsInv, FreshIfCurrent, Fresh, Complete, Locked, UnprimedInv,
              WindowInv, InWindow, handle, readers
<1>4. CASE Bump
  <2>1. \A r \in Readers : /\ outer[r] # Nothing => outer[r].gen < generation'
                           /\ inner[r] # Nothing => inner[r].gen < generation'
    BY <1>4 DEF Bump, BuildsInv, FreshIfCurrent, TypeOK, Slots
  <2>2. BuildsInv'
    BY <1>4, <2>1 DEF Bump, BuildsInv, FreshIfCurrent, TypeOK, Slots, readers
  <2> QED
    BY <1>4, <2>2 DEF Bump, CacheInv, UnprimedInv, WindowInv, InWindow, Locked, readers
<1>5. ASSUME NEW changed \in SUBSET Tables, Mutate(changed) PROVE IInv'
  BY <1>5 DEF Mutate, CacheInv, BuildsInv, FreshIfCurrent, Fresh, Complete, Locked, UnprimedInv,
              WindowInv, InWindow, handle, readers, TypeOK
<1>6. ASSUME NEW t \in Tables, Swap(t) PROVE IInv'
  <2>1. Locked /\ Locked'
    <3>1. write \in Writes
      BY <1>6 DEF Swap, Locked, TypeOK
    <3>2. write' \in Writes
      BY <1>6, <3>1 DEF Swap, Writes
    <3> QED
      BY <3>1, <3>2 DEF Locked
  <2>2. CacheInv' /\ BuildsInv' /\ UnprimedInv'
    BY <1>6, <2>1 DEF Swap, CacheInv, BuildsInv, FreshIfCurrent, Complete, UnprimedInv, readers
  <2>3. \A r \in Readers, u \in Tables : window[r][u] \subseteq window'[r][u]
    BY <1>6 DEF Swap, TypeOK
  <2>4. ASSUME NEW r \in Readers, outer[r] # Nothing, NEW u \in Tables
        PROVE  tables'[u] \in window'[r][u]
    BY <1>6, <2>4 DEF Swap, WindowInv, TypeOK
  <2>5. WindowInv'
    BY <1>6, <2>3, <2>4 DEF Swap, WindowInv, InWindow, readers
  <2> QED
    BY <2>2, <2>5
<1>7. ASSUME NEW r \in Readers, NEW a \in Artifacts, Hit(r, a) PROVE IInv'
  <2>1. PICK e \in cache : answer' = [answer EXCEPT ![r] = e.val]
    BY <1>7 DEF Hit, SlotsOf
  <2>2. Fresh(e)
    BY <1>7, <2>1 DEF Hit, Begin, CacheInv
  <2>3. WindowInv'
    BY <1>7, <2>1, <2>2 DEF Hit, Begin, WindowInv, InWindow, Fresh, handle, TypeOK
  <2> QED
    BY <1>7, <2>3 DEF Hit, Begin, CacheInv, BuildsInv, FreshIfCurrent, Fresh, Complete,
                      Locked, UnprimedInv, handle
<1>8. ASSUME NEW r \in Readers, NEW a \in Artifacts, Miss(r, a) PROVE IInv'
  <2>1. outer'[r] = [art |-> a, gen |-> generation, val |-> Blank] /\ inner[r] = Nothing
    BY <1>8 DEF Miss, Begin, TypeOK
  <2>2. WindowInv'
    BY <1>8, <2>1 DEF Miss, Begin, WindowInv, InWindow, Blank, handle, TypeOK
  <2>3. BuildsInv'
    BY <1>8, <2>1 DEF Miss, Begin, BuildsInv, FreshIfCurrent, Fresh, Locked, Blank, handle, TypeOK
  <2> QED
    BY <1>8, <2>2, <2>3 DEF Miss, Begin, CacheInv, Fresh, Complete, Locked, UnprimedInv, handle
<1>9. ASSUME NEW r \in Readers, NEW t \in Tables, PartHit(r, t) PROVE IInv'
  <2>1. PICK e \in cache : outer' = [outer EXCEPT ![r] = WithPart(@, t, e.val[t])]
    BY <1>9 DEF PartHit, SlotsOf
  <2>2. e.val[t] \in {Unread, tables[t]} /\ outer[r] \in Slots /\ inner[r] = Nothing
    BY <1>9, <2>1 DEF PartHit, NeedsPart, CacheInv, Fresh, TypeOK
  <2>3. /\ outer'[r] \in Slots /\ outer'[r].gen = outer[r].gen
        /\ outer'[r].val = [outer[r].val EXCEPT ![t] = e.val[t]]
    BY <2>1, <2>2, WithPartType DEF TypeOK
  <2>4. BuildsInv'
    BY <1>9, <2>1, <2>2, <2>3 DEF PartHit, NeedsPart, BuildsInv, FreshIfCurrent, Fresh,
                                  Locked, handle, TypeOK, Slots, Values
  <2>5. WindowInv'
    <3> SUFFICES ASSUME NEW q \in Readers
                 PROVE  /\ outer'[q] # Nothing => /\ \A u \in Tables : tables'[u] \in window'[q][u]
                                                 /\ InWindow(q, outer[q].val)'
                        /\ inner'[q] # Nothing => InWindow(q, inner[q].val)'
                        /\ answer'[q] # Nothing => outer'[q] = Nothing /\ InWindow(q, answer[q])'
      BY DEF WindowInv
    <3>1. CASE q # r
      BY <1>9, <3>1 DEF PartHit, NeedsPart, WindowInv, InWindow, handle, TypeOK
    <3>2. CASE q = r
      <4>1. answer[r] = Nothing /\ tables[t] \in window[r][t]
        BY <1>9, <2>1, <2>2 DEF PartHit, NeedsPart, WindowInv
      <4>2. /\ \A u \in Tables : outer'[r].val[u] = IF u = t THEN e.val[t] ELSE outer[r].val[u]
            /\ outer[r] # Nothing /\ InWindow(r, outer[r].val)
        BY <1>9, <2>1, <2>2, <2>3, SentinelAssumption DEF PartHit, NeedsPart, WindowInv, Slots, Values
      <4>3. window' = window /\ tables' = tables /\ inner' = inner /\ answer' = answer
        BY <1>9 DEF PartHit, NeedsPart, handle
      <4> QED
        BY <2>1, <2>2, <3>2, <4>1, <4>2, <4>3 DEF WindowInv, InWindow
    <3> QED
      BY <3>1, <3>2
  <2> QED
    BY <1>9, <2>4, <2>5 DEF PartHit, NeedsPart, CacheInv, Fresh, Complete, Locked,
                            UnprimedInv, handle
<1>10. ASSUME NEW r \in Readers, NEW t \in Tables, PartMiss(r, t) PROVE IInv'
  <2>1. inner'[r] = [art |-> Base[t], gen |-> generation, val |-> Blank] /\ outer[r] # Nothing
    BY <1>10 DEF PartMiss, NeedsPart, TypeOK
  <2>2. WindowInv'
    BY <1>10, <2>1 DEF PartMiss, NeedsPart, WindowInv, InWindow, Blank, handle, TypeOK
  <2>3. BuildsInv'
    BY <1>10, <2>1 DEF PartMiss, NeedsPart, BuildsInv, FreshIfCurrent, Fresh, Locked, Blank,
                       handle, TypeOK
  <2> QED
    BY <1>10, <2>2, <2>3 DEF PartMiss, NeedsPart, CacheInv, Fresh, Complete, Locked,
                             UnprimedInv, handle
<1>11. ASSUME NEW r \in Readers, NEW t \in Tables, ReadOuter(r, t) PROVE IInv'
  <2>1. outer[r] \in Slots /\ tables[t] \in Contents
    BY <1>11 DEF ReadOuter, TypeOK
  <2>2. /\ outer'[r].gen = outer[r].gen
        /\ outer'[r].val = [outer[r].val EXCEPT ![t] = tables[t]]
    BY <1>11, <2>1, WithPartType DEF ReadOuter, TypeOK
  <2>3. BuildsInv'
    BY <1>11, <2>1, <2>2 DEF ReadOuter, BuildsInv, FreshIfCurrent, Fresh, Locked, handle,
                             TypeOK, Slots, Values
  <2>4. WindowInv'
    <3> SUFFICES ASSUME NEW q \in Readers
                 PROVE  /\ outer'[q] # Nothing => /\ \A u \in Tables : tables'[u] \in window'[q][u]
                                                 /\ InWindow(q, outer[q].val)'
                        /\ inner'[q] # Nothing => InWindow(q, inner[q].val)'
                        /\ answer'[q] # Nothing => outer'[q] = Nothing /\ InWindow(q, answer[q])'
      BY DEF WindowInv
    <3>1. CASE q # r
      BY <1>11, <3>1 DEF ReadOuter, WindowInv, InWindow, handle, TypeOK
    <3>2. CASE q = r
      <4>1. answer[r] = Nothing /\ tables[t] \in window[r][t]
        BY <1>11, <2>1, <2>2 DEF ReadOuter, WindowInv
      <4>2. /\ \A u \in Tables : outer'[r].val[u] = IF u = t THEN tables[t] ELSE outer[r].val[u]
            /\ outer[r] # Nothing /\ InWindow(r, outer[r].val)
        BY <1>11, <2>1, <2>2, SentinelAssumption DEF ReadOuter, WindowInv, Slots, Values
      <4>3. window' = window /\ tables' = tables /\ inner' = inner /\ answer' = answer
        BY <1>11 DEF ReadOuter, handle
      <4> QED
        BY <2>1, <2>2, <3>2, <4>1, <4>2, <4>3 DEF WindowInv, InWindow
    <3> QED
      BY <3>1, <3>2
  <2> QED
    BY <1>11, <2>3, <2>4 DEF ReadOuter, CacheInv, Fresh, Complete, Locked, UnprimedInv, handle
<1>12. ASSUME NEW r \in Readers, NEW t \in Tables, ReadInner(r, t) PROVE IInv'
  <2>1. inner[r] \in Slots /\ tables[t] \in Contents /\ outer[r] # Nothing
    BY <1>12 DEF ReadInner, TypeOK
  <2>2. /\ inner'[r].gen = inner[r].gen
        /\ inner'[r].val = [inner[r].val EXCEPT ![t] = tables[t]]
    BY <1>12, <2>1, WithPartType DEF ReadInner, TypeOK
  <2>3. BuildsInv'
    BY <1>12, <2>1, <2>2 DEF ReadInner, BuildsInv, FreshIfCurrent, Fresh, Locked, handle,
                             TypeOK, Slots, Values
  <2>4. WindowInv'
    <3> SUFFICES ASSUME NEW q \in Readers
                 PROVE  /\ outer'[q] # Nothing => /\ \A u \in Tables : tables'[u] \in window'[q][u]
                                                 /\ InWindow(q, outer[q].val)'
                        /\ inner'[q] # Nothing => InWindow(q, inner[q].val)'
                        /\ answer'[q] # Nothing => outer'[q] = Nothing /\ InWindow(q, answer[q])'
      BY DEF WindowInv
    <3>1. CASE q # r
      BY <1>12, <3>1 DEF ReadInner, WindowInv, InWindow, handle, TypeOK
    <3>2. CASE q = r
      <4>1. answer[r] = Nothing /\ tables[t] \in window[r][t]
        BY <1>12, <2>1, <2>2 DEF ReadInner, WindowInv
      <4> QED
        BY <1>12, <2>1, <2>2, <3>2, <4>1 DEF ReadInner, WindowInv, InWindow, handle, TypeOK, Slots, Values
    <3> QED
      BY <3>1, <3>2
  <2> QED
    BY <1>12, <2>3, <2>4 DEF ReadInner, CacheInv, Fresh, Complete, Locked, UnprimedInv, handle
<1>13. ASSUME NEW r \in Readers, NEW t \in Tables, ReturnPart(r, t) PROVE IInv'
  <2> DEFINE kept == Kept(inner[r])[t]
  <2>1. /\ inner[r] \in Slots /\ outer[r] \in Slots /\ ~Locked /\ Complete(inner[r])
        /\ FreshIfCurrent(inner[r]) /\ outer[r].gen <= inner[r].gen
        /\ outer[r].gen <= generation /\ inner[r].gen <= generation
    BY <1>13 DEF ReturnPart, TypeOK, BuildsInv, FreshIfCurrent
  <2>2. /\ kept \in Contents \cup {Unread}
        /\ outer[r].gen = generation => kept \in {Unread, tables[t]}
        /\ kept \in window[r][t] \cup {Unread}
    <3>1. kept \in Contents \cup {Unread}
      BY <2>1, KeptType DEF Values
    <3>2. outer[r].gen = generation => inner[r].gen = generation
      BY <2>1 DEF Slots, TypeOK
    <3>3. inner[r].gen = generation => kept \in {Unread, tables[t]}
      BY <2>1, KeptIsFresh
    <3>4. inner[r].gen # generation => kept \in window[r][t] \cup {Unread}
      BY <2>1, <1>13, KeptIsFresh DEF WindowInv, InWindow, ReturnPart
    <3>5. tables[t] \in window[r][t]
      BY <2>1 DEF WindowInv
    <3> QED
      BY <3>1, <3>2, <3>3, <3>4, <3>5
  <2>3. /\ outer'[r].gen = outer[r].gen
        /\ outer'[r].val = [outer[r].val EXCEPT ![t] = kept]
    BY <1>13, <2>1, <2>2, WithPartType DEF ReturnPart, TypeOK
  <2>4. BuildsInv'
    BY <1>13, <2>1, <2>2, <2>3 DEF ReturnPart, BuildsInv, FreshIfCurrent, Fresh, Locked,
                                   handle, TypeOK, Slots, Values
  <2>5. WindowInv'
    BY <1>13, <2>1, <2>2, <2>3 DEF ReturnPart, WindowInv, InWindow, handle, TypeOK, Slots, Values
  <2>6. CacheInv'
    BY <1>13, <2>1, KeptIsFresh DEF ReturnPart, CacheInv, Fresh, Complete, Locked, handle
  <2> QED
    BY <1>13, <2>4, <2>5, <2>6 DEF ReturnPart, UnprimedInv, Locked, handle
<1>14. ASSUME NEW r \in Readers, Return(r) PROVE IInv'
  <2>1. /\ outer[r] \in Slots /\ ~Locked /\ Complete(outer[r]) /\ FreshIfCurrent(outer[r])
    BY <1>14 DEF Return, TypeOK, BuildsInv
  <2>2. InWindow(r, Kept(outer[r]))
    BY <2>1, KeptIsFresh DEF InWindow, WindowInv
  <2>3. CacheInv'
    BY <1>14, <2>1, KeptIsFresh DEF Return, CacheInv, Fresh, Complete, Locked, handle
  <2>4. WindowInv'
    BY <1>14, <2>2 DEF Return, WindowInv, InWindow, handle, TypeOK
  <2> QED
    BY <1>14, <2>3, <2>4 DEF Return, BuildsInv, FreshIfCurrent, Fresh, UnprimedInv, Locked,
                             handle, TypeOK
<1>15. ASSUME NEW r \in Readers, Leave(r) PROVE IInv'
  <2>1. outer[r] = Nothing /\ inner[r] = Nothing
    BY <1>15 DEF Leave, WindowInv, TypeOK
  <2> QED
    BY <1>15, <2>1 DEF Leave, CacheInv, BuildsInv, FreshIfCurrent, Fresh, Complete, UnprimedInv,
                     WindowInv, InWindow, Locked, handle, TypeOK
<1>16. CASE UNCHANGED vars
  BY <1>16 DEF vars, CacheInv, BuildsInv, FreshIfCurrent, Fresh, Complete, UnprimedInv,
               WindowInv, InWindow, Locked, handle, readers
<1> QED
  BY <1>1, <1>2, <1>3, <1>4, <1>5, <1>6, <1>7, <1>8, <1>9, <1>10, <1>11, <1>12,
     <1>13, <1>14, <1>15, <1>16 DEF Next, Writer, Reader

\* Spec keeps the invariant.
LEMMA Invariance == Spec => []IInv
<1>1. Init => IInv
  <2> SUFFICES ASSUME Init PROVE IInv
    OBVIOUS
  <2>1. TypeOK
    BY InitTypeOK
  <2> QED
    BY <2>1 DEF Init, IInv, CacheInv, BuildsInv, UnprimedInv, WindowInv, Locked
<1>2. IInv /\ TypeOK' /\ [Next]_vars => IInv'
  BY InductiveStep
<1> QED
  BY <1>1, <1>2, TypeCorrect, PTL DEF Spec

\* No thread ever finds an artifact of other tables than the present ones in
\* the cache (registry.py:107-128).
THEOREM CacheIsCurrent == Spec => []CacheDescribesTables
<1>1. IInv => CacheDescribesTables
  BY NeedsAssumption DEF IInv, CacheInv, CacheDescribesTables, Fresh, Complete, TypeOK, Slots
<1> QED
  BY <1>1, Invariance, PTL

\* cached() never returns contents that its tables had only before the call
\* began, or never had (registry.py:107-128).
THEOREM AnswersAreOfTheCall == Spec => []AnswerIsOfTheCall
<1>1. IInv => AnswerIsOfTheCall
  BY DEF IInv, WindowInv, InWindow, AnswerIsOfTheCall
<1> QED
  BY <1>1, Invariance, PTL
=============================================================================
