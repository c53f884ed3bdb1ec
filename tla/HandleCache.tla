----------------------------- MODULE HandleCache -----------------------------
(***************************************************************************)
(* The derived-data cache of one open network (NetworkHandle in            *)
(* netstead/workbench/registry.py) under readers that take no session      *)
(* lock, edits made by Actions, and the rollback of an Action that fails.  *)
(*                                                                         *)
(* A reader looks an artifact up under the handle's lock, builds it off    *)
(* the lock if it is missing, and stores it under the lock if the          *)
(* generation has not moved. Building the combined artifact ("tables")     *)
(* calls cached() again for its parts ("links_df", "nodes_df"), so a       *)
(* reader has an outer call and possibly an inner one. A writer holds the  *)
(* handle's lock while it swaps tables one by one, which readers that are  *)
(* building do not wait for. Writers are serialised by the session lock.   *)
(***************************************************************************)
EXTENDS Naturals, Sequences

CONSTANTS
  Readers,    \* threads that read artifacts (routes, select, exports)
  Tables,     \* the roadway tables an edit can change
  Artifacts,  \* the keys of cached()
  Needs,      \* the tables each artifact is computed from
  Base,       \* the artifact that is the frame of one table
  MaxEdits,   \* bound: mutate calls in a behaviour
  Unread,     \* in a value being built: this table has not been read yet
  Nothing     \* no call, no answer, no write in progress

ASSUME NeedsAssumption ==
  /\ Needs \in [Artifacts -> SUBSET Tables]
  /\ Base \in [Tables -> Artifacts]
  /\ \A t \in Tables : Needs[Base[t]] = {t}

ASSUME EditsAssumption == MaxEdits \in Nat


VARIABLES
  tables,      \* the contents of each roadway table: the edit that wrote it
  version,     \* NetworkHandle.version
  generation,  \* NetworkHandle._generation
  cache,       \* NetworkHandle._cache: slots (key, generation) with a value
  primed,      \* whether the commit that opened the network has primed it
  write,       \* the swap in progress under the handle's lock
  undo,        \* Session._undo: what a failing Action puts back
  edits,       \* how many mutate calls were made
  outer,       \* each reader's call of cached() that is building
  inner,       \* the call of cached() its build makes for one part
  answer,      \* what cached() returned to the reader
  window       \* history: the contents each table had during the read

handle  == <<tables, version, generation>>
readers == <<outer, inner, answer>>
vars    == <<handle, cache, primed, write, undo, edits, readers, window>>

-----------------------------------------------------------------------------

Contents == 0..MaxEdits
Values   == [Tables -> Contents \cup {Unread}]
Slots    == [art : Artifacts, gen : Nat, val : Values]
Saved    == [tables : [Tables -> Contents], version : Nat]
Writes   == [todo : SUBSET Tables, to : [Tables -> Contents], version : Nat]

ASSUME SentinelAssumption ==
  /\ Unread \notin Contents
  /\ Nothing \notin Slots \cup Values \cup Writes

\* A writer holds the handle's lock from its first swap to its bump.
Locked == write # Nothing

SlotsOf(art, gen) == {e \in cache : e.art = art /\ e.gen = gen}

Complete(f) == \A t \in Needs[f.art] : f.val[t] # Unread

\* A build under way once table t has been read.
WithPart(f, t, c) == [f EXCEPT !.val = [@ EXCEPT ![t] = c]]

Blank == [t \in Tables |-> Unread]

\* cached(), second half: the value kept for a finished build. A build that
\* overlapped a bump or a restore is returned and not stored; otherwise the
\* first stored value wins (setdefault).
Kept(f) == IF generation = f.gen /\ SlotsOf(f.art, f.gen) # {}
           THEN (CHOOSE e \in SlotsOf(f.art, f.gen) : TRUE).val
           ELSE f.val

Stored(f) == IF generation = f.gen /\ SlotsOf(f.art, f.gen) = {}
             THEN cache \cup {f} ELSE cache

-----------------------------------------------------------------------------

Init ==
  /\ tables = [t \in Tables |-> 0]
  /\ version = 0
  /\ generation = 0
  /\ cache = {}
  /\ primed = FALSE
  /\ write = Nothing
  /\ undo = <<>>
  /\ edits = 0
  /\ outer  = [r \in Readers |-> Nothing]
  /\ inner  = [r \in Readers |-> Nothing]
  /\ answer = [r \in Readers |-> Nothing]
  /\ window = [r \in Readers |-> [t \in Tables |-> {}]]

\* _commit seeds the frames it loaded; a route may already read the handle.
Prime ==
  /\ ~primed
  /\ primed' = TRUE
  /\ cache' = {e \in cache : \A t \in Tables : e.art # Base[t]} \cup
              {[art |-> Base[t], gen |-> generation,
                val |-> [Blank EXCEPT ![t] = 0]] : t \in Tables}
  /\ UNCHANGED <<handle, write, undo, edits, readers, window>>

\* cached() from outside: a hit answers at once, a miss notes the generation.
\* Either way the read starts now.
Begin(r) == /\ outer[r] = Nothing /\ answer[r] = Nothing
            /\ ~Locked
            /\ window' = [window EXCEPT ![r] = [t \in Tables |-> {tables[t]}]]
            /\ UNCHANGED <<handle, cache, primed, write, undo, edits, inner>>

Hit(r, a) == /\ Begin(r)
             /\ \E e \in SlotsOf(a, generation) : answer' = [answer EXCEPT ![r] = e.val]
             /\ UNCHANGED outer

Miss(r, a) == /\ Begin(r)
              /\ SlotsOf(a, generation) = {}
              /\ outer' = [outer EXCEPT ![r] = [art |-> a, gen |-> generation, val |-> Blank]]
              /\ UNCHANGED answer

\* The build of a combined artifact calls cached() for the frame of table t.
NeedsPart(r, t) == /\ outer[r] # Nothing /\ inner[r] = Nothing
                   /\ t \in Needs[outer[r].art] /\ outer[r].art # Base[t]
                   /\ outer[r].val[t] = Unread
                   /\ ~Locked
                   /\ UNCHANGED <<handle, cache, primed, write, undo, edits, answer, window>>

PartHit(r, t) == /\ NeedsPart(r, t)
                 /\ \E e \in SlotsOf(Base[t], generation) :
                      outer' = [outer EXCEPT ![r] = WithPart(@, t, e.val[t])]
                 /\ UNCHANGED inner

PartMiss(r, t) ==
  /\ NeedsPart(r, t)
  /\ SlotsOf(Base[t], generation) = {}
  /\ inner' = [inner EXCEPT ![r] = [art |-> Base[t], gen |-> generation, val |-> Blank]]
  /\ UNCHANGED outer

\* A build reads a table, off the lock: a writer may be half way.
ReadOuter(r, t) == /\ outer[r] # Nothing
                   /\ outer[r].art = Base[t] /\ outer[r].val[t] = Unread
                   /\ outer' = [outer EXCEPT ![r] = WithPart(@, t, tables[t])]
                   /\ UNCHANGED <<handle, cache, primed, write, undo, edits, inner, answer, window>>

ReadInner(r, t) == /\ inner[r] # Nothing
                   /\ inner[r].art = Base[t] /\ inner[r].val[t] = Unread
                   /\ inner' = [inner EXCEPT ![r] = WithPart(@, t, tables[t])]
                   /\ UNCHANGED <<handle, cache, primed, write, undo, edits, outer, answer, window>>

\* cached() returns a finished build to the build that asked for it.
ReturnPart(r, t) ==
  /\ inner[r] # Nothing /\ inner[r].art = Base[t] /\ Complete(inner[r])
  /\ ~Locked
  /\ cache' = Stored(inner[r])
  /\ outer' = [outer EXCEPT ![r] = WithPart(@, t, Kept(inner[r])[t])]
  /\ inner' = [inner EXCEPT ![r] = Nothing]
  /\ UNCHANGED <<handle, primed, write, undo, edits, answer, window>>

\* cached() returns a finished build to the reader.
Return(r) ==
  /\ outer[r] # Nothing /\ inner[r] = Nothing /\ Complete(outer[r])
  /\ ~Locked
  /\ cache' = Stored(outer[r])
  /\ answer' = [answer EXCEPT ![r] = Kept(outer[r])]
  /\ outer' = [outer EXCEPT ![r] = Nothing]
  /\ UNCHANGED <<handle, primed, write, undo, edits, inner, window>>

\* The reader is finished with the artifact.
Leave(r) == /\ answer[r] # Nothing
            /\ answer' = [answer EXCEPT ![r] = Nothing]
            /\ window' = [window EXCEPT ![r] = [t \in Tables |-> {}]]
            /\ UNCHANGED <<handle, cache, primed, write, undo, edits, outer, inner>>

-----------------------------------------------------------------------------

\* Session.mutate inside an Action: remember what to put back, then
\* replace_tables takes the handle's lock to swap the changed tables.
Mutate(changed) ==
  /\ primed /\ ~Locked /\ edits < MaxEdits
  /\ edits' = edits + 1
  /\ undo' = Append(undo, [tables |-> tables, version |-> version])
  /\ write' = [todo |-> changed, version |-> version + 1,
               to |-> [t \in Tables |-> IF t \in changed THEN edits + 1 ELSE tables[t]]]
  /\ UNCHANGED <<handle, cache, primed, readers, window>>

\* _roll_back undoes the newest mutate: restore takes the lock to swap back.
RollBack ==
  /\ ~Locked /\ undo # <<>>
  /\ LET last == undo[Len(undo)] IN
       write' = [todo |-> {t \in Tables : last.tables[t] # tables[t]},
                 to |-> last.tables, version |-> last.version]
  /\ undo' = SubSeq(undo, 1, Len(undo) - 1)
  /\ UNCHANGED <<handle, cache, primed, edits, readers, window>>

\* The outermost Action succeeded: nothing is left to undo.
Commit == /\ ~Locked /\ undo # <<>>
          /\ undo' = <<>>
          /\ UNCHANGED <<handle, cache, primed, write, edits, readers, window>>

\* _set_tables swaps one table in; every read under way may see it.
Swap(t) ==
  /\ Locked /\ t \in write.todo
  /\ tables' = [tables EXCEPT ![t] = write.to[t]]
  /\ write' = [write EXCEPT !.todo = @ \ {t}]
  /\ window' = [r \in Readers |->
                 IF outer[r] = Nothing THEN window[r]
                 ELSE [window[r] EXCEPT ![t] = @ \cup {write.to[t]}]]
  /\ UNCHANGED <<version, generation, cache, primed, undo, edits, readers>>

\* Plausible bug: a restore puts the generation back with the version, so
\* that a build from before the rollback still counts as current.
BumpGenerationBack ==
  /\ Locked /\ write.todo = {}
  /\ version' = write.version
  /\ generation' = write.version
  /\ cache' = {}
  /\ write' = Nothing
  /\ UNCHANGED <<tables, primed, undo, edits, readers, window>>

\* Plausible bug: the version moves and the cached artifacts stay.
BumpKeepsCache ==
  /\ Locked /\ write.todo = {}
  /\ version' = write.version
  /\ write' = Nothing
  /\ UNCHANGED <<tables, generation, cache, primed, undo, edits, readers, window>>

\* bump and the end of restore: the version is the new (or the old) one, the
\* generation always moves on, every artifact is dropped, the lock released.
Bump ==
  /\ Locked /\ write.todo = {}
  /\ version' = write.version
  /\ generation' = generation + 1
  /\ cache' = {}
  /\ write' = Nothing
  /\ UNCHANGED <<tables, primed, undo, edits, readers, window>>

Reader(r) ==
  \/ \E a \in Artifacts : Hit(r, a) \/ Miss(r, a)
  \/ \E t \in Tables : \/ PartHit(r, t) \/ PartMiss(r, t)
                       \/ ReadOuter(r, t) \/ ReadInner(r, t) \/ ReturnPart(r, t)
  \/ Return(r) \/ Leave(r)

Writer ==
  \/ Prime \/ RollBack \/ Commit \/ Bump
  \/ \E changed \in SUBSET Tables \ {{}} : Mutate(changed)
  \/ \E t \in Tables : Swap(t)

Next == Writer \/ \E r \in Readers : Reader(r)

Spec == Init /\ [][Next]_vars

-----------------------------------------------------------------------------

TypeOK ==
  /\ tables \in [Tables -> Contents]
  /\ version \in Nat
  /\ generation \in Nat
  /\ cache \subseteq Slots
  /\ primed \in BOOLEAN
  /\ write \in Writes \cup {Nothing}
  /\ undo \in Seq(Saved)
  /\ edits \in Contents
  /\ outer \in [Readers -> Slots \cup {Nothing}]
  /\ inner \in [Readers -> Slots \cup {Nothing}]
  /\ \A r \in Readers : inner[r] # Nothing => outer[r] # Nothing
  /\ answer \in [Readers -> Values \cup {Nothing}]
  /\ window \in [Readers -> [Tables -> SUBSET Contents]]

\* What any thread can find in the cache describes the tables of today, also
\* after a failed Action put the version back to one that was cached before.
CacheDescribesTables ==
  ~Locked => \A e \in cache :
    /\ e.gen = generation
    /\ \A t \in Needs[e.art] : e.val[t] = tables[t]

\* Whatever cached() returns was read from the tables as they stood at some
\* moment of the call: never an artifact from before the call, from before
\* an edit or from an Action that was rolled back earlier.
AnswerIsOfTheCall ==
  \A r \in Readers : answer[r] # Nothing =>
    \A t \in Tables : answer[r][t] \in window[r][t] \cup {Unread}
=============================================================================
