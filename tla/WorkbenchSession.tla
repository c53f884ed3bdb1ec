-------------------------- MODULE WorkbenchSession --------------------------
(***************************************************************************)
(* The workbench session (netstead/workbench/session.py): the one place    *)
(* where the open networks, the active network, the selection and the      *)
(* style change, and the history that records why.                         *)
(*                                                                         *)
(* Actions run under one reentrant lock, which the outermost Action holds  *)
(* to its end, so a core Action is one step. The handler of a plugin       *)
(* Action is third-party code that mutates networks, derives copies and    *)
(* dispatches other Actions in any order, and then returns or raises: it   *)
(* is a sequence of steps between Begin and an End step, during which only *)
(* what takes no lock can run. That is the loading half of a job and the   *)
(* parsing half of Select, which is the part that may call a language      *)
(* model.                                                                  *)
(*                                                                         *)
(* A network's tables are the number of edits they have had. The ids of    *)
(* networks are numbered as registry.add does for networks of one label:   *)
(* the smallest number that is free, so an id is reused after a close.     *)
(***************************************************************************)
EXTENDS Naturals, FiniteSets, Sequences, SequencesExt

CONSTANTS
  Jobs,       \* OpenNetwork jobs
  Selectors,  \* requests that dispatch Select with an utterance
  Nested,     \* the core Actions that plugin handlers dispatch
  Failing,    \* whether plugin handlers may raise
  MaxDepth,   \* bound: plugin Actions nested in one another
  MaxNets,    \* bound: networks registered in a behaviour
  MaxSteps,   \* bound: Actions, edits and derivations in a behaviour
  Nothing     \* no selection, nothing prepared, no job

ASSUME RequestsAssumption ==
  /\ Jobs \cap Selectors = {}
  /\ Nested \subseteq {"close", "activate", "select", "clear", "style"}
  /\ Failing \in BOOLEAN

ASSUME BoundsAssumption == MaxNets \in Nat \ {0} /\ MaxDepth \in Nat /\ MaxSteps \in Nat

ASSUME NothingAssumption ==
  /\ Nothing \notin Jobs
  /\ Nothing \notin [net : 1..MaxNets, object : 1..MaxNets, edits : Nat]
  /\ Nothing \notin [arg : 0..MaxNets, object : 0..MaxNets, version : Nat, edits : Nat]

VARIABLES
  session,   \* the open networks, active, selection and style
  running,   \* Session._running: the plugin Actions under way, outermost first
  undo,      \* Session._undo
  history,   \* Session.history
  pc,        \* where each job and each selector stands
  committed, \* Session._committed: the entry of a committed job, 0 if none
  seqOf,     \* Job.history_seq, 0 until it is set
  prepared,  \* what _prepare_select handed each selector
  serial,    \* how many NetworkHandle objects were ever made
  steps,     \* how much of MaxSteps is used up
  silent     \* whether something changed that replaying the history does not redo

work == <<running, undo>>
jobs == <<pc, committed, seqOf>>
vars == <<session, work, history, jobs, prepared, serial, steps, silent>>

-----------------------------------------------------------------------------
(* The registry and the handlers, as functions of the session's state.     *)

None   == 0            \* no id: "the active network", or no network at all
Closed == MaxNets + 1  \* derived_from of a copy whose base was closed

IdsOf(s)      == {s.nets[k].id : k \in DOMAIN s.nets}
Target(s, id) == IF id = None THEN s.active ELSE id
At(s, id)     == CHOOSE k \in DOMAIN s.nets : s.nets[k].id = Target(s, id)
Known(s, id)  == Target(s, id) \in IdsOf(s)

FreshId(s) == CHOOSE n \in 1..MaxNets :
                n \notin IdsOf(s) /\ \A m \in 1..(n - 1) : m \in IdsOf(s)

\* NetworkRegistry.add; "object" tells apart two handles of the same id.
Handle(id, object, source, edits, from, fromObject) ==
  [id |-> id, object |-> object, source |-> source, edits |-> edits, version |-> 0,
   from |-> from, fromObject |-> fromObject]

Register(s, object, source, edits, from, fromObject) ==
  [s EXCEPT !.nets = Append(@, Handle(FreshId(s), object, source, edits, from, fromObject))]

Open(s, object, source) ==
  [Register(s, object, source, 0, None, 0) EXCEPT !.active = FreshId(s)]

Derive(s, object, id) ==
  LET base == s.nets[At(s, id)]
  IN  Register(s, object, base.source, base.edits, base.id, base.object)

\* NetworkRegistry.remove
Without(nets, id) ==
  IF \E k \in DOMAIN nets : nets[k].id = id
  THEN RemoveAt(nets, CHOOSE k \in DOMAIN nets : nets[k].id = id) ELSE nets

Forget(s, id) == [s EXCEPT !.nets = Without(@, id)]

FirstOf(s) == IF s.nets = <<>> THEN None ELSE s.nets[1].id

\* Plausible bug: copies keep the id of a base that was closed.
CloseKeepsCopies(s, id) ==
  LET left == Forget(s, id) IN
  [left EXCEPT
     !.selection = IF @ # Nothing /\ @.net = id THEN Nothing ELSE @,
     !.active = IF @ = id THEN FirstOf(left) ELSE @]

\* _do_close_network.
Close(s, id) ==
  LET left == Forget(s, id) IN
  [left EXCEPT
     !.nets = [k \in DOMAIN @ |-> IF @[k].from = id THEN [@[k] EXCEPT !.from = Closed] ELSE @[k]],
     !.selection = IF @ # Nothing /\ @.net = id THEN Nothing ELSE @,
     !.active = IF @ = id THEN FirstOf(left) ELSE @]

\* selection_payload: what was selected, from the tables as they were read.
Payload(n, edits) == [net |-> n.id, object |-> n.object, edits |-> edits]

Edited(n)   == [n EXCEPT !.edits = @ + 1, !.version = @ + 1]
Edit(s, id) == [s EXCEPT !.nets = [s.nets EXCEPT ![At(s, id)] = Edited(s.nets[At(s, id)])]]

Do(s, op, object) ==
  CASE op.do = "close"    -> Close(s, op.net)
    [] op.do = "activate" -> [s EXCEPT !.active = op.net]
    [] op.do = "select"   -> [s EXCEPT !.selection = LET n == s.nets[At(s, op.net)]
                                                     IN  Payload(n, n.edits)]
    [] op.do = "clear"    -> [s EXCEPT !.selection = Nothing]
    [] op.do = "style"    -> [s EXCEPT !.style = TRUE]
    [] op.do = "open"     -> Open(s, object, op.net)
    [] op.do = "derive"   -> Derive(s, object, op.net)
    [] op.do = "edit"     -> Edit(s, op.net)

Op(do, net) == [do |-> do, net |-> net]

CoreOps == {Op(do, id) : do \in {"close", "activate"}, id \in 1..MaxNets}
           \cup {Op("select", id) : id \in 0..MaxNets} \cup {Op("clear", None), Op("style", None)}

\* A handler raises ActionError when the network it names is not open.
Accepts(s, op) == op.do \in {"close", "activate", "select"} => Known(s, op.net)

-----------------------------------------------------------------------------
(* History entries. "did" is what the Action did, which replaying its      *)
(* python does again; "by" is the job that ran it.                         *)

Entry(ok, did, by) == [ok |-> ok, did |-> IF ok THEN did ELSE <<>>, by |-> by, parent |-> 0]

\* _record_tree, and children.append for an Action that is nested itself:
\* the entries of the nested Actions, innermost first, then their parent's.
Place(parent, before, here) == IF parent = 0 THEN here ELSE parent + before

WithEntry(list, nested, entry) ==
  LET here == Len(list) + Len(nested) + 1
      Link(e) == [e EXCEPT !.parent = Place(@, Len(list), here)]
  IN  list \o [k \in DOMAIN nested |-> Link(nested[k])] \o <<entry>>

\* Plausible bug: nested entries are not marked.
RolledBackUnmarked(nested) == nested

\* _mark_rolled_back, for the nested entries of every depth.
RolledBack(nested) == [k \in DOMAIN nested |-> [nested[k] EXCEPT !.ok = FALSE]]

\* An Action that ran by itself, outside any other.
Record(entry) == history' = WithEntry(history, <<>>, entry)

Idle == running = <<>>
Top  == Last(running)

Step == steps < MaxSteps /\ steps' = steps + 1

-----------------------------------------------------------------------------

\* A session that was launched with one network.
Launched == [nets |-> <<Handle(1, 1, Nothing, 0, None, 0)>>,
             active |-> 1, selection |-> Nothing, style |-> FALSE]

Init ==
  /\ session = Launched
  /\ running = <<>>
  /\ undo = <<>>
  /\ history = <<>>
  /\ pc = [p \in Jobs \cup Selectors |-> "idle"]
  /\ committed = [j \in Jobs |-> 0]
  /\ seqOf = [j \in Jobs |-> 0]
  /\ prepared = [r \in Selectors |-> Nothing]
  /\ serial = 1
  /\ steps = 0
  /\ silent = FALSE

\* dispatch of a core Action outside any other.
CoreAction(op) ==
  /\ Idle /\ Step
  /\ session' = IF Accepts(session, op) THEN Do(session, op, 0) ELSE session
  /\ Record(Entry(Accepts(session, op), <<op>>, Nothing))
  /\ UNCHANGED <<work, jobs, prepared, serial, silent>>

\* What the handler of the innermost plugin Action does next.
TopDoes(did, entries) ==
  running' = [running EXCEPT ![Len(running)] =
                [Top EXCEPT !.did = Top.did \o did, !.nested = Top.nested \o entries]]

\* host.dispatch of a core Action in a handler, which goes on either way.
NestedAction(op) ==
  /\ ~Idle /\ Step /\ op.do \in Nested
  /\ session' = IF Accepts(session, op) THEN Do(session, op, 0) ELSE session
  /\ LET entry == Entry(Accepts(session, op), <<op>>, Nothing)
     IN  TopDoes(entry.did, <<entry>>)
  /\ UNCHANGED <<undo, history, jobs, prepared, serial, silent>>

\* dispatch of a plugin Action, outside any other or in a handler.
Begin ==
  /\ Len(running) < MaxDepth /\ Step
  /\ running' = Append(running,
       [mark |-> Len(undo), active |-> session.active, selection |-> session.selection,
        style |-> session.style, did |-> <<>>, nested |-> <<>>, before |-> session])
  /\ UNCHANGED <<session, undo, history, jobs, prepared, serial, silent>>

\* host.mutate: in a handler it can be undone, and running the Action again
\* edits again.
MutateInside(id) ==
  /\ ~Idle /\ Known(session, id) /\ Step
  /\ LET n == session.nets[At(session, id)] IN
       undo' = Append(undo, [kind |-> "mutated", object |-> n.object, id |-> n.id,
                             edits |-> n.edits, version |-> n.version])
  /\ session' = Edit(session, id)
  /\ TopDoes(<<Op("edit", id)>>, <<>>)
  /\ UNCHANGED <<history, jobs, prepared, serial, silent>>

\* Elsewhere it gets an entry to be seen, whose python is a comment.
MutateOutside(id) ==
  /\ Idle /\ Known(session, id) /\ Step
  /\ session' = Edit(session, id)
  /\ Record(Entry(TRUE, <<>>, Nothing))
  /\ silent' = TRUE
  /\ UNCHANGED <<work, jobs, prepared, serial>>

\* host.derive: in a handler it can be undone, elsewhere nothing records it.
DeriveInside(id) ==
  /\ ~Idle /\ Known(session, id) /\ serial < MaxNets /\ Step
  /\ undo' = Append(undo, [kind |-> "derived", object |-> 0, id |-> FreshId(session),
                           edits |-> 0, version |-> 0])
  /\ session' = Derive(session, serial + 1, id)
  /\ serial' = serial + 1
  /\ TopDoes(<<Op("derive", id)>>, <<>>)
  /\ UNCHANGED <<history, jobs, prepared, silent>>

DeriveOutside(id) ==
  /\ Idle /\ Known(session, id) /\ serial < MaxNets /\ Step
  /\ session' = Derive(session, serial + 1, id)
  /\ serial' = serial + 1
  /\ silent' = TRUE
  /\ UNCHANGED <<work, history, jobs, prepared>>

\* Session.add_network: the Python path, which is not an Action.
AddNetwork ==
  /\ Idle /\ serial < MaxNets /\ Step
  /\ LET added == Register(session, serial + 1, Nothing, 0, None, 0) IN
       session' = [added EXCEPT !.active = IF @ = None THEN FreshId(session) ELSE @]
  /\ serial' = serial + 1
  /\ silent' = TRUE
  /\ UNCHANGED <<work, history, jobs, prepared>>

\* An Action of a handler's own that succeeds: its effects are its parent's,
\* or final if it is the outermost.
EndOk ==
  LET entry == Entry(TRUE, Top.did, Nothing)
      above == Front(running)
      parent == Last(above)
  IN
  /\ ~Idle
  /\ IF Len(running) = 1
     THEN /\ running' = <<>>
          /\ undo' = <<>>
          /\ history' = WithEntry(history, Top.nested, entry)
     ELSE /\ running' = [above EXCEPT ![Len(above)] =
                           [parent EXCEPT !.did = parent.did \o entry.did,
                                          !.nested = WithEntry(parent.nested, Top.nested, entry)]]
          /\ UNCHANGED <<undo, history>>
  /\ UNCHANGED <<session, jobs, prepared, serial, steps, silent>>

\* _Mutated.undo and _Derived.undo.
UndoOne(u, nets) ==
  IF u.kind = "derived" THEN Without(nets, u.id)
  ELSE [k \in DOMAIN nets |->
          IF nets[k].object = u.object
          THEN [nets[k] EXCEPT !.edits = u.edits, !.version = u.version] ELSE nets[k]]

\* Plausible bug: the oldest change is undone first.
UndoneOldestFirst(records, nets) ==
  LET after[k \in 0..Len(records)] ==
        IF k = 0 THEN nets ELSE UndoOne(records[k], after[k - 1])
  IN  after[Len(records)]

\* The networks after the loop of _roll_back: the latest record is undone first.
Undone(records, nets) ==
  LET after[k \in 0..Len(records)] ==
        IF k = 0 THEN nets ELSE UndoOne(records[Len(records) - k + 1], after[k - 1])
  IN  after[Len(records)]

\* _roll_back: the undo records above the mark, then the view.
RollBack(frame) ==
  LET s == [session EXCEPT !.nets = Undone(SubSeq(undo, frame.mark + 1, Len(undo)), @)] IN
  /\ session' = [s EXCEPT
       !.active = IF frame.active \in IdsOf(s) THEN frame.active ELSE FirstOf(s),
       !.selection = IF frame.selection # Nothing /\ frame.selection.net \notin IdsOf(s)
                     THEN Nothing ELSE frame.selection,
       !.style = frame.style]
  /\ undo' = SubSeq(undo, 1, frame.mark)

\* A handler raises an Exception: undone, and recorded as failed.
EndFails ==
  LET entry  == Entry(FALSE, Top.did, Nothing)
      nested == RolledBack(Top.nested)
      above  == Front(running)
      parent == Last(above)
  IN
  /\ ~Idle /\ Failing
  /\ RollBack(Top)
  /\ IF Len(running) = 1
     THEN running' = <<>> /\ history' = WithEntry(history, nested, entry)
     ELSE /\ running' = [above EXCEPT ![Len(above)] =
                           [parent EXCEPT !.nested = WithEntry(parent.nested, nested, entry)]]
          /\ UNCHANGED history
  /\ UNCHANGED <<jobs, prepared, serial, steps, silent>>

\* A handler raises a SystemExit or the like: undone, and not recorded.
EndAborts ==
  /\ ~Idle /\ Failing
  /\ RollBack(Top)
  /\ running' = Front(running)
  /\ UNCHANGED <<history, jobs, prepared, serial, steps, silent>>

-----------------------------------------------------------------------------
(* Jobs: the load runs without the lock, _commit and _finish with it.      *)

Goto(p, from, to) == pc[p] = from /\ pc' = [pc EXCEPT ![p] = to]

\* _job_open_network returns, or fails or is cancelled.
Load(j, outcome) ==
  /\ Goto(j, "idle", outcome)
  /\ UNCHANGED <<session, work, history, committed, seqOf, prepared, serial, steps, silent>>

\* Plausible bug: the entry is left to _finish, which takes the lock anew.
CommitUnrecorded(j) ==
  /\ Idle /\ serial < MaxNets
  /\ Goto(j, "loaded", "finish")
  /\ session' = Open(session, serial + 1, j)
  /\ serial' = serial + 1
  /\ UNCHANGED <<work, history, committed, seqOf, prepared, steps, silent>>

\* _commit: the network is registered and recorded in one critical section.
Commit(j) ==
  /\ Idle /\ serial < MaxNets
  /\ Goto(j, "loaded", "finish")
  /\ session' = Open(session, serial + 1, j)
  /\ serial' = serial + 1
  /\ Record(Entry(TRUE, <<Op("open", j)>>, j))
  /\ committed' = [committed EXCEPT ![j] = Len(history) + 1]
  /\ UNCHANGED <<work, seqOf, prepared, steps, silent>>

\* Plausible bug: _finish does not look whether the job was committed.
FinishAnyway(j) ==
  /\ Idle
  /\ Goto(j, "finish", "ended")
  /\ Record(Entry(FALSE, <<>>, j))
  /\ seqOf' = [seqOf EXCEPT ![j] = Len(history) + 1]
  /\ UNCHANGED <<session, work, committed, prepared, serial, steps, silent>>

\* _finish: a job that was not committed is recorded now.
Finish(j) ==
  /\ Idle
  /\ Goto(j, "finish", "ended")
  /\ IF committed[j] # 0 THEN UNCHANGED history ELSE Record(Entry(FALSE, <<>>, j))
  /\ seqOf' = [seqOf EXCEPT ![j] = IF committed[j] # 0 THEN committed[j] ELSE Len(history) + 1]
  /\ committed' = [committed EXCEPT ![j] = 0]
  /\ UNCHANGED <<session, work, prepared, serial, steps, silent>>

-----------------------------------------------------------------------------
(* Select with an utterance: _prepare_select takes the lock for a snapshot *)
(* and parses without it, _do_select applies what was parsed.              *)

Prepare(r, id) ==
  /\ Idle /\ Goto(r, "idle", "parsing")
  /\ prepared' = [prepared EXCEPT ![r] =
       IF Known(session, id)
       THEN LET n == session.nets[At(session, id)]
            IN [arg |-> id, object |-> n.object, version |-> n.version, edits |-> n.edits]
       ELSE [arg |-> id, object |-> 0, version |-> 0, edits |-> 0]]
  /\ UNCHANGED <<session, work, history, committed, seqOf, serial, steps, silent>>

\* _select_utterance reads the handle's frames as they are by now, in the
\* midst of a plugin Action or not. A network that was closed is not edited.
Parse(r) ==
  /\ Goto(r, "parsing", "apply")
  /\ prepared' = [prepared EXCEPT ![r].edits =
       LET open == {k \in DOMAIN session.nets : session.nets[k].object = prepared[r].object}
       IN IF open = {} THEN @ ELSE session.nets[CHOOSE k \in open : TRUE].edits]
  /\ UNCHANGED <<session, work, history, committed, seqOf, serial, steps, silent>>

\* The provider fails while parsing.
ParseFails(r) ==
  /\ Goto(r, "parsing", "apply")
  /\ prepared' = [prepared EXCEPT ![r].object = 0]
  /\ UNCHANGED <<session, work, history, committed, seqOf, serial, steps, silent>>

\* Plausible bug: only the network is compared, not its version.
UnchangedNetwork(p) ==
  Known(session, p.arg) /\ session.nets[At(session, p.arg)].object = p.object

\* Still the network, and the version of it, that was parsed for.
Unchanged(p) ==
  /\ Known(session, p.arg)
  /\ LET n == session.nets[At(session, p.arg)]
     IN n.object = p.object /\ n.version = p.version

Select(r) ==
  LET p == prepared[r] IN
  /\ Idle /\ Goto(r, "apply", "ended")
  /\ session' = IF Unchanged(p)
                THEN [session EXCEPT !.selection = Payload(session.nets[At(session, p.arg)], p.edits)]
                ELSE session
  /\ Record(Entry(Unchanged(p), <<Op("select", p.arg)>>, Nothing))
  /\ UNCHANGED <<work, committed, seqOf, prepared, serial, steps, silent>>

-----------------------------------------------------------------------------

Next ==
  \/ \E op \in CoreOps : CoreAction(op) \/ NestedAction(op)
  \/ Begin \/ EndOk \/ EndFails \/ EndAborts \/ AddNetwork
  \/ \E id \in 0..MaxNets : \/ MutateInside(id) \/ MutateOutside(id)
                            \/ DeriveInside(id) \/ DeriveOutside(id)
  \/ \E j \in Jobs : Load(j, "loaded") \/ Load(j, "finish") \/ Commit(j) \/ Finish(j)
  \/ \E r \in Selectors : \/ \E id \in 0..MaxNets : Prepare(r, id)
                          \/ Parse(r) \/ ParseFails(r) \/ Select(r)

Spec == Init /\ [][Next]_vars

-----------------------------------------------------------------------------

Ids     == 0..MaxNets
Objects == 0..MaxNets

NetworkType == [id : 1..MaxNets, object : 1..MaxNets, source : Jobs \cup {Nothing},
                edits : Nat, version : Nat, from : 0..Closed, fromObject : Objects]
SelectionType == [net : 1..MaxNets, object : 1..MaxNets, edits : Nat] \cup {Nothing}
SessionType == [nets : Seq(NetworkType), active : Ids, selection : SelectionType, style : BOOLEAN]

OpType == [do : {"close", "activate", "select", "clear", "style", "open", "derive", "edit"},
           net : Ids \cup Jobs]

\* The entries of some jobs; the Actions a handler dispatches are no job's.
Entries(by) == [ok : BOOLEAN, did : Seq(OpType), by : by, parent : Nat]

FrameType == [mark : Nat, active : Ids, selection : SelectionType, style : BOOLEAN,
              did : Seq(OpType), nested : Seq(Entries({Nothing})), before : SessionType]
UndoType  == [kind : {"mutated", "derived"}, object : Objects, id : 1..MaxNets,
              edits : Nat, version : Nat]

PreparedType == [arg : Ids, object : Objects, version : Nat, edits : Nat]

TypeOK ==
  /\ session \in SessionType
  /\ running \in Seq(FrameType)
  /\ undo \in Seq(UndoType)
  /\ \A k \in DOMAIN running : running[k].mark <= Len(undo)
  /\ Idle => undo = <<>>
  /\ history \in Seq(Entries(Jobs \cup {Nothing}))
  /\ pc \in [Jobs \cup Selectors -> {"idle", "loaded", "finish", "parsing", "apply", "ended"}]
  /\ committed \in [Jobs -> 0..Len(history)]
  /\ seqOf \in [Jobs -> 0..Len(history)]
  /\ prepared \in [Selectors -> PreparedType \cup {Nothing}]
  /\ \A r \in Selectors : pc[r] # "idle" => prepared[r] # Nothing
  /\ serial \in 1..MaxNets
  /\ steps \in 0..MaxSteps
  /\ silent \in BOOLEAN

\* What an entry's python can speak of: ids, never which object it got.
Plain(s) ==
  [s EXCEPT !.nets = [k \in DOMAIN s.nets |-> [s.nets[k] EXCEPT !.object = 0, !.fromObject = 0]],
            !.selection = IF s.selection = Nothing THEN Nothing ELSE [s.selection EXCEPT !.object = 0]]

\* What replaying the python of an entry does to a session. Which object a
\* network gets is no part of what Plain compares.
Redone(did, s) ==
  LET after[k \in 0..Len(did)] == IF k = 0 THEN s ELSE Do(after[k - 1], did[k], 1)
  IN  after[Len(did)]

\* Replaying a history runs what succeeded and was dispatched from outside.
Replay(entries) ==
  LET after[k \in 0..Len(entries)] ==
        IF k = 0 THEN Launched
        ELSE IF entries[k].ok /\ entries[k].parent = 0 THEN Redone(entries[k].did, after[k - 1])
        ELSE after[k - 1]
  IN  after[Len(entries)]

\* Replaying the history, every Action that succeeded and was dispatched from
\* outside, gives the session as it is: the same network ids in the same order
\* with the same tables, the same active network, selection and style. (But for
\* a session in which a network was registered from Python, or one was derived
\* or edited outside every Action: the former two are in no entry, and the
\* entry of an edit is a comment, "visible but not replayable".)
HistoryReplays == Idle /\ ~silent => Plain(session) = Plain(Replay(history))

\* Whatever a failing Action and those nested in it did, the session is as it
\* was before it began.
FailedActionChangesNothing ==
  [][/\ Len(running') < Len(running)
     /\ \/ Len(history') > Len(history) /\ ~Last(history').ok
        \/ running' # <<>> /\ Len(Last(running').nested) > Len(running[Len(running')].nested)
             /\ ~Last(Last(running').nested).ok
        \/ history' = history /\ Len(running) = 1
     => session' = Top.before]_vars

\* What refers to a network refers to one that is open, and to the very one it
\* was made for: no reference is inherited by a later network of the same id.
ReferencesAreLive ==
  /\ Cardinality(IdsOf(session)) = Len(session.nets)
  /\ session.active = None <=> session.nets = <<>>
  /\ session.active # None => session.active \in IdsOf(session)
  /\ session.selection # Nothing =>
       \E n \in Range(session.nets) :
         n.id = session.selection.net /\ n.object = session.selection.object
  /\ \A n \in Range(session.nets) : n.from \in 1..MaxNets =>
       \E m \in Range(session.nets) : m.id = n.from /\ m.object = n.fromObject

\* The history never calls an Action applied whose parent was undone, and a
\* nested entry comes before its parent.
NestedEntriesFollowTheirParent ==
  \A k \in DOMAIN history : history[k].parent # 0 =>
    /\ history[k].parent \in (k + 1)..Len(history)
    /\ history[k].ok => history[history[k].parent].ok

\* Every job that ended has exactly one entry, and history_seq is that entry.
JobsAreRecordedOnce ==
  \A j \in Jobs : pc[j] = "ended" =>
    {k \in DOMAIN history : history[k].by = j} = {seqOf[j]}

\* A selection made from an utterance is resolved on the tables the network
\* has when it is applied.
SelectionIsOfTheAppliedTables ==
  [][\A r \in Selectors :
       pc[r] = "apply" /\ pc'[r] = "ended" /\ session'.selection # session.selection =>
         \E n \in Range(session'.nets) :
           n.object = session'.selection.object /\ n.edits = session'.selection.edits]_vars
=============================================================================
