------------------------------ MODULE MCPlugins ------------------------------
(* The cases of Plugins: two plugins of up to two actions each, each failing *)
(* in one of the ways a plugin can, given or found as entry points.          *)
EXTENDS Plugins

Action(id, name) ==
  [name |-> name, module |-> id, type |-> <<id, name>>, is_action |-> TRUE, runs_as_job |-> FALSE, is_top_level |-> TRUE, joins |-> TRUE]
Plugin(id, actions) ==
  [id |-> id, requires_api |-> <<1, 0>>, actions |-> actions, settings_valid |-> TRUE, on_load |-> TRUE, mount |-> TRUE,
   stages |-> TRUE, state |-> Null]

FaultyActions(id) ==
  LET good == Action(id, "Greet")
  IN  {[good EXCEPT !.is_action = FALSE], [good EXCEPT !.type = Null], [good EXCEPT !.type = <<"b", "Greet">>],
       [good EXCEPT !.type = <<id, "">>], [good EXCEPT !.runs_as_job = TRUE], [good EXCEPT !.is_top_level = FALSE],
       [good EXCEPT !.joins = FALSE], Action(id, "Select"), Action(id, "Session"), [good EXCEPT !.type = <<id, "Wave">>]}
ActionLists(id) ==
  {<<>>, <<Action(id, "Wave")>>, <<Action(id, "Greet"), Action(id, "Wave")>>, <<Action(id, "Greet"), Action(id, "Greet")>>}
  \cup {<<Action(id, "Wave"), a>> : a \in FaultyActions(id)} \cup {<<a, Action(id, "Wave")>> : a \in FaultyActions(id)}
Plugins ==
  UNION {
    {Plugin(i, a) : a \in ActionLists(i)}
    \cup {[Plugin(i, <<Action(i, "Wave")>>) EXCEPT !.requires_api = r, !.state = "shown"] : r \in {<<1, 0>>, <<1, 3>>, <<2, 0>>, Null}}
    \cup {[Plugin(i, <<Action(i, "Wave")>>) EXCEPT !.settings_valid = s, !.on_load = o, !.mount = m, !.stages = g, !.state = "fails"] :
            s \in BOOLEAN, o \in BOOLEAN, m \in BOOLEAN, g \in BOOLEAN} : i \in {"a", "b"}}
  \cup {Plugin("A-1", <<>>), Plugin("A-1", <<Action("A-1", "Wave")>>)}

GivenCases ==
  {[part |-> "plugins", eps |-> <<>>, given |-> <<p, q>>, disabled |-> {}] : p \in Plugins, q \in Plugins}
EntryPoints ==
  {[name |-> n, plugin |-> p] :
     n \in {"a", "b", "A-1"}, p \in {Null, Plugin("A-1", <<>>), Plugin("a", <<Action("a", "Wave")>>), [Plugin("a", <<>>) EXCEPT !.stages = FALSE], Plugin("b", <<>>)}}
FoundCases ==
  {[part |-> "plugins", eps |-> <<e, f>>, given |-> Null, disabled |-> d] : e \in EntryPoints, f \in EntryPoints, d \in SUBSET {"a", "b"}}

Holds(case) ==
  case.part = "plugins" =>
    LET session == InstallPlugins(case.eps, case.given, case.disabled)
        mounted == MountPlugins(session)
    IN  /\ PluginsAreWhole(mounted.session, mounted.served)
        /\ FailuresLeaveNoTrace(case.eps, case.given, case.disabled)
        /\ ScriptsAreUnambiguous(session)
        /\ ScriptsAreUnambiguous(mounted.session)
=============================================================================
