------------------------------- MODULE Plugins -------------------------------
(* The plugins of the workbench at startup: found (plugins/discovery.py),    *)
(* checked (plugins/spec.py), installed and taken out again (session.py),    *)
(* with the registry of action types they join (actions.py), and attached to *)
(* the server (server.py).                                                   *)
(*                                                                           *)
(* A plugin's own code is what it does to the session's: on_load, routes and *)
(* staging work or fail.  A model is an action class: its name, the module   *)
(* it is in, its type as <<plugin id, name>>, or Null where it has none.     *)
EXTENDS Naturals, Sequences, SequencesExt

CONSTANT Null

HOST_API == <<1, 0>>
Types(models) == {models[i].type : i \in DOMAIN models}
Names(models) == {models[i].name : i \in DOMAIN models}
CoreAction(name, job) ==
  [name |-> name, module |-> "netstead.workbench", type |-> <<"core", name>>, is_action |-> TRUE, runs_as_job |-> job,
   is_top_level |-> TRUE, joins |-> TRUE]
CORE_ACTIONS == <<CoreAction("OpenNetwork", TRUE), CoreAction("Select", FALSE)>>
RESERVED_NAMES == {"Session"} \cup Names(CORE_ACTIONS)

-----------------------------------------------------------------------------
(* The registry of action types.  The adapter parses what it was built of.   *)

Registry(models) == [models |-> models, adapter |-> models]
Register(registry, model) ==
  IF ~model.is_action \/ model.type = Null \/ model.type \in Types(registry.models) THEN [error |-> TRUE, registry |-> registry]
  ELSE IF ~model.joins THEN [error |-> TRUE, registry |-> registry]
  ELSE [error |-> FALSE, registry |-> Registry(Append(registry.models, model))]
Unregister(registry, type) == Registry(SelectSeq(registry.models, LAMBDA m : m.type # type))

-----------------------------------------------------------------------------
(* What is checked of a plugin before it is loaded.                          *)

(* The ids of the model that are well formed.                                *)
PluginId == {"a", "b"}

ApiCompatible(required) == required # Null /\ required[1] = HOST_API[1] /\ HOST_API[2] >= required[2]

IsFaulty(plugin, registry, models, k) ==
  LET model == models[k]
      earlier == SubSeq(models, 1, k - 1)
      named == SelectSeq(earlier, LAMBDA m : m.is_action /\ m.type # Null)
  IN  \/ ~model.is_action \/ model.type = Null
      \/ model.type[1] # plugin.id \/ model.type[2] = ""
      \/ model.runs_as_job
      \/ model.type \in Types(registry.models) \/ model.type \in Types(named)
      \/ model.name \in RESERVED_NAMES \cup Names(registry.models) \cup Names(named)
      \/ ~model.is_top_level
HasProblems(plugin, registry, taken) ==
  \/ plugin.id \notin PluginId
  \/ plugin.id \in taken
  \/ \E k \in DOMAIN plugin.actions : IsFaulty(plugin, registry, plugin.actions, k)

-----------------------------------------------------------------------------
(* Discovery: an entry point is skipped with a status, or gives its plugin.  *)

Status(id, state) == [id |-> id, state |-> state]
Loads(ep) == ep.plugin # Null /\ ep.plugin.id = ep.name
Discover(disabled, eps) ==
  LET found == SelectSeq(eps, LAMBDA ep : ep.name \notin disabled /\ Loads(ep))
      skipped == SelectSeq(eps, LAMBDA ep : ep.name \in disabled \/ ~Loads(ep))
  IN  [found |-> [k \in DOMAIN found |-> found[k].plugin],
       statuses |-> [k \in DOMAIN skipped |-> Status(skipped[k].name, IF skipped[k].name \in disabled THEN "disabled" ELSE "error")]]

-----------------------------------------------------------------------------
(* Installation.  A session keeps the registry, the handler of each type of  *)
(* an installed plugin, the plugins, their hosts and what they mount, and a  *)
(* status of each; a handler is a pair of the type and the plugin.           *)

NewSession ==
  [actions |-> Registry(CORE_ACTIONS),
   handlers |-> {<<CORE_ACTIONS[i].type, "core">> : i \in {j \in DOMAIN CORE_ACTIONS : ~CORE_ACTIONS[j].runs_as_job}},
   plugins |-> <<>>, hosts |-> {}, mounts |-> {}, statuses |-> <<>>]
Ids(session) == {session.plugins[k].id : k \in DOMAIN session.plugins}

(* Plausible bug: the actions registered before the one that fails stay.     *)
RegisterOneHalfway(plugin, state, model) ==
  LET tried == Register(state.session.actions, model)
  IN  IF state.failed \/ tried.error THEN [state EXCEPT !.failed = TRUE]
      ELSE [session |-> [state.session EXCEPT !.actions = tried.registry, !.handlers = @ \cup {<<model.type, plugin.id>>}],
            registered |-> Append(state.registered, model.type), failed |-> FALSE]

(* The actions are registered one by one; those that were are taken out      *)
(* again when one cannot be.                                                 *)
RegisterOne(plugin, state, model) ==
  LET tried == Register(state.session.actions, model)
  IN  IF state.failed THEN state
      ELSE IF tried.error
      THEN [session |-> [state.session EXCEPT
              !.actions = FoldLeft(Unregister, @, state.registered),
              !.handlers = {h \in @ : h[1] \notin Range(state.registered)}],
            registered |-> state.registered, failed |-> TRUE]
      ELSE [session |-> [state.session EXCEPT !.actions = tried.registry, !.handlers = @ \cup {<<model.type, plugin.id>>}],
            registered |-> Append(state.registered, model.type), failed |-> FALSE]
RegisterActions(session, plugin) ==
  FoldLeft(LAMBDA state, model : RegisterOne(plugin, state, model), [session |-> session, registered |-> <<>>, failed |-> FALSE],
           plugin.actions)

Noted(session, plugin, state) == [session EXCEPT !.statuses = Append(@, Status(plugin.id, state))]
Works(plugin) == plugin.settings_valid /\ plugin.on_load /\ plugin.mount
Install(session, plugin, disabled) ==
  IF plugin.id \in disabled THEN Noted(session, plugin, "disabled")
  ELSE IF ~ApiCompatible(plugin.requires_api) THEN Noted(session, plugin, "incompatible")
  ELSE IF HasProblems(plugin, session.actions, Ids(session)) \/ ~Works(plugin) THEN Noted(session, plugin, "error")
  ELSE LET tried == RegisterActions(session, plugin)
       IN  IF tried.failed THEN Noted(tried.session, plugin, "error")
           ELSE Noted([tried.session EXCEPT !.plugins = Append(@, plugin), !.hosts = @ \cup {plugin.id},
                                            !.mounts = @ \cup {plugin.id}], plugin, "loaded")
InstallPlugins(eps, given, disabled) ==
  LET discovered == IF given = Null THEN Discover(disabled, eps) ELSE [found |-> given, statuses |-> <<>>]
  IN  FoldLeft(LAMBDA session, plugin : Install(session, plugin, disabled),
               [NewSession EXCEPT !.statuses = discovered.statuses], discovered.found)

(* A plugin whose mount cannot be staged is taken out.                       *)
UnloadPlugin(session, id) ==
  LET plugin == SelectSeq(session.plugins, LAMBDA p : p.id = id)[1]
      types == [k \in DOMAIN plugin.actions |-> plugin.actions[k].type]
  IN  [session EXCEPT
         !.plugins = SelectSeq(@, LAMBDA p : p.id # id), !.hosts = @ \ {id}, !.mounts = @ \ {id},
         !.actions = FoldLeft(Unregister, @, types),
         !.handlers = {h \in @ : h[1] \notin Range(types)},
         !.statuses = [k \in DOMAIN @ |-> IF @[k].id = id /\ @[k].state = "loaded" THEN Status(id, "error") ELSE @[k]]]
MountPlugins(session) ==
  LET Mount(state, plugin) ==
        IF plugin.stages THEN [state EXCEPT !.served = @ \cup {plugin.id}]
        ELSE [state EXCEPT !.session = UnloadPlugin(@, plugin.id)]
  IN  FoldLeft(Mount, [session |-> session, served |-> {}], session.plugins)

(* What an installed plugin adds to the state, a failure shown.              *)
PluginState(session) ==
  LET with == SelectSeq(session.plugins, LAMBDA p : p.state # Null)
  IN  {<<with[k].id, IF with[k].state = "fails" THEN "error" ELSE with[k].state>> : k \in DOMAIN with}

(* The imports of a script that replays actions of these types.              *)
ImportLine(model) == <<model.module, model.name>>
ScriptImports(models) ==
  [k \in DOMAIN CORE_ACTIONS |-> ImportLine(CORE_ACTIONS[k])]
  \o [k \in DOMAIN SelectSeq(models, LAMBDA m : m.module # "netstead.workbench") |->
        ImportLine(SelectSeq(models, LAMBDA m : m.module # "netstead.workbench")[k])]

-----------------------------------------------------------------------------
(* Properties.                                                               *)

(* A plugin is there whole or not at all, in whichever step it failed: its   *)
(* types are parsed and have its handlers, it is among the plugins, hosts    *)
(* and mounts and is served, and its status is "loaded", or none of these    *)
(* (session.py, _install, _register_actions and unload_plugin).              *)
IsWhole(session, served, plugin) ==
  /\ plugin.id \in session.hosts \cap session.mounts \cap served
  /\ Range(plugin.actions) \subseteq Range(session.actions.models)
  /\ \A k \in DOMAIN plugin.actions : <<plugin.actions[k].type, plugin.id>> \in session.handlers
PluginsAreWhole(session, served) ==
  LET loaded == {session.statuses[k].id : k \in {j \in DOMAIN session.statuses : session.statuses[j].state = "loaded"}}
      types == Types(CORE_ACTIONS) \cup UNION {Types(session.plugins[k].actions) : k \in DOMAIN session.plugins}
      jobs == {CORE_ACTIONS[k].type : k \in {j \in DOMAIN CORE_ACTIONS : CORE_ACTIONS[j].runs_as_job}}
  IN  /\ \A k \in DOMAIN session.plugins : IsWhole(session, served, session.plugins[k])
      /\ Ids(session) = loaded /\ session.hosts = loaded /\ session.mounts = loaded /\ served = loaded
      /\ session.actions.adapter = session.actions.models
      /\ Types(session.actions.models) = types
      /\ {h[1] : h \in session.handlers} = types \ jobs
      /\ {s[1] : s \in PluginState(session)} \subseteq loaded

(* A plugin that could not be installed leaves no trace: the others are as   *)
(* they would be without it.                                                 *)
FailuresLeaveNoTrace(eps, given, disabled) ==
  LET session == InstallPlugins(eps, given, disabled)
      found == IF given = Null THEN Discover(disabled, eps).found ELSE given
      without == InstallPlugins(<<>>, SelectSeq(found, LAMBDA p : p \in Range(session.plugins)), disabled)
  IN  /\ session.actions = without.actions /\ session.handlers = without.handlers
      /\ session.plugins = without.plugins /\ session.hosts = without.hosts

(* A name a replayed script binds means one class, whichever plugins ran.    *)
ScriptsAreUnambiguous(session) ==
  LET imports == Range(ScriptImports(session.actions.models))
  IN  \A a \in imports : \A b \in imports : a[2] = b[2] => a = b
=============================================================================
