------------------------------ MODULE Settings ------------------------------
(* The layered settings of netstead (netstead/config.py), what is refused as *)
(* a credential (netstead/llm/secrets.py) and the Action that changes a      *)
(* setting (SetSetting in netstead/workbench/actions.py and session.py).     *)
(*                                                                           *)
(* A value is a tree: a function from paths of names to what is at the       *)
(* leaves.  A scalar has the empty path only, and an empty table is a leaf   *)
(* that holds "{}".  Text that is no TOML or no JSON is the scalar "broken". *)
(* One field of each kind stands for the fields of the settings models.      *)
EXTENDS Sequences, SequencesExt, FiniteSets, TLC

CONSTANTS Null

Scalar(v) == <<>> :> v
Empty == Scalar("{}")
Broken == Scalar("broken")

(* The typed fields: what each accepts, and what it makes of it.             *)
Fields ==
  <<"io", "allowed_roots">> :> ("[]" :> "[]" @@ "[/data]" :> "[/data]")
  @@ <<"app", "port">> :> ("8850" :> "8850" @@ "9100" :> "9100" @@ "text 9100" :> "9100")
  @@ <<"select", "provider">> :> ("stub" :> "stub" @@ "claude" :> "anthropic" @@ "anthropic" :> "anthropic")
  @@ <<"llm", "openai", "base_url">> :> (Null :> Null @@ "https://h/" :> "https://h" @@ "https://h" :> "https://h")
Default ==
  <<"io", "allowed_roots">> :> "[]" @@ <<"app", "port">> :> "8850"
  @@ <<"select", "provider">> :> "stub" @@ <<"llm", "openai", "base_url">> :> Null

-----------------------------------------------------------------------------
(* Names and values that may be credentials.                                 *)

LooksLikeSecret(s) == s \in {"sk-12345678901234567890", "AIza12345678901234567890"}
IsSecretName(name) == name \in {"token", "api_key"}
HasUrlUserinfo(s) == s \in {"https://user:pw@h"}
HasQuery(s) == s \in {"https://h?key=1"}

NamesIn(tree) == UNION {Range(p) : p \in DOMAIN tree}
TextsIn(tree) == {tree[p] : p \in DOMAIN tree}
BaseUrlsIn(tree) == {tree[p] : p \in {q \in DOMAIN tree : q # <<>> /\ Last(q) = "base_url"}}

SettingsSecretProblem(tree) ==
  \/ \E n \in NamesIn(tree) : LooksLikeSecret(n) \/ IsSecretName(n)
  \/ \E u \in BaseUrlsIn(tree) : HasQuery(u)
  \/ \E s \in TextsIn(tree) : LooksLikeSecret(s) \/ HasUrlUserinfo(s)

(* Of a path, the names up to the first that is secret or before the first   *)
(* that is key-shaped, which goes with its value.                            *)
Marked(path) == {i \in DOMAIN path : LooksLikeSecret(path[i]) \/ IsSecretName(path[i])}
First(path) == CHOOSE i \in Marked(path) : \A j \in Marked(path) : i <= j
Reached(path) ==
  CASE Marked(path) = {} -> path
    [] Marked(path) # {} /\ IsSecretName(path[First(path)]) -> SubSeq(path, 1, First(path))
    [] OTHER -> SubSeq(path, 1, First(path) - 1)

RedactSettings(tree) ==
  LET reached == {Reached(p) : p \in DOMAIN tree}
      Shown(p) ==
        CASE Marked(p) # {} -> "[redacted]"
          [] p \notin DOMAIN tree -> "{}"
          [] LooksLikeSecret(tree[p]) \/ HasUrlUserinfo(tree[p]) -> "[redacted]"
          [] OTHER -> tree[p]
  IN  [p \in {q \in reached : \A r \in reached : ~IsStrictPrefix(q, r)} |-> Shown(p)]

-----------------------------------------------------------------------------
(* Layers of settings.                                                       *)

Under(tree, key) == {p \in DOMAIN tree : IsPrefix(key, p)}
At(tree, key) == [p \in {SubSeq(q, Len(key) + 1, Len(q)) : q \in Under(tree, key)} |-> tree[key \o p]]
Leaves(tree) == DOMAIN tree \ {<<>>}
Related(p, q) == IsPrefix(p, q) \/ IsPrefix(q, p)

(* What is no table on the way to the key is replaced by one.                *)
SetDotted(data, key, value) ==
  LET kept == [p \in {q \in DOMAIN data : ~Related(q, key)} |-> data[p]]
  IN  CASE value # Null -> kept @@ [p \in {key \o q : q \in DOMAIN value} |-> value[SubSeq(p, Len(key) + 1, Len(p))]]
        [] value = Null /\ Under(kept, Front(key)) # {} -> kept
        [] OTHER -> kept @@ Front(key) :> "{}"

(* Plausible bug: a table takes the place of a table.                        *)
MergeShallow(base, over) ==
  LET shadowed == {Head(p) : p \in Leaves(over)}
  IN  IF over = Empty THEN base ELSE [p \in {q \in Leaves(base) : Head(q) \notin shadowed} |-> base[p]] @@ over

(* Tables are laid over each other, anything else takes the other's place;   *)
(* an empty table over a table changes nothing.                              *)
Merge(base, over) ==
  LET Stays(p) == \A q \in DOMAIN over : Related(p, q) => over[q] = "{}" /\ IsStrictPrefix(q, p)
      kept == {p \in DOMAIN base : Stays(p)}
      new == {q \in DOMAIN over : over[q] = "{}" => \A p \in kept : ~IsPrefix(q, p)}
  IN  [p \in kept |-> base[p]] @@ [q \in new |-> over[q]]

EnvLayer(env) ==
  IF \E i \in DOMAIN env : env[i].value = Broken THEN Broken
  ELSE FoldLeft(LAMBDA layer, var : SetDotted(layer, var.key, var.value), Empty, env)
SessionLayer(overrides) == FoldLeft(LAMBDA layer, o : SetDotted(layer, o.key, o.value), Empty, overrides)

Accepted(path, v) ==
  \/ path \in DOMAIN Fields /\ v \in DOMAIN Fields[path]
  \/ v = "{}" /\ \E f \in DOMAIN Fields : IsStrictPrefix(path, f)
  \/ Head(path) = "plugins" /\ (Len(path) > 2 \/ v = "{}")
Valid(data) ==
  /\ data # Broken
  /\ \A p \in Leaves(data) : Accepted(p, data[p])
  /\ ~SettingsSecretProblem(At(data, <<"plugins">>))

(* The settings made of valid data, as JSON: a time is shown as text.        *)
Json(v) == IF v = "a time" THEN "text of a time" ELSE v
Resolved(data) ==
  LET free == {p \in Leaves(data) : Head(p) = "plugins"}
  IN  [p \in DOMAIN Fields |-> IF p \in DOMAIN data THEN Fields[p][data[p]] ELSE Default[p]]
      @@ [p \in IF free = {} THEN {<<"plugins">>} ELSE free |-> IF free = {} THEN "{}" ELSE Json(data[p])]
GetValue(settings, key) == At(settings, key)

Layers(st) ==
  <<[name |-> "user", data |-> st.user], [name |-> "project", data |-> st.project],
    [name |-> "env", data |-> EnvLayer(st.env)], [name |-> "session", data |-> SessionLayer(st.overrides)]>>
LoadSettings(st) ==
  LET layers == Layers(st)
      merged == FoldLeft(LAMBDA under, layer : Merge(under, layer.data), Empty, layers)
      settings == Resolved(merged)
      In(k) == {i \in DOMAIN layers : k \in Leaves(layers[i].data)}
  IN  IF \E i \in DOMAIN layers : ~Valid(layers[i].data) THEN [ok |-> FALSE]
      ELSE IF ~Valid(merged) THEN [ok |-> FALSE]
      ELSE [ok |-> TRUE, settings |-> settings,
            sources |-> [k \in UNION {Leaves(layers[i].data) : i \in DOMAIN layers} \cup DOMAIN settings |->
                           IF In(k) = {} THEN "default" ELSE layers[CHOOSE i \in In(k) : \A j \in In(k) : j <= i].name]]

-----------------------------------------------------------------------------
(* Saving.                                                                   *)

(* A file leaves out what is null; the table it was in is there all the same.*)
WriteToml(data) ==
  LET kept == {p \in DOMAIN data : data[p] # Null}
      bare == {Front(p) : p \in DOMAIN data \ kept}
  IN  [p \in kept |-> data[p]] @@ [q \in {b \in bare : \A p \in kept : ~IsPrefix(b, p)} |-> "{}"]
Writable(data) == \A p \in DOMAIN data : data[p] # "a time"

SaveSetting(file, key, value) ==
  LET data == SetDotted(file, key, value)
      stored == IF value = Null THEN data ELSE SetDotted(data, key, GetValue(Resolved(data), key))
  IN  IF file = Broken THEN [ok |-> FALSE, file |-> file]
      ELSE IF ~Valid(data) THEN [ok |-> FALSE, file |-> file]
      ELSE IF ~Writable(stored) THEN [ok |-> FALSE, file |-> file]
      ELSE [ok |-> TRUE, file |-> WriteToml(stored)]

-----------------------------------------------------------------------------
(* The Action SetSetting.                                                    *)

(* "IO" stands for any other spelling of a name that is "io" in lower case.  *)
Lower(key) == [i \in DOMAIN key |-> IF key[i] = "IO" THEN "io" ELSE key[i]]
ConfigOnlyKeys == {<<"io", "allowed_roots">>}
IsConfigOnly(key) == \E c \in ConfigOnlyKeys : Related(Lower(key), c)
IsRefused(key) == IsConfigOnly(key) \/ IsSecretName(Last(key))

NoSecrets(action) ==
  LET value == IF action.value = Null THEN Empty ELSE action.value
  IN  /\ \A s \in Range(action.key) \cup NamesIn(value) \cup TextsIn(value) : ~LooksLikeSecret(s) /\ ~HasUrlUserinfo(s)
      /\ \A n \in {Last(action.key)} \cup NamesIn(value) : ~IsSecretName(n)
      /\ \A u \in BaseUrlsIn(value) : ~HasQuery(u)
      /\ Last(action.key) = "base_url" /\ <<>> \in DOMAIN value => ~HasQuery(value[<<>>])

(* The model of the settings of an installed plugin: "n" is a number, and    *)
(* there has to be one if it is required.                                    *)
CheckPluginSettings(st, settings) ==
  LET n == <<"plugins", "hello", "n">>
  IN  /\ st.plugin # Null => Under(settings, n) \in {{}, {n}} /\ (n \in DOMAIN settings => settings[n] \in {"1", "2"})
      /\ st.plugin = "required" => n \in DOMAIN settings

(* A dictionary keeps the place of the key it had.                           *)
Override(overrides, key, value) ==
  IF \E i \in DOMAIN overrides : overrides[i].key = key
    THEN [i \in DOMAIN overrides |-> IF overrides[i].key = key THEN [key |-> key, value |-> value] ELSE overrides[i]]
    ELSE Append(overrides, [key |-> key, value |-> value])

HasValue(settings, key) == Under(settings, key) # {} \/ Head(Lower(key)) = "plugins"

SetForSession(st, action) ==
  LET next == [st EXCEPT !.overrides = Override(@, action.key, action.value)]
      loaded == LoadSettings(next)
  IN  IF ~loaded.ok THEN [ok |-> FALSE, st |-> st]
      ELSE IF ~CheckPluginSettings(st, loaded.settings) THEN [ok |-> FALSE, st |-> st]
      ELSE [ok |-> HasValue(loaded.settings, action.key), st |-> next]
SetInFile(st, action) ==
  LET preview == LoadSettings([st EXCEPT !.overrides = Override(@, action.key, action.value)])
      saved == SaveSetting(st[action.scope], action.key, action.value)
      next == [st EXCEPT ![action.scope] = saved.file]
      loaded == LoadSettings(next)
      Rejected == ~preview.ok \/ ~CheckPluginSettings(st, preview.settings)
  IN  IF Head(Lower(action.key)) = "plugins" /\ Rejected THEN [ok |-> FALSE, st |-> st]
      ELSE IF ~saved.ok THEN [ok |-> FALSE, st |-> st]
      ELSE IF ~loaded.ok THEN [ok |-> FALSE, st |-> next]
      ELSE [ok |-> HasValue(loaded.settings, action.key), st |-> next]
SetSetting(st, action) ==
  IF IsConfigOnly(action.key) \/ ~NoSecrets(action) THEN [ok |-> FALSE, st |-> st]
  ELSE IF action.scope = "session" THEN SetForSession(st, action)
  ELSE SetInFile(st, action)

SettingsPayload(st) ==
  LET loaded == LoadSettings(st)
      plugins == RedactSettings(At(loaded.settings, <<"plugins">>))
  IN  [values |-> [p \in DOMAIN Fields |-> loaded.settings[p]]
                  @@ [p \in {<<"plugins">> \o q : q \in DOMAIN plugins} |-> plugins[Tail(p)]],
       sources |-> loaded.sources,
       readonly |-> {k \in DOMAIN loaded.sources : IsRefused(k)}]

-----------------------------------------------------------------------------
(* Properties.                                                               *)

(* What a layer says of a leaf: its value, that it is not there because      *)
(* something else is in its way, or nothing.                                 *)
Says(data, k) ==
  CASE k \in DOMAIN data -> data[k]
    [] \E p \in Leaves(data) : IsStrictPrefix(p, k) /\ data[p] # "{}" -> "not there"
    [] \E p \in Leaves(data) : IsStrictPrefix(k, p) -> "not there"
    [] OTHER -> Null

(* config.load_settings resolves every layer: each leaf has the value that   *)
(* the highest layer to speak of it gives, and the source it is reported     *)
(* with is that layer.  Layers that are valid one by one are valid together. *)
HighestLayerDecides(st) ==
  LET loaded == LoadSettings(st)
      layers == Layers(st)
      Speaking(k) == {i \in DOMAIN layers : k \in Leaves(layers[i].data) \/ Says(layers[i].data, k) # Null}
      Highest(k) == CHOOSE i \in Speaking(k) : \A j \in Speaking(k) : j <= i
  IN  /\ loaded.ok <=> \A i \in DOMAIN layers : Valid(layers[i].data)
      /\ loaded.ok =>
           \A k \in DOMAIN loaded.settings :
             IF Speaking(k) = {} THEN loaded.sources[k] = "default"
             ELSE LET v == Says(layers[Highest(k)].data, k)
                  IN  loaded.settings[k] = (IF k \in DOMAIN Fields THEN Fields[k][v] ELSE Json(v))
                      /\ loaded.sources[k] = layers[Highest(k)].name

(* What is saved is read back, the other settings of the file stay, and a    *)
(* save that is refused leaves the file.                                     *)
SavedIsRead(file, key, value) ==
  LET saved == SaveSetting(file, key, value)
      data == SetDotted(file, key, value)
  IN  IF ~saved.ok THEN saved.file = file
      ELSE /\ Valid(saved.file)
           /\ value # Null => Resolved(saved.file) = Resolved(data)
           /\ \A p \in DOMAIN file : ~Related(p, key) => p \in DOMAIN saved.file /\ saved.file[p] = file[p]
           /\ value = Null => Under(saved.file, key) = {}

(* No Action changes the folders that may be read and written, however its   *)
(* key is spelled and wherever it puts the value (session.py's               *)
(* _CONFIG_ONLY_KEYS), one that fails has no effect on the settings, and     *)
(* one that succeeds takes effect unless something above it decides.         *)
ActionTakesEffect(st, action) ==
  LET before == LoadSettings(st)
      done == SetSetting(st, action)
      after == LoadSettings(done.st)
      roots == <<"io", "allowed_roots">>
      value == GetValue(Resolved(SetDotted(Empty, action.key, action.value)), action.key)
      unrelated == \A i \in DOMAIN st.overrides : st.overrides[i].key = action.key \/ ~Related(st.overrides[i].key, action.key)
  IN  before.ok =>
        /\ after.ok
        /\ after.settings[roots] = before.settings[roots]
        /\ ~done.ok => after.settings = before.settings
        /\ done.ok /\ action.value # Null /\ unrelated =>
             \A p \in Leaves(SetDotted(Empty, action.key, action.value)) \cap DOMAIN after.settings :
               IF action.scope = "session"
                 THEN after.sources[p] = "session" /\ after.settings[p] = value[SubSeq(p, Len(action.key) + 1, Len(p))]
                 ELSE after.sources[p] # "default"

(* A scalar that is saved in a file for a plugin never keeps the server from *)
(* starting ("a saved file a plugin rejects breaks startup").                *)
StartupSurvives(st, action) ==
  LET fresh(s) == LoadSettings([s EXCEPT !.overrides = <<>>])
      done == SetSetting(st, action)
      Starts(s) == LET f == fresh(s) IN f.ok /\ CheckPluginSettings(s, f.settings)
      scalar == action.value # Null /\ DOMAIN action.value = {<<>>} /\ action.value # Empty
  IN  scalar /\ Starts(st) /\ (\A i \in DOMAIN st.overrides : ~Related(st.overrides[i].key, action.key)) => Starts(done.st)

(* Nothing that could be a credential is shown, and what is shown without    *)
(* being read-only can be set to what it is.                                 *)
PayloadIsEditable(st) ==
  LET payload == SettingsPayload(st)
  IN  LoadSettings(st).ok /\ CheckPluginSettings(st, LoadSettings(st).settings) /\ st.overrides = <<>> =>
        \A k \in DOMAIN payload.values \ payload.readonly :
          LET done == SetSetting(st, [key |-> k, value |-> IF payload.values[k] = Null THEN Null ELSE Scalar(payload.values[k]), scope |-> "session"])
          IN  /\ done.ok
              /\ LoadSettings(done.st).settings = LoadSettings(st).settings
RedactedIsClean(tree) ==
  LET shown == RedactSettings(tree)
  IN  /\ \A p \in DOMAIN shown : ~LooksLikeSecret(shown[p]) /\ ~HasUrlUserinfo(shown[p]) /\ \A n \in Range(p) : ~LooksLikeSecret(n)
      /\ \A p \in DOMAIN shown : (\E n \in Range(p) : IsSecretName(n)) => shown[p] = "[redacted]"
      /\ ~SettingsSecretProblem(tree) => shown = tree
=============================================================================
