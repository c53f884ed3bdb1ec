----------------------------- MODULE MCSettings -----------------------------
(* The cases of Settings: what a user file, a project file, the environment  *)
(* and the session may say of a few settings, and Actions on each of them;   *)
(* and those of ProviderKeys: two remote providers and a local one, endpoints*)
(* that are official, another path of the official origin, or elsewhere, and *)
(* keys in the environment and in a keyring.                                 *)
EXTENDS Settings

INSTANCE ProviderKeys

h == <<"plugins", "hello">>
n == Append(h, "n")
other == Append(h, "other")

Small == {Empty, Broken, <<"app", "port">> :> "text 9100", <<"app", "port">> :> "high", <<"app">> :> "{}",
          <<"select", "provider">> :> "claude", <<"io", "allowed_roots">> :> "[/data]", n :> "1", h :> "{}",
          n :> "1" @@ other :> "x", Append(n, "deep") :> "x", n :> "{}", other :> "a time", Append(h, "token") :> "x"}
Vars == {[key |-> <<"app", "port">>, value |-> Scalar("9100")], [key |-> h, value |-> <<"n">> :> "2"],
         [key |-> n, value |-> Scalar("text")], [key |-> n, value |-> Broken]}
Envs == {<<>>} \cup {<<v>> : v \in Vars}
Before == {<<>>, <<[key |-> n, value |-> Scalar("1")]>>,
           <<[key |-> h, value |-> <<"n">> :> "2"], [key |-> n, value |-> Scalar("1")]>>,
           <<[key |-> other, value |-> Empty], [key |-> <<"app", "port">>, value |-> Scalar("8850")]>>}

State(user, project, env, overrides, plugin) ==
  [user |-> user, project |-> project, env |-> env, overrides |-> overrides, plugin |-> plugin]
LayerCases ==
  {[part |-> "layers", st |-> State(u, p, e, o, "required")] : u \in Small, p \in Small, e \in Envs, o \in Before}

Keys == {<<"app", "port">>, <<"app">>, <<"app", "none">>, <<"select", "provider">>, <<"llm", "openai", "base_url">>, <<"io">>,
         <<"IO", "allowed_roots">>, <<"io", "allowed_roots">>, <<"io", "allowed_roots", "x">>, <<"plugins">>, h, n, other,
         Append(n, "deep"), <<"plugins", "token", "x">>}
Values == {Null, Empty, Scalar("9100"), Scalar("1"), Scalar("text"), Scalar("https://h/"), Scalar("[/data]"), Scalar("claude"),
           Scalar("sk-12345678901234567890"), <<"n">> :> "2" @@ <<"other">> :> "x", <<"allowed_roots">> :> "[/data]",
           <<"port">> :> "text 9100", <<"hello", "base_url">> :> "https://h?key=1"}
Actions == [key : Keys, value : Values, scope : {"session", "user"}]
Files == {Empty, <<"app", "port">> :> "9100" @@ n :> "1", other :> "a time"}
ActionCases ==
  {[part |-> "action", st |-> State(u, Empty, e, o, m), action |-> a] :
     u \in Files, e \in {<<>>, <<[key |-> <<"app", "port">>, value |-> Scalar("9100")]>>}, o \in Before,
     m \in {Null, "optional", "required"}, a \in Actions}
SaveCases == {[part |-> "save", file |-> f, key |-> k, value |-> v] : f \in Small, k \in Keys, v \in Values}

Names == {"token", "AIza12345678901234567890", "a"}
Trees ==
  LET paths == {<<x>> : x \in Names} \cup {<<x, y>> : x \in Names, y \in Names}
      texts == {"x", "sk-12345678901234567890", "https://user:pw@h", "{}"}
  IN  {p :> v @@ q :> w : p \in paths, q \in {r \in paths : Len(r) = 2}, v \in texts, w \in texts}
TreeCases ==
  {[part |-> "redact", tree |-> t] : t \in {s \in Trees : \A p \in DOMAIN s, q \in DOMAIN s : ~IsStrictPrefix(p, q)}}

Url(origin, path) == [origin |-> origin, path |-> path]
Model(id, tools) == [id |-> id, tools |-> tools]
Info(kind, origin, env, models) ==
  [kind |-> kind, base_url |-> Url(origin, "/"), key_env |-> env, label |-> origin, default_model |-> "m1", models |-> models]
Catalog ==
  [openai |-> Info("remote", "o", <<"KEY", "OLD_KEY">>, <<Model("m1", TRUE)>>), gemini |-> Info("remote", "g", <<>>, <<>>),
   ollama |-> Info("local", "l", <<>>, <<Model("m1", TRUE), Model("m2", FALSE), Model("m3", TRUE)>>)]
Urls == {Null, Url("o", "/"), Url("o", "/v1"), Url("x", "/")}
Rings ==
  {[kind |-> k, keys |-> <<>>] : k \in {"absent", "locked", "open"}}
  \cup {[kind |-> "open", keys |-> KeySlot(p, o) :> "old key"] : p \in {"openai", "gemini"}, o \in {Null, "x"}}
Environs == {<<>>, [KEY |-> "env key"], [OLD_KEY |-> "env key", KEY |-> " "]}
Endpoints(openai, gemini) == [openai |-> openai, gemini |-> gemini, ollama |-> Null]
Registry(settings, ring, environ, probe) ==
  [catalog |-> Catalog, settings |-> settings, ring |-> ring, environ |-> environ, probe |-> probe]
Overlays ==
  {<<>>, [openai |-> [base_url |-> Url("x", "/"), key_env |-> <<"KEY">>, kind |-> "local", models |-> <<Model("m1", FALSE)>>],
          gemini |-> [key_env |-> <<"KEY">>, default_model |-> "m9"], other |-> [kind |-> "remote"]]}

KeyCases ==
  {[part |-> "keys", reg |-> Registry(Endpoints(a, g), r, e, Null), name |-> p, key |-> k, settings |-> Endpoints(b, Null), overlay |-> v] :
     a \in Urls, g \in {Null, Url("x", "/")}, b \in Urls, r \in Rings, e \in Environs, v \in Overlays,
     p \in {"openai", "gemini", "ollama"}, k \in {"key with blanks around", "a key", ""}}
Installed == UNION {[1..m -> {Model(i, t) : i \in {"m1", "m2", "m3", "m4"}, t \in {TRUE, FALSE, Null}}] : m \in 0..2}
StatusCases ==
  {[part |-> "status", reg |-> Registry(Endpoints(b, Null), r, e, p)] :
     b \in {Null, Url("x", "/")}, r \in Rings, e \in Environs, p \in {Null, <<>>, <<Model("m2", FALSE)>>}}
  \cup {[part |-> "status", reg |-> Registry(Endpoints(Null, Null), [kind |-> "absent", keys |-> <<>>], <<>>, p)] : p \in Installed}
CredentialCases ==
  {[part |-> "credentials", of |-> [token |-> t, key |-> k, secret |-> s, ring |-> r, netrc |-> c]] :
     t \in {"", "t"}, k \in {"", "k"}, s \in {"", "s"}, r \in {Null, "", "locked", "r"},
     c \in {Null} \cup [login : {"", "l"}, password : {"", "p"}]}

Holds(case) ==
  /\ case.part = "layers" => HighestLayerDecides(case.st) /\ PayloadIsEditable(case.st)
  /\ case.part = "action" => ActionTakesEffect(case.st, case.action) /\ StartupSurvives(case.st, case.action)
  /\ case.part = "save" => SavedIsRead(case.file, case.key, case.value)
  /\ case.part = "redact" => RedactedIsClean(case.tree)
  /\ case.part = "keys" => KeysStayWithTheirEndpoint(case.reg, case.name, case.key, case.settings, case.overlay)
  /\ case.part = "status" => StatusTellsUse(case.reg)
  /\ case.part = "credentials" => SourceIsNamed(case.of)
=============================================================================
