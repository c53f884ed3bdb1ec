---------------------------- MODULE ProviderKeys ----------------------------
(* The keys of language-model providers and the status of the providers      *)
(* (netstead/llm/secrets.py, registry.py, catalog.py and the key routes of   *)
(* netstead/workbench/routes/llm.py), and the credentials of hosts           *)
(* (corral/io/credentials.py).                                               *)
(*                                                                           *)
(* A URL is an origin and a path.  A keyring is absent, or locked, or opens  *)
(* and holds keys by slot.  A probe of a local server is the sequence of the *)
(* models it has, or Null when it does not answer.                           *)
EXTENDS Sequences, SequencesExt, FiniteSets, TLC

CONSTANTS Null

-----------------------------------------------------------------------------
(* The catalog.                                                              *)

OverlayKeys == {"label", "default_model"}

(* Models by id: a new one comes last, a known one is changed where it is.   *)
Amend(models, model) ==
  IF \E i \in DOMAIN models : models[i].id = model.id
    THEN [i \in DOMAIN models |-> IF models[i].id = model.id THEN model @@ models[i] ELSE models[i]]
    ELSE Append(models, model)
ApplyOverlay(catalog, overlay) ==
  [name \in DOMAIN catalog |->
     IF name \notin DOMAIN overlay THEN catalog[name]
     ELSE [[k \in DOMAIN overlay[name] \cap OverlayKeys |-> overlay[name][k]] @@ catalog[name]
             EXCEPT !.models = FoldLeft(Amend, @, IF "models" \in DOMAIN overlay[name] THEN overlay[name].models ELSE <<>>)]]

-----------------------------------------------------------------------------
(* Where a key lives and how it is found.                                    *)

KeySlot(provider, origin) == [provider |-> provider, origin |-> origin]
BaseUrl(reg, name) == IF reg.settings[name] # Null THEN reg.settings[name] ELSE reg.catalog[name].base_url
OriginOf(url) == url.origin
(* Plausible bug: a key is the provider's, whatever its endpoint.            *)
SlotOfProvider(reg, name) == KeySlot(name, Null)
Slot(reg, name) ==
  LET here == OriginOf(BaseUrl(reg, name))
  IN  KeySlot(name, IF here = OriginOf(reg.catalog[name].base_url) THEN Null ELSE here)

KeyEnv(reg, name) == reg.catalog[name].key_env
EnvKey(reg, slot) ==
  LET names == IF slot.origin = Null THEN KeyEnv(reg, slot.provider) ELSE <<>>
      Has(i) == names[i] \in DOMAIN reg.environ /\ reg.environ[names[i]] \notin {"", " "}
      set == {i \in DOMAIN names : Has(i)}
  IN  IF set = {} THEN Null ELSE reg.environ[names[CHOOSE i \in set : \A j \in set : i <= j]]
KeyringLookup(reg, slot) ==
  IF reg.ring.kind = "open" /\ slot \in DOMAIN reg.ring.keys
    THEN [key |-> reg.ring.keys[slot], failed |-> FALSE]
    ELSE [key |-> Null, failed |-> reg.ring.kind = "locked"]

Lookup(reg, slot) ==
  LET env == EnvKey(reg, slot)
      stored == KeyringLookup(reg, slot)
  IN  CASE env # Null -> [key |-> env, source |-> "env"]
        [] env = Null /\ stored.key # Null -> [key |-> stored.key, source |-> "keyring"]
        [] OTHER -> Null
(* The key of a slot, or why there is none.                                  *)
Get(reg, slot) ==
  LET env == EnvKey(reg, slot)
      stored == KeyringLookup(reg, slot)
  IN  IF env # Null THEN [ok |-> TRUE, key |-> env]
      ELSE IF stored.key # Null THEN [ok |-> TRUE, key |-> stored.key]
      ELSE IF stored.failed THEN [ok |-> FALSE, why |-> "locked"]
      ELSE [ok |-> FALSE, why |-> IF slot.origin # Null THEN "endpoint" ELSE "no key"]
Status(reg, slot) ==
  LET found == Lookup(reg, slot)
  IN  [configured |-> found # Null, source |-> IF found = Null THEN Null ELSE found.source]

Trimmed(key) == IF key = "key with blanks around" THEN "key" ELSE key
Refused(reg, key) == Trimmed(key) \in {"", "a key"} \/ reg.ring.kind # "open"
Store(reg, slot, key) ==
  IF Refused(reg, key) THEN reg ELSE [reg EXCEPT !.ring.keys = slot :> Trimmed(key) @@ @]
Delete(reg, slot) ==
  IF reg.ring.kind # "open" THEN reg
  ELSE [reg EXCEPT !.ring.keys = [s \in DOMAIN @ \ {slot} |-> @[s]]]

(* The routes: a local provider takes no key.                                *)
SetKey(reg, name, key) == IF reg.catalog[name].kind = "local" THEN reg ELSE Store(reg, Slot(reg, name), key)
RemoveKey(reg, name) == Delete(reg, Slot(reg, name))

-----------------------------------------------------------------------------
(* Providers.                                                                *)

Provider(reg, name) ==
  LET got == Get(reg, Slot(reg, name))
  IN  IF reg.catalog[name].kind = "local" THEN [ok |-> TRUE, key |-> "", base_url |-> BaseUrl(reg, name)]
      ELSE IF got.ok THEN [ok |-> TRUE, key |-> got.key, base_url |-> BaseUrl(reg, name)]
      ELSE [ok |-> FALSE, why |-> got.why]

Ids(models) == {models[i].id : i \in DOMAIN models}
FirstId(models, suitable) ==
  LET suiting == {i \in DOMAIN models : models[i] \in suitable}
  IN  IF suiting = {} THEN Null ELSE models[CHOOSE i \in suiting : \A j \in suiting : i <= j].id
LocalDefault(info, installed) ==
  LET known == FirstId(info.models, {m \in Range(info.models) : m.tools /\ m.id \in Ids(installed)})
      reported == FirstId(installed, {m \in Range(installed) : m.tools = TRUE})
  IN  IF info.default_model \in Ids(installed) THEN info.default_model
      ELSE IF known # Null THEN known
      ELSE IF reported # Null THEN reported
      ELSE info.default_model
ResolveModel(reg, name, model) ==
  LET info == reg.catalog[name]
  IN  IF model # Null THEN model
      ELSE IF info.kind # "local" \/ reg.probe = Null THEN info.default_model
      ELSE LocalDefault(info, reg.probe)

StatusRow(reg, name) ==
  LET info == reg.catalog[name]
      status == Status(reg, Slot(reg, name))
      used == LocalDefault(info, reg.probe)
      Row(configured, usable, error, model) == [configured |-> configured, usable |-> usable, error |-> error, model |-> model]
  IN  IF info.kind = "remote" THEN Row(status.configured, status.configured, Null, info.default_model)
      ELSE IF reg.probe = Null THEN Row(FALSE, FALSE, "unreachable", Null)
      ELSE IF reg.probe = <<>> THEN Row(TRUE, FALSE, "no models", Null)
      ELSE Row(TRUE, TRUE, IF used \in Ids(reg.probe) THEN Null ELSE "not installed", used)

(* A connection test lists what the endpoint serves, with the key.           *)
Test(reg, name, model) ==
  LET info == reg.catalog[name]
      adapter == Provider(reg, name)
      used == IF info.kind = "local" /\ model = Null THEN LocalDefault(info, reg.probe) ELSE model
  IN  IF ~adapter.ok THEN [ok |-> FALSE, error |-> adapter.why]
      ELSE IF reg.probe = Null THEN [ok |-> FALSE, error |-> "unreachable"]
      ELSE IF used # Null /\ used \notin Ids(reg.probe) THEN [ok |-> FALSE, error |-> "model not found"]
      ELSE [ok |-> TRUE, error |-> Null]

-----------------------------------------------------------------------------
(* Credentials of hosts.                                                     *)

LookupEnv(c) ==
  IF c.token # "" THEN [token |-> c.token]
  ELSE IF c.key # "" /\ c.secret # "" THEN [key |-> c.key, secret |-> c.secret]
  ELSE <<>>
LookupKeyring(c) == IF c.ring \in {Null, "", "locked"} THEN <<>> ELSE [token |-> c.ring]
LookupNetrc(c) ==
  IF c.netrc = Null THEN <<>>
  ELSE (IF c.netrc.login # "" THEN [username |-> c.netrc.login] ELSE <<>>)
       @@ (IF c.netrc.password # "" THEN [password |-> c.netrc.password] ELSE <<>>)

FirstOf(found) == LET some == SelectSeq(found, LAMBDA f : f # <<>>) IN IF some = <<>> THEN <<>> ELSE Head(some)
ResolveCredentials(c, explicit) ==
  IF explicit # Null THEN explicit ELSE FirstOf(<<LookupEnv(c), LookupKeyring(c), LookupNetrc(c)>>)
CredentialSource(c) ==
  CASE LookupEnv(c) # <<>> -> "env"
    [] LookupEnv(c) = <<>> /\ LookupKeyring(c) # <<>> -> "keyring"
    [] LookupEnv(c) = <<>> /\ LookupKeyring(c) = <<>> /\ LookupNetrc(c) # <<>> -> "netrc"
    [] OTHER -> "none"

-----------------------------------------------------------------------------
(* Properties.                                                               *)

(* "Keys are bound to the endpoint they were entered for" (secrets.py:305):  *)
(* a key that is stored while a provider has one endpoint is given to an     *)
(* adapter of the same origin only, whatever the settings and the overlay of *)
(* the catalog become, a key of the environment goes to the packaged origin  *)
(* only, and a key that was removed is not found again.                      *)
KeysStayWithTheirEndpoint(reg, name, key, settings, overlay) ==
  LET stored == SetKey(reg, name, key)
      later == [stored EXCEPT !.settings = settings, !.catalog = ApplyOverlay(@, overlay)]
      here == OriginOf(BaseUrl(reg, name))
      removed == RemoveKey(later, name)
  IN  /\ reg.catalog[name].kind = "remote" /\ ~Refused(reg, key) => Lookup(stored, Slot(stored, name)) # Null
      /\ \A p \in DOMAIN reg.catalog :
           LET adapter == Provider(later, p)
           IN  /\ adapter.ok /\ stored # reg /\ adapter.key = Trimmed(key) => p = name /\ OriginOf(adapter.base_url) = here
               /\ adapter.ok /\ (\E v \in DOMAIN reg.environ : adapter.key # "" /\ reg.environ[v] = adapter.key) =>
                    OriginOf(adapter.base_url) = OriginOf(reg.catalog[p].base_url)
               /\ p # name => Provider(removed, p) = adapter
      /\ Provider(removed, name).ok => removed.catalog[name].kind = "local" \/ EnvKey(removed, Slot(removed, name)) # Null
                                       \/ reg.ring.kind # "open"

(* What the panel shows is what a selection will meet: a remote provider is  *)
(* shown configured when its adapter can be made, and a local one without an *)
(* error when the connection test passes; the model shown is the model used. *)
StatusTellsUse(reg) ==
  \A name \in DOMAIN reg.catalog :
    LET row == StatusRow(reg, name)
    IN  /\ reg.catalog[name].kind = "remote" => row.configured = Provider(reg, name).ok
        /\ reg.catalog[name].kind = "local" => (row.error = Null) = Test(reg, name, Null).ok
        /\ row.model # Null => row.model = ResolveModel(reg, name, Null)

(* credential_source names "the cascade layer that would supply credentials".*)
SourceIsNamed(c) ==
  LET supplied == ResolveCredentials(c, Null)
  IN  supplied = CASE CredentialSource(c) = "env" -> LookupEnv(c)
                   [] CredentialSource(c) = "keyring" -> LookupKeyring(c)
                   [] CredentialSource(c) = "netrc" -> LookupNetrc(c)
                   [] OTHER -> <<>>
=============================================================================
