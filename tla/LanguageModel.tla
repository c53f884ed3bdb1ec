---------------------------- MODULE LanguageModel ----------------------------
(* How the workbench turns an utterance into a selection                     *)
(* (workbench/session.py, netstead/llm, netstead/select/parse.py): settings, *)
(* API keys and the cached parser change under the session lock or in the    *)
(* keyring while requests build parsers, talk to a provider for seconds and  *)
(* resolve what it answered, all without the lock.                           *)
(*                                                                           *)
(* One provider with several endpoints stands for all of them.  A registry   *)
(* is made of settings and never changed; requests compare registries by     *)
(* identity, so they are numbered and the newest is Session.llm.  A key is   *)
(* the number of times one was stored or removed, negative when removed, so  *)
(* that an old key is told from a new one.  What a provider answers is a     *)
(* choice.                                                                   *)
EXTENDS Integers, FiniteSets, Sequences

CONSTANTS
  Requests,        \* Selects with an utterance, each on a thread of its own
  Endpoints,       \* where the provider may be: base_url
  LocalEndpoints,  \* the ones on this machine
  SettingsChoices, \* what SetSetting may make of the settings
  MaxRepairs,      \* llm.quality.max_repairs
  MaxChanges,      \* bound: settings changes, key writes and network changes
  Nothing

ASSUME EndpointsAssumption ==
  /\ LocalEndpoints \subseteq Endpoints
  /\ SettingsChoices \subseteq [provider : {"stub", "llm"}, endpoint : Endpoints, fewShot : BOOLEAN,
                                grounding : {"auto", "on", "off"}, retry : {"auto", "on", "off"}]
  /\ MaxRepairs \in Nat

(* Registries, parsers that were made of one, missing keys, and networks     *)
(* with the number of their edits.                                           *)
Registries == [number : Nat, settings : SettingsChoices]
Parsers == [reg : Nat, provider : {"stub", "llm"}, endpoint : Endpoints, key : Int]
Failures == [reg : Nat, fresh : BOOLEAN]
Networks == [object : Nat, version : Nat]

ASSUME NothingAssumption == Nothing \notin Registries \cup Parsers \cup Failures \cup Networks \cup Endpoints

VARIABLES
  llm,         \* Session.llm: the newest registry, its number and its settings
  keys,        \* endpoint -> its key in the keyring
  written,     \* a key route has written a key and not yet reset
  parser,      \* Session._parser with _parser_registry
  failure,     \* Session._parser_failure
  net,         \* the active network
  examples,    \* Session._examples: the networks they were made on
  changes,     \* how much of MaxChanges is used up
  req          \* where each request stands

vars == <<llm, keys, written, parser, failure, net, examples, changes, req>>
llmState == <<llm, keys, written, parser, failure>>
netState == <<net, examples>>

Settings == llm.settings
Configured(e) == keys[e] > 0

(* LLMSettings._quality_on and Session._follows_endpoint.                    *)
QualityOn(mode, endpoint) == mode = "on" \/ (mode = "auto" /\ endpoint \in LocalEndpoints)
FollowsEndpoint(mode, endpoint) == mode = "on" \/ endpoint \in LocalEndpoints

(* Plausible bug: only the settings of the moment are asked.                 *)
RetryOnBySettings(quality, called) == QualityOn(quality.retry, quality.endpoint)

(* Whether a miss goes back to the provider with the closest names.          *)
RetryOn(quality, called) ==
  QualityOn(quality.retry, quality.endpoint) /\ FollowsEndpoint(quality.retry, called)

Grounding(quality, called) ==
  QualityOn(quality.grounding, quality.endpoint) /\ FollowsEndpoint(quality.grounding, called)

Waiting == [pc |-> "idle", reg |-> Nothing, made |-> Nothing, called |-> Nothing, net |-> Nothing, shots |-> {},
            mode |-> "tools", attempt |-> 0, hint |-> FALSE, vocabulary |-> FALSE, result |-> Nothing]

Init ==
  /\ \E s \in SettingsChoices : llm = [number |-> 1, settings |-> s]
  /\ keys = [e \in Endpoints |-> 1]
  /\ written = FALSE
  /\ parser = Nothing
  /\ failure = Nothing
  /\ net = [object |-> 1, version |-> 0]
  /\ examples = {}
  /\ changes = 0
  /\ req = [r \in Requests |-> Waiting]

(* ------------------------ settings, keys, networks --------------------- *)

Changing == changes < MaxChanges /\ changes' = changes + 1

(* reset_llm: a new registry, and nothing cached of the old one.             *)
ResetLLM(settings) ==
  /\ llm' = [number |-> llm.number + 1, settings |-> settings]
  /\ parser' = Nothing
  /\ failure' = Nothing

(* SetSetting of a select.* or llm.* key, under the lock.                    *)
SetSetting(s) ==
  /\ Changing
  /\ ResetLLM(s)
  /\ UNCHANGED <<keys, written, netState, req>>

(* The key routes write to the slot of the endpoint now in use, and reset    *)
(* afterwards.  Removing a key that is not there changes nothing, and resets.*)
WriteKey(remove) ==
  /\ Changing
  /\ ~written
  /\ keys' = [keys EXCEPT ![Settings.endpoint] =
                IF remove THEN IF @ > 0 THEN -@ ELSE @ ELSE IF @ > 0 THEN @ + 1 ELSE 1 - @]
  /\ written' = TRUE
  /\ UNCHANGED <<llm, parser, failure, netState, req>>

KeyChanged ==
  /\ written
  /\ ResetLLM(Settings)
  /\ written' = FALSE
  /\ UNCHANGED <<keys, netState, changes, req>>

(* _MISSING_KEY_TTL_S runs out.                                              *)
Expire ==
  /\ failure # Nothing /\ failure.fresh
  /\ failure' = [failure EXCEPT !.fresh = FALSE]
  /\ UNCHANGED <<llm, keys, written, parser, netState, changes, req>>

(* Plausible bug: examples outlive their network.                            *)
CloseNetworkKeepingExamples ==
  /\ net # Nothing
  /\ net' = Nothing
  /\ UNCHANGED <<examples, llmState, changes, req>>

(* Its examples go with a network, whose id the next one may get.            *)
CloseNetwork ==
  /\ net # Nothing
  /\ net' = Nothing
  /\ examples' = {}
  /\ UNCHANGED <<llmState, changes, req>>

OpenNetwork ==
  /\ Changing
  /\ net = Nothing
  /\ net' = [object |-> changes + 2, version |-> 0]
  /\ UNCHANGED <<examples, llmState, req>>

EditNetwork ==
  /\ Changing
  /\ net # Nothing
  /\ net' = [net EXCEPT !.version = @ + 1]
  /\ UNCHANGED <<examples, llmState, req>>

(* ------------------------------- parser -------------------------------- *)

Goes(r, pc) == req' = [req EXCEPT ![r].pc = pc]
Becomes(r, new) == req' = [req EXCEPT ![r] = new]
Fails(r) == Becomes(r, [Waiting EXCEPT !.pc = "ended"])

(* Select begins: without a network it fails before the keyring is asked.    *)
Select(r) ==
  /\ req[r].pc = "idle"
  /\ IF net = Nothing THEN Fails(r) ELSE Goes(r, "parser")
  /\ UNCHANGED <<llmState, netState, changes>>

(* _parser_snapshot, the first time under the lock.                          *)
TakeParser(r) ==
  /\ req[r].pc = "parser"
  /\ IF parser # Nothing THEN Becomes(r, [req[r] EXCEPT !.pc = "snapshot", !.made = parser])
     ELSE IF failure # Nothing /\ failure.reg = llm.number /\ failure.fresh THEN Fails(r)
     ELSE Becomes(r, [req[r] EXCEPT !.pc = "build", !.reg = llm])
  /\ UNCHANGED <<llmState, netState, changes>>

(* make_parser reads the key, which may take as long as a user takes to      *)
(* unlock the keyring.                                                       *)
MakeParser(r) ==
  LET s == req[r].reg.settings IN
  /\ req[r].pc = "build"
  /\ IF s.provider = "llm" /\ ~Configured(s.endpoint) THEN Goes(r, "missing")
     ELSE Becomes(r, [req[r] EXCEPT !.pc = "store",
                        !.reg = Nothing, !.made = [reg |-> req[r].reg.number, provider |-> s.provider, endpoint |-> s.endpoint,
                                  key |-> keys[s.endpoint]]])
  /\ UNCHANGED <<llmState, netState, changes>>

MissingKey(r) ==
  /\ req[r].pc = "missing"
  /\ failure' = IF llm = req[r].reg THEN [reg |-> llm.number, fresh |-> TRUE] ELSE failure
  /\ Fails(r)
  /\ UNCHANGED <<llm, keys, written, parser, netState, changes>>

(* Plausible bug: whoever comes first stores what it made.                   *)
MayStoreAnytime(made) == parser = Nothing

(* Nobody reset the registry, or stored a parser, meanwhile.                 *)
MayStore(made) == parser = Nothing /\ made.reg = llm.number

StoreParser(r) ==
  LET kept == IF MayStore(req[r].made) THEN req[r].made ELSE parser
      mine == IF kept # Nothing THEN kept ELSE req[r].made
  IN  /\ req[r].pc = "store"
      /\ parser' = kept
      /\ Becomes(r, [req[r] EXCEPT !.pc = "snapshot", !.made = mine])
      /\ UNCHANGED <<llm, keys, written, failure, netState, changes>>

(* The rest of what a request works with, under the lock; what was made of   *)
(* an older registry is refused.  A pattern parser asks nobody.              *)
Snapshot(r) ==
  LET called == req[r].made.endpoint IN
  /\ req[r].pc = "snapshot"
  /\ IF llm.number # req[r].made.reg \/ net = Nothing THEN Fails(r)
     ELSE IF req[r].made.provider = "stub" THEN Becomes(r, [Waiting EXCEPT !.pc = "answer", !.net = net])
     ELSE Becomes(r, [Waiting EXCEPT
            !.pc = "ask", !.net = net, !.called = called,
            !.shots = IF Settings.fewShot THEN examples ELSE {},
            !.vocabulary = Grounding(Settings, called)])
  /\ UNCHANGED <<llmState, netState, changes>>

(* ------------------------------ provider ------------------------------- *)

Applies(q, result) == [Waiting EXCEPT !.pc = "apply", !.net = q.net, !.result = result]

(* request_tool_call gives up, and Select goes on with what it had: nothing, *)
(* or the miss that the hint was meant to mend.                              *)
Unparsed(q) == Applies(q, IF q.hint THEN "not_found" ELSE "unparsed")

(* Plausible bug: a repair starts over, in tool mode.                        *)
RepairedFromTheStart(q) ==
  IF q.mode = "json" THEN [q EXCEPT !.mode = "tools", !.attempt = 0]
  ELSE IF q.attempt < MaxRepairs THEN [q EXCEPT !.attempt = @ + 1] ELSE Unparsed(q)

Repaired(q) == IF q.attempt < MaxRepairs THEN [q EXCEPT !.attempt = @ + 1] ELSE Unparsed(q)

(* A reply that is not a valid intent goes back with the error.              *)
InvalidReply(r) ==
  /\ req[r].pc = "ask"
  /\ Becomes(r, Repaired(req[r]))
  /\ UNCHANGED <<llmState, netState, changes>>

(* ToolsUnsupported: the same again in JSON mode, for the rest of this call. *)
ToolsUnsupported(r) ==
  /\ req[r].pc = "ask" /\ req[r].mode = "tools"
  /\ Becomes(r, [req[r] EXCEPT !.mode = "json"])
  /\ UNCHANGED <<llmState, netState, changes>>

(* A wrong key, a rate limit, a timeout: never retried.                      *)
ProviderFails(r) ==
  /\ req[r].pc = "ask"
  /\ Fails(r)
  /\ UNCHANGED <<llmState, netState, changes>>

ValidReply(r) ==
  /\ req[r].pc = "ask"
  /\ Becomes(r, [req[r] EXCEPT !.pc = "answer", !.mode = "tools", !.attempt = 0])
  /\ UNCHANGED <<llmState, netState, changes>>

(* resolve_frames, and on a first miss perhaps one more call with a hint; by *)
(* now the settings may be others.                                           *)
Resolve(r, result, closeNames) ==
  LET q     == req[r]
      retry == /\ result = "not_found" /\ ~q.hint /\ q.called # Nothing
               /\ RetryOn(Settings, q.called)
               /\ closeNames
  IN  /\ q.pc = "answer"
      /\ Becomes(r, IF retry THEN [q EXCEPT !.pc = "ask", !.hint = TRUE] ELSE Applies(q, result))
      /\ UNCHANGED <<llmState, netState, changes>>

(* _do_select, under the lock.                                               *)
Apply(r) ==
  LET q == req[r] IN
  /\ q.pc = "apply"
  /\ examples' = IF net = q.net /\ q.result = "resolved" THEN examples \cup {q.net.object} ELSE examples
  /\ Becomes(r, [Waiting EXCEPT !.pc = "ended"])
  /\ UNCHANGED <<llmState, net, changes>>

Thread(r) ==
  \/ Select(r) \/ TakeParser(r) \/ MakeParser(r) \/ MissingKey(r) \/ StoreParser(r) \/ Snapshot(r)
  \/ InvalidReply(r) \/ ToolsUnsupported(r) \/ ProviderFails(r) \/ ValidReply(r)
  \/ \E result \in {"resolved", "not_found"}, close \in BOOLEAN : Resolve(r, result, close)
  \/ Apply(r)

Next ==
  \/ \E r \in Requests : Thread(r)
  \/ \E s \in SettingsChoices : SetSetting(s)
  \/ \E remove \in BOOLEAN : WriteKey(remove)
  \/ KeyChanged \/ Expire \/ CloseNetwork \/ OpenNetwork \/ EditNetwork

Spec == Init /\ [][Next]_vars

(* Threads run on, and a provider's call ends, if by its timeout.            *)
FairSpec == Spec /\ \A r \in Requests : WF_vars(Thread(r))

(* ------------------------------ properties ----------------------------- *)

OrNothing(S) == S \cup {Nothing}

Answers == {"resolved", "not_found", "unparsed"}

Selects ==
  [pc : {"idle", "parser", "build", "missing", "store", "snapshot", "ask", "answer", "apply", "ended"},
   reg : OrNothing(Registries), made : OrNothing(Parsers), called : OrNothing(Endpoints), net : OrNothing(Networks),
   shots : SUBSET Nat, mode : {"tools", "json"}, attempt : Nat, hint : BOOLEAN, vocabulary : BOOLEAN,
   result : OrNothing(Answers)]

(* What a request holds at the step it is at.                                *)
Holding(q) ==
  /\ q.pc \in {"build", "missing"} => q.reg # Nothing
  /\ q.pc \in {"store", "snapshot"} => q.made # Nothing
  /\ q.pc \in {"ask", "answer", "apply"} => q.net # Nothing

(* Types of the state and of the requests.                                   *)
TypeOK ==
  /\ llm \in Registries /\ keys \in [Endpoints -> Int] /\ written \in BOOLEAN
  /\ parser \in OrNothing(Parsers) /\ failure \in OrNothing(Failures)
  /\ net \in OrNothing(Networks) /\ examples \in SUBSET Nat /\ changes \in Nat
  /\ req \in [Requests -> Selects]
  /\ \A r \in Requests : Holding(req[r])

Uninvited(mode, endpoint) == mode # "on" /\ endpoint \notin LocalEndpoints

(* Street names of a network leave the machine only if the user said "on":   *)
(* for the vocabulary when the request took its snapshot, for the close      *)
(* names of a hint when the miss was known.  Neither a change of settings at *)
(* any moment nor a parser of other settings may open the way, since "auto"  *)
(* means local endpoints only (config.py:201).                               *)
NothingLeavesUninvited ==
  [][\A r \in Requests :
       /\ req'[r].vocabulary /\ ~req[r].vocabulary => ~Uninvited(Settings.grounding, req'[r].called)
       /\ req'[r].hint /\ ~req[r].hint => ~Uninvited(Settings.retry, req'[r].called)]_vars

(* What is cached is of the session's registry, and holds the key that the   *)
(* keyring holds, or says that it holds none, but for the moment between a   *)
(* key's writing and the reset.                                              *)
CachedParserIsCurrent ==
  /\ parser # Nothing =>
       /\ parser.reg = llm.number
       /\ written \/ parser.provider = "stub" \/ parser.key = keys[parser.endpoint]
  /\ failure # Nothing => failure.reg = llm.number /\ (written \/ ~Configured(Settings.endpoint))

(* The examples a request sends, and those kept for later, were made on the  *)
(* network they stand for, not on an earlier one of its id.                  *)
ExamplesAreOfTheirNetwork ==
  /\ examples \subseteq (IF net = Nothing THEN {} ELSE {net.object})
  /\ \A r \in Requests : req[r].shots \subseteq (IF req[r].net = Nothing THEN {} ELSE {req[r].net.object})

(* Whatever providers answer, a Select comes to an end.                      *)
EverySelectEnds == \A r \in Requests : req[r].pc = "parser" ~> req[r].pc = "ended"
=============================================================================
