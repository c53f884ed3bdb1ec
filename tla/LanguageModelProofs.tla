------------------------ MODULE LanguageModelProofs ------------------------
(***************************************************************************)
(* That no parser of an old setting or key is kept, that examples go with  *)
(* their network and that street names stay on the machine, for any number *)
(* of requests, endpoints, settings and repairs.                           *)
(***************************************************************************)
EXTENDS LanguageModel, TLAPS

(* A request that becomes another well-typed one leaves all well typed.      *)
LEMMA RequestTyped ==
  ASSUME TypeOK, NEW r \in Requests, NEW q \in Selects, Holding(q), Becomes(r, q)
  PROVE  /\ req' \in [Requests -> Selects]
         /\ \A s \in Requests : Holding(req'[s])
         /\ req'[r] = q
         /\ \A s \in Requests \ {r} : req'[s] = req[s]
BY DEF TypeOK, Becomes, Holding

(* A request that waits, or ended, holds nothing.                            *)
LEMMA WaitingTyped ==
  /\ Waiting \in Selects
  /\ [Waiting EXCEPT !.pc = "ended"] \in Selects
  /\ Holding([Waiting EXCEPT !.pc = "ended"])
BY DEF Waiting, Selects, OrNothing, Holding

(* The initial states are well typed.                                        *)
LEMMA InitTyped == Init => TypeOK
<1> SUFFICES ASSUME Init PROVE TypeOK
  OBVIOUS
<1>1. llm \in Registries /\ net \in Networks /\ keys \in [Endpoints -> Int]
  BY DEF Init, Registries, Networks
<1>2. req \in [Requests -> Selects] /\ \A r \in Requests : req[r].pc = "idle"
  BY WaitingTyped DEF Init, Waiting
<1> QED
  BY <1>1, <1>2 DEF Init, TypeOK, OrNothing, Holding

(* A request that gives up.                                                  *)
LEMMA FailsTyped ==
  ASSUME TypeOK, NEW r \in Requests, Fails(r)
  PROVE  req' \in [Requests -> Selects] /\ \A s \in Requests : Holding(req'[s])
BY WaitingTyped, RequestTyped DEF Fails

(* A request that goes on to another step with what it holds.                *)
LEMMA GoesTyped ==
  ASSUME TypeOK, NEW r \in Requests, NEW pc \in {"parser", "missing"}, Goes(r, pc),
         pc = "missing" => req[r].reg # Nothing
  PROVE  req' \in [Requests -> Selects] /\ \A s \in Requests : Holding(req'[s])
<1>1. req[r] \in Selects
  BY DEF TypeOK
<1>2. [req[r] EXCEPT !.pc = pc] \in Selects /\ Holding([req[r] EXCEPT !.pc = pc])
  BY <1>1 DEF Selects, Holding
<1>3. Becomes(r, [req[r] EXCEPT !.pc = pc])
  BY <1>1 DEF Goes, Becomes
<1> QED
  BY <1>2, <1>3, RequestTyped

(* The state and the requests keep their types in every step of a thread.    *)
LEMMA ThreadTyped ==
  ASSUME TypeOK, NEW r \in Requests, Thread(r)
  PROVE  TypeOK'
<1> DEFINE Typed == req' \in [Requests -> Selects] /\ \A s \in Requests : Holding(req'[s])
<1>0. req[r] \in Selects /\ Holding(req[r])
  BY DEF TypeOK, Holding
<1>1. CASE Select(r)
  <2>1. Typed
    BY <1>1, FailsTyped, GoesTyped DEF Select
  <2> QED
    BY <1>1, <2>1 DEF Select, TypeOK, Holding, llmState, netState
<1>2. CASE TakeParser(r)
  <2>1. [req[r] EXCEPT !.pc = "build", !.reg = llm] \in Selects /\ Holding([req[r] EXCEPT !.pc = "build", !.reg = llm])
    BY <1>0, NothingAssumption DEF TypeOK, Selects, Holding, OrNothing
  <2>2. parser # Nothing => /\ [req[r] EXCEPT !.pc = "snapshot", !.made = parser] \in Selects
                            /\ Holding([req[r] EXCEPT !.pc = "snapshot", !.made = parser])
    BY <1>0 DEF TypeOK, Selects, Holding
  <2>3. Typed
    BY <1>2, <2>1, <2>2, FailsTyped, RequestTyped DEF TakeParser
  <2> QED
    BY <1>2, <2>3 DEF TakeParser, TypeOK, Holding, llmState, netState
<1>3. CASE MakeParser(r)
  <2> DEFINE s == req[r].reg.settings
             p == [reg |-> req[r].reg.number, provider |-> s.provider, endpoint |-> s.endpoint, key |-> keys[s.endpoint]]
  <2>1. req[r].reg \in Registries /\ req[r].reg # Nothing
    BY <1>0, <1>3 DEF MakeParser, Selects, OrNothing, Holding
  <2>2. p \in Parsers
    BY <2>1, EndpointsAssumption DEF Registries, Parsers, TypeOK
  <2>3. /\ [req[r] EXCEPT !.pc = "store", !.reg = Nothing, !.made = p] \in Selects
        /\ Holding([req[r] EXCEPT !.pc = "store", !.reg = Nothing, !.made = p])
    BY <1>0, <2>2, NothingAssumption DEF Selects, Holding, OrNothing
  <2>4. Typed
    BY <1>3, <2>1, <2>3, GoesTyped, RequestTyped DEF MakeParser
  <2> QED
    BY <1>3, <2>4 DEF MakeParser, TypeOK, Holding, llmState, netState
<1>4. CASE MissingKey(r)
  <2>1. Typed
    BY <1>4, FailsTyped DEF MissingKey
  <2>2. failure' \in OrNothing(Failures)
    BY <1>4 DEF MissingKey, TypeOK, OrNothing, Failures, Registries
  <2> QED
    BY <1>4, <2>1, <2>2 DEF MissingKey, TypeOK, Holding, netState
<1>5. CASE StoreParser(r)
  <2>1. req[r].made \in Parsers
    BY <1>0, <1>5 DEF StoreParser, Selects, OrNothing, Holding
  <2> DEFINE kept == IF MayStore(req[r].made) THEN req[r].made ELSE parser
             mine == IF kept # Nothing THEN kept ELSE req[r].made
  <2>2. kept \in OrNothing(Parsers) /\ mine \in Parsers
    BY <2>1 DEF TypeOK, OrNothing
  <2>3. /\ [req[r] EXCEPT !.pc = "snapshot", !.made = mine] \in Selects
        /\ Holding([req[r] EXCEPT !.pc = "snapshot", !.made = mine])
    <3> HIDE DEF mine
    <3> QED
      BY <1>0, <2>2, NothingAssumption DEF Selects, Holding, OrNothing
  <2>4. Typed
    BY <1>5, <2>3, RequestTyped DEF StoreParser
  <2>5. parser' \in OrNothing(Parsers)
    BY <1>5, <2>2 DEF StoreParser
  <2> QED
    BY <1>5, <2>4, <2>5 DEF StoreParser, TypeOK, Holding, netState
<1>6. CASE Snapshot(r)
  <2> DEFINE a == [Waiting EXCEPT !.pc = "answer", !.net = net]
             b == [Waiting EXCEPT !.pc = "ask", !.net = net, !.called = req[r].made.endpoint,
                     !.shots = IF Settings.fewShot THEN examples ELSE {},
                     !.vocabulary = Grounding(Settings, req[r].made.endpoint)]
  <2>1. req[r].made \in Parsers /\ req[r].made.endpoint \in Endpoints
    BY <1>0, <1>6 DEF Snapshot, Selects, OrNothing, Holding, Parsers
  <2>2. Grounding(Settings, req[r].made.endpoint) \in BOOLEAN
    BY DEF Grounding, QualityOn
  <2>3. net # Nothing => a \in Selects /\ Holding(a)
    BY WaitingTyped DEF TypeOK, Waiting, Selects, Holding, OrNothing
  <2>4. net # Nothing => b \in Selects /\ Holding(b)
    <3>1. (IF Settings.fewShot THEN examples ELSE {}) \in SUBSET Nat
      BY DEF TypeOK
    <3> QED
      BY <2>1, <2>2, <3>1 DEF TypeOK, Waiting, Selects, Holding, OrNothing
  <2>5. Typed
    <3> HIDE DEF a, b
    <3>1. Fails(r) \/ (net # Nothing /\ (Becomes(r, a) \/ Becomes(r, b)))
      BY <1>6 DEF Snapshot, a, b
    <3> QED
      BY <3>1, <2>3, <2>4, FailsTyped, RequestTyped
  <2> QED
    BY <1>6, <2>5 DEF Snapshot, TypeOK, Holding, llmState, netState
<1>7. ASSUME NEW result \in Answers, req[r].pc \in {"ask", "answer"}
      PROVE  Applies(req[r], result) \in Selects /\ Holding(Applies(req[r], result))
  BY <1>0, <1>7 DEF Applies, Waiting, Selects, Holding, OrNothing, Answers
<1>8. CASE InvalidReply(r)
  <2>1. Repaired(req[r]) \in Selects /\ Holding(Repaired(req[r]))
    <3>1. [req[r] EXCEPT !.attempt = @ + 1] \in Selects /\ Holding([req[r] EXCEPT !.attempt = @ + 1])
      BY <1>0 DEF Selects, Holding
    <3> QED
      BY <1>7, <1>8, <3>1 DEF Repaired, Unparsed, InvalidReply, Answers
  <2>2. Typed
    BY <1>8, <2>1, RequestTyped DEF InvalidReply
  <2> QED
    BY <1>8, <2>2 DEF InvalidReply, TypeOK, Holding, llmState, netState
<1>9. CASE ToolsUnsupported(r)
  <2>1. [req[r] EXCEPT !.mode = "json"] \in Selects /\ Holding([req[r] EXCEPT !.mode = "json"])
    BY <1>0 DEF Selects, Holding
  <2>2. Typed
    BY <1>9, <2>1, RequestTyped DEF ToolsUnsupported
  <2> QED
    BY <1>9, <2>2 DEF ToolsUnsupported, TypeOK, Holding, llmState, netState
<1>10. CASE ProviderFails(r)
  <2>1. Typed
    BY <1>10, FailsTyped DEF ProviderFails
  <2> QED
    BY <1>10, <2>1 DEF ProviderFails, TypeOK, Holding, llmState, netState
<1>11. CASE ValidReply(r)
  <2> DEFINE q == [req[r] EXCEPT !.pc = "answer", !.mode = "tools", !.attempt = 0]
  <2>1. q \in Selects /\ Holding(q)
    BY <1>0, <1>11 DEF Selects, Holding, ValidReply
  <2>2. Typed
    BY <1>11, <2>1, RequestTyped DEF ValidReply
  <2> QED
    BY <1>11, <2>2 DEF ValidReply, TypeOK, Holding, llmState, netState
<1>12. CASE \E result \in {"resolved", "not_found"}, close \in BOOLEAN : Resolve(r, result, close)
  <2>1. PICK result \in {"resolved", "not_found"}, close \in BOOLEAN : Resolve(r, result, close)
    BY <1>12
  <2>2. /\ [req[r] EXCEPT !.pc = "ask", !.hint = TRUE] \in Selects
        /\ req[r].pc = "answer" => Holding([req[r] EXCEPT !.pc = "ask", !.hint = TRUE])
    BY <1>0 DEF Selects, Holding
  <2>3. Typed
    BY <2>1, <2>2, <1>7, RequestTyped DEF Resolve, Answers
  <2> QED
    BY <2>1, <2>3 DEF Resolve, TypeOK, Holding, llmState, netState
<1>13. CASE Apply(r)
  <2>1. Typed
    BY <1>13, WaitingTyped, RequestTyped DEF Apply
  <2>2. req[r].net \in Networks
    BY <1>0, <1>13 DEF Apply, Selects, Holding, OrNothing
  <2>3. examples' \in SUBSET Nat
    BY <1>13, <2>2 DEF Apply, TypeOK, Networks
  <2> QED
    BY <1>13, <2>1, <2>3 DEF Apply, TypeOK, Holding, llmState
<1> QED
  BY <1>1, <1>2, <1>3, <1>4, <1>5, <1>6, <1>8, <1>9, <1>10, <1>11, <1>12, <1>13 DEF Thread

(* Types, for any number of requests.                                        *)
THEOREM TypeCorrect == Spec => []TypeOK
<1>1. TypeOK /\ [Next]_vars => TypeOK'
  <2> SUFFICES ASSUME TypeOK, [Next]_vars PROVE TypeOK'
    OBVIOUS
  <2>1. CASE \E r \in Requests : Thread(r)
    BY <2>1, ThreadTyped
  <2>2. ASSUME NEW s \in SettingsChoices, SetSetting(s) PROVE TypeOK'
    BY <2>2 DEF SetSetting, Changing, ResetLLM, TypeOK, Registries, OrNothing, netState
  <2>3. ASSUME NEW remove \in BOOLEAN, WriteKey(remove) PROVE TypeOK'
    <3> DEFINE k == keys[Settings.endpoint]
               next == IF remove THEN IF k > 0 THEN -k ELSE k ELSE IF k > 0 THEN k + 1 ELSE 1 - k
    <3>1. keys' \in [Endpoints -> Int]
      <4>1. Settings.endpoint \in Endpoints /\ k \in Int
        BY EndpointsAssumption DEF Settings, TypeOK, Registries
      <4>2. next \in Int
        BY <4>1
      <4>3. keys' = [keys EXCEPT ![Settings.endpoint] = next]
        BY <2>3 DEF WriteKey
      <4> QED
        BY <4>2, <4>3 DEF TypeOK
    <3> QED
      BY <2>3, <3>1 DEF WriteKey, Changing, TypeOK, netState
  <2>4. CASE KeyChanged
    <3>1. llm' \in Registries
      BY <2>4 DEF KeyChanged, ResetLLM, Settings, TypeOK, Registries
    <3> QED
      BY <2>4, <3>1 DEF KeyChanged, ResetLLM, TypeOK, OrNothing, netState
  <2>5. CASE Expire
    BY <2>5 DEF Expire, TypeOK, Failures, OrNothing, netState
  <2>6. CASE CloseNetwork
    BY <2>6 DEF CloseNetwork, TypeOK, OrNothing, llmState
  <2>7. CASE OpenNetwork
    <3>1. net' \in Networks
      BY <2>7 DEF OpenNetwork, TypeOK, Networks
    <3> QED
      BY <2>7, <3>1 DEF OpenNetwork, Changing, TypeOK, OrNothing, llmState
  <2>8. CASE EditNetwork
    <3>1. net' \in Networks
      BY <2>8 DEF EditNetwork, TypeOK, Networks, OrNothing
    <3> QED
      BY <2>8, <3>1 DEF EditNetwork, Changing, TypeOK, OrNothing, llmState
  <2>9. CASE UNCHANGED vars
    BY <2>9 DEF TypeOK, vars
  <2> QED
    BY <2>1, <2>2, <2>3, <2>4, <2>5, <2>6, <2>7, <2>8, <2>9 DEF Next
<1> QED
  BY InitTyped, <1>1, PTL DEF Spec

-----------------------------------------------------------------------------
(* What a request brings back to the cache.                                  *)

(* A parser holds the key of its endpoint, or the keyring is ahead of the    *)
(* reset.                                                                    *)
HasKey(p) == written \/ p.provider = "stub" \/ p.key = keys[p.endpoint]

(* A request looks at a registry of the past or at the session's own; what   *)
(* it made of the session's own holds the key, and where it found no key     *)
(* there is none.                                                            *)
RequestIsCurrent(q) ==
  /\ q.reg # Nothing => q.reg.number <= llm.number /\ (q.reg.number = llm.number => q.reg = llm)
  /\ q.made # Nothing => q.made.reg <= llm.number
  /\ q.pc = "store" /\ q.made.reg = llm.number => HasKey(q.made)
  /\ q.pc = "missing" /\ q.reg = llm => written \/ ~Configured(llm.settings.endpoint)

RequestsAreCurrent == \A r \in Requests : RequestIsCurrent(req[r])

CurrentInv == TypeOK /\ CachedParserIsCurrent /\ RequestsAreCurrent

(* A step of a request that changes neither settings nor keys keeps the      *)
(* others current.                                                           *)
LEMMA OthersStayCurrent ==
  ASSUME CurrentInv, NEW r \in Requests, NEW q \in Selects, Becomes(r, q), RequestIsCurrent(q),
         UNCHANGED <<llm, keys, written>>
  PROVE  RequestsAreCurrent'
<1> SUFFICES ASSUME NEW s \in Requests PROVE RequestIsCurrent(req[s])'
  BY DEF RequestsAreCurrent
<1>1. req'[s] = q \/ req'[s] = req[s]
  BY DEF Becomes, CurrentInv, TypeOK
<1>2. RequestIsCurrent(req'[s])
  BY <1>1 DEF CurrentInv, RequestsAreCurrent
<1> QED
  BY <1>2 DEF RequestIsCurrent, HasKey, Configured

(* A request that holds no registry and no parser is current.                *)
LEMMA WaitingIsCurrent ==
  ASSUME NEW q, q.reg = Nothing, q.made = Nothing, q.pc \notin {"store", "missing"}
  PROVE  RequestIsCurrent(q)
BY DEF RequestIsCurrent

(* Nor does one that goes on with the registry and the parser it had.        *)
LEMMA GoingOnIsCurrent ==
  ASSUME NEW p, RequestIsCurrent(p), NEW q, q.reg = p.reg, q.made = p.made, q.pc \notin {"store", "missing"}
  PROVE  RequestIsCurrent(q)
BY DEF RequestIsCurrent

(* A step of a request keeps the cache and all requests current.             *)
LEMMA ThreadStaysCurrent ==
  ASSUME CurrentInv, TypeOK', NEW r \in Requests, Thread(r)
  PROVE  CachedParserIsCurrent' /\ RequestsAreCurrent'
<1>0. /\ req[r] \in Selects /\ Holding(req[r]) /\ RequestIsCurrent(req[r])
      /\ req'[r] \in Selects /\ TypeOK
  BY DEF CurrentInv, TypeOK, Holding, RequestsAreCurrent
<1> DEFINE Waits == [Waiting EXCEPT !.pc = "ended"]
<1>1. Waits \in Selects /\ RequestIsCurrent(Waits)
  BY WaitingTyped, WaitingIsCurrent DEF Waiting
<1>2. ASSUME UNCHANGED llmState, NEW q \in Selects, Becomes(r, q), RequestIsCurrent(q)
      PROVE  CachedParserIsCurrent' /\ RequestsAreCurrent'
  <2>1. CachedParserIsCurrent'
    BY <1>2 DEF CurrentInv, CachedParserIsCurrent, llmState, Settings, Configured
  <2> QED
    BY <1>2, <2>1, OthersStayCurrent DEF llmState
<1>3. ASSUME UNCHANGED llmState, Fails(r)
      PROVE  CachedParserIsCurrent' /\ RequestsAreCurrent'
  BY <1>1, <1>2, <1>3 DEF Fails
<1>4. ASSUME UNCHANGED llmState, NEW q, q.pc \notin {"store", "missing"}, q.reg = req[r].reg, q.made = req[r].made, Becomes(r, q)
      PROVE  CachedParserIsCurrent' /\ RequestsAreCurrent'
  <2>1. RequestIsCurrent(q)
    BY <1>0, <1>4, GoingOnIsCurrent
  <2>2. q \in Selects
    BY <1>0, <1>4 DEF Becomes, TypeOK
  <2> QED
    BY <1>2, <1>4, <2>1, <2>2
<1>5. ASSUME UNCHANGED llmState, NEW q, q.pc \notin {"store", "missing"}, q.reg = Nothing, q.made = Nothing, Becomes(r, q)
      PROVE  CachedParserIsCurrent' /\ RequestsAreCurrent'
  <2>1. RequestIsCurrent(q)
    BY <1>5, WaitingIsCurrent
  <2>2. q \in Selects
    BY <1>0, <1>5 DEF Becomes, TypeOK
  <2> QED
    BY <1>2, <1>5, <2>1, <2>2
<1>6. CASE Select(r)
  <2>1. CASE Goes(r, "parser")
    <3> DEFINE q == [req[r] EXCEPT !.pc = "parser"]
    <3>1. Becomes(r, q) /\ q.reg = req[r].reg /\ q.made = req[r].made /\ q.pc = "parser"
      BY <1>0, <2>1 DEF Goes, Becomes, TypeOK, Selects
    <3> HIDE DEF q
    <3> QED
      BY <1>4, <1>6, <3>1 DEF Select
  <2> QED
    BY <1>3, <1>6, <2>1 DEF Select
<1>7. CASE TakeParser(r)
  <2> DEFINE a == [req[r] EXCEPT !.pc = "snapshot", !.made = parser]
             b == [req[r] EXCEPT !.pc = "build", !.reg = llm]
  <2>1. CASE parser # Nothing /\ Becomes(r, a)
    <3>1. a.pc = "snapshot" /\ a.reg = req[r].reg /\ a.made = parser
      BY <1>0 DEF Selects
    <3>2. a \in Selects
      BY <1>0, <2>1 DEF Becomes, TypeOK
    <3>3. parser.reg = llm.number /\ llm.number \in Nat
      BY <2>1 DEF CurrentInv, CachedParserIsCurrent, TypeOK, Registries
    <3>4. RequestIsCurrent(a)
      <4> HIDE DEF a
      <4> QED
        BY <1>0, <3>1, <3>3 DEF RequestIsCurrent
    <3> QED
      BY <1>2, <1>7, <2>1, <3>2, <3>4 DEF TakeParser
  <2>2. CASE Becomes(r, b)
    <3>1. b.pc = "build" /\ b.reg = llm /\ b.made = req[r].made
      BY <1>0 DEF Selects
    <3>2. b \in Selects
      BY <1>0, <2>2 DEF Becomes, TypeOK
    <3>3. RequestIsCurrent(b)
      <4>1. llm.number \in Nat
        BY DEF CurrentInv, TypeOK, Registries
      <4> HIDE DEF b
      <4> QED
        BY <1>0, <3>1, <4>1 DEF RequestIsCurrent
    <3> QED
      BY <1>2, <1>7, <2>2, <3>2, <3>3 DEF TakeParser
  <2> QED
    BY <1>3, <1>7, <2>1, <2>2 DEF TakeParser
<1>8. CASE MakeParser(r)
  <2> DEFINE s == req[r].reg.settings
             p == [reg |-> req[r].reg.number, provider |-> s.provider, endpoint |-> s.endpoint, key |-> keys[s.endpoint]]
             a == [req[r] EXCEPT !.pc = "missing"]
             b == [req[r] EXCEPT !.pc = "store", !.reg = Nothing, !.made = p]
  <2>1. req[r].reg # Nothing
    BY <1>0, <1>8 DEF MakeParser, Holding
  <2>2. CASE ~Configured(s.endpoint) /\ Goes(r, "missing")
    <3>1. Becomes(r, a) /\ a.pc = "missing" /\ a.reg = req[r].reg /\ a.made = req[r].made
      BY <1>0, <2>2 DEF Goes, Becomes, Selects
    <3>2. a \in Selects
      BY <1>0, <3>1 DEF Becomes, TypeOK
    <3>3. RequestIsCurrent(a)
      <4> HIDE DEF a
      <4> QED
        BY <1>0, <2>2, <3>1 DEF RequestIsCurrent
    <3> QED
      BY <1>2, <1>8, <3>1, <3>2, <3>3 DEF MakeParser
  <2>3. CASE Becomes(r, b)
    <3>1. b.pc = "store" /\ b.reg = Nothing /\ b.made = p
      BY <1>0 DEF Selects
    <3>2. b \in Selects
      BY <1>0, <2>3 DEF Becomes, TypeOK
    <3>3. HasKey(p) /\ p.reg = req[r].reg.number
      BY DEF HasKey
    <3>4. RequestIsCurrent(b)
      <4> HIDE DEF b, p
      <4> QED
        BY <1>0, <2>1, <3>1, <3>3 DEF RequestIsCurrent
    <3> QED
      BY <1>2, <1>8, <2>3, <3>2, <3>4 DEF MakeParser
  <2> QED
    BY <1>8, <2>2, <2>3 DEF MakeParser
<1>9. CASE MissingKey(r)
  <2>1. RequestsAreCurrent'
    BY <1>1, <1>9, OthersStayCurrent DEF MissingKey, Fails
  <2>2. llm = req[r].reg => written \/ ~Configured(llm.settings.endpoint)
    BY <1>0, <1>9 DEF MissingKey, RequestIsCurrent
  <2>3. CachedParserIsCurrent'
    BY <1>9, <2>2 DEF MissingKey, CurrentInv, CachedParserIsCurrent, Settings, Configured
  <2> QED
    BY <2>1, <2>3
<1>10. CASE StoreParser(r)
  <2> DEFINE kept == IF MayStore(req[r].made) THEN req[r].made ELSE parser
             mine == IF kept # Nothing THEN kept ELSE req[r].made
             a == [req[r] EXCEPT !.pc = "snapshot", !.made = mine]
  <2>1. req[r].made # Nothing /\ (req[r].made.reg = llm.number => HasKey(req[r].made))
    BY <1>0, <1>10 DEF StoreParser, Holding, RequestIsCurrent
  <2>2. kept # Nothing => kept.reg = llm.number /\ HasKey(kept)
    BY <2>1 DEF MayStore, CurrentInv, CachedParserIsCurrent, HasKey
  <2>3. CachedParserIsCurrent'
    <3> HIDE DEF kept
    <3>1. parser' = kept
      BY <1>10 DEF StoreParser, kept
    <3> QED
      BY <1>10, <2>2, <3>1 DEF StoreParser, CurrentInv, CachedParserIsCurrent, HasKey, Settings, Configured
  <2>4. a.pc = "snapshot" /\ a.reg = req[r].reg /\ a.made = mine /\ Becomes(r, a)
    BY <1>0, <1>10 DEF Selects, StoreParser
  <2>5. a \in Selects
    BY <1>0, <2>4 DEF Becomes, TypeOK
  <2>6. mine.reg <= llm.number
    <3>1. llm.number \in Nat
      BY DEF CurrentInv, TypeOK, Registries
    <3> HIDE DEF kept
    <3> QED
      BY <1>0, <2>1, <2>2, <3>1 DEF RequestIsCurrent
  <2>7. RequestIsCurrent(a)
    <3> HIDE DEF a, mine
    <3> QED
      BY <1>0, <2>4, <2>6 DEF RequestIsCurrent
  <2> QED
    BY <1>10, <2>3, <2>4, <2>5, <2>7, OthersStayCurrent DEF StoreParser
<1>11. CASE Snapshot(r)
  <2> DEFINE a == [Waiting EXCEPT !.pc = "answer", !.net = net]
             b == [Waiting EXCEPT !.pc = "ask", !.net = net, !.called = req[r].made.endpoint,
                     !.shots = IF Settings.fewShot THEN examples ELSE {},
                     !.vocabulary = Grounding(Settings, req[r].made.endpoint)]
  <2>1. a.pc = "answer" /\ a.reg = Nothing /\ a.made = Nothing
    BY DEF Waiting
  <2>2. b.pc = "ask" /\ b.reg = Nothing /\ b.made = Nothing
    BY DEF Waiting
  <2>3. Fails(r) \/ Becomes(r, a) \/ Becomes(r, b)
    BY <1>11 DEF Snapshot
  <2> HIDE DEF a, b
  <2> QED
    BY <1>3, <1>5, <1>11, <2>1, <2>2, <2>3 DEF Snapshot
<1>12. ASSUME NEW q, q = Applies(req[r], "resolved") \/ q = Applies(req[r], "not_found") \/ q = Applies(req[r], "unparsed")
       PROVE  q.pc = "apply" /\ q.reg = Nothing /\ q.made = Nothing
  BY <1>12 DEF Applies, Waiting
<1>13. CASE InvalidReply(r)
  <2>1. CASE Becomes(r, [req[r] EXCEPT !.attempt = @ + 1])
    BY <1>0, <1>4, <1>13, <2>1 DEF InvalidReply, Selects
  <2>2. CASE Becomes(r, Unparsed(req[r]))
    BY <1>5, <1>12, <1>13, <2>2 DEF InvalidReply, Unparsed
  <2> QED
    BY <1>13, <2>1, <2>2 DEF InvalidReply, Repaired
<1>14. CASE ToolsUnsupported(r)
  BY <1>0, <1>4, <1>14 DEF ToolsUnsupported, Selects
<1>15. CASE ProviderFails(r)
  BY <1>3, <1>15 DEF ProviderFails
<1>16. CASE ValidReply(r)
  BY <1>0, <1>4, <1>16 DEF ValidReply, Selects
<1>17. CASE \E result \in {"resolved", "not_found"}, close \in BOOLEAN : Resolve(r, result, close)
  <2>1. PICK result \in {"resolved", "not_found"}, close \in BOOLEAN : Resolve(r, result, close)
    BY <1>17
  <2>2. CASE Becomes(r, [req[r] EXCEPT !.pc = "ask", !.hint = TRUE])
    BY <1>0, <1>4, <2>1, <2>2 DEF Resolve, Selects
  <2>3. CASE Becomes(r, Applies(req[r], result))
    BY <1>5, <1>12, <2>1, <2>3 DEF Resolve
  <2> QED
    BY <2>1, <2>2, <2>3 DEF Resolve
<1>18. CASE Apply(r)
  BY <1>1, <1>2, <1>18 DEF Apply
<1> QED
  BY <1>6, <1>7, <1>8, <1>9, <1>10, <1>11, <1>13, <1>14, <1>15, <1>16, <1>17, <1>18 DEF Thread

(* A reset starts over with nothing cached, under a number no request holds. *)
LEMMA ResetStaysCurrent ==
  ASSUME CurrentInv, TypeOK', NEW s \in SettingsChoices, ResetLLM(s), UNCHANGED <<keys, req>>
  PROVE  CachedParserIsCurrent' /\ RequestsAreCurrent'
<1>1. /\ llm.number \in Nat /\ llm'.number = llm.number + 1 /\ \A r \in Requests : req[r] \in Selects
      /\ \A r \in Requests : req[r].reg \in OrNothing(Registries) /\ req[r].made \in OrNothing(Parsers)
  BY DEF CurrentInv, TypeOK, Registries, ResetLLM, Selects
<1>2. CachedParserIsCurrent'
  BY DEF ResetLLM, CachedParserIsCurrent
<1>3. ASSUME NEW r \in Requests PROVE RequestIsCurrent(req[r])'
  <2>1. /\ req[r].reg # Nothing => req[r].reg.number \in Nat /\ req[r].reg.number <= llm.number
        /\ req[r].made # Nothing => req[r].made.reg \in Nat /\ req[r].made.reg <= llm.number
        /\ req[r].pc = "missing" => req[r].reg # Nothing
        /\ req[r].pc = "store" => req[r].made # Nothing
    BY <1>1, <1>3 DEF OrNothing, Registries, Parsers, CurrentInv, TypeOK, RequestsAreCurrent, RequestIsCurrent, Holding
  <2> QED
    BY <1>1, <2>1 DEF RequestIsCurrent
<1> QED
  BY <1>2, <1>3 DEF RequestsAreCurrent

(* CachedParserIsCurrent (session.py, _parser_snapshot and reset_llm): no    *)
(* parser of old settings or an old key is kept, and no key that is there is *)
(* said to be missing.                                                       *)
THEOREM CachedParsersAreCurrent == Spec => []CachedParserIsCurrent
<1>1. Init => CurrentInv
  BY InitTyped DEF Init, CurrentInv, CachedParserIsCurrent, RequestsAreCurrent, RequestIsCurrent, Waiting
<1>2. CurrentInv /\ TypeOK' /\ [Next]_vars => CurrentInv'
  <2> SUFFICES ASSUME CurrentInv, TypeOK', [Next]_vars
               PROVE  CachedParserIsCurrent' /\ RequestsAreCurrent'
    BY DEF CurrentInv
  <2>1. CASE \E r \in Requests : Thread(r)
    BY <2>1, ThreadStaysCurrent
  <2>2. ASSUME NEW s \in SettingsChoices, SetSetting(s)
        PROVE  CachedParserIsCurrent' /\ RequestsAreCurrent'
    BY <2>2, ResetStaysCurrent DEF SetSetting
  <2>3. CASE KeyChanged
    BY <2>3, ResetStaysCurrent DEF KeyChanged, Settings, CurrentInv, TypeOK, Registries
  <2>4. ASSUME NEW remove \in BOOLEAN, WriteKey(remove)
        PROVE  CachedParserIsCurrent' /\ RequestsAreCurrent'
    <3>1. written' /\ UNCHANGED <<llm, parser, failure, req>>
      BY <2>4 DEF WriteKey
    <3> QED
      BY <3>1 DEF CurrentInv, CachedParserIsCurrent, RequestsAreCurrent, RequestIsCurrent, HasKey
  <2>5. CASE Expire
    <3>1. failure'.reg = failure.reg
      BY <2>5 DEF Expire, CurrentInv, TypeOK, OrNothing, Failures
    <3> QED
      BY <2>5, <3>1 DEF Expire, CurrentInv, CachedParserIsCurrent, RequestsAreCurrent, RequestIsCurrent,
                       HasKey, Settings, Configured
  <2>6. CASE UNCHANGED <<llm, keys, written, parser, failure, req>>
    BY <2>6 DEF CurrentInv, CachedParserIsCurrent, RequestsAreCurrent, RequestIsCurrent, HasKey, Settings, Configured
  <2> QED
    BY <2>1, <2>2, <2>3, <2>4, <2>5, <2>6
       DEF Next, CloseNetwork, OpenNetwork, EditNetwork, llmState, vars
<1> QED
  BY <1>1, <1>2, TypeCorrect, PTL DEF Spec, CurrentInv

-----------------------------------------------------------------------------
(* Examples, and what leaves the machine.                                    *)

ExamplesInv == TypeOK /\ ExamplesAreOfTheirNetwork

(* ExamplesAreOfTheirNetwork (session.py, CloseNetwork and _do_select):      *)
(* examples go with the network they were made on.                           *)
THEOREM ExamplesStayWithTheirNetwork == Spec => []ExamplesAreOfTheirNetwork
<1>1. Init => ExamplesInv
  BY InitTyped DEF Init, ExamplesInv, ExamplesAreOfTheirNetwork, Waiting
<1>2. ExamplesInv /\ TypeOK' /\ [Next]_vars => ExamplesInv'
  <2> SUFFICES ASSUME ExamplesInv, TypeOK', [Next]_vars
               PROVE  ExamplesAreOfTheirNetwork'
    BY DEF ExamplesInv
  <2>1. ASSUME NEW r \in Requests, Thread(r)
        PROVE  ExamplesAreOfTheirNetwork'
    <3> DEFINE Own(q) == q.shots \subseteq (IF q.net = Nothing THEN {} ELSE {q.net.object})
    <3>0. /\ req[r] \in Selects /\ req \in [Requests -> Selects] /\ UNCHANGED net
          /\ \A s \in Requests : Own(req[s])
      BY <2>1 DEF ExamplesInv, ExamplesAreOfTheirNetwork, TypeOK, Thread, Select, TakeParser, MakeParser, MissingKey,
                  StoreParser, Snapshot, InvalidReply, ToolsUnsupported, ProviderFails, ValidReply, Resolve, Apply, netState
    <3>1. ASSUME NEW q, Becomes(r, q), Own(q) PROVE \A s \in Requests : Own(req'[s])
      BY <3>0, <3>1 DEF Becomes
    <3>2. ASSUME NEW q, Becomes(r, q), q.shots = req[r].shots, q.net = req[r].net
          PROVE  \A s \in Requests : Own(req'[s])
      BY <3>0, <3>1, <3>2
    <3>3. ASSUME NEW q, Becomes(r, q), q.shots = {} PROVE \A s \in Requests : Own(req'[s])
      BY <3>1, <3>3
    <3>4. Fails(r) => \A s \in Requests : Own(req'[s])
      BY <3>3 DEF Fails, Waiting
    <3>5. \A result \in Answers : Applies(req[r], result).shots = {}
      BY DEF Applies, Waiting
    <3>6. ASSUME NEW pc, Goes(r, pc) PROVE \A s \in Requests : Own(req'[s])
      <4>1. Becomes(r, [req[r] EXCEPT !.pc = pc])
        BY <3>0, <3>6 DEF Goes, Becomes
      <4> QED
        BY <3>0, <3>2, <4>1 DEF Selects
    <3>7. \A s \in Requests : Own(req'[s])
      <4>1. CASE Select(r)
        BY <3>4, <3>6, <4>1 DEF Select
      <4>2. CASE TakeParser(r)
        BY <3>0, <3>2, <3>4, <4>2 DEF TakeParser, Selects
      <4>3. CASE MakeParser(r)
        BY <3>0, <3>2, <3>6, <4>3 DEF MakeParser, Selects
      <4>4. CASE MissingKey(r)
        BY <3>4, <4>4 DEF MissingKey
      <4>5. CASE StoreParser(r)
        BY <3>0, <3>2, <4>5 DEF StoreParser, Selects
      <4>6. CASE Snapshot(r)
        <5> DEFINE b == [Waiting EXCEPT !.pc = "ask", !.net = net, !.called = req[r].made.endpoint,
                           !.shots = IF Settings.fewShot THEN examples ELSE {},
                           !.vocabulary = Grounding(Settings, req[r].made.endpoint)]
        <5>1. CASE net # Nothing /\ Becomes(r, b)
          <6>1. b.net = net /\ b.shots \subseteq examples
            BY DEF Waiting
          <6> HIDE DEF b
          <6> QED
            BY <3>1, <5>1, <6>1 DEF ExamplesInv, ExamplesAreOfTheirNetwork
        <5>2. CASE Becomes(r, [Waiting EXCEPT !.pc = "answer", !.net = net])
          BY <3>3, <5>2 DEF Waiting
        <5> QED
          BY <3>4, <4>6, <5>1, <5>2 DEF Snapshot
      <4>7. CASE InvalidReply(r)
        BY <3>0, <3>2, <3>3, <3>5, <4>7 DEF InvalidReply, Repaired, Unparsed, Answers, Selects
      <4>8. CASE ToolsUnsupported(r)
        BY <3>0, <3>2, <4>8 DEF ToolsUnsupported, Selects
      <4>9. CASE ProviderFails(r)
        BY <3>4, <4>9 DEF ProviderFails
      <4>10. CASE ValidReply(r)
        BY <3>0, <3>2, <4>10 DEF ValidReply, Selects
      <4>11. CASE \E result \in {"resolved", "not_found"}, close \in BOOLEAN : Resolve(r, result, close)
        BY <3>0, <3>2, <3>3, <3>5, <4>11 DEF Resolve, Answers, Selects
      <4>12. CASE Apply(r)
        BY <3>3, <4>12 DEF Apply, Waiting
      <4> QED
        BY <2>1, <4>1, <4>2, <4>3, <4>4, <4>5, <4>6, <4>7, <4>8, <4>9, <4>10, <4>11, <4>12 DEF Thread
    <3>8. examples' \subseteq (IF net' = Nothing THEN {} ELSE {net'.object})
      <4>1. CASE Apply(r)
        <5>1. req[r].net # Nothing
          BY <4>1 DEF Apply, ExamplesInv, TypeOK, Holding
        <5> QED
          BY <3>0, <4>1, <5>1 DEF Apply, ExamplesInv, ExamplesAreOfTheirNetwork
      <4>2. CASE UNCHANGED examples
        BY <3>0, <4>2 DEF ExamplesInv, ExamplesAreOfTheirNetwork
      <4> QED
        BY <2>1, <4>1, <4>2 DEF Thread, Select, TakeParser, MakeParser, MissingKey, StoreParser, Snapshot,
                               InvalidReply, ToolsUnsupported, ProviderFails, ValidReply, Resolve, netState
    <3> QED
      BY <3>7, <3>8 DEF ExamplesAreOfTheirNetwork
  <2>2. CASE UNCHANGED <<net, examples, req>>
    BY <2>2 DEF ExamplesInv, ExamplesAreOfTheirNetwork
  <2>3. CASE CloseNetwork
    BY <2>3 DEF CloseNetwork, ExamplesInv, ExamplesAreOfTheirNetwork
  <2>4. CASE OpenNetwork
    BY <2>4 DEF OpenNetwork, ExamplesInv, ExamplesAreOfTheirNetwork
  <2>5. CASE EditNetwork
    <3>1. net' # Nothing /\ net'.object = net.object /\ net # Nothing
      BY <2>5, NothingAssumption DEF EditNetwork, ExamplesInv, TypeOK, OrNothing, Networks
    <3> QED
      BY <2>5, <3>1 DEF EditNetwork, ExamplesInv, ExamplesAreOfTheirNetwork
  <2> QED
    BY <2>1, <2>2, <2>3, <2>4, <2>5 DEF Next, SetSetting, WriteKey, KeyChanged, Expire, netState, vars
<1> QED
  BY <1>1, <1>2, TypeCorrect, PTL DEF Spec, ExamplesInv

(* What a step from the request p to q may reveal.                           *)
StaysHome(p, q) ==
  /\ q.vocabulary /\ ~p.vocabulary => ~Uninvited(Settings.grounding, q.called)
  /\ q.hint /\ ~p.hint => ~Uninvited(Settings.retry, q.called)

(* Neither test lets a name out that was not invited, whatever the settings  *)
(* say now of another endpoint.                                              *)
LEMMA TestsAreStrict ==
  ASSUME NEW quality \in SettingsChoices, NEW called
  PROVE  /\ Grounding(quality, called) => ~Uninvited(quality.grounding, called)
         /\ RetryOn(quality, called) => ~Uninvited(quality.retry, called)
BY DEF Grounding, RetryOn, FollowsEndpoint, Uninvited

(* NothingLeavesUninvited (session.py:987, config.py:201): street names      *)
(* leave the machine only when asked to.                                     *)
THEOREM NothingLeaves == Spec => NothingLeavesUninvited
<1>1. ASSUME TypeOK, [Next]_vars
      PROVE  \A s \in Requests : StaysHome(req[s], req'[s])
  <2>1. CASE req' = req
    BY <2>1 DEF StaysHome
  <2>2. ASSUME NEW r \in Requests, Thread(r)
        PROVE  \A s \in Requests : StaysHome(req[s], req'[s])
    <3>0. req[r] \in Selects /\ req \in [Requests -> Selects] /\ Settings \in SettingsChoices
      BY <1>1 DEF TypeOK, Settings, Registries
    <3>1. ASSUME NEW q, Becomes(r, q), StaysHome(req[r], q) PROVE \A s \in Requests : StaysHome(req[s], req'[s])
      BY <3>0, <3>1 DEF Becomes, StaysHome
    <3>2. ASSUME NEW q, Becomes(r, q), q.vocabulary = req[r].vocabulary, q.hint = req[r].hint
          PROVE  \A s \in Requests : StaysHome(req[s], req'[s])
      BY <3>1, <3>2 DEF StaysHome
    <3>3. ASSUME NEW q, Becomes(r, q), ~q.vocabulary, ~q.hint
          PROVE  \A s \in Requests : StaysHome(req[s], req'[s])
      BY <3>1, <3>3 DEF StaysHome
    <3>4. Fails(r) => \A s \in Requests : StaysHome(req[s], req'[s])
      BY <3>3 DEF Fails, Waiting
    <3>5. \A result \in Answers : ~Applies(req[r], result).vocabulary /\ ~Applies(req[r], result).hint
      BY DEF Applies, Waiting
    <3>6. ASSUME NEW pc, Goes(r, pc) PROVE \A s \in Requests : StaysHome(req[s], req'[s])
      <4>1. Becomes(r, [req[r] EXCEPT !.pc = pc])
        BY <3>0, <3>6 DEF Goes, Becomes
      <4> QED
        BY <3>0, <3>2, <4>1 DEF Selects
    <3>7. CASE Select(r)
      BY <3>4, <3>6, <3>7 DEF Select
    <3>8. CASE TakeParser(r)
      BY <3>0, <3>2, <3>4, <3>8 DEF TakeParser, Selects
    <3>9. CASE MakeParser(r)
      BY <3>0, <3>2, <3>6, <3>9 DEF MakeParser, Selects
    <3>10. CASE MissingKey(r)
      BY <3>4, <3>10 DEF MissingKey
    <3>11. CASE StoreParser(r)
      BY <3>0, <3>2, <3>11 DEF StoreParser, Selects
    <3>12. CASE Snapshot(r)
      <4> DEFINE b == [Waiting EXCEPT !.pc = "ask", !.net = net, !.called = req[r].made.endpoint,
                         !.shots = IF Settings.fewShot THEN examples ELSE {},
                         !.vocabulary = Grounding(Settings, req[r].made.endpoint)]
      <4>1. CASE Becomes(r, b)
        <5>1. ~b.hint /\ b.called = req[r].made.endpoint /\ b.vocabulary = Grounding(Settings, req[r].made.endpoint)
          BY DEF Waiting
        <5>2. StaysHome(req[r], b)
          <6> HIDE DEF b
          <6> QED
            BY <3>0, <5>1, TestsAreStrict DEF StaysHome
        <5> QED
          BY <3>1, <4>1, <5>2
      <4>2. CASE Becomes(r, [Waiting EXCEPT !.pc = "answer", !.net = net])
        <5> DEFINE a == [Waiting EXCEPT !.pc = "answer", !.net = net]
        <5>1. ~a.vocabulary /\ ~a.hint
          BY DEF Waiting
        <5> HIDE DEF a, b
        <5>2. Becomes(r, a)
          BY <4>2 DEF a
        <5> QED
          BY <3>3, <5>1, <5>2
      <4> QED
        BY <3>4, <3>12, <4>1, <4>2 DEF Snapshot
    <3>13. CASE InvalidReply(r)
      BY <3>0, <3>2, <3>3, <3>5, <3>13 DEF InvalidReply, Repaired, Unparsed, Answers, Selects
    <3>14. CASE ToolsUnsupported(r)
      BY <3>0, <3>2, <3>14 DEF ToolsUnsupported, Selects
    <3>15. CASE ProviderFails(r)
      BY <3>4, <3>15 DEF ProviderFails
    <3>16. CASE ValidReply(r)
      BY <3>0, <3>2, <3>16 DEF ValidReply, Selects
    <3>17. CASE \E result \in {"resolved", "not_found"}, close \in BOOLEAN : Resolve(r, result, close)
      <4>1. PICK result \in {"resolved", "not_found"}, close \in BOOLEAN : Resolve(r, result, close)
        BY <3>17
      <4> DEFINE h == [req[r] EXCEPT !.pc = "ask", !.hint = TRUE]
      <4>2. CASE RetryOn(Settings, req[r].called) /\ Becomes(r, h)
        <5>1. h.vocabulary = req[r].vocabulary /\ h.called = req[r].called
          BY <3>0 DEF Selects
        <5>2. StaysHome(req[r], h)
          <6> HIDE DEF h
          <6> QED
            BY <3>0, <4>2, <5>1, TestsAreStrict DEF StaysHome
        <5> QED
          BY <3>1, <4>2, <5>2
      <4>3. CASE Becomes(r, Applies(req[r], result))
        <5>1. result \in Answers
          BY DEF Answers
        <5> HIDE DEF h
        <5> QED
          BY <3>3, <3>5, <4>3, <5>1
      <4>4. Becomes(r, Applies(req[r], result)) \/ (RetryOn(Settings, req[r].called) /\ Becomes(r, h))
        BY <4>1 DEF Resolve
      <4> QED
        BY <4>2, <4>3, <4>4
    <3>18. CASE Apply(r)
      BY <3>3, <3>18 DEF Apply, Waiting
    <3> QED
      BY <2>2, <3>7, <3>8, <3>9, <3>10, <3>11, <3>12, <3>13, <3>14, <3>15, <3>16, <3>17, <3>18 DEF Thread
  <2> QED
    BY <1>1, <2>1, <2>2 DEF Next, SetSetting, WriteKey, KeyChanged, Expire, CloseNetwork, OpenNetwork, EditNetwork, vars
<1>2. TypeOK /\ [Next]_vars
      => [\A r \in Requests :
            /\ req'[r].vocabulary /\ ~req[r].vocabulary => ~Uninvited(Settings.grounding, req'[r].called)
            /\ req'[r].hint /\ ~req[r].hint => ~Uninvited(Settings.retry, req'[r].called)]_vars
  BY <1>1 DEF StaysHome
<1> QED
  BY <1>2, TypeCorrect, PTL DEF Spec, NothingLeavesUninvited
=============================================================================
