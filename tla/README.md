# A verification of GMNSpy: netstead and corral

The repository holds two Python packages. **corral** (`packages/corral`) loads, validates, edits and
writes tabular data packages. **netstead** (`packages/netstead`) builds on it for transportation
networks in the GMNS format: import from OpenStreetMap and Overture, selection, graphs, reports, and a
*workbench*, a local web application in which networks are opened, built, selected from and edited by
browser tabs, Python code, plugins and background jobs at once.

State, threads and undo live in the workbench and in corral's editing layer; these are modelled as
state machines. Most of the rest is data transformation without state; those parts are modelled as
operators and checked against definitions of what they promise. Sources below are relative to
`packages/netstead/netstead` (N) and `packages/corral/corral` (C).

## 1. Inventory

| Component | State | Operations | Talks to | What is hard, and what makes it correct |
|---|---|---|---|---|
| Job runner, N/workbench/jobs.py | jobs with public fields, two locks, a done event per job | submit, the job thread, cancel, update, wait | publishes to the event bus; `on_finish` into the session | one thread per job, cancel from any other; events in order, nobody waits for ever, a cancel is obeyed at a checkpoint |
| Network handle, N/workbench/registry.py | tables, version, generation, cache | cached, prime, replace_tables, restore | read by routes and by Select without the session lock; written by Actions | builds off the lock against swaps under it; a slot is never of other tables than the present |
| Session, N/workbench/session.py | open networks, active network, selection, style, history, undo records, running Actions | dispatch (nested too), submit, mutate, derive, commit and finish of jobs, rollback | the handlers, plugins through `Host`, jobs, the bus | a failing Action leaves no trace; the history replays to the state; what was parsed without the lock is not applied to something else |
| Language model layer, N/llm, the session's Select | settings, keys, the cached parser or its failure, few-shot examples | build a parser, ask, repair, fall back to JSON, retry with a hint, reset | providers over HTTP, the keyring, the settings | seconds of work without the lock while settings, keys and networks change; no stale parser is kept, street names leave only when asked to |
| Event bus and stream, N/workbench/events.py, routes/core.py | subscribers, a bounded queue each | subscribe, publish, drop the oldest, stream, unsubscribe | publishers on any thread, one event loop | overflow and the snapshot race; a client ends up knowing the newest state |
| Build output, N/workbench/build.py | files beside and at the destination | plan, clean up, stage, write, promote, load | the session's BuildNetwork job; other programs | crashes, two builds of one name, no atomic move for folders; never overwrite, never report what is not there |
| Plugins, N/workbench/plugins | registered plugins, action types, routers | discover, check, install, mount, unload | the session, the server | an installation fails half way; a plugin is there whole or not at all |
| Editing, C/editing, C/operations/pool.py | tables, dirty flags, results of edits, queue, log file | apply_edit, reverse_edit, Session, Batch, rollback from the log | packages and validation | undo by joining values instead of identity; all or nothing |
| Packages, validation, sync state, C/dataset, C/validation | tables with dirty flags, dirty tracker with stamps | validate, add, remove and invalidate tables, write | the editing layer, adapters | flags and stamps against what the tables hold; a validated key that breaks is reported, a strict write lets no edit through, a failed write keeps an archive |
| Scope, connectivity and graph, N/scope, N/semantics, N/graph | graphs and spatial indexes cached on a network's metadata | make, compose, buffer and apply scopes; components, shortest paths | networks that are edited in place | parallel links, caches shared between networks; a scope is a proper subgraph |
| Selection, N/select | none | intents and payloads, anchors, segments, fragments | Select, a language model | ties between anchors, order of sets |
| Import, N/osm, N/overture | none, files in a cache | areas, splitting of ways and segments, edit links | Overpass, Nominatim, Overture | ways that touch themselves or others in the middle |
| Clean-up, quality, map edits, N/clean, N/quality, N/map | a log of fixes in the page | merge, split, simplify, drop; rules; collect, save, load, apply fixes | packages and editing | chains of merges; fixes applied to tables that changed since |
| Files, C/io, C/dataset, N/network.py | the registry of adapters, the file system | register, dispatch, scan, read, write | adapters | names, endings and contents that disagree |
| Specs, C/spec | documents loaded | resolve references, fill in categories | packages, validation | references share what they point at, and it is changed in place |
| Settings and keys, N/config.py, N/llm/secrets.py, registry.py, C/io/credentials.py | layers of settings, a file, the keyring | merge, save, refuse, redact; find, store and remove keys | SetSetting, key routes | what a higher layer hides; a key bound to its endpoint |
| Engines, reports, viz, docgen, command line, MCP, REST, notebooks, front end, gating | little or none | querying, formatting | everything | layout, wrappers: nothing promised that a model could check |

`PROJECT.json` lists every component with its sources and status, and under `hazards` what is hard to
test, each at its line, with the properties that would catch it going wrong.

## 2. Modules

Component modules are parameterised by CONSTANTS and hold their properties at the end. Definitions named
`...Anyone`, `...Blindly` and so on and commented "Plausible bug" are mutated forms of the definition
that follows them; they appear in no specification and serve to show that a property can fail.

### JobRunner and JobPromise
`JobRunner` has one program counter per job thread and per cancel request. A change of a job's fields is
one step because the code makes it under the runner's lock. `_emit` is two steps: take the emit lock and
the snapshot, then publish and release; any other thread runs between them, and between a field change
and its emit. A publish may raise at every point where one is made, and then the thread goes where the
code's `try` sends it. The job function is any sequence of at most `MaxStages` stages that returns or
raises. `JobPromise` is the contract that the module documentation of jobs.py states, without threads and
locks: what has been told about a job only ever moves forward, the outcome is decided once, and waiters
are released after the outcome was told (or could not be). `Promise` in JobRunner is the refinement
mapping and `KeepsPromise` the refinement.

### HandleCache
Readers call `cached`: lookup, build, store. The combined artifact calls `cached` again for its parts, so
a reader has an outer and an inner call. Building reads the tables one by one and takes no lock; a writer
(mutate, commit, rollback of an Action) swaps tables one by one under the handle's lock, so a build may
see half of a swap. `generation` only goes up; `version` goes back on a rollback.

### WorkbenchSession
The session lock is held by the outermost Action to its end, so a core Action is one step. A plugin's
handler is third-party code: a sequence of steps between `Begin` and `EndOk`, `EndFails` or `EndAborts`,
in which it mutates, derives and dispatches in any order, nested up to `MaxDepth`. What takes no session
lock goes on meanwhile: a job's load, and the parsing of a Select, which looks at the tables in the midst
of such an Action. A network's tables are the number of their edits; ids are the smallest free number, so
that they are reused after a close, as `NetworkRegistry.add` does for networks of one label. `Undone` is the
loop of `_roll_back`: the records of undo above an Action's mark, the latest first. The entry of
an Action carries `did`, what its replay snippet does again; nested entries are flattened innermost
first with the index of their parent, as `_record_tree` does.
Left out: lineage and sync stamps, Navigate (which changes nothing), utterances that cannot be parsed and
are recorded as such. What Select does with the parser, the settings and the examples is `LanguageModel`,
the installation of plugins is `Plugins`.
`AddNetwork` and `DeriveOutside` are recorded by no entry in the code either, and `MutateOutside` by one whose
python is a comment, "visible but not replayable" (session.py:700-703, 732-746), so that `Replay` does
nothing for it. All three set `silent`, which `HistoryReplays` exempts: what it promises, and the theorem
`HistoriesReplay` with it, is of sessions in which everything was changed by Actions and jobs.

### EventBus
Events of a kind are published under one lock (the session's for states, the emit lock for jobs), so a
kind is one publisher; kinds share a client's queue. Delivery takes two hops: a callback on the loop puts
the event in the bounded queue, the stream takes it out. The client subscribes before it reads its
snapshot, may leave at any time, before the generator has started too (`Abandon`: nothing unsubscribes
it then), and its loop may be closed. `since` counts what was handed to a client after the newest event of
a kind, to state exactly when a newest state may be lost.

### BuildOutput
Builds of one name, of one server or several, each system call a step: plan, clean-up of old leftovers,
staging, writing in `Parts`, and promotion by hard link and unlink, by claim and replace where there are
no hard links, or by check and rename for a folder. Builds fail or are cancelled at every step, servers
crash and leave what they had, other programs (`Strangers`) put a file, a folder or an empty folder at the
name. A rename of a folder replaces an empty one, as the operating system does. The operating system may
refuse any removal, of which `_remove` (build.py:267-273) tells nothing where it is a folder's and the
clean-up of old leftovers only a log (build.py:289); `denied` remembers whose removal was refused, since
such a build may leave its staging output or a placeholder, which `FailedBuildLeavesNothing` exempts.
Only leftovers of builds that crashed or ended grow old: a build that runs for more than a day
(`STALE_PARTIAL_S`) is outside the model.

### Editing
A table is a set of occurrences of rows (`row`, and `tag` to tell equal rows apart). Predicates compare a
column with a value and are unknown on nulls; joins do not match nulls. The four operations and their
reversals, `Session`, its log, `rollback`, and `Batch` with coalescing, flush, strict validation. `trail`
and `exact` are history variables: the package before each edit that can still be reversed, and whether
each was reversible. `Reversible` spells out what the code needs: reversal finds rows by their values, so
an added row must be new and free of nulls, a deletion must leave no row undecided, and the columns an
update does not touch must tell the updated rows from the others.
Assumed: edits get strictly increasing time stamps, one Session or Batch is at work at a time, an
exception in a body is not swallowed inside it, and a logged blob comes back as it was written.

### PackageSync
A package between loading and writing. The contents of a table are its columns, each a sequence of keys,
and a content hash is the contents themselves, so a stamp says what was there when it was made. Changes
are `apply_edit`, `reverse_edit` of the newest edit, `add_table`, `remove_table`, an assignment to
`Table.expr` (`Poke`) and `invalidate`; the tracker stamps and forgets; `Validate` is the foreign-key pass
with its stamps, and `SyncIssues` what the sync-state pass would report. `Write` makes the two checks,
then tables are written one by one, in place or, for a zip, beside the destination, which is replaced at
the end; any step may fail. A write changes nothing of the package, so a behaviour ends with its first.
Issue keys are those of the code: two foreign keys to one target field share theirs, and the issue of a
null has none. `loaded` and `poked` are history variables.
Assumed: a table is neither replaced nor assigned while edits of it may still be reversed, and removing
the previous output succeeds or fails as a whole. Left out: the structural and schema passes, which
change nothing, formats that cannot be resolved, and what the parts of a file are.
### LanguageModel
What `WorkbenchSession` calls the parsing of a Select: each request takes the cached parser or makes one,
snapshots the network and the examples, asks, repairs what is not valid, falls back to JSON where a
provider has no tools, resolves, perhaps asks once more with a hint, and is applied. Nothing of this but
the first and the last step takes the session lock, so settings, keys, the parser's expiry and networks
change between any two of them. One provider with a remote and a local endpoint stands for all. A
registry of settings is compared by identity in the code and numbered here; a key is the number of times
one was stored or removed. Storing a key and the reset that follows are two steps (`WriteKey`,
`KeyChanged`), as they are in the key routes. What a provider answers, or that it does not, is a choice.

### RoutingGraph and NetworkScope
`RoutingGraph` builds the sparse matrix of a link and a node table as the code does (all rows, then the
reverses of two-way ones, then one edge for each pair) and answers components, reachability and shortest
paths; the references it is checked against look at the link table only. `NetworkScope` keeps a list of
networks, each with its tables and the graph and spatial index that may be cached on its metadata, and
the two scopes a caller holds. Every constructor of scopes, buffers, unions, intersections, differences,
`apply` and edits in place are actions. Geometry is abstract: which links lie near which.
Left out: cost expressions, barriers and zero lengths, whose treatment by scipy is not the code's.

### The rules: operators checked case by case
These modules hold the algorithms of parts without state, as operators, together with what they promise.
The `MC` modules hold their cases (`MCValidation` those of Validation and SpecLoading, `MCSettings` of Settings
and ProviderKeys, `MCQuality` of Clean, Quality and MapEdits, the others of the module they are named
after), and `MCRules` puts one case at a time.

* **Selection** (N/select): intents and payloads, anchors and their candidates, ramps, freeway and street
  segments, fragments. Where the code takes the first of equally near nodes in the order of a set, the
  operators return every answer it may give. Names are in their normal form.
* **Import** (N/osm, N/overture): areas of places, retries, which ways are taken, cutting ways at junctions
  and segments at connectors, directions, edit links. Attributes of a way are left out.
* **Validation** (C/validation, C/reports): each rule of the schema check over a column, the structural
  check over a listing, the issues and the counts of a report. Texts are short sequences of characters,
  so that the anchoring of patterns can be told, and a float is printed with a decimal, as the cast of
  schema_check.py:440 prints it; what a length or a pattern should be is defined apart from it.
* **PackageFiles** (C/io, C/dataset, N/network.py): the registry of adapters, the choice of one, the scan of
  a source, the layouts of a write and their reading back, on a file system of named nodes.
* **SpecLoading** (C/spec): references into documents, categories that become values. Documents are a store
  because what a reference points at is shared and changed in place.
* **Settings** (N/config.py, N/llm/secrets.py, the SetSetting Action): layers, their merging, saving, refusal
  of credentials, redaction, sections of plugins. A value is a tree of paths.
* **ProviderKeys** (N/llm/secrets.py, registry.py, catalog.py; C/io/credentials.py): where keys live and whom
  they are given to, what the panel shows, default models, the order of credential sources.
* **Clean** and **Quality** (N/clean, N/quality, C/quality): merging, simplifying, orphans; the rules, their
  registry and runner, on integer coordinates and fractions.
* **MapEdits** (N/map): markers and the fix a user types, the page's log, its file, its replay on tables, which
  raises where an edit leaves a column with numbers and texts.
* **Plugins** (N/workbench/plugins and session.py): discovery, checks, installation in the order of the code
  with a failure at every step, mounting, unloading.

The other `MC*` modules define the constants of their runs that a cfg cannot write; the runs of `JobRunner`,
`WorkbenchSession` and `BuildOutput` need none. `JobRunnerProofs`, `HandleCacheProofs`,
`WorkbenchSessionProofs`, `EventBusProofs`, `BuildOutputProofs`, `EditingProofs`, `PackageSyncProofs` and
`LanguageModelProofs` hold the theorems.

## 3. Runs

| Run | Bounds | Shows |
|---|---|---|
| jobrunner | 2 jobs, 1 cancel request, 1 stage | `WaiterSawTheEnd`, `CancelStopsAtCheckpoint`, `EventsInOrder`, `KeepsPromise`, `EveryJobEnds` |
| handle_cache | 2 readers, 2 tables, 3 artifacts, 1 edit with its rollback | `CacheDescribesTables`, `AnswerIsOfTheCall` |
| session | 1 job, 4 steps, plugin Actions 2 deep, up to 3 networks | `HistoryReplays`, `ReferencesAreLive`, `NestedEntriesFollowTheirParent`, `FailedActionChangesNothing` |
| session_select | 1 selector, 2 jobs, 2 steps, plugin Actions that succeed | `SelectionIsOfTheAppliedTables`, `JobsAreRecordedOnce` |
| event_bus | 2 kinds, 1 client, a queue of 2, 3 events a kind | `NewestStateIsShown`, `QueueIsInOrder`, `ChangesReachClients` |
| build_output | 3 builds, 2 parts, both formats, both kinds of file system, other programs' files and empty folders | `NeverClobbers`, `ReportedOutputIsThere`, `FailedBuildLeavesNothing`, `WorkInProgressIsKept` |
| editing | 2 tables, 2 columns, 2 values and null, 8 edits, 3 stamps | `UndoneIsRestored`, `ReversalRetraces`, `CoalescingIsInvisible` |
| package_sync | 2 tables, 2 foreign keys to one key, 4 + 3 contents, 2 changes, 4 stamps, one write | `BrokenIsStale`, `StrictWriteIsAsLoaded`, `FailedWriteKeepsOutput` |
| language_model | 2 requests, 2 endpoints, 3 settings, 1 repair, 2 changes | `CachedParserIsCurrent`, `ExamplesAreOfTheirNetwork`, `NothingLeavesUninvited`, `EverySelectEnds` |
| network_scope | 2 towns of 3 nodes, 2 networks, 4 operations | `PathsAreCheapest`, `ScopesStayClosed` |
| network_scope_stale | the same | violates `ConnectedMeansConnected` (finding 1) |
| rules | 100 150 cases, one call each | `SegmentsAreWalks`, `FragmentsAreDeterminate`, `ImportsRetraceTheirSource`, `ReportsAreExact`, `FilesAreFound`, `SettingsAreLayered`, `CleaningKeepsTheNetwork`, `PluginsAreWholeOrAbsent` |

The type invariants are in the modules; for the eight modules with proofs they are theorems.

Why the bounds are enough. *jobrunner*: the hazards need the emit lock contended by two threads of
different jobs and by a cancel of a job in every phase; one stage gives a checkpoint with emits on either
side of it. *handle_cache*: a stale slot needs one builder, one swap of two tables and a second reader to
find it; the rollback of the edit makes the version, not the generation, return. *session*: reuse of an
id takes a close and an open; order of undo takes two mutations of one network; nesting takes depth two.
*session_select* leaves failing plugin Actions out and *session* nested closes, because with them the
properties fail (see section 4). *event_bus*: a queue of two overflows and still keeps
an order. *build_output*: two builds race and a third one cleans up after a crash; of what
other programs make, a folder with contents is treated as a file is, and is left to the proof. *editing*: three
stamps are two edits and a reversal, or the edit of a batch after those of a session; the rows contain
equal pairs and nulls in either column. *package_sync*: two changes break a validated key and change
the other table behind its stamps, or edit a table and take the edit back; two foreign keys to one
target field are the least that lets an issue hide another. *language_model*: two changes are a setting
and its return, a key written and removed, or a network closed and another opened under its id; a second
request uses what the first one cached or stores over it. *network_scope*: four operations make a scope,
extend or combine it, apply it and ask; the link table has parallel links, a two-way one, a loop over
nodes and one without a length. *rules*: the cases of each part are all combinations of small sets, named
at the head of its MC module. Ways have up to four nodes of three, so that they branch, close and repeat;
columns have up to three rows; lines up to four vertices on a small grid.

A case of *rules* is an initial state and the call of the code is the one step there is, so that each
property says what that step must establish, and the run finishes with one generated step a case.

`CHECK_DEADLOCK FALSE` everywhere: each of these systems may stop, when jobs have ended, clients have
left, a case has been called, or a bound of the model is used up.

**Fairness.** `jobrunner`: weak fairness of every job thread and of a request that has begun, since the
operating system runs threads that can run, and a lock is only ever held for steps of the same kind. No
fairness for submitting or cancelling. `event_bus`: weak fairness of a publisher that holds its lock, of
the loop's callbacks and of a stream with something to send. Nobody is obliged to publish, subscribe or
leave. A client that has left is exempt from `ChangesReachClients`. `language_model`: weak fairness of
each request's thread; a provider's call ends, if by its timeout. Nobody is obliged to change anything,
and no answer of a provider is assumed.

## 4. Findings

1. `NetworkScope.apply` hands the source network's metadata on, with the graph and the spatial index
   cached there (scope.py:354), and no edit of a network drops them. `is_connected` then answers for
   tables that are not the network's (semantics/connectivity.py:63). The run *network_scope_stale*.

Disagreements that were met while modelling and have no run of their own; the properties are stated
where they do not arise, or for what the code does:

* Session. Select parses without the lock; a plugin Action that mutates during the parse and is rolled
  back restores the version, so a selection made on tables that no longer exist passes the check
  (session.py:20-22, 946). `_roll_back` does not undo a CloseNetwork that the failing handler dispatched
  (session.py:535). `cancel` between `_settle` and `on_finish` publishes a terminal event without
  `history_seq` (jobs.py:23-24). Few-shot examples are kept when their network is edited, and when a derived
  network is taken out by a rollback (session.py:189-191), which is not modelled. With `few_shot` on they go
  to whatever endpoint there is, with the street names that were typed: `NothingLeavesUninvited` is of the
  vocabulary and of the hint. A parser does
  not see a key written by another program until the next reset.
* Build output. `promote` replaces an empty folder that appears between its check and its rename
  (build.py:339). `NeverClobbers` counts it as nothing to lose.
* Editing and packages. `delete_rows` loses the rows its predicate is null on, and the reversal does not
  bring them back (apply.py:136). `Package.write` never looks at foreign-key stamps, so a table replaced
  with `add_table` after a clean validation is written without a warning (package.py:767). A clean
  foreign key is not stamped when another of the same tables and target field is broken
  (package.py:1036); validating again does not drop stale stamps (sync_state.py:574). A strict Batch
  that is reversed has written its log already (pool.py:225).
* Scope and graph. Docs of `from_nodes` and `from_zone` speak of incident links, the code keeps links
  with both ends; movements are kept if any of their keys matches, not all; `_FK_PUSHDOWN` names columns
  GMNS 0.97 does not have. `load_cached` raises on a corrupt index file where its doc says a miss.
* Selection. Two anchors of one node give an empty list of links; one anchor alone selects the whole
  facility. Ties between nodes are ambiguous and are not emitted as a fragment.
* Import. Only the first part of a MultiPolygon is used (osm/query.py:221-233). osm/edit.py speaks of an
  `osm_node_id` that is never set. In Overture, connectors at one place leave nodes without links, a
  segment denied in both headings becomes two-way, and the stretches before the first and after the last
  connector are dropped.
* Files. The round trip that package.py:706 promises fails for a table whose name begins with a dot in a
  zip, and for names that do not tell the format. A scan takes the first of two files of one name, a
  dispatch and a zip the last. A damaged container stops a load but is skipped by the structural check.
* Validation. `_check_pattern` anchors a pattern by writing `^` before it and `$` after it
  (schema_check.py:566-570), and these bind to its first and its last alternative only: `a|b` accepts "ab",
  although "the regex must match the entire value" (schema_check.py:532-533). `ReportsAreExact` says for
  such patterns which values pass. The documentation calls every declared path that is absent an ERROR,
  `structural.missing_file` (structural.py:21-22, 154-157); the code reports it of required resources alone,
  an optional one gets the INFO `structural.missing_optional_resource` (structural.py:227-277), and the
  property states that. The type check is a substring test.
* Specs. "Any field that has a `categories` payload but no explicit `constraints.enum`" is to get the values
  of its categories (loader.py:224-226), but where fields refer to the same constraints, the first one's
  values are written into what they share (loader.py:249) and the others keep them. `FilesAreFound` says so
  of shared constraints (`FirstFieldDecides`). References inside what a reference points at are left.
* Settings. The overrides of a session keep the place of their first insertion. SetSetting with no value
  and an unknown key writes the file before it fails; a save is not atomic and writes the defaults of a
  section; a date or time in a plugin's table blocks every save. The check of session.py:1066 fails
  when a value is removed, a table replaces a table, or an override hides it. A base URL with a query is
  redacted so that it cannot be set back.
* Clean. The lowest id of a cluster is kept only where the cluster is no chain (clean.py:236); nodes
  without coordinates are dropped and leave links behind (clean.py:323); simplifying with tolerance 0
  drops a spike that goes out and back (clean.py:186).
* Map. The contents of a feature are taken by its position among the features that are drawn
  (component.py:236-246, geo_resolver.py:252-284), so a link that cannot be drawn shifts those after it.
  Edits without a fix or with a composite key do not survive the file; an empty key matches every row. An
  edit that leaves a column with numbers and texts makes `apply_edits` raise (edits.py:471) with nothing
  applied, where its doc speaks of edits that are skipped one by one.
* Plugins. What `on_load` did outside the session is not undone when a later step of the installation
  fails.

## 5. Proofs

`tlapm` checks the eight proof modules completely; they hold for every number of threads, jobs, tables,
artifacts, foreign keys, edits, clients, events, builds, networks and requests, and for plugin Actions nested
to any depth.

* **JobRunnerProofs**. The inductive invariant adds to `TypeOK` which point of its run each job's fields
  are consistent with (status terminal exactly from settling on, the done event exactly from the release
  on), that a thread holding a snapshot holds the emit lock, and that such a snapshot is no older than
  what was shown and no newer than the job. `WaitersSawTheEnd` and `CancelsAreObeyed` are consequences;
  `OrderedEvents` needs the part about the emit lock, since without it a snapshot could be overtaken;
  `RunnerKeepsPromise` shows the initial states to map to initial states of `JobPromise` and every step
  to a step of it or to a stutter.
  Assumptions: `ThreadsAssumption`, `StagesAssumption`, `NothingAssumption`.
* **HandleCacheProofs**. The inductive invariant says of every value being built at an unchanged
  generation that each part that was read agrees with the present tables (outside a swap), that slots of
  later generations do not exist, and that every part of an answer was the contents of its table at some
  time of the call (`window`). `CacheIsCurrent` and `AnswersAreOfTheCall` follow. Assumptions:
  `NeedsAssumption`, `EditsAssumption`.
* **WorkbenchSessionProofs**. Its first part says what each operation on the registry does (`RegisterIs`,
  `CloseIs`, `EditIs`, `DoIs`), what the frames and the history are after a step (`TopDoesIs`, `WithEntryIs`,
  `EndOkIs`, `RollBackIs`), and that types are kept: `TypeInv` adds to `TypeOK` that marks are in order and
  within the records of undo, and that there are no more networks than handles were made, without which no
  free id need exist. Then one inductive invariant a property.
  `JobsRecordedOnce`, from `JobsInv`: what is recorded of a job at each point of it, where `committed` is
  what joins `_commit` and `_finish`. `NestedEntriesFollow`, from `NestInv`: the entries each running Action
  has collected are nested properly among themselves, and stay so when they are marked or appended
  elsewhere. `ReferencesLive`, from `RefsInv`: the session is `Live` and so was what every running Action
  began with (`before`, kept for the properties); a network that is open now is one of `before`, unless a
  record above the Action's mark says that it was derived since (`Grown`). So a rollback takes out exactly
  what was not there, and what `before` referred to is still there or was closed. `FailuresChangeNothing`, from
  `ExactInv`: undoing the records above a mark gives exactly the networks of `before`; the step is that a
  new record undoes what its operation did (`UndoesEdit`, `UndoesDerive`) and that the rest is undone as before
  (`UndoneMore`). `SelectionsAreOfTheTables`, from `ParsesInv`: what a request carries is of a version its
  network has passed, or of its present tables.
  `HistoriesReplay`, from `ReplayInv`: unless something was changed that no entry replays (`silent`), the
  history, replayed from the launch, gives the session in which the outermost handler began (`Replays`), and what each handler has done leads from what it began with to what
  the next one began with, or to the session there is (`Leads`). A core Action adds to the innermost; a
  handler that ends well hands its part to its parent or to the history (`ReplaysMore`); one that fails gives
  the session back (`RefsInv` and `ExactInv`), so that its part tells of nothing. Replaying makes other
  networks than there were, so sessions are compared up to that (`Akin`): `DoAkin` says that kindred sessions
  remain so after any operation one of them accepts, `AkinPlain` that kindred sessions look alike to the user.
  Three theorems have a hypothesis, because without it the property is false of the code (section 4):
  `FailuresChangeNothing` that handlers dispatch no CloseNetwork (`"close" \notin Nested`),
  `SelectionsAreOfTheTables` that handlers do not fail (`~Failing`), and `HistoriesReplay` that where handlers
  fail they dispatch no CloseNetwork and nobody selects from an utterance (`Selectors = {}`), which would be
  checked against a version that returns. The other theorems have none.
  Assumptions: `RequestsAssumption`, `BoundsAssumption`, `NothingAssumption`.
* **BuildOutputProofs**. The inductive invariant says what a build has staged at each point
  (`StagedIsWhole`), that one which stands where it has the name finds its own there (`OwnersHaveTheName`),
  and that whatever is at the name and of a build is of one that still answers for it (`NameHasAnOwner`),
  a removal that was refused (`denied`) excepted.
  `ReportedOutputsAreThere` and `FailedBuildsLeaveNothing` are consequences; `NothingIsOverwritten` and
  `WorkIsKept` follow step by step. Assumptions: `PartsAssumption`, `FormatsAssumption`,
  `StrangersAssumption`, `NothingAssumption`.
* **EditingProofs**. The core are lemmas, one for each operation, that `Reversed` inverts `Applied` on a table
  for which the edit is `Reversible`. The inductive invariant (`Invariance`) then says that, while all was
  reversible, the package before each result is that result's reversal (`Traced`), in memory and in the log.
  `ReversalsRetrace` is a consequence and `UndoneLeavesNoTrace` its last step. `CoalescingChangesNothing`
  compares tables up to the tags of their rows (`Same`: a bijection that keeps rows), since a coalesced queue
  gives its edits other stamps. Every edit keeps that (`AppliedSame`); the folds of `Prune` and `Merge` are
  taken edit by edit (`PruneIs`, `MergeIs`), a replacement makes up for what it cancels (`OthersAlike`,
  `PruneAlike`), and rows added at once are those added in turn (`ConcatSame`, `MergeAlike`). Bijections
  between finite tables keep the count of every row (`SameCounts`), which is what the property is about.
  Assumption: `EditsAssumption`.
* **PackageSyncProofs**. `BreakageIsReported`: every stamp's hashes are of keys that were found
  (`StampsAreClean`), which validation establishes because a missing target surfaces as an issue that
  bars the stamp, and no other step touches stamps; the hash decides the keys (`HashDecidesKeys`), so a
  foreign key that fails now has another hash. `StrictWritesAreAsLoaded`: a clean table is as it was made,
  and so is every table a pending reversal would make clean (`CleanIsAsLoaded`; without the second half a
  reversal would break the first), and a write under way is of the tables it looked at
  (`WriteIsOfTables`). `FailedWritesKeepOutput`: until the whole of an archive is there nothing touches what
  was. Assumptions: `ForeignKeysAssumption`, `ContentsAssumption`.
* **EventBusProofs**. What waits for a client (`Due`) is its queue and the callbacks of the loop, and every
  step leaves it, takes its head or adds one event (`CallbackMoves`, `StreamTakes`, `SendAdds`).
  `QueuesAreInOrder` needs that what waits is of the past, and older than an event that is still to be
  handed out. `NewestStatesAreShown` says where the newest state is while a client does not know it: to
  be handed out, waiting with no more events behind it than were counted, or lost to a whole queue; a
  client that subscribed after it was handed out learns it from its snapshot. Assumption:
  `BusAssumption`.
* **LanguageModelProofs**. `CachedParsersAreCurrent`: a request looks at an old registry or at the
  session's own, and what it made of the session's own has the key of the keyring, unless a reset is on
  its way (`RequestIsCurrent`); so nothing else can be stored. `ExamplesStayWithTheirNetwork` and
  `NothingLeaves` follow step by step, the latter from `TestsAreStrict`: both tests look at the endpoint
  the parser calls, not only at the settings. Assumptions: `EndpointsAssumption`, `NothingAssumption`.

Induction over data. A behaviour's frames, records of undo, histories and lists of edits have any length,
so some lemmas need induction along a sequence. The library's induction theorems cannot be instantiated
here; `Least` (from the well-foundedness of the numbers) and `UpTo` serve instead, which speak of a set of
numbers and need no operator, and `Along`, of a set of sequences. `Iterated` shows that a recursive function
over a range exists and what it is, and gives `Undone` a value; `FoldExists` and `FoldRuns` do so for the
folds of the community modules, and `RedoneIs` and `ReplayIs` for replaying.

Only model-checked:

* `PathsAreCheapest`, which compares the costs that `Remaining` finds in rounds with the least over all
  ways through the link table.
* `ScopesStayClosed` and the properties of *rules*, which are about functions of one input, put to all
  inputs of small sets.
* Liveness (`EveryJobEnds`, `ChangesReachClients`, `EverySelectEnds`), which is out of this prover's reach.

## 6. Not modelled

* Engines, the gate and its cost model, reports' renderings, viz, docgen, notebooks, the command line, MCP
  and REST: wrappers, formatting and heuristics without a promise about states.
* The browser's views: the client's side of the stream is in `EventBus`, the editor of the map in
  `MapEdits`.
* The workbench's paths, redaction of URLs, links and estimates: functions of text.
* Filters and views of packages, building a network from data frames, time of day: lookups and queries
  whose correctness is the query library's.
* Hazards met that no property covers: a SystemExit in a plugin's handler after it mutated a network
  (session.py:518), `derive` from outside an Action (session.py:748), a client that disconnects before its
  stream starts and stays subscribed (routes/core.py:77), a server that dies between the claim of a name
  and the move over it (build.py:332), a live build older than `STALE_PARTIAL_S` (build.py:74), equal time
  stamps in a log (rollback.py:98), a `reverse_edit` that fails midway (editing/session.py:117), a table
  marked dirty that drops a stamp still needed (sync_state.py:414), an archive created between check and
  rename (package.py:791). Some are in the models as what may happen, and the properties exempt them.

## 7. Plan

1. *Done*: the workbench's concurrent core, the editing layer and the package's sync state, with their
   first theorems.
2. *Done*: the language model layer, scopes and graphs, and the rules of selection, import, validation,
   files, specs, settings, keys, cleaning, quality, map edits and plugins.
3. *Done*: theorems for the session, build output and editing, and the rest of the package's.
4. *Done*: theorems for the history and its replay, and for what coalescing a batch leaves.
5. *Left*: `ScopesStayClosed`, composition by composition, and `PathsAreCheapest`, by induction on the
   rounds of `Remaining`: after k of them a node's budget is what the cheapest way of k links leaves.
