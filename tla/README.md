# Orgumented: a verification project

This directory holds TLA+ models of Orgumented: of its engine (`apps/api`) and
of the web client (`apps/web`) that drives it. TLC runs check them on small
instances, and theorems about them are proved with TLAPS for every value of
their constants. The models are translated from the TypeScript; the paths below
are relative to the repository.

## 1. The system

Orgumented turns Salesforce metadata into a graph that questions are answered
from. A NestJS process (one Node event loop) keeps all state in local stores;
the web client, the desktop shell and scripts call its HTTP endpoints.

| component | state it keeps | operations | hard because |
|---|---|---|---|
| ingestion (`modules/ingestion/ingestion.service.ts`) | `refreshInProgress`; state file, audit log, ontology report, latest snapshot, snapshot history, diff artifacts | `refresh` (full or incremental, with or without rebaseline), latest summary, diff by id | eight writes to three stores, no transaction; awaits in the middle; drift gates against a baseline read earlier; an incremental skip that trusts a fingerprint |
| drift policy, ontology (`semantic-drift-policy.service.ts`, `ontology-constraints.service.ts`, `packages/ontology`) | none | evaluate a difference, validate a payload | net counts, allow-lists, thresholds |
| parsers (`modules/ingestion/*-parser.service.ts`) | last statistics | read one kind of metadata from a tree | nine parsers with directory lists of their own, merged by id |
| graph store, SQLite and PostgreSQL (`modules/graph`) | nodes and edges | `fullRebuild`, counts, path queries | one transaction in SQLite; statement by statement through a pool in PostgreSQL |
| evidence store (`modules/evidence`) | index file and its metadata | reindex, search | rename of the index, then metadata |
| runtime bootstrap (`config/runtime-bootstrap.service.ts`, `main.ts`) | `bootstrapState` | make the runtime ready before listening | runs after every crash, over whatever the crash left |
| health (`modules/health`) | none | `/health`, `/ready` | combines the bootstrap's status with the stores |
| org sessions and retrieve (`modules/org`) | session file, auth and retrieve audit logs, project directory, the CLI's own registries | connect, bridge, switch, preflight, disconnect, retrieve, selective retrieve | many awaited CLI calls between reading and writing one session file; ends in a refresh |
| metadata discovery cache (`modules/org/org.service.ts`) | live and local cache files | list families, members, search | lists one org over many awaits while the alias may be switched |
| tool adapter, command runner (`modules/org`) | child processes | run `sf` and `cci`, retry | timeouts by SIGTERM, retries of a half-done retrieve |
| ask, proofs, metrics (`modules/ask`) | proof log, metrics log | ask, replay, simulate, review packets | reads the snapshot id, then awaits graph queries a refresh may overtake; replay compares with an old proof |
| meta context (`modules/meta`) | relation multipliers | adapt | rounding, clamping, repeated feedback |
| GitHub (`modules/github`) | selected repository | sessions, selection, workflow dispatch, publish a review packet, pull request files | find-then-create over HTTP, retries, lost answers |
| planner, queries, analysis, llm, observability, config | none that outlives a request, or counters | classification, read-only queries, one outgoing call | many branches; nothing across steps |
| web client (`apps/web/app`) | one page: session, catalogue, cart, handoff, last runs, recent proofs; part of it in local storage | Connect, Org Browser, Refresh & Build, Ask, Proofs & Metrics | handlers read state at the click and write it when the answer arrives; answers in any order; one shared `loading` flag; effects that run after each render |

Interactions: `/refresh` and the end of an org retrieve call
`IngestionService.refresh`; the bootstrap calls it before the server listens.
`refresh` writes the graph store, then the evidence store, then its own files;
ask and queries read all three. An org retrieve writes the tree that the next
refresh parses. Publication reads a stored proof. In the web client, a Browser
retrieve leaves a *handoff* that Refresh & Build starts from, and every question
asked in Ask leaves a proof that Proofs & Metrics lists and replays.

What makes each part correct:

- **ingestion**: one refresh at a time; nothing enters the graph past the
  ontology gate; no drift baseline is replaced past the drift gates; everything
  published is in the audit log; the stores agree when it is idle; an
  incremental skip is right; the lock is always given back.
- **drift policy, ontology**: verdicts are what the configuration says, at the
  thresholds too; differences are exact; merging keeps validity.
- **bootstrap**: a verdict on every start, over every remains of a crash.
- **queries**: every "can edit" comes from a permission file, whichever the store,
  also across a refresh.
- **PostgreSQL store**: a rebuild is seen whole or not at all, and ends.
- **readiness**: ready is said only of a graph and an index that hold something,
  also while a refresh replaces both.
- **org sessions**: only an org the CLI has shown is attached; the audit log
  explains the session file; what a completed retrieve fetched stays in the
  graph; a cached catalogue is one org's; every request is answered.
- **ask**: a replay of an unchanged state matches; adapting the scores changes no
  outcome; nothing trusted is without evidence; a question about the latest
  retrieve stays inside it; every answer has its proof.
- **GitHub**: one comment for each proof, never replaced by an older packet; a
  dispatch runs once; the product's own repository is never ready to work in.
- **web client**: the handoff is one retrieve of one org; a stage shown complete
  was built from it, or says that the build was skipped; the proof on show is the
  one selected.

`PROJECT.json` lists every component with its status, and the hazards with the
lines where they bite.

## 2. Modules

| module | models | extends, or instantiates |
|---|---|---|
| `SemanticDrift` | the pure part of a refresh | |
| `GraphQueries` | the permissions parser, the queries of both graph stores, `QueriesService` | `SemanticDrift` |
| `Refresh` | `IngestionService.refresh`, `ensureRuntimeReady` | `SemanticDrift` |
| `OrgCatalog` | the metadata catalogue and its merge | |
| `AliasRegister` | abstract: what the session file promises | |
| `OrgSession` | `OrgService` over its files, the CLIs, the project tree | `OrgCatalog`; refines `AliasRegister` |
| `Planner` | `PlannerService.plan` | |
| `AskRules` | what `AskService.execute` makes of a question | `Planner` |
| `AskReplay` | ask, replay, adapt over the stores and logs | `AskRules` |
| `GithubPublish` | `GithubService` against GitHub | |
| `PgStore` | `PostgresGraphStore` under its pool, `/ready` | |
| `RetrieveLineage` | `retrieve-handoff.ts`, `workflow-lineage.ts`, `refresh-workflow-state.ts` | |
| `Workbench` | the hooks of Connect, Org Browser, Refresh & Build | `RetrieveLineage` |
| `ProofsHistory` | Ask, Proofs & Metrics and the effects of `page.tsx` | |
| `WebClient` | the page | `Workbench`, instance of `ProofsHistory` |
| `MC...` | the instances for TLC | the module they are named after |
| `RefreshProofs`, `OrgSessionProofs`, `GraphQueriesProofs`, `AskProofs`, `GithubProofs`, `PgStoreProofs`, `WebClientProofs` | theorems | `Refresh`, `OrgSession`, `GraphQueries`, `AskReplay`, `GithubPublish`, `PgStore`, `WebClient` |
| `SemanticDriftProofs` | theorems | `MCSemanticDrift`, `GraphQueriesProofs` |

### Drift and refresh

**`SemanticDrift`** holds the pure part of a refresh. Node and edge ids are
hashes of type and name and of endpoints and relation, so in the model a node
*is* `[type, name]` and an edge *is* `[src, rel, dst]`; the digests of a snapshot
are then its sets of nodes and edges, and a snapshot is its fingerprint, source
and payload. What the code stores twice (counts, digests, id) is computed.
Thresholds and allow-lists are constants. `MCSemanticDrift` compares it with
reference definitions that never build a count table.

**`GraphQueries`** follows a permission from the file that grants it to the answer
of `GET /perms`. The permissions parser turns the entries of a file into nodes and
edges; both stores answer five queries over the graph, SQLite by looking nodes
up and testing edges one by one, PostgreSQL by joins; `perms` puts an answer
together from two awaited queries, so its operator takes the two graphs they may
see. Lists are sets: order and the display limit are left out. The name of an
object is a parameter where the code takes it from the name of a field.
`MCSemanticDrift` writes the permission files that give a payload, parses and
asks across a change of the payload.

**`Refresh`** is a state machine. One handler per HTTP caller and one for the
bootstrap each have a `job` (`pc` and the local variables that survive an
await). `turn` is the handler that holds the event loop: it is `None` exactly
while every handler awaits the graph store, so other handlers can interleave
only there. This is the asynchronous (PostgreSQL) case; with SQLite the awaited
promises are already settled, which permits a subset of these behaviours. Each
synchronous write is a step of its own all the same, since the process can die
between two writes and since each can throw.

| action | code (`ingestion.service.ts` unless said) |
|---|---|
| `Request`, `BootstrapRefreshes` → `Start` | lock, options, fingerprint, `mode` (105-132) |
| `CanSkip`, `SkipArtifact`, `SkipAudit` | `canSkipRefresh` and the incremental skip (132-205) |
| `ParseAccepted`, `ParseRejected` | parsers, merge, baseline, rebaseline, drift regression, drift budget, ontology gate (207-285) |
| `WriteOntologyReport` … `WriteDiffArtifact` | the commit (286-337) |
| `OperationFails` | a query, read or write throws; `finally` (358-360) |
| `Crash`, `Restart` | the process dies, with the file being written torn; `main.ts` starts again |
| `BootstrapDecides`, `BootstrapRefreshes`, `BootstrapEnds` | `runtime-bootstrap.service.ts` 29-129 |
| `Edit` | the environment changes a source tree at any time |

A source tree is a record: its `layout` (`flat`: all metadata at the top level of
the directories the fingerprint lists; `nested`: in directories the parsers read
and the fingerprint does not, such as `classes/`, `triggers/`,
`permissionsets/` and `objects/**`; `absent`), whether it is `wellFormed`, and the
payload the parsers make of it. `stamp` counts edits and stands for the file
times in the fingerprint.

Abstractions:

- Parsing sees the tree at one instant. It is synchronous, but an editor outside
  the process could change files while it runs.
- The evidence index and its metadata change in one step here; `PgStore` has them
  apart.
- A torn line of the audit log is taken as not written; only the newest diff
  artifact is kept; the history has one file for each snapshot id, and the id
  does not depend on the source path.
- The bootstrap's recovery branches (clear artifacts and retry) cannot be
  reached: it always asks for a rebaseline, and a rebaselined refresh meets
  neither drift gate. They have no action. Seeding the user principal map is
  left out.
- A crash leaves the operating system's view of the files intact: nothing that
  was written is lost.

### Org sessions, retrieve and catalogue

**`OrgCatalog`** is the metadata index: which families an org has, which member
names are known, and the merge of live and local listings. Member names are
abstracted to the orgs they came from. `parseCachedLiveMetadataIndex` is what a
cache file reads back as: every family with listed members gets a descriptor,
also one the org's own list of families lacked.

**`OrgSession`** has one `job` per handler; `pc` names the awaited CLI call (or
refresh step), and the action of that name is the call's end with the
synchronous code up to the next await. `turn` is a handler between two
synchronous writes, where only a crash can come in.

| actions | code (`org.service.ts` unless said) |
|---|---|
| `RequestAlias`, `RequestRetrieve`, `RequestSelected`, `RequestCatalog`, `RequestDisconnect` | the endpoints up to their first await |
| `EnsureSfInstalled`, `EnsureCciInstalled`, `DisplayOrg`, `CciOrgInfo`, `ImportAliasIntoCci`, `Recheck` | connect, switch, bridge and preflight |
| `AuthDisplay`, `AuthCci`, `AuthInfo`, `AuthImport` | authentication inside a retrieve |
| `WriteSessionState`, `AppendAuthAudit` | the session file, then the audit line |
| `FetchFile`, `FetchExits`, `FetchFails` | a retrieve of the `sf` CLI, its retries, its timeout half-way (`org-tool-adapter.service.ts`) |
| `RefreshStarts`, `RefreshParses`, `RefreshCommits` | the refresh at the end of a retrieve, kept to its lock, parse and commit |
| `LiveSfInstalled`, `ListMetadataTypes`, `ListMetadata` | building the live index and its cache |
| `Login`, `Crash` | the operator in a shell; the process dies, the file being written torn |

Abstractions: timestamps and the last-error texts of the session; a failed cache
write, which is only logged; the CumulusCI probe of preflight is one call;
`AuthCci` stands for the installation check with the scaffold of the project; a
CLI child orphaned by a crash is taken to end with it; families unknown to the
catalogue are not asked for; the seed families are listed in any order.

### Ask and replay

**`Planner`** classifies a question by what its patterns find in the text, and
**`AskRules`** is `execute`: its branches, the evidence a scope admits,
fallbacks, graph queries, answer, confidence, metrics, trust level and proof,
with integer scores. All questions are about one object or field, so a file's
text is `absent`, `other`, `near` or `match`, and the tree, the graph and the
evidence index are functions from files to these. A ranking gives each edge its
place, the number of edges before it; places are all that a packet's top three
names and the answer's totals depend on.

**`AskReplay`** interleaves. `Ask` and `Replay` run to the first awaited graph
query; `QueryAnswered` is one awaited query, `ModelAnswered` the language
model; `AppendProof` and `AppendMetrics` are the two appends of an ask;
`ReplayEnds` compares. The environment is `Retrieve` (another tree in the source
directory), `RefreshGraph` and `RefreshEvidence` (a refresh commits the graph in
one turn and index and state in a later one, `RefreshFails` between),
`Adapt` (relation multipliers from the metrics log) and `Crash`.

Abstractions: the wording of answers; truncation to `maxCitations` and the top-k
search; policy thresholds are constants; the user-profile map; a multipliers
file torn by a crash reads as the defaults and is left out; the plan's
`graphCalls`, which `execute` does not follow. An explanation of a flow that
stays unresolved may still be trusted: that is what the code does, and
`TrustedIsGrounded` does not exclude it.

### GitHub

**`GithubPublish`** interleaves requests at each awaited call. A read is
answered in one step. A write is put on a `wire`, from which GitHub may
`Handle` or `Refuse` it, also after its sender has given up, and its answer may
be lost (`Lose`). `AskAgain` is a newer ask with the same proof id: the
replay token, and so the marker in the comment, is a function of the proof id.

Abstractions: one pull request per repository; files are counted; the read-only
endpoints (session, repositories, context, workflow catalogue, runs, artifacts)
change nothing; the workflow allow-list and the comment's layout. `PageSize` is
100 in the code; `PageCap` is GitHub's limit on `per_page`, also 100, while a
client may ask for 300 files.

### PostgreSQL store and readiness

**`PgStore`** has the pool (idle connections, busy ones, the queue), a
transaction per connection, the committed `rows`, and one job per caller with the
statements it has left. Every statement takes a connection as `pg`'s pool does.
The server is external: READ COMMITTED visibility, row locks of inserts and
deletes. `initPromise` is kept as the code keeps it, rejected ones included.
`RenameIndex` and `WriteIndexMetadata` are the evidence writes after a rebuild
(either may fail: `ReindexFails`), and `StartReady` is `GET /ready` (and, as
another reader, any query). Evidence is indexed from other files than the graph is
parsed from (permission set groups, for one, are parsed and not indexed), so a
payload may bring a graph without documents, or documents without edges. The
index and its metadata are replaced in one turn. When that turn is cut off between
the two, by a crash or a failing write, the metadata may stay that of an older
index (`MetadataLeft`); the history `cut` says so until the next refresh.

### Web client

**`RetrieveLineage`** translates the three pure files that decide what may be
concluded from the last retrieve. **`Workbench`** has the hooks: `org`, `browser`
and `work` are the state of `useConnectWorkspace`, `useBrowserWorkspace` and
`useRefreshWorkspace`; a *call* holds the closure (`at`) its handler had at the
click. `Serve` is the API's side: its session, the retrieves whose files reached the
project, and the `snapshot` in its state file. `Stages` are what a request does to
these, one after the other, and `Ends` those at which it may end well: a retrieve
without `autoRefresh`, and an incremental refresh or rebaseline that finds its
fingerprint in the state file, stop before the rebuild, and the second then answers
the snapshot it found, `skipped` (`Payload`). `Done` is the call with a part of it
answered,
`Answer` what the handler does with the result. `OrgStep`, `BrowserStep`, `Cart`,
`RefreshStep` are the clicks, `CatalogForAlias` the effect on a changed alias,
`Reload` a reload with what local storage brings back.

**`ProofsHistory`** has the last answer, the recent proofs, the selected one and
the ones on show, and the three effects of `page.tsx`: `ran` is what each
depended on when it last ran. **`WebClient`** puts both on one page: they share
`loading`, and due effects run before the next click or answer.

Abstractions: the page renders, and its effects run, between any two answers;
reading and writing local storage is atomic; display-only results (searches,
GitHub, Analyze, System, the dashboard and its export, the runtime gate); the
refresh flags other than rebaseline and retrieve; `loadVisibleMembers` (a loop of
`loadMembers`); `toggleType` (exported, used by no component); Restore (the same
call as a row's connect). The requests of both parts have a limited number of
slots, and a behaviour that finds no room ends there. A reload happens while Ask
and Proofs wait for nothing.

## 3. Runs

| run | instance | checks |
|---|---|---|
| `SemanticDrift` | every pair of payloads over 5 nodes and 4 edges (262144 states), 4 users, both stores | `ChangesAreSeen`, `VerdictIsReference`, `RollbackAllowed`, `MergeKeepsValidity`, `GrantIsTraceable` |
| `RefreshSafety` | 2 callers and the bootstrap, 2 sources, 5 trees, 2 requests, 1 edit, 1 fault | `TypeOK`, `OneRefresh`, `GraphAdmissible`, `AuditCoversSnapshots`, `StoresAgree`, `DriftGate` |
| `RefreshProgress` | 1 caller, 1 source, 3 trees (one malformed), bootstrap on or off, 2 requests, 1 edit, 1 fault | `SkipIsSound`, `LockReleased`, `StartupSettles` |
| `OrgSession` | 2 handlers, 2 orgs, 2 requests of any kind, 1 login or logout, 1 failing call or crash, 1 retry | `TypeOK`, `AuditExplainsSession`, `CompletedRetrieveIsInGraph`, `CacheIsOneOrgs`, `SessionIsRegister`, `RequestsAnswered` |
| `AskReplay` | 2 handlers, 5 files, 2 trees, 8 questions, 2 requests, 1 retrieve, 1 refresh, 1 adaptation, 1 fault | `TypeOK`, `ReplayReproduces`, `AdaptOnlyReorders`, `TrustedIsGrounded`, `LatestNeverGraphWide`, `AnsweredIsProven` |
| `GithubPublish` | 2 handlers, 3 repositories (the product's, the operator's, one to create), 1 proof with 2 versions, 3 requests, 1 fault, 1 step of other users, pages of one item | `TypeOK`, `OneCommentPerProof`, `PacketsAdvance`, `ReadyNeverProduct`, `DispatchedOnce`, `FilesTold` |
| `PgStore` | a pool of 2, 2 readers, 3 payloads (one without edges, one without evidence), 2 rebuilds, 2 reads, 1 fault | `TypeOK`, `ReadyIsGrounded`, `QuietRebuildIsAtomic`, `RebuildEnds` |
| `WebClient` | 11 scenarios (first visit or with a handoff; clicks in one or several workspaces; a failure, a reload or a lost answer), 2 calls under way at once, 3 in Ask and Proofs, 2 aliases | `TypeOK`, `HandoffIsOneRetrieve`, `CompleteIsBuilt`, `ShownIsSelected` |
| `RefreshBlindSkip` | nested trees, no fault | `SkipIsSound`, violated |
| `RefreshValidRefused` | nested trees, no fault | `ValidPayloadAdmitted`, violated |
| `RefreshTornSkip` | flat trees, two sources, one fault | `SkipIsSound`, violated |
| `AskScopeLeak` | as `AskReplay`, with a question about a retrieved tab | `LatestIsScoped`, violated |

### Why the bounds are enough

- *SemanticDrift.* Two principals that share a field and one object are the least on
  which grants can be split or swapped; relations of three kinds, one of them
  allow-listed, and budgets of zero and one reach both sides of each threshold.
- *Refresh.* A baseline, its replacement and a skip need the bootstrap's refresh
  and two requests; every hazard of the commit needs one fault, and the worst
  ones one edit between two refreshes. The payloads differ by no node, one
  object (within every budget of one), two nodes and an edge (beyond it), in
  digests only, or violate the ontology. Two callers suffice for the lock, which
  treats all alike; they are interchangeable, hence the symmetry of the safety
  runs. `EmptyPayload` and `Absent` exercise start-ups without fixtures.
- *OrgSession.* Every race is between two requests, with a third party (an
  operator's login) and one failure. Both orgs have requests of their own, one
  of them lacks a family, and one family is only found by search, so that a mixed
  catalogue can be told from either org's.
- *AskReplay.* A replay needs one earlier ask, so two requests; a change in
  between needs one retrieve and one refresh, of which the second tree differs
  by an edge lost, a file gone and a file added. The eight questions reach every
  branch of `execute`; the earlier log starts `Adapt` from a refused question.
- *GithubPublish.* An upsert that goes wrong needs a publication whose answer is
  lost, a retry and a newer packet: three requests, two versions, one fault. A
  page of one item reaches what the code meets at the 101st comment and file.
- *PgStore.* Two connections are the fewest on which a transaction can be torn
  apart, two readers the fewest to occupy one and reorder the idle list; the
  payloads share rows, so that inserts wait for uncommitted deletes. One replaces an
  index that holds something by an empty one, and one has no edges, so each half of
  a `/ready` that is answered beside a refresh can be wrong; the one fault is a
  lost connection, a crash or a failed write, also between index and metadata.
- *WebClient.* What a late answer can spoil takes three clicks (retrieve, change
  the cart or the org, refresh), or three selections in the proof list; failures
  and reloads are looked at in scenarios of their own. Any refresh may be skipped:
  the fingerprint itself is `Refresh`'s subject. Aliases and slots are
  interchangeable.

Deadlock is checked in `SemanticDrift` only. In the others a listening server or
a page without work has no step once the requests, clicks, edits and faults of
the bounds are used up, and this is not an error. That no call hangs is checked
as liveness instead.

### Fairness

- `Refresh!FairSpec`: weak fairness of the steps of a running refresh and of the
  bootstrap. Node runs a synchronous section to its end, every awaited query
  settles, and `main.ts` awaits `ensureRuntimeReady` before `listen`. It is one
  condition for all of them, since only one call runs at a time.
- `OrgSession`: weak fairness of the steps of the handlers: each CLI call has a
  timeout, after which the child is killed. That a child which ignores SIGTERM
  never ends is assumed away here; it is in the hazards.
- `PgStore`: weak fairness of the server's answers, of the pool's idle timeout
  and of the synchronous code. Without the idle timeout a rebuild may wait for a
  lock that its own earlier statement holds on another connection.

Nothing obliges callers to ask, sources to change, or a dead process to be
started again. No liveness is claimed of ask, GitHub and the web client: their
calls end when a remote service answers.

### What the violated runs show

`SkipIsSound` in `RefreshProgress` is checked for trees the fingerprint covers.

1. `RefreshBlindSkip`: an edit under `classes/`, `objects/**` and the like does not
   change the fingerprint, and an incremental refresh reports no semantic change.
2. `RefreshValidRefused`: after the same edit a full refresh refuses a valid
   payload within the drift budget, as "unchanged fingerprint produced semantic
   diff".
3. `RefreshTornSkip`: a refresh of a second source fails after the graph was
   rebuilt; an incremental refresh of the first source then skips, and vouches for
   a graph that holds the second.
4. `AskScopeLeak`: a retrieve of tabs alone gives no evidence rule, and no rule
   means an unrestricted search; a question about that retrieve is answered with
   files that were not retrieved.

The live instance has no absent tree: an absent tree has the fingerprint of no
row, as has a nested one, and a tree that disappears and comes back would only
show the first finding again.

### Behaviours to know that no property condemns

- A baseline torn by a crash reads as no baseline, so the refresh after it passes
  no drift gate. `DriftGate` is stated for replacing one baseline by another.
- A failed switch writes back the alias it read before its CLI calls, and so
  undoes a connect that succeeded meanwhile (`org.service.ts:541`); a connect
  that ends after a disconnect attaches the session again. The register of
  `AliasRegister` allows both.
- The catalogue cache names no alias: after a switch it serves the family list of
  the org left until it is refreshed by force (`org.service.ts:1378`).
- One torn line makes the proof log unreadable as a whole
  (`ask-proof-store.service.ts:53`); `AnsweredIsProven` speaks of whole logs.
- A bootstrap that failed keeps `/ready` at 503, and a rejected `initPromise`
  refuses every query, until the process is restarted.
- A refresh that was skipped is shown complete in Refresh & Build, on a snapshot that
  may be older than the files of the handoff (`ingestion.service.ts:132-205`; the
  page asks for incremental refreshes unless told otherwise,
  `use-refresh-workspace.ts:180`). The page keeps `skipped` and shows it in a badge
  (`refresh-workspace.tsx:274`), but no stage depends on it. `CompleteIsBuilt`
  therefore names the skip; that it can be wrong is what `RefreshBlindSkip` shows.
- A refresh that ends between renaming the index and writing its metadata leaves the
  count of an older index, which `/ready` takes for the present one until the next
  refresh indexes (`evidence-store.service.ts:78`). `ReadyIsGrounded` excepts those
  answers (`cut`).
- A read beside a rebuild may split its transaction over two connections: part
  of it then commits alone. `PgStore` marks those behaviours `tainted` and
  claims nothing of them.
- `canEditObject` (`permissions-parser.service.ts:230`) takes `viewAllRecords` for
  editing. `perms` wants both grants of a field from one principal: an object
  granted by a profile and its field by a permission set is answered "no
  field-level edit path". It does not ask whether the field is of that object.
- Two publications of one proof that overlap, and a discussion of more than a
  hundred comments, may end in two comments (`overlapped`, `crowded`).
- In the browser, two catalog requests answered out of order leave the families
  of the org left on show; a member list fetched under a search keeps only what
  matched; the detail of the diff stage names the editable pair beside the
  numbers of the last diff; clicks on several alias rows overlap, since the rows
  are not disabled. The list reloaded by a save to history selects what was
  selected at the click; Open by Token is followed by the lookup of the row
  selected before, as the effects of the page want it.

## 4. Proofs

TLAPS proves, for any sources, callers, trees, budgets, aliases, handlers,
requests, catalogues, pool size, payloads, families, slots and bounds:

| theorem | states |
|---|---|
| `RefreshProofs!TypeCorrect` | `Spec => []TypeOK` |
| `RefreshProofs!MutualExclusion` | `Spec => []OneRefresh` |
| `RefreshProofs!OnlyAdmissibleGraphs` | `Spec => []GraphAdmissible` |
| `RefreshProofs!AuditIsComplete` | `Spec => []AuditCoversSnapshots` |
| `RefreshProofs!BaselinesAreGated` | `Spec => DriftGate` |
| `RefreshProofs!StoresStayTogether` | `Spec => []StoresAgree` |
| `RefreshProofs!OneSourceSkips` | `Spec => []SkipIsSound`, if all trees are flat and there is one source |
| `RefreshProofs!SkipsAreSound` | `Spec => [](Faultless => SkipIsSound)`, if all trees are flat |
| `OrgSessionProofs!TypeCorrect` | `Spec => []TypeOK` |
| `OrgSessionProofs!Implements` | `Spec => SessionIsRegister`, the refinement of `AliasRegister` |
| `OrgSessionProofs!CompletedStays` | `Spec => []CompletedRetrieveIsInGraph` |
| `OrgSessionProofs!AuditExplains` | `Spec => []AuditExplainsSession` |
| `OrgSessionProofs!CachedOrg` | `Spec => []CacheIsOneOrgs` |
| `GraphQueriesProofs!StoresAgreeOnQueries` | both stores give each of the five queries one answer, for every graph |
| `SemanticDriftProofs!DifferenceIsExact` | a difference reports changes precisely for payloads that differ, for any finite ones |
| `SemanticDriftProofs!VerdictBothWays` | a change and the way back get one verdict, for any finite payloads, budgets and allow-lists |
| `SemanticDriftProofs!MergedStaysValid` | valid payloads are valid merged, for any set of them |
| `SemanticDriftProofs!EveryChangeSeen` | `Spec => []ChangesAreSeen` |
| `SemanticDriftProofs!EveryChangeUndone` | `Spec => []RollbackAllowed` |
| `SemanticDriftProofs!MergedPayloadsValid` | `Spec => []MergeKeepsValidity` |
| `SemanticDriftProofs!VerdictAsConfigured` | `Spec => []VerdictIsReference` |
| `SemanticDriftProofs!GrantsTraceable` | `Spec => []GrantIsTraceable` |
| `AskProofs!AskTypes` | `Spec => []TypeOK` |
| `AskProofs!ExecutionInvariant` | `Spec => []Held`: each execution and each proof is one the stores could give |
| `AskProofs!ReplayIsFaithful` | `Spec => []ReplayReproduces` |
| `AskProofs!AdaptationOnlyReorders` | `Spec => []AdaptOnlyReorders` |
| `AskProofs!AcceptedIsGrounded` | `Spec => []TrustedIsGrounded`, if `GroundingThreshold > 6400` |
| `AskProofs!LatestStaysInScope` | `Spec => []LatestNeverGraphWide`, if `GroundingThreshold > 6400` |
| `AskProofs!EveryAnswerIsProven` | `Spec => []AnsweredIsProven` |
| `GithubProofs!GithubTypes` | `Spec => []TypeOK` |
| `GithubProofs!PublicationIsUpsert` | `Spec => []OneCommentPerProof` |
| `GithubProofs!PacketsNeverGoBack` | `Spec => PacketsAdvance` |
| `GithubProofs!NoDispatchTwice` | `Spec => []DispatchedOnce` |
| `GithubProofs!BindingSafe` | `Spec => []ReadyNeverProduct` |
| `GithubProofs!PartialFilesTold` | `Spec => []FilesTold` |
| `PgStoreProofs!StoreInvariant` | `Spec => []Inv`: the pool, the callers' statements and the transactions fit each other |
| `PgStoreProofs!StoreTypes` | `Spec => []TypeOK` |
| `PgStoreProofs!QuietRebuild` | `Spec => QuietRebuildIsAtomic` |
| `PgStoreProofs!ReadyGrounded` | `Spec => []ReadyIsGrounded` |
| `WebClientProofs!ClientTypes` | `Spec => []TypeOK` |
| `WebClientProofs!HandoffTold` | `Spec => []HandoffIsOneRetrieve` |
| `WebClientProofs!CompleteStages` | `Spec => []CompleteIsBuilt` |
| `WebClientProofs!ShownSelected` | `Spec => []ShownIsSelected` |
| `GraphQueriesProofs!GrantsAreHeld` | a field that `perms` grants is granted, with its object, by one principal in the graph of its second query |

The assumptions are that the constants have their types (`BudgetsAssumption`,
`RefreshAssumption`, `CatalogAssumption`, `SessionAssumption`, `AskAssumption`,
`ReplayAssumption`, `GithubAssumption`, `PgAssumption`, `WebAssumption`). Of the sessions',
the proofs need besides that no handler or alias is `None`, that the configured
alias is an alias, and that there is a seed family; of the others, that files and
handlers are finitely many, that a packet can have a first version, that the pool may open
a connection and that the store's callers have names of their own; of the page, that a
catalogue lists finitely many families, that nothing it keeps is `None` itself, and that
who comes back to an earlier retrieve had something to retrieve.

Four theorems have hypotheses of their own. Those about skips are the conditions
that the two violated runs of `SkipIsSound` break: metadata below the top level, which
the fingerprint does not see, and a fault beside a second source.
`ASK_GROUNDING_SCORE_THRESHOLD` may be
any number from 0 to 1 (0.65 by default), and execute's own refusals are refused
by the policy envelope alone: their confidence is at most 0.2, which makes 0.64
of grounding. Below that threshold the two properties of ask fail, and the hypothesis
says so.

### Refresh

The first invariant is `IInv == TypeOK /\ OneRefresh /\ SkipHasState`. The types alone
are not inductive: a skip appends the snapshot of the state file to the audit log,
and that the file is readable then was tested before two awaits. `SkipHasState`
says it still is, and holds because only another running refresh could take it
away (`OneRefresh`).

The second, `GateInv`, carries each gate from where it is passed to where the write
happens: what a commit holds is admissible (`CommitAdmissible`), its audit entry
is in the log from `AppendAudit` on (`CommitAudited`), and the baseline it was
judged against is the one it will replace (`CommitGated`). It is inductive relative
to `IInv`. For the action property, `BaselineWriter` shows that
`WriteSemanticSnapshot` is the only step to put one baseline in place of another,
and `CommitGated` and `CommitAudited` then give the two disjuncts of
`GatedChange`.

`FaultlessInv` is for the agreement of the stores. A commit rewrites all of them one
after the other, so `Written` says which are done at each point of it, and outside
a commit `TellsOf` says that all tell of the state file's entry. A fault counts and
is never uncounted, so steps with one have nothing to show.

A skip trusts the state file's fingerprint. `DatedInv` says when that is right: a
payload with a fingerprint is what its source parses to, unless the source was
edited since, and then its fingerprint is another one. Together with `FaultlessInv`
that is `SkipsAreSound`. After a fault the graph may be ahead of the state file;
`AloneInv` says that, with one source, the source was then edited since the state
file was written, so no skip takes place.

### Org sessions

`Typed == TypeOK /\ TreeNamed`: the types are inductive only with the fact that a
file in the tree came from some org, since its index lists the orgs of the names.

*Refinement.* Each step of `OrgSession` is a step of the register or leaves it.
`Grounded` says why a session write is one: `Known` is the verified aliases with the
configured one, the session's alias is known, and every handler stands
(`Standing`) on what it has been shown: a handler about to write "connected" has
seen its org displayed, and the alias a switch falls back to was once the
active one. Most steps only move one handler on; `Moved` and `Continues` say so once
for the helpers they share.

*Safety.* Three invariants, each inductive relative to `Typed`. `Retrieved` bounds
versions: what was promised is in the graph, the graph is not newer than the
tree, and a refresh between its parse and its commit holds a payload between the
two, which is what the lock is needed for. `AuditKept` follows a handler from its
session write to its audit line. `CacheKept` says a listing under way that may be
cached lists the org it started with. Steps that neither refresh nor list are
`Quiet`, and leave all three alone.

### Queries

The parity of the stores needs of a graph only that an edge is what its columns
say: dangling edges, which SQLite's foreign keys refuse and PostgreSQL's tables
admit, are invisible to both. `GrantPathsAgree` and `FieldPathsAgree` give for a row
of the join the nodes that the lookups find, and the other way round.
`GrantsAreHeld` is then shown for SQLite alone. It takes any two graphs and so
covers every refresh between the two queries of an answer.

### Ask and replay

`Held` says of an execution under way, and of every proof in the log, what it was made
from: its branch and citations are those of *some* index and tree (`Founded`); its
queries are read or still to be read, and a model that has answered was one to be
asked (`Placed`); and `Current`: if no store has changed since it began, index
and tree are the present ones, and each answer is what the present graph gives under
some multipliers, the present ones if they have not been adapted either. `Current`
makes two executions comparable that never ran together: a replay's and the one
that its proof is of.

- A step counts every change of a store (`StoresMove`), so what was not
  current stays so (`StaysCurrent`), and a job that a step leaves alone stays held.
- `AdaptOnlyReorders` rests on `SameOutcome`: `AnswersAlike` shows the multipliers
  to order the edges found and never to choose them, and nothing in the answer,
  the metrics or the trust level looks at the order. Only the packet does.
- `TrustedIsGrounded` rests on `Refused`, `LatestNeverGraphWide` on `LatestBranch` (a
  question about the latest retrieve has only branches without a graph query)
  and `CitesAreFound` (every way to gather evidence stays in the scope).
- `Proven` holds the two appends together: an ask between them has its proof and
  owes a line.

### GitHub

`Base` is five invariants, each inductive relative to those before: the types with
what a job has at each point of its handler, which job a write on the wire belongs
to (`Numbered`), that dispatches are on the wire, refused or run (`Counted`), what
a binding has seen (`Bound`) and what the two reads of files are compared with
(`Paged`).

`Upserted` is about the comments: each has the number of the request that made it
(`Identified`), a patch is for a comment of its own proof (`Aimed`), and, as long as
publications of the proof did not overlap, there is one job or write for it
(`Alone`), it is no older than what is there and makes a comment only where there
is none (`Newer`). `Single` is then the upsert. A search that a full page cuts off is
excluded by `crowded`; `AllOnPage` says any other finds what is there.

### PostgreSQL store

`fullRebuild` is one transaction only if the pool gives it the same connection for
each of its statements, which nothing in the code asks for. The pool takes the
connection that was given back last, so it is the same one as long as nobody else
queries in between: this is the argument.

- `CallersInv`: a connection is idle or in use, nobody is in the pool twice, who is
  there has a statement to run, and everyone but the creator of the schema has
  awaited it. `Acquired`, `Released`, `Dropped` and `ClosesIdle` are what the four
  operations of the pool keep of it; `SameConnection` is the argument above.
- `TxInv`: no two transactions delete a row and each deletes committed rows only,
  for any mixture of statements on any connections.
- `Quiet`, as long as no read overlapped a rebuild: the readers or the rebuild are
  idle; a rebuild at its `k`-th statement has done the ones before on one
  connection, which is the one it has (`Reached`), and no other has a transaction.
  A rollback, a lost connection and an idle one that is closed leave none at all.
- The statements of a rebuild are a sequence of a length the payload decides.
  `Script` says which they are, `ScriptStep` what is left after one of them, and
  `InsertsBefore` which rows were inserted before the `k`-th; the commit is the last
  (`CommitIsLast`), and by then the rows are those of the payload.
- `/ready` makes two queries. `Quiet` keeps, for a reader between them, that there
  are nodes if it counted any, since no rebuild commits beside it.
- `EvidenceInv` is for the other half of its answer, and holds in every interleaving
  of reads and rebuilds: outside the turn that writes both files the metadata is
  that of the index, unless `cut`. A reader is answered outside that turn (`Free`):
  this is where the argument needs index and metadata to be written without an await
  between them.

`QuietRebuild` follows from the step lemmas and not from the invariant alone: each
of them proves `OneStep` beside `Inv'`.

### Drift

What is proved about `SemanticDrift` is first proved of any payloads and then applied
to those of `MCSemanticDrift`. Payloads whose nodes or edges differ are told apart by
the digests; equal ones have equal counts, and a difference of numbers with themselves
is empty (`DifferenceOfCounts`, which needs the payloads to be finite). Turned round, a
difference has the same keys with the opposite numbers, so the magnitudes that the
budget sums are the same function there and back (`SumsAreAbsolute`): nothing has to be
known of the sum itself.

`VerdictAsConfigured` does need to know what a sum is. It is a fold, defined by
recursion over subsets, and the library's induction theorems, which take an operator,
cannot be applied. `SumCounts` does without them:
counting `n` pairs for a magnitude of `n` obeys the recursion, so a fold exists, and a
smallest subset on which it differs from that count (there is one, since strict
inclusion is well-founded on a finite set) would have a smaller one. Sums that
differ in zeros count the same pairs (`SumsAgree`), so the sum over the table of changed
types, which lists only what changed, is the sum of the net changes of all types of
the domain (`DriftOfKeys`).

`GrantsTraceable` follows a grant along the code: `FileGives` says what the parser
makes of a file, `GraphHolds` what is in the graph of all files, `GrantsOf` which edges
its principals have. `PathsOf` says what the two queries find in such a graph: argued
for SQLite, and carried over to PostgreSQL by `StoresAgreeOnQueries`.

### Web client

The two halves of the page have an invariant each, and neither half's steps touch
what the other one's speaks of.

`WorkInv` is about requests that wait while everything else moves on. `Sent` says of
each what its handler kept at the click: a retrieve its own cart, a pipeline that is
to retrieve a selection that is not empty and a handoff, and any handoff kept is one
of a retrieve the API had made by then. `Told` says of an answer on its way that it is
what the API did: `RetrieveTold` and `PipelineTold` find the retrieve it names
(`Brought`), `RefreshTold` and `PipelineTold` put it after the handoff kept. The API
only adds to its retrieves (`Grown`), so what was told once stays true (`StaysTold`)
until the answer comes, in whatever order. `RefreshRunInv` and `PipelineRunInv` carry
it over into the recorded runs, whose lineage is that of the handoff kept at the
click: a refresh was answered after that handoff, and unless skipped its snapshot
was built of all files there were by then. A run that belongs to the handoff on show
was so answered after that one (`FiledUnderHandoff`), and `CompleteIsBuilt` follows.

`ClientTypes` asks more of `WorkInv` than that fields have their sets. A lineage is
filed only with a ready handoff, but the answer that files it reads what the click
kept: so `Sent` says of a refresh or a diff under way that its closure gives a lineage
(`LineageType`), that a diff kept the snapshot of a run, and of an answer about the org
that it carries a session or nothing. That no snapshot is offered twice rests on what
`filter` keeps of any list. `Without` says it by rank (the `k`-th entry kept is the one
with `k` kept entries up to it), which needs no induction: `Filtered` shows that ranks are
distinct and take each value, so entries that differed still differ, and what was
dropped is gone. The cut at `MAX_REFRESH_SNAPSHOTS` keeps a prefix (`Listed`); no run
here reaches the eleventh snapshot, and the theorem covers it.

`HistoryInv` is about effects. `Looked`: once the effects have run on the Proofs tab, a
selection that is not on show is being looked up, or its lookup failed. Any answer
that changes the selection or what is on show changes a dependency of the lookup's
effect, and the effect runs before the next event: this is what makes the last
answer irrelevant, and at rest it is `ShownIsSelected`.

### Model-checked only

`RequestsAnswered`, `LockReleased`, `StartupSettles` and `RebuildEnds`: liveness under
fairness is out of the prover's reach. Every invariant and every action property of the
passing runs is a theorem.

## 5. Not modelled

- *Text*: the parsing of metadata files and of CLI output, the patterns of the
  planner, evidence chunking and scoring, prompts, answers, comments, markup.
  Models say which of a few results these have, not how.
- *Read-only endpoints*: latest refresh, diffs by id, path explanations, GitHub
  contexts, catalogues and artifacts, the metrics dashboard and its export. They
  change no state, and what they read is covered where it is written.
- *Compositions of ask* (`architectureDecision`, `simulate`, `compare`): they run
  ask one or more times and write nothing else.
- *LLM providers*: one outgoing call whose answer is used or dropped; the model has
  both outcomes.
- *Metrics and logging, configuration and paths*: counters nothing reads back, and
  values that are the constants of the models.
- *The GitHub panel, Analyze and System of the web client*: requests whose answers
  are only displayed.
- *Desktop shell*: spawns the API when the window is set up and kills it at exit.
  It keeps one slot for the child, restarts nothing, and has no other step.
- *Project memory server* (`packages/`), *scripts, CI and docs*: developer tools, no
  state of the product.
