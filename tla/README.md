# Rune Studio: models and proofs of its stateful core

`rune-langium` is a toolchain for the Rune DSL: a Langium language (`packages/core`), code generators, a visual
editor, and Rune Studio, a browser IDE with small services behind it. Most of its lines are a sequential compiler:
functions from text to text. What tests reach badly is the rest: tabs that share a workspace, a save queue, a git sync
engine and a delete that share a directory, a language server that hibernates, previews made by a worker that lags
behind, a graph and a text that edit each other. This directory models that rest in TLA+, checks it with TLC and proves
part of it with TLAPS.

Paths below are relative to the repository. `PROJECT.json` maps every definition to the lines it models and lists the
runs, the mutants that show each property can fail, the findings, the hazards and the theorems.

    tlc -config workspace_files.cfg MCWorkspaceFiles     # any run: its cfg with its MC module
    tlapm WorkspaceFilesProofs.tla                       # any proof module

## 1. Inventory

### Modelled

| component | state | operations | what makes it correct |
|---|---|---|---|
| **Tab ownership** `apps/studio/src/services/multi-tab-broadcast.ts` | per tab: owned, claiming, one resolver and its timer, known peer | `claim`, `takeover`, `release`, `close`, `onMessage` | at most one tab writes; a contest has a winner; a takeover leaves no gap |
| **Git sync** `packages/git-sync-engine`, `services/git-sync.ts`, `interactive-conflict-policy.ts` | working tree, index, refs; per engine the phase, debounce timer, pending request, lease | debounced `syncNow`, commit/fetch/merge/push, conflict answers, engine creation and disposal | no edit is lost, a lease protects collaborators, markers are not pushed, the badge tells the truth |
| **Workspace files** `workspace/workspace-files.ts`, handlers of `App.tsx` | OPFS directory, save queue per workspace, tombstones, pruning baseline, the editor's copy | save (coalescing), load, delete | the last save wins, unknown files survive, a deleted workspace stays deleted, each call settles |
| **Language server session** `apps/lsp-worker/src/session.ts`, `packages/lsp-server` | durable: documents, initialize params, meta; volatile: Langium server, transport, waits | WebSocket messages, cold wake with replay, storage mirror, purge | hibernation is invisible and loses nothing; a purge is final; requests are answered |
| **Code generation service** `apps/codegen-worker` (legacy, no longer deployed) | counters per address in a Durable Object; the session cookie of the browser | generate (session or challenge, budget, body, container with one retry), health probe | a window never admits more than its cap and refuses only when spent; a session is earned |
| **Form preview and hydration** `workers/codegen-worker.ts`, `CodegenProvider.tsx`, `hydration-orchestrator.ts`, `preview-store.ts` | selection, schemas, retry budget, waiters; the worker's files, version and two caches | select, edit, builds suspended in an await, hydration, retries | the form settles on the target and files as they are; missing references are retried, within a budget |
| **Code preview** the same worker and provider, `codegen-store.ts`, `CodePreviewPanel.tsx` | language on view, last question, snapshot; the worker's last target, id and cache | toggle the view, edit, generate with two awaits | the panel shows the language asked for, no older than the question; a question is answered |
| **Instances** `store/instance-store.ts`, `opfs/instances-fs.ts` | instances in memory, a write queue for each, loads under way, the latest validation asked for | create, update, remove, open a workspace, load, validate | nothing crosses workspaces; the last write wins; what is said of validity is about the data shown |
| **Graph and source** `packages/visual-editor` (store, `edit-reconcile`, `useModelSourceSync`, `cst-reuse-renderer`), `ExplorePerspective.tsx`, parses of `App.tsx` | the text, the graph, patches since the last load, the frozen baseline and its offsets, parses under way | edit in either, write back, parse, reconcile, merge models, hydrate, link | an edit in the graph touches its own element; all settle on the text shown |
| **Workspace records** `App.tsx` (`restoreWorkspace` and its neighbours), `workspace/persistence.ts`, `store/model-store.ts` | the records with their curated bundles, the recents, one model store for the page, a gate | load and unload a bundle; create, restore (also two at once), close and delete a workspace; reload; an effect that persists | a record binds what was loaded in its own workspace |

### How they interact

- A tab shows a workspace; `App.tsx` edits it, and every change saves all files through **workspace files**.
- After a save of a git-backed workspace `notifySyncOnSave` arms the debounce of **git sync**, which stages, merges
  and checks out in the same OPFS directory. Nothing locks the directory: the two meet only on disk.
- **Tab ownership** is meant to keep a second tab away from the first; it is advisory (the UI asks).
- The editor talks to **the session** over a WebSocket; the runtime may drop the session's memory between two frames.
- An edit in the graph rewrites a file of `App.tsx`, which parses it after a pause and loads the graph again; the
  **previews** get the same files through their worker; hydration, asked for by the form preview, parses for all.
- **Instances** follow the workspace that is open: its name is read when an operation is queued, not when it runs.
- **Workspace records** share one model store: whatever is loaded when the gate opens is written into the record of the
  workspace that is open.

### Hard behaviours

Broadcasts that cross; one resolver slot shared by calls; state read before an `await` and used after it (ahead/behind
counts, pruning baseline, lease); pages that die between two steps; two writers of one directory; a queue torn down by
a failure or a delete; builds that supersede each other; memory that vanishes while storage stays; five-second nets
under promises; results cached under a version that has moved on; answers told apart by an id that another message
replaced; retries counted by overlapping answers; offsets of one text applied to another. `PROJECT.json` lists 40
hazards with the line where each one bites.

Also noted, of less weight: equal `tabId`s; a stale `peerOwner`; an engine disposed while its policy still waits for
the dialog; a policy that answers "merged" for ever; `persistSyncState` overwriting a newer record; a crash between
the removal of a record and of its directory (an orphan directory); save queues of two tabs that do not know each
other; notifications dropped by a session that failed to load; the fast path of `waitUntil(Linked)`; a second
`initialize` on one connection.

### Not modelled

The remaining components are in `PROJECT.json`, each with its reason. In short: the language core and the generators
(most of the repository's lines, half of them generated parsers and AST types) are sequential functions on text and
trees, too large for TLC and of little interest to it; sign-in, proxies and the front door of the language server check
and forward; shell, panels and design system render. For that reason the map covers a small share of the lines: it
covers the files that keep state across awaits. The reconnecting language client, the curated mirror and telemetry do
keep some, and are planned (section 7).

## 2. Modules

| module | role |
|---|---|
| `SingleWriter` | what ownership promises: a set of holders that changes by acquiring, taking over, stepping down |
| `WorkspaceOwnership`, `MCWorkspaceOwnership` | the broadcast protocol; refines `SingleWriter` |
| `WorkspaceOwnershipProofs` | its theorems |
| `GitSync`, `MCGitSync` | the engine, its repository, remote and collaborators |
| `GitSyncProofs` | its theorems |
| `WorkspaceFiles`, `MCWorkspaceFiles` | save queue, load, delete, with pulls and reloads |
| `WorkspaceFilesProofs` | its theorems |
| `SteadyServer` | what the session promises: a language server that never hibernates |
| `LspSession`, `MCLspSession` | client, Durable Object, Langium server and builder; refines `SteadyServer` |
| `LspSessionProofs` | its theorems |
| `AtomicBudget` | what the rate limiter promises: all windows of a request are tested and charged in one step |
| `CodegenService` | overlapping requests of one address to the code generation service; refines `AtomicBudget` |
| `CodegenServiceProofs` | its theorems |
| `FormPreview` | form preview: studio, worker and hydration |
| `CodePreview`, `MCCodePreview` | code preview: studio and worker |
| `PreviewProofs` | the theorems of both |
| `InstanceStore` | instances of the open workspace, in memory and on disk |
| `InstanceStoreProofs` | its theorems |
| `GraphSourceSync`, `MCGraphSource` | the round trip between graph and text of one file |
| `WorkspaceRecords` | the curated bundles in records and in memory |
| `EditorProofs` | the theorems of the last two |
| `MCStudioParts` | six of them side by side: service, form, code, instances, graph, records |

In all of them an action is the code between two awaits. JavaScript runs it without interruption, so everything it
assigns belongs to one step. What another party may do in between (a message, a pull, a reload, the next frame) is an
action of its own. Operators under a comment `Slip:` are plausible mistakes in the operator or action below them. No
specification uses them: each one replaces its neighbour in a mutant, to show that a property notices.

### WorkspaceOwnership

One workspace, any set of tabs. A channel per ordered pair of tabs, because a BroadcastChannel delivers in order per
sender and drops what a closed page would have read.

| code | model |
|---|---|
| `this.owned`, `claiming`, `pendingClaims`, `peers` | `owned`, `claiming`, `pending` (which call holds the slot) and `timers`, `peer` |
| `claim()` to its await; its timer | `Claim`; `ClaimTimeout` |
| `takeover()`, `release()`, `close()` | `Takeover`, `Release`, `Close` |
| `onMessage` per type | `ReceiveClaim`, `ReceiveDeny`, `ReceiveTakeover`, `ReceiveRelease`, `GiveUp` for the resolver |

`tabId`s are numbers because only their order is used. A claim-deny carries a ghost addressee, which no handler reads:
the code broadcasts it, and every claimant believes it.

### GitSync

A tree is the set of edits in it plus "has markers"; a branch is the set of commits it reaches. Merge is a three-way
merge of edit sets, and two edits conflict when `Clash` says they touch the same lines.

| code | model |
|---|---|
| `notifySyncOnSave`, debounce, `syncNow`, `running.finally` | `Save`, `TimerFires`, `Settle` |
| `stageAll`, commit, fetch, `computeAheadBehind` | `Stage`, `Commit`, `Fetch`, `Count` |
| `fastForward`, `merge`, `resetTo` and their checkouts | `FastForward`, `Merge`, `Reset`, and `Checkout` for the second half |
| `doPush`, `pushForceWithLease` | `Push`; `Lease` then `ForcePush` |
| answers of a policy | `KeepMine`, `TakeRemote`, `Block`, `MergedByPolicy`, `PushMerged` |
| errors and their classification | `Fail` |
| `getOrCreateSyncEngine`, `disposeSyncEngine`, page reload | `Create`, `Dispose`, `Reload` |

What the environment may do besides is the constant `Env` (network and local faults, saves during a run, leaving,
reload, other policies, a push inside the lease's window), so that each run says which freedom it gives.

### WorkspaceFiles

One workspace, of the git-backed or the plain kind (chosen in `Init`). Files are functions from paths to texts.

| code | model |
|---|---|
| `saveWorkspaceFiles` to its first await | `Ask` (in `Edit`, `Reset`), with `Queue` for coalescing |
| `saveWorkspaceFilesNow`, await by await | `ReadKind`, `Prepare`, `Prune`, `Unlink`, `WriteFile` |
| the end of `runQueuedSave`, in success and failure | `Finish`; `Fail` and `TearDown` |
| `lastKnownTrackedPaths`, `deletedWorkspaceIds` | `known`, `tomb` |
| `loadWorkspaceFiles` | `OpenList`, `OpenRead`, `Opened` |
| `deleteWorkspaceFiles`, `handleDeleteWorkspace` | `DeleteRecord`, `Tombstone`, `RemoveDir`, `RemoveDirFails` |
| a checkout of the sync engine | `Pull` (external here; its control is in `GitSync`) |

Three variables are ghosts: `last` (the last save asked for and its outcome), `added` and `revised` (what a pull
brought that the editor has not met).

### LspSession

One connection from upgrade to purge; each gets an object of its own.

| code | model |
|---|---|
| `ctx.storage` | `store` (docs:*), `init`, `meta` |
| input gate, `blockConcurrencyWhile` | `Quiet` (no event is delivered), `jobs` (FIFO), `RunJob` |
| `ensureLangium` and its promise | `gate`, `Wake` |
| `replayIfColdWake`, its two waits | `HandshakeReplayed`, `Replay`, `ReplayTimeout`, then `Link` opens the gate |
| `webSocketMessage` after the gate | `HandleRequest`, `HandleInitialize`, `HandleInitialized`, `HandleShutdown`, `HandleDocument`, `Resume`, `Refuse` |
| `webSocketClose`, purge | `Close`, the job "purge" |
| storage mirror (`onUpdate`, `onBuildPhase(Parsed)`) | `BeginUpdate` (deletions), `Parse` (puts) |
| `waitForResponse`, `waitForDocumentUpdateSettle` under `waitUntil` | `acks`, `settle`, `AckTimeout`, `SettleTimeout` |
| hibernation | `Evict`, when no event or `waitUntil` promise is outstanding |

Langium's builder (update, parse, link, validate; cancelled by the next update), `TextDocuments`, the runtime and the
client are external: modelled from how `session.ts` and `packages/lsp-server` rely on them. `told` and `purged` are
ghosts.

As a `SteadyServer` (`SteadyServerSpec`): its `line` is every frame the client has sent and no handler has taken, wherever
it waits (`inbox \o wire`); its `docs` are the documents of the Langium server while there is one, those of storage while
there is none, and nothing once the end is decided; it is `over` when storage is purged or the purge is queued. Evictions,
wakes, replays, builds, writes and timers are stutters, so none of them may change what the client could notice.

### CodegenService

Time is counted in ticks, windows are hours and days. A request is a chain of awaits, and `req[r].pc` says
at which one it is.

| code | model |
|---|---|
| `handleGenerate` / `handleHealth` to the first await; `verifyTurnstile` | `Arrive`; `SiteVerify` |
| `RateLimiter.check` before, at and after `blockConcurrencyWhile` | `Ask`, `Enter`, `Decide` |
| body; container with its retry; probe | `Body`; `Dispatch`; `Probe` |
| session cookie, minted and promoted | `issued`, `Promote`, `jar`, `Valid` |

As an `AtomicBudget` (`AtomicBudgetSpec`): a budget is a kind of request with one of its windows and the number of that
window; a request draws on its budgets from `Ask`, where `check` fixes the windows, and is judged at `Decide`. What it read
at `Enter` is nowhere in the abstract state, so nothing may make it wrong in between.

### FormPreview, CodePreview

Studio and worker are joined by two queues of messages. A build is a member of `builds` (`runs` in CodePreview) while it
is suspended, and builds end in any order. Files are their revision, whether they parse, and the curated namespaces
merged into them; what is made from files carries what it was made from, so a property can tell a stale result.

| code | model |
|---|---|
| the user, with the effects React runs at once | `Select`, `Edit` (FormPreview); `View`, `Hide`, `Revise` (CodePreview) |
| a merge of curated files rendered, and its effects | `Commit` |
| `preview:*` messages, `runPreview` before and after its await | `Handle`, `RunPreview`, `Built`, `Reply` |
| `codegen:*` messages, `runCodegen` with two awaits | `Take`, `RunCodegen`, `BuildDone`, `GenerateDone` |
| answers in the studio | `Drop`, `Stale`, `Resolved`, `Unresolved` (FormPreview); `Receive`, by id (CodePreview) |
| `documentsCache`, `previewSchemaCache`, `codegenGenerateCache` | `docs`, `cache`, `generated`, each with its version |
| `requestHydration`; the hydration effect of `App.tsx`; `onHydrationChanged`, its timers | `RequestHydration`; `Reparse`, `HydrationParsed`; `Notify`, `Retry` |

### InstanceStore

Workspace directories are functions from instances to versions. `Put` is the common part of `createInstance` and
`updateInstanceData`; `Persist` appends to the queue of the instance, bound to the workspace of that moment; `RunOp`
settles its head, in success or failure; `Open` is `setOpfsContext`; `List`, `ReadFile`, `Apply` are
`loadInstancesFromOpfs` between its awaits; `Validate` and `Validated` are question and answer of the worker. `home`,
`saved` and `failed` are ghosts.

### GraphSourceSync

One file; an element is a declaration, or a part of one that an edit replaces as a whole. It shows the edit it stems
from and whether its attributes are gone though no edit removed them (`bare`); `Attributes` says how many it has after
each edit. Every edit gives its element, as the worst case, a new length: a slice of the baseline is right exactly when
baseline and stamped text agree on the element and on all before it, otherwise it is `Torn`.

A parse may come without the attributes of any elements (the parse worker is gone: types without attributes, and no
error). `Degraded` is the code's test, which counts: a parse is refused if the graph has three attributes or more and
would keep fewer than half. It cannot tell a stripped parse from a user who deleted as much, and it lets smaller losses
through; the model has both errors. Other files of a workspace count too and only raise the totals; elements appear in
both graph and parse here, as the code compares only those. How many attributes a torn element has is open.

| code | model |
|---|---|
| `handleSourceChange`; `handleFilesChange` with its pause | `Type`; `Save`, then `Parse` |
| `mutateGraph`; the write-back effect and `renderNamespace` | `MutateGraph`; `WriteBack`, `Rendered`, `Intact`, `Dirty`: together `Draw` |
| `applyParseResult`, `loadModels`, `isDegradedReparse` | `ApplyParseResult`, `LoadModels` (`Rebuild` or no change), `Degraded` |
| `reconcileParse`, `patchAlreadySatisfied` | `Replays`: `Reconciled`, or the parse alone if a patch is `OutOfReach`; `Unsatisfied` (objects are never equal: `Opaque`) |
| tokens of edits and of reference models | `Current`: `token`, `merges` |
| merge of models; hydration (restarted by an edit); `linkDocument` | `MergeModels`; `Hydrate`, `Hydrated`; `Link` |

`seen` is history for the properties: what was typed and drawn since the last load, what that load had lost, whether
the last models were refused, and the exceptions below.

### WorkspaceRecords

A record is the set of bundles it binds. React's rendering and the effect that persists bindings belong to the step
that set the state (`Render`). A restoration has two awaits that matter: its files, and its parse.

| code | model |
|---|---|
| `restoredWorkspace` with its `curatedModels`; `curatedSyncedWorkspaceId`; `models` | `open`, `bound`; `gate`; `loaded` |
| `handleSwitchWorkspace`, then `restoreWorkspace` to its parse; after it | `Switch`, then `Restored` or `NothingThere`; `Synced` |
| `bootRestore` after a reload; `handleFilesLoaded` | `Boot`; `CreateWorkspace` |
| `handleReset`; `handleCreateWorkspace`; `handleDeleteWorkspace` | `Close`; `StartPage`; `Delete` |
| `load` (with what the registry says it depends on), `unload` | `LoadBundle`, `UnloadBundle` |

IndexedDB serves transactions in the order they are asked for, so a write is part of the step that asks for it. Loading
a curated bundle takes metadata only and waits for nothing. `own`, `fresh` and `mixed` are ghosts.

## 3. Runs

| run | asks | bounds, and why they are enough | distinct states |
|---|---|---|---|
| `ownership_duel` | invariants, refinement of `SingleWriter`, hand-over, liveness | 2 tabs (the tiebreak is pairwise); 3 claims, 1 takeover, 1 release, 1 close, so a claim can meet every other operation and be tried again | 3,535 |
| `ownership_three_claimants` | does a contest always have a winner? No | 3 tabs, one claim each: the smallest case of a claim-deny heard by a third party | counterexample |
| `git_sync` | trees, lease, badge, markers, liveness; faults of the network and saves during a run | 2 edits a side, of which one pair clashes: a conflict, a clean merge and a second save in one behaviour | 22,393 |
| `git_restart` | committed edits over reload, leaving, local faults and every policy | 2 engines, one after the other; 6 commits | 48,782 |
| `git_edit_during_sync` | "no network outcome can lose edits"? It can | no edits clash; only a save during a run is allowed | counterexample |
| `git_reload_in_conflict` | are markers never pushed? They can be | only a reload is allowed | counterexample |
| `workspace_files` | all of WorkspaceFiles, with faults and reloads | 2 model files and 1 other, so a file can be dropped while another stays; one text, because which save wrote it shows in the path set; one followed call, the others anonymous | 330,390 |
| `files_pull_behind_editor` | does a collaborator's change survive a save? No | no fault at all | counterexample |
| `lsp_session` | all of LspSession, with a Langium that may fail to load; refinement of `SteadyServer` | 2 documents, 2 texts, `MaxBehind` = 1: one frame sent, waiting or queued at a time; handshake, shutdown, disconnect, builds and writes still overlap | 186,725 |
| `studio_parts` | all properties of the six last modules | next paragraph | 607,326 |
| `code_preview_after_edit` | does the code on view follow an edit? No | one language, one edit | counterexample |
| `graph_edited_twice` | does a replayed patch ever bring back a value changed later? It does | 2 elements of one attribute, so no parse is refused; 2 edits, no fault | counterexample |

`studio_parts` runs one of six modules per behaviour (`part`, chosen in `Init`): they share no state, so a product
would only multiply their states. Bounds: *service*, three requests (all generate, or probes around one), caps of 1 and
2, two hours of one day: an hour and a day can be spent, separately. *form*, two targets, of which one needs a namespace
that needs another; 2 attempts, 1 edit, 2 selections. *code*, two languages, 2 questions, 1 edit. *store*, one instance
(instances never meet), two workspaces opened 3 times in all (the last time another one than before), 2 versions, 1
failure. *trip*, two elements of which one is opaque, 3 edits, 1 load from elsewhere, 1 failing or stripped parse;
element 1 has three attributes that edit 1 deletes, element 2 has one, so that stripped parses and whole ones are both
refused and both taken. *records*, two workspaces, two bundles of which
one brings the other, two restorations at once, any number of reloads; a behaviour ends when bundles are mixed up.
Larger instances of each, checked by hand without an error: form with a second target in need, 1.4 M states; code with
2 edits, 273 k; store with any three openings, 331 k; trip with 4 edits, 2.9 M, with two loads from elsewhere, 1.5 M,
with two faulty parses, 308 k, with three elements, 1.1 M; records going on after a mix, 578 k, with three
workspaces, 349 k.

Deadlock is checked in `workspace_files`; the other runs reach states in which tabs, engines or sessions have really
ended and nothing is left to do. No symmetry is used: liveness is checked in the same runs.

### Properties

- **Ownership.** `AtMostOneOwner`: two owners only while a takeover between them is on its way. `NoClaimUnopposed`: a
  claim never goes on undisturbed beside an owner or a rival. `SingleWriterSpec`: refinement. `HandoverWithoutGap`: a
  takeover never leaves nobody owning.
  `ContestHasWinner`: a claim leads to an owner unless someone releases or closes.
- **Git.** `IdleMeansPushed`, `MarkersNeverPushed` (without reloads), `ButtonsWork` (the badge offers a choice only
  while it is awaited); `StagedEditKept`, `CommittedKept` (what of "no edit
  is lost" does hold), `TheirsKept` (the lease); `EditsGetCommitted`.
- **Files.** `LastWrittenWins` (the disk has the last snapshot reported written), `UnknownFilesKept` (a save spares
  what the editor does not know), `NoResurrection` (nothing recreates a deleted workspace), `EveryCallSettles`.
- **Session.** `SteadyServerSpec`: refinement (each frame is taken once and in order, no edit falls into a hibernation,
  each request is answered at most once). `WakeIsInvisible` (no answer the client did not ask for), `BuiltBeforeAsked`
  (a wake links before it serves), `NothingLeftBehind` (a purge is final); `EveryRequestAnswered`, `GoneIsPurged`.
- **Service.** `WithinBudget`: no window admits more than its cap. `AtomicBudgetSpec`: refinement, so caps are exact in
  both directions, and a request is charged to all its windows or to none, however requests overlap.
  `SessionsAreEarned`: a cookie comes from a challenge that was solved, counted and answered with code.
- **Previews.** `ShownIsCurrent`, `GivesUpOnlyWhenSpent`, `CacheIsOfItsVersion` (form); `CodeIsOfItsSource` (the code
  shown is in the language asked for and no older than the question, and cached code is of its version). What the worker
  caches under a version was made from the files of that version, although they may be replaced while it builds.
- **Instances.** `InstancesStayHome`: nothing crosses workspaces, and a queue that has run dry leaves the last write or
  delete on disk. `ErrorsAreOfTheData`: with no answer on its way, what is said of an instance is about its data.
- **Graph.** `GraphEditsStayLocal`: a graph edit writes its element and no other that the user has not typed into, and
  costs no attributes unless a parse was let through that had lost them. `SettledIsParsed`: once nothing is under way,
  the models are those of the text shown, and the graph's too unless it refused them.
- **Records.** `BindingsAreOwn`: a record binds what was loaded in its own workspace, no less and no more, through
  switches, reloads in the middle of a restoration and deletions, except where the code mixes bundles up (section 4).
- **All waits.** `EveryWaitEnds`: a request to the service, "Resolving reference..." and a question about code end.

### Fairness

Weak fairness on what the platform drives: delivery and armed timers (ownership); the debounce timer and the steps of
a run (git); storage answering, with success or an error (files); events, jobs, handlers, builder, answers and timers
(session); the handling of a request (service), the worker with its messages, builds and timers (previews), in
`Running` of `MCStudioParts`. Each behaviour there has finitely many requests, edits and selections and runs one part,
so weak fairness of the whole machinery is enough for each wait. Instances, the graph and records are checked for safety
only, without fairness. Users, clients, the clock, collaborators, reloads, hibernation and faults owe nothing. Storage
and network promises do settle in a browser; a fetch that never settles would hang a run, and the code has no net under
it.

### Timing

- `Timely` (ownership): a claim window outlasts the round trip of its claim. Without it the code has no way to know of
  an owner and elects two; a background tab whose timers are throttled can get there.
- The five-second nets of the session fire only when what they wait for cannot come, unless "slow" is in `Env`.
  `NothingLeftBehind` and `BuiltBeforeAsked` also hold with "slow" (checked with one document); `SteadyServerSpec`
  and `WakeIsInvisible` do not: the object may hibernate before the edit reaches storage, and a replay that goes on
  unanswered shows the client a reply to a handshake it never sent, or "not initialized", against the comment at
  `session.ts:763-764`.

## 4. Findings

1. **Three claimants may all lose** (`ownership_three_claimants`). A claim-deny names no addressee, so a tab that is
   not meant gives up too (`multi-tab-broadcast.ts:200`), against "lexicographically smaller `tabId` wins" (15-16).
2. **An edit saved while a sync runs can be overwritten** (`git_edit_during_sync`). It is saved after `stageAll`, a
   collaborator's push merges without a conflict, and the forced checkout that ends the merge (`git-ops.ts:150`) puts
   the merged commit over it; the design says no network outcome can lose edits. The checkouts of a fast-forward (136)
   and of `restoreLocal` (180), and a conflicting merge, which writes its marked tree, do the same to such an edit.
3. **Conflict markers can be pushed** (`git_reload_in_conflict`). A reload during the dialog leaves them in the
   working tree; the next run commits them, and "keep mine" force-pushes that commit.
4. **A save reverts a collaborator's change** (`files_pull_behind_editor`). The pull updates the disk, not the editor;
   the next save of any file writes the old text of all of them, and the sync pushes it.
5. **The code preview does not follow edits** (`code_preview_after_edit`). An edit's files go to the worker under an id
   of their own; it generates and answers under that id, and the studio drops the answer (`CodegenProvider.tsx:432`).
   FR-017 of `specs/015-rune-codegen-zod/spec.md` asks for an update within 500 ms.
6. **A replayed patch resurrects an older value** (`graph_edited_twice`). Patches are judged one by one against the
   parse (`edit-reconcile.ts:134`): one that the text does not show is replayed although the user has changed the element
   again since, in the code pane or in the graph. The graph contradicts the text until the next parse, and the next edit
   there writes the old value back; the comment at lines 95-97 says that this cannot happen.

Seen while modelling, and excused by a property rather than claimed of the code:

- A graph edit renders from the baseline: text typed since the last load (not parsed yet, or with errors) in *another*
  element is overwritten (`seen.typed`).
- A load of models older than the text (a linked document while the text has errors or awaits its parse; a reference
  model's parse overtaken by an edit) pairs the live text with old offsets, and the next graph edit tears it
  (`seen.misled`), against `useModelSourceSync.ts:321-323` and
  `docs/superpowers/specs/2026-06-05-node-representation-unification-design.md:84`.
- `isDegradedReparse` refuses a whole parse of a text from which the user deleted more than half of three attributes or
  more (`seen.refused`; `editor-store.ts:713-717`). The studio's models are the new text, the graph stays on the old one
  until the text has enough attributes again, and the next graph edit writes the deleted ones back into the file.
  Without the excuse TLC refutes `SettledIsParsed` in three steps (type, parse, load), against the comment at 945-946
  ("a healthy reparse later replaces it"); the comment at 689-692 calls such an outcome, a graph wedged on a real
  clear, what the ratio is to avoid.
- It lets through a parse that lost attributes if the graph has fewer than three, or keeps half; and since it compares
  with the current nodes, it may do so again and again. Patches are cleared, the baseline moves on, and the next graph
  edit of such a node writes it without its attributes (`seen.stripped`; conceded for small models by the comment at
  692-696).
- A reference model's parse has a token that no edit advances (`App.tsx:1088-1093`); when it answers last, the graph
  stays on older models (`seen.excused`).
- A parse for hydration that falls back resolves like any other: `App.tsx` marks the namespaces hydrated though nothing
  of them came, and forgets where to find them (`listed` in `GivesUpOnlyWhenSpent`), against its comment at 249-250.
  Attempts are also spent twice by overlapping answers and by edits during a slow hydration.
- A workspace left and reopened within a queued write of an instance loads the older data; an instance created and
  removed between listing and applying can return to memory, against the comment at `instance-store.ts:335-346`.
- The service reads the body after it has counted the request, so that a body it rejects costs budget; its header
  comment lists the body first.
- Bundles of one workspace reach the record of another (`mixed`), against `App.tsx:418-435`: evicting depends on a
  workspace being open (`App.tsx:440`), so nothing is evicted for a workspace opened after "Close workspace", after "New
  workspace" or after the open one was deleted, nor for one created while another is open. Of two restorations at
  once, each loads its bundles for both, and if the earlier one ends last the gate stays shut for the one that is open.
- Also about records, outside the model: `persistSyncState` (`git-sync.ts:42-48`) loads and saves a record in two
  transactions, so it can undo a binding and bring back a deleted record; a git workspace just cloned never opens the
  gate, so bundles loaded in it are not bound until it is opened again, against the comment at `App.tsx:703-708`; a
  restoration whose parse throws opens the gate before the declared bundles are loaded, and the effect drops them.
- A dependency the user has unloaded is loaded, and bound, again by the next restoration.

## 5. Proofs

Every safety property the runs check is a theorem, for every value of the constants that the column "assumes" allows.
What stands there about time, calls, takeovers or `Env` is needed: TLC finds a counterexample without it, on instances
like those of the runs. Such an assumption says when the code keeps its word, not what its users do.

| theorem | says | assumes, besides the named `ASSUME`s |
|---|---|---|
| `WorkspaceOwnershipProofs!TypeCorrect` | `[]TypeOK` | nothing |
| `!OneOwner` | `[]AtMostOneOwner`, any number of tabs and operations | `Timely`; at most one open claim per tab (`OneCall`) |
| `!ClaimsAreContested` | `[]NoClaimUnopposed` | the same |
| `!ImplementsSingleWriter` | every behaviour is one of `SingleWriter` | the same |
| `!HandsOver` | `HandoverWithoutGap`, with no bound on the claim window | takeovers do not cross (`OneTakeover`) |
| `GitSyncProofs!TypeCorrect` | `[]TypeOK` | nothing |
| `!CommittedEditsAreKept` | `CommittedKept` | `OneRun` |
| `!StagedEditsAreKept` | `StagedEditKept` | `OneRun` |
| `!IdleIsPushed` | `[]IdleMeansPushed` | `OneRun` |
| `!ButtonsAlwaysWork` | `[]ButtonsWork` | no "block" in `Env` |
| `!TheirEditsAreKept` | `TheirsKept` | `Whole`, no "race" |
| `!NoMarkerIsPushed` | `[]MarkersNeverPushed` | `Whole`, no "block" |
| `!NoEditIsForgotten` | `[]NoEditForgotten`: a saved edit has a timer, a request or a run, or the engine has stopped | `Stays` |
| `WorkspaceFilesProofs!TypeCorrect` | `[]TypeOK` | nothing |
| `!DeletedForGood` | `[]NoResurrection`, under any faults and reloads | nothing |
| `!FilesKept` | `[]UnknownFilesKept` | no "reopen" |
| `!LastSaveIsOnDisk` | `LastWrittenWins` of a plain workspace | nothing |
| `!LastSaveWins` | `[]LastWrittenWins` of any workspace | no "reopen" |
| `!NoCallIsForgotten` | `[]NoCallForgotten`: an open call is held by one save, running or queued | nothing |
| `LspSessionProofs!TypeCorrect`, `!WakesAreBuilt`, `!PurgedForGood` | `[]TypeOK`, `BuiltBeforeAsked`, `[]NothingLeftBehind` | finitely many documents |
| `!ImplementsSteadyServer` | every behaviour is one of `SteadyServer` | the same, no "slow" |
| `!NoEditLost`, `!NoRequestIsForgotten`, `!WakesAreInvisible` | `[]ServerHasEveryEdit`, `[]NoRequestForgotten`, `[]WakeIsInvisible` | the same, no "slow" |
| `CodegenServiceProofs!LimiterIsAtomic` | every behaviour is one of `AtomicBudget`, any caps, windows and requests | nothing |
| `!ServiceTypeCorrect`, `!CapsHold`, `!RefusalsAreDeserved`, `!CookiesAreEarned` | types, `[]WithinBudget`, `[]RefusedOnlyWhenSpent`, `[]SessionsAreEarned` | nothing |
| `PreviewProofs!CodeTypeCorrect`, `!CodeIsRight` | types, `[]CodeIsOfItsSource` | nothing |
| `!NoQuestionIsForgotten` | `[]AnsweredOnce`: a panel waits if and only if its question or its answer is under way | nothing |
| `!FormTypeCorrect`, `!CachesKeepTheirVersion`, `!PanelIsCurrent`, `!NoRetryIsLost` | types, `[]CacheIsOfItsVersion`, `[]ShownIsCurrent`, `[]GivesUpOnlyWhenSpent` | nothing |
| `InstanceStoreProofs!StoreTypeCorrect`, `!InstancesAreHome`, `!ErrorsAreCurrent` | types, `[]InstancesStayHome`, `[]ErrorsAreOfTheData`, any instances, workspaces, failures | the bounds are naturals |
| `EditorProofs!RoundTripTypeCorrect`, `!SettledIsParsedAlways`, `!GraphEditsStayLocalAlways` | types, `[]SettledIsParsed`, `GraphEditsStayLocal` | nothing |
| `!RecordsTypeCorrect`, `!BindingsStayOwn` | types, `[]BindingsAreOwn` | nothing |

In `GitSync`, `OneRun` says that the user does not both save while a sync runs ("edit") and leave the workspace and come
back ("switch"); `Whole` is `OneRun` with no page that dies ("reload") and no local git step that throws ("local");
`Stays` is no "switch" and no "reload"; "block" is a policy that answers block, "race" a push of somebody else between the fetch and the force push of a lease.
With "edit" and "switch" a disposed engine and its successor work on one repository: TLC refutes `CommittedKept`,
`IdleMeansPushed`, `TheirsKept` and `MarkersNeverPushed`, and `StagedEditKept` when besides a page dies, a local step
throws or a policy blocks. `TheirsKept` also fails with "reload", with "local" and, with
two pushes of somebody else, with "race"; `MarkersNeverPushed` with "block", "local" or "reload"; `ButtonsWork` with
"block"; `NoEditForgotten` with "switch" alone and with "reload" alone, because both drop the timer and the next engine
learns of the edit only from the next save. "slow" is section 3, "Timing"; a workspace reopened while a save of it runs ("reopen") breaks
`UnknownFilesKept` and `LastWrittenWins`, because the load replaces the baseline under the save.

### Arguments

*OneOwner.* `AtMostOneOwner` is not inductive: two tabs become owners when two timers fire, so one has to know that
while a claim is open next to an owner or another claim, something that will end it is on its way. `IInv` adds
`OwnerWillAnswer`, `TiebreakPending` and `ClaimIsWhole` (an open claim can be ended at all: its timer is the one the
slot names). `ClaimIsWhole` needs one call per tab; with two, the first timer escapes the slot and the claim is fatal.
`ClaimTimeout` is the only step that creates an owner by itself, and `Timely` says that no message of the claim is then
left. Lemmas about channels (what `Post` and `Take` keep) carry the rest. The refinement maps `holders` to the owning
tabs and `notices` to takeovers on their way.

*HandsOver.* `Taken`: all notices of a takeover come from one tab, and it owns the workspace unless somebody has
released it or closed. So a tab that steps down leaves an owner. Two takeovers depose each other; hence `OneTakeover`.

*GitSync.* `SchedInv` says that one engine runs at a time and a timer never runs for a dead one. `OwnInv` follows the
user's edits through that one run: what is committed is in the local branch, and the badge says idle only when the
remote has it. `BadgeInv` ties the badge to the place of the run. `TheirsInv` says that every branch keeps its history,
that only a run between a write of the branch and its checkout is behind in the working tree, and that a lease still
describes the remote; `MarksInv`, that no commit has markers and where a run is while tree or index has them. That a
merge keeps both sides rests on lemmas about branches, and these on a least element of a set of commits.

*NoEditIsForgotten.* `Remembered`: with no engine there, a save that is not committed is in `pendingDirty`. A step of a run
leaves an edit uncommitted only if it was so before (`NoneForgotten`), and a conflicting merge mixes committed edits only
(`Placed`); so what the step does not take was attended before it, by a timer or a request that it leaves alone.

*NoCallIsForgotten.* `NoCallForgotten` is inductive: the calls waiting are those of the two batches, which share none.

*DeletedForGood.* The invariant `Buried` says that once the directory is gone no run is active and no call can start
one: the tombstone stays, or the page that held it has died and nothing opens the workspace again.

*FilesKept, LastSaveIsOnDisk.* `GitInv` relates the pruning baseline, the editor's paths and the paths of queued and
running saves to the files the editor has not met: none of the first is ever among the last. `PlainInv` follows a
plain save: after the prune the disk is the snapshot without the paths still to be written.

*LastSaveWins.* A git-backed save does not prune, it unlinks what it knows: `InGit` says that unless a save has failed,
the baseline, and then the running save, has every file an earlier save left on disk (`KnowsItsFiles`), and that what is
written so far has the texts of the snapshot (`WritesItsSnapshot`). The baseline is complete because nobody saves while
a load reads the directory (`ReadAlone`), which "reopen" would break.

*LspSession.* `BuildInv`: an object whose gate is shut has no server at work (`Dormant`), the last update queued for a
document is what became of it, and what is not parsed will be; so a wake that leaves "linking" has built what it
replayed. `Calls`: initialize is the first frame, shutdown the last, and the job queue never has a write behind a purge;
so a purge is final. `Sound` adds that the documents are those of the server while there is one and those in storage
while there is none (`Told`), that storage has, or the last write queued will bring, each text the builder has done with
(`Mirrored`), and that a wait registered with `waitUntil` keeps the memory until then (`Settles`). The net of five
seconds ends such a wait, hence no "slow".

*ImplementsSteadyServer.* `Whole` adds two parts to `Sound`. `Detached`: an open object without a transport
has lost its client, and a request at the server keeps the memory. `InFlight`: a request the client waits for is in one place and only one: on the line, at a handler
that waits for storage, or at the server; so an answer is the first and the last one. Then each action is matched with
the step it takes: what the client does is `Send` or `Leave`, a handler that takes a frame is `Take` or `Refuse`, an
answer is `Answer`, a shutdown or a close is `End`, and for all else the mapped state stays. The steps that move documents
between memory and storage are the ones that need `Mirrored` and `Told`: hibernating and waking must not be seen.

*CodegenService.* `Locked`: only the request inside `blockConcurrencyWhile` is between its reads and its writes, and it
has read what the counters still say. From that `Exact`: a counter is the number of requests admitted in its window, at
most its cap; and `Deserved`: where somebody was refused a window is full, and full it stays. For *LimiterIsAtomic*
`Enter` is a stutter and `Decide` is `Admit` or `Refuse`: by `Locked` the counters are still what was read. Nothing else
draws or judges: once asked, the windows and the verdict of a request are never touched again.

*CodePreview.* Nothing has an id that was not given out (`IdsGivenOut`); the worker's version counts the revisions it
was sent, so two texts share a version only if they are the same (`Versioned`); revisions arrive in order (`InOrder`);
whatever has the id of the last question is about its language, from a text no older than the question (`Answering`).
For *NoQuestionIsForgotten*, `OnePlace`: the last question is with one message, one run or one answer, and with none once
the panel shows what came of it; so a second answer never replaces the first.

*FormPreview.* A version is of one state of the worker's files (`Tagged`). The current request is the last message
(`InTurn`), so its answer is for the chosen target and from the files the worker has (`AnswersTheCurrent`), and these
are the studio's once no message with files is on its way (`FilesOnTheWay`, `TargetOnTheWay`). When it has been answered
the panel says so (`PanelSays`). A form that lacks something has a timer running, waits for a namespace that is being
parsed, or has spent its attempts (`KeepsTrying`).

*InstanceStore.* `HomeInv` adds, per instance, what the property does not see: nothing exists of an instance before it
is created (`Unmade`); the queued operations, loads under way and files asked for are of its own workspace (`AtHome`);
a queue ends with what the disk was last asked to be (`Heard`). `Open` is harmless because it empties memory and touches
no queue, `Apply` because it compares workspaces first. `AnswersToCome`: an instance in memory has errors of its data or
a pending question with the latest number; no question has a later number, and one with the latest number is about the
data in memory.

*GraphSourceSync.* Between two parses the baseline is the text the offsets index, and an element the user has not typed
into shows its node if it has a patch and its slice if it has none (`Local`): so each slice is right, however many edits
are drawn. Models are of the text, or a parse of it is to come (`OnItsWay`, `JobsAreOfTheFile`). A patch is younger than
the text the graph was loaded from (`PatchesAreNew`), and an element differs from that text only where it was edited
since (`SinceTheLoad`, as long as the last models were not refused): so a replay after a parse brings back nothing
older, except on elements edited twice. A node without attributes was loaded like that (`BareNodes`). How
`isDegradedReparse` decides plays no part: a load is taken, or it leaves the editor alone.

*WorkspaceRecords.* When nothing is restored, the store, the record and the copy of the record agree (`Steady`); a
workspace that is not mixed up is restored alone, from its record (`Alone`), while its files come the store holds none
but its own bundles (`Reopening`), while it is parsed nothing it will not bind (`Opening`); what is loaded with no
workspace open stays until one is (`FreshIsLoaded`).

Each invariant was found with TLC and is written as a conjunction of named parts. Those with parts that no run checks
were checked by hand on instances like those of the runs: `LspSession` with 1 document, 2 texts and `MaxBehind` up to 3,
and with 2 documents (the refinement and `NoRequestForgotten`: 130,005 and 186,725 states; with "slow" both are refuted); `CodePreview`, 2 revisions and 2 questions, 273,581 states; `FormPreview`, 209,980 states, and
5,419,133 with a second target in need; `GraphSourceSync`, 2 elements and 3 edits with 2 loads from elsewhere, 1,471,960,
and 3 elements, 1,065,085; `WorkspaceRecords` going on after a mix, 578,056, and with three bundles, 17,649,084;
`WorkspaceFiles`, 330,390, and `NoCallForgotten` with "reopen", 1,134,987; `AnsweredOnce`, 2 edits and 3 questions,
6,969,371; `NoEditForgotten` with everything in `Env` but "switch" and "reload", 160,413. The assumptions on constants are evaluated by the runs.

## 6. Only model-checked

- Liveness: `ContestHasWinner`, `EditsGetCommitted`, `EveryCallSettles`, `EveryRequestAnswered`, `GoneIsPurged`,
  `EveryWaitEnds`. Fairness and `ENABLED` are out of reach of the prover used here. So are induction over data and
  `RECURSIVE` operators; no module needs either. What is proved of these waits is their safety half: that whoever has to
  end a wait is there all the time (`NoEditForgotten`, `NoCallForgotten`, `NoRequestForgotten`, `AnsweredOnce`, and
  `ShownIsCurrent` with `GivesUpOnlyWhenSpent` for the form). Only that it moves is left to TLC.
- `TypeOK` of `MCStudioParts`, as a whole: it says that the part chosen is well typed, and each part is a theorem.

What the models leave out:

- *Ownership*: several workspaces (the maps are keyed by workspace, so they do not interact).
- *Git*: the registry of status subscribers, `persistSyncState`, the proxy and the token; file contents beyond which
  edits they hold; the user's own git commands.
- *Files*: nesting of directories, folder-backed workspaces, curated files (never stored), two tabs at once, a sync
  that writes into a directory while it is being deleted.
- *Session*: cancellation, server-initiated requests, diagnostics, a build that throws, limits on frame size.
- *Service*: bodies and their size limit, the list of languages and its cache, log lines.
- *Form preview*: deselection, sample values and their validation, execution of functions, a crash of the worker; the
  window in which a merge of curated files may overwrite an edit that is not committed yet.
- *Code preview*: the choice of the file, downloads, a crash of the worker, an answer without files. 'stale' is kept,
  though no step reaches it: every question starts from an empty panel.
- *Instances*: schemas of types, unreadable files, a worker that is not there yet. `removeInstance` is modelled though no
  panel calls it yet.
- *Graph*: elements created, renamed or deleted, edges and inheritance, patches that no longer apply for another reason than lost attributes, undo (not wired in
  the studio). `Draw` takes the edit and the effect that writes it back as one step; a graph edit leaves a valid element.
- *Records*: tabs, layout, names and `structureView` (nothing calls its store's `setWorkspaceId`); git-backed
  workspaces; models from custom URLs; a parse that throws (the parser falls back to the browser); the few
  milliseconds between two transactions of one handler.

## 7. Plan

Done in the order of their weight: ownership, git, files, session, then service, previews, instances, graph
and records. Left:

1. `WorkspaceRecords`: git-backed workspaces and `persistSyncState`; a restoration that evicts what the last open
   workspace left would let the excuses of `BindingsAreOwn` go.
2. Structural edits in `GraphSourceSync`: create, rename and delete shift the indices patches are made of.
3. The language client of the studio: reconnecting, backing off, falling back to the worker in the browser.
4. Curated publisher with its readers; telemetry shipper; `cycle-detector.ts` and `topo-sort.ts` as functions against
   a reference definition over all small graphs.
5. Composition: `GitSync` and `WorkspaceFiles` on one directory, which would replace the external `Pull`.
6. Proofs: what weaker assumptions still give. `CommittedKept` and `TheirsKept` where a disposed engine overlaps its
   successor but pushes nothing any more; `ServerHasEveryEdit` with "slow" for the edits the builder has parsed.
