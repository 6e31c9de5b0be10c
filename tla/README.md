# A TLA+ development of RepoWitness

RepoWitness keeps a durable index of source repositories for coding tools. Its
loop is: a source changes, a run reads the worktree and builds an *index
generation*, the generation is made visible atomically, memory is revalidated
against it, and readers answer from it with evidence. This directory models the
parts of that loop whose correctness depends on order: concurrent edits, crashes
between transactions, failed steps, retries, lost events and retention.

Paths below are relative to `src/crates/`; `local/` stands for
`repowitness-local/src/` and `application/` for `repowitness-application/src/`.

## Inventory

| Component | State | Operations | What is hard | What makes it correct |
|---|---|---|---|---|
| Generation store (`local/sqlite/writer/`) | workspaces, generations, slots, receipts, views in SQLite | ensure, connect, reserve, stage, complete, publish, activate, recover | staging is several transactions; recovery must know what is still reachable | readers only ever see complete views, and never go back |
| Retention (`local/sqlite/writer/retention/`) | the same tables, memory rows, overlays, audits of applied plans | plan, apply, replay | the store changes between a plan and its application; snapshots and artifacts are shared; the work has a row limit; ids are reused if the newest row goes | nothing reachable is deleted, an application does what was shown, no id means two things |
| Source capture (`local/rust_index/`, `local/source_state.rs`) | none that lasts | prepare, final fence | the worktree changes under unlocked reads by several git processes | what is confirmed is one state of the repository |
| Index runs (`local/local_index.rs`, `local/local_index/`) | the mutation lease | index, reconcile, resume | a crash between completion and activation; parts staged separately | whole generations; success is fresh; the index converges |
| Watch service (`local/local_index/polling_runner.rs`, `local/watch_reconciliation/`) | schedule, hints, deadlines | turn, observe, attempt, complete, cancel | events lost, in storms or during an attempt; retry budget; five deadlines | every change is reconciled, with back-off, without spinning |
| Writer worker (`local/sqlite/worker/`) | one-place command channel, unresolved-mutation flag, the lease | start, send, execute, reply, shut down, drop | a reply deadline that expires while the writer commits; a handle dropped before its worker | nothing queued behind a mutation of unknown outcome commits; a later session starts after an earlier one has ended |
| Connected indexing (`local/local_index/connected_workspace/`) | several slots, one view | prepare all, stage and complete each, confirm all, publish, reuse | failure after some slots; edits to one worktree while another is read | a success is one state of all worktrees; a failed run leaves the view alone |
| Memory records (`local/memory_management/`) | one file per record, a write lock | write, approve, synchronise, import history | editors and Git do not take the lock; a crash between link and unlink | no update is lost between writers |
| Memory journal (`local/sqlite/writer/memory.rs`, `local/memory_revalidation/`) | versions, approvals, projection | select a head, merge, revalidate, publish, recall | source, HEAD and journal move during an evaluation | recall shows only what was approved and evaluated at the active generation |
| Task checkpoints (`local/local_task.rs`, `local/sqlite/writer/task.rs`) | numbered checkpoints per task | create, append, verify, poll, list | two appenders, or a retry of an append that had committed, with the same number | checkpoint numbers have no gap and no duplicate |
| MCP server (`repowitness-mcp/src/server/`) | operation permits | admit, run, cancel, settle | a deadline or a cancellation racing the receipt of a committed mutation | bounded concurrency; a committed mutation is not reported as failed |
| Graph traversal (`repowitness-analysis/src/rust_graph/traversal/`) | none that lasts | trace, impact | five limits that interact; classes depend on the order of edges | complete unless flagged; an impact is never overstated |
| Languages, SCIP (`repowitness-analysis/src/`) | none | extract, decode | limits | deterministic results |
| Readers (`local/sqlite/reader.rs`, `application/`) | a pinned view | search, recall, context | a view that changes meanwhile | one view per answer |

Components interact as follows. The command line or the polling runner starts a
run. A run takes the mutation lease, prepares from the worktree, starts the writer
(which recovers the store), reserves the next epoch of its source slot, stages a
generation and its parts, passes the final fence, completes the epoch and
activates the generation. Readers have their own connections and see only what
the store has published. The store's calls are messages to one writer thread.

## Modules

| Module | Models | Extends or instantiates |
|---|---|---|
| `GenerationStore` | the durable store, recovery, sweeps | instantiates `PublishedViews` |
| `PublishedViews` | the contract readers rely on (abstract) | |
| `Retention` | retention plans, their application and replay, shared content | extends `GenerationStore` |
| `SourceCapture` | preparation and final fence over a changing worktree | |
| `Indexing` | index, reconcile and retention runs over the store | extends `GenerationStore` |
| `ConnectedIndexing` | runs over a connected workspace | extends `GenerationStore` |
| `WatchScheduler` | polling runner, schedule, hints, event backend | |
| `WriterWorker` | writer sessions: handle, queue, thread, lease | |
| `LocalMutations` | mutating operations and their reports, MCP supervisor | extends `WriterWorker` |
| `MemoryFiles` | the file of a memory record and its writers | |
| `EngineeringMemory` | journal, team synchronisation, revalidation, recall | extends `MemoryFiles` |
| `GraphTraversal` | bounded traversal and impact over one generation | |
| `GenerationStoreProofs` | theorems about the store | extends `GenerationStore` |
| `IndexingProofs` | theorems about index, reconcile and retention runs | extends `Indexing`, `GenerationStoreProofs` |
| `GenerationLifecycleProofs` | theorems about connected runs and about retention | extends `ConnectedIndexing`, `Retention`, `GenerationStoreProofs` |
| `SourceCaptureProofs`, `WatchSchedulerProofs`, `LocalMutationsProofs`, `EngineeringMemoryProofs`, `GraphTraversalProofs` | theorems about their component | extend their module |
| `MC...` | constants and symmetry for TLC | |

Operators whose names contain an underscore (`Recoverable_ForgetsViews`) are
faulty variants. No action uses them; each is the mistake one property is there
to catch, and putting it in place of the definition it varies breaks that property.

### GenerationStore

The variables are columns: `repoEpoch` and `activeGen` of `workspaces`,
`lifecycle`, `genRepo` and `genEpoch` of `index_generations`, `slotOwner`,
`slotRepo` and `slotEpoch` of `workspace_source_slots`, `receipt` of
`source_slot_generation_receipts`, and `views` and `activeView` of the view
tables. All of them survive a crash; `open` and `staging` are the writer's own and
do not. `lastIssued` is a history variable.

A command is one IMMEDIATE transaction and one action. Staging is not: every
lifecycle transition of `stage_generation_rows` commits by itself, so `Stage` (or
`StageSourceSlot`) creates the row and `StageAdvance` is repeated until the
generation is ready, with `Stop` possible between any two. `StageAbort` is the
error path, with the best-effort update of `fail_generation` happening or not.
The triggers of the schema that reject a command are guards: a published
workspace's slots are frozen, a slot epoch moves to its successor only, a receipt
is never replaced.

A view is a record of one epoch and one generation per member slot.
`PublishWorkspaceView` demands a receipt at the current epoch of every slot;
`Activate` publishes the default view of one repository.

`ApplyRetention` collects any non-empty set of eligible generations. The code
collects what its plan, limits, pins and memory references leave of that set, which
`Retention` models; here the model is more liberal, so what it preserves the code
preserves too.

`PublishedViews` states what readers may see: generations become readable, a
workspace switches to a later view whose members are all readable, and
generations no current view names may disappear. A later view has the same
members, and shows another generation only at a later epoch.

### Retention

The order of candidates in a plan, by slot identity, epoch and generation, is a
relation (`PlannedBefore`); `FirstPlanned` is the part of the eligible generations that
a limit leaves. Slot identities are compared by an arbitrary injective rank
(`SlotRank`), since only their order matters.

The module adds to the store the content that generations share (`snapshots`,
`artifacts`), the memory rows that cite it (`citations`, `projected`), SCIP overlays,
the audit of applied plans, the plan an operator holds (`shown`) and the last
`answer`. `PlanRetention` reads the database at any time, without the lease, even
while a run is staging. `BuildPlan` consumes a row for every root and eligible
generation and reserves twice the estimated rows of every candidate, as
`build_retention_plan_with_budget` does; the digest of a plan is the record of what
is hashed. `ApplyShown` builds the plan again and refuses another digest; a digest
in `audits` is answered without looking at the store (`ReplayRetention`). Between
plan and application runs publish and crash, memory is captured and projected, and
overlays are imported.

`ConsumedRows` is what marks, deletions and audit row amount to once the
reservations are released. It is computed from the shared state, independently of
the estimate, and an application that exceeds the limit is rolled back
(`ExceedLimit`).

Abstracted: a file is one artifact without facts, graph rows or syntax sites, whose
tables follow their generation or artifact; bytes are counted in rows; pins are
explicit generations; plans that collect nothing are not kept. Snapshots and
artifacts are stored in the same step as the generation that needs them, so the
orphans of a crash between the two, which no plan looks at, do not appear. The
triggers that guard the marks are left out: that they never have to fire is part of
what is checked.

### SourceCapture

Preparation reads HEAD, the status records, the tracked paths, the path set and
the bytes of each selected source, one after the other and without a lock. The
final fence collects HEAD, status, paths and bytes again, checks each path and
each file once more, and then HEAD and status a last time. `Edit` and `MoveHead`
fall between any two of these steps. A status record tells deletion from
modification but not one content from another, as porcelain status does.

`reverted` records whether something took back an earlier value during the
attempt. Without that the fence's guarantee is strong (`ConfirmedIsOneState`,
`ConfirmedIsFresh`); with it, it is not (see *Where the documents and the code
differ*).

### Indexing

A run is a record with a phase. `Begin` takes the lease, `Prepare` yields a
candidate snapshot, which may be any mixture if the source changed meanwhile
(`torn`), `StartWriter` recovers the store, and `Inspect` decides as
`reconcile_prepared_local_source` does: confirm the active generation, resume a
completed one, or publish a new one. `Fence` stands for the final fence as one
step, with the guarantee `SourceCapture` shows of the code's fence, which reads path
by path and file by file: as long as no edit was taken back while the run read the
source, it confirms the candidate if and only if it is the source. After such an edit
(`reverted`; `past` holds the snapshots the source may return to, and an edit of one
file may be taken back in a snapshot that is new) it may confirm or refuse any
candidate. Graph, syntax sites and topology are *parts*: a requirement is recorded,
rows are staged, the publication of the part is completed. The model merges the
rows into the completion. `Abandon` ends a run at any point, by an error, a
cancellation, a deadline or a crash.

The generation's parts have to be on record before activation (`required` is a
subset of `built`), but a generation none of whose parts was ever required passes
that check; that no such generation is activated follows from the order of the run.

### WatchScheduler

`sched` is `WatcherPollingState`, `hints` the accumulator, the other variables the
loop of `run_with_environment`. Deadlines are represented by the time left, which
keeps the state space finite without bounding time; the runner reads the clock
once per turn, so time passes only while it waits or reconciles. `Change` is a
change of the source whose event reaches the queue or is lost. The native backend
reports only unsupported events (`Path` empty); the interface also admits backends
that report paths.

Left out: clock regression and overflow of 64-bit timestamps and counters, which
no process meets in its lifetime; diagnostic counters; the outcome
`PollingAttempt::Cancelled`, which only tests produce; and the 10 ms granularity
of the wait.

### WriterWorker and LocalMutations

A session is one `OwnedSqliteIndex`: a handle its users hold and a thread that
owns the connection, joined by a queue of one command. The thread owns the
mutation lease, so a handle may be dropped (`Drop`) while the thread still
finishes what was queued. Executing a command, committing it and replying are
separate steps; between them the caller's deadline may pass (`late`), its
cancellation flag may be raised, the thread may panic and the process may die. A
caller that stops waiting for a mutating command marks the session `unresolved`
before its receiver is gone, and the worker refuses every later mutation of that
session.

`LocalMutations` adds what callers do around a session and what they *report*: an
append from the command line (`task`), a correspondence review over MCP (`review`),
an applied retention plan (`retention`) and an append through a store shared by
threads (`thread`). The order of checkpoint, shutdown and check of the database
path after the answer decides between a receipt, an error and "unknown", and
differs between the kinds. For MCP requests the supervisor's permits, its
cancellation, deadline and resolution interval are actions of their own. `answer`
is a history variable: what the writer said, whatever the operation then reports.

The writer may answer an applied plan with an error of the database or of its thread
that came after the commit (`failed`), for instance when the progress handler cannot
be cleared. Retention looks such an outcome up in the audit and, if that fails, reports
it as unknown (`MapApplyError`, `map_apply_store_error` in the code); all other errors
of a plan are refusals. For the other commands an error other than an unknown outcome
comes before the commit, so it is a refusal at once.

### ConnectedIndexing

A run prepares every worktree of the manifest, then stages, fences and completes
them one after the other, confirms all of them again and publishes one view. All
calls to the store are the actions of `GenerationStore`; a run adds the order and
what was read. A refreshing run first compares the visible view with what it has
prepared and reports success without publishing when they agree. A worktree is a
version that only grows (that edits may be taken back is the subject of
`SourceCapture`), and a reading that an edit crosses yields the version at its end
or `Mixed`, which no version equals. `together` collects the joint versions since
the last milestone of the run.

### MemoryFiles and EngineeringMemory

A writer of a record takes the write lock, reads the current version, writes a
private temporary file, and either links it to the name (a new record) or reads
the current version again and renames over it. Editors and Git replace the file
at any time without the lock; `raced` marks an operation whose second look was
overtaken before the rename, the one window in which an edit is lost. A crash between link and unlink
leaves a file with two names, which every reader refuses until someone replaces it.

The journal holds the versions observed and those approved. `SelectMemoryHead`
looks for the one approved version no approved version names as a parent. The parents
of a version are part of what its digest is computed from, so histories have no cycle
(`Acyclic`).
Synchronisation imports a merge only if the journal has its parents and none of
them has a child yet. Revalidation loads the journal and the active source,
captures the Git state, evaluates the selected head, captures again, and publishes
a projection if the captures agree and no other epoch has been activated or
reserved. Recall serves the projection only
while it names the active generation. Index runs appear as the step that moves the
epoch and the active generation; what an evaluation yields is left out.

### GraphTraversal

A site lies in one declaration and resolves to one target or ambiguously to
several; each pair is an edge. The slice of edges a request works on is immutable,
so the traversal is sequential: a breadth-first search with limits on depth,
results, nodes, visited edges and frontier. Its steps are the selection of a level's
edges, the turn of each of them, and the end of the level; a start at a site first
admits the origins of its edges one by one. `analyze_rust_graph_impact` then goes
through the trace in its order: `BeginImpact`, `Strengthen` for each edge, `Impact`
for the answer. A site's evidence is
direct syntax, resolution by name, extraction by a heuristic, or a candidate list
that a bound cut (`omitted`); the order of edges does not tell the three ranks of syntax evidence apart. The reference definitions, `EndsAt` (the edges with
which walks of a length end) and `Reached` (what the start leads to), speak of walks
through the graph and know nothing of frontiers or limits. Byte accounting,
cancellation and the deadline appear as `Fail`, which ends a request without answer.

## Runs

| Run | Instance | Distinct states | Shows |
|---|---|---|---|
| `connected_views` | 2 repositories, 2 configured slots, 1 connected workspace, epochs 0..1, 2 generations | 337 thousand | views complete, one active generation, epochs agree, completed epochs survive, ids and activation move forward, contract implemented |
| `retention` | 1 repository, 2 snapshots that share an artifact, epochs 0..3, 4 generations, `Keep` 1, plans of up to 2 candidates and 31 rows | 178 thousand | no dangling reference, applications do what was shown, reservations suffice |
| `source_capture` | 3 files of which 2 sources, 3 contents, 2 commits, 3 edits | 3.1 million | a confirmed candidate is one recent state |
| `mixed_capture` | 2 sources, 2 contents, 12 edits | violation (9.5 million states) | a mixture the worktree never held during the attempt can be confirmed when edits are taken back |
| `indexing` | 1 repository, 2 snapshots, 3 disturbances, epochs 0..3, 3 generations | 1.8 million | whole generations, success that is fresh unless an edit was taken back, silence of idle polls, convergence |
| `watch_scheduler` | debounce 1, retry 2, poll 3, periodic 5, 1 retry, queue 2, 2 paths | 176 thousand | all properties of the watch service |
| `local_mutations` | 2 callers in three pairings of kinds, 2 sessions, 1 crash, 1 permit | 480 thousand | honest reports and responses, fencing by the unresolved flag and the lease, bounded tasks, termination |
| `task_reports` | 2 appends to one task from the command line, no crash | violation | a committed append can be reported as an error |
| `connected_indexing` | 2 repositories, epochs 0..3, 6 generations, 3 disturbances | 233 thousand | success is one instant, views move together, convergence |
| `engineering_memory` | 2 processes, 4 versions in two histories, 2 commits, 2 changes, 4 operations, 2 epochs | 2.6 million | updates replace what they were made from, merges do not compete, recall is grounded |
| `graph_traversal` | 3 declarations, 3 sites of two kinds, up to 2 candidates, every limit tightened in turn | 2.9 million | exact traces, conservative impacts |
| `impact_classes` | 4 declarations, 4 unambiguous sites | violation | "possible" although a direct path exists |

Bounds. Two epochs and two generations are the least with which a generation can
be superseded, collected and recovered. `Keep = 0` makes every retained generation
eligible. Four generations over a floor of one leave two to collect, together or in
two plans, with the snapshot of either shared with a generation that stays; one pin,
one captured record, one projection and one overlay suffice to change what is
eligible or counted after a plan was shown; 31 rows admit two candidates only when
few roots are in the way, and an overlay of 12 rows fits some plans and exceeds
others. In `connected_views` two repositories can complete in either order and
disagree in epoch. Three edits are enough for one in preparation, one in the fence
and one that hides another. `mixed_capture` has twelve: two create the sources, and
the rest change each of them before, and take it back after, the reads of preparation
and of the fence's two passes; with eleven TLC finds no violation, and a
candidate that is confirmed is at worst one the worktree held earlier in the attempt. In `indexing` three disturbances can consume four
epochs, one more than there are, so that the exhaustion of epochs is reached; it
is the one escape of `Converges`, as `Exhausted` is of `ConnectedConverges`. The
intervals of `watch_scheduler` are pairwise different so that every order of two
deadlines occurs; `MaxHintPaths = 1` with two paths makes the accumulator overflow,
and `MaxPerTurn = 2` with two queued events the drain.

Two callers and two sessions let one mutation be queued behind another in one
session, and a session start while the worker of the one before still runs; one
permit makes the second MCP request wait. Six generations suffice for two
repositories completed in three epochs. Four versions are the least for a record
that is begun twice and merged twice, and for two updates of one version with their
merge; these are the two histories. Four operations allow a writer, an approval, a
synchronisation and a revalidation to meet. Three declarations and three sites
include cycles, diamonds and self-references; the starts are a declaration in the
middle of the order of identities, and a site of either kind. Evidence is varied for
complete impacts only, the one place that reads it; sites of a kind are numbered in
the order of their sources, since the order of edges looks at the source first.

Deadlock is checked in every run except those of the watch service, of memory and
of graph requests, which may end: the runner stops, the number of operations is
bounded, a request is answered. Symmetry is used for repositories and slots in
`connected_views` and for processes in `engineering_memory`, and in no run that
checks liveness.

### Fairness

`Converges` assumes weak fairness of the runs' steps: the polling runner starts
one reconciliation after another, and every command of a run has a deadline, so a
step either happens or the run fails. Edits, crashes, one-shot runs and sweeps are
not fair and are bounded in number: convergence is about what follows them.

`EveryChangeReconciled` and `StopsWhenAsked` assume weak fairness of the runner's
steps and of the clock: the thread is scheduled, and an attempt ends, since it runs
under a deadline. Nothing is assumed of events: all of them may be lost, and they
may arrive for ever.

`EverythingEnds` assumes that a thread which can take a step or whose deadline has
come does so, callers and workers alike: the worker's loop blocks only on its queue,
and a caller only with a deadline. Panics, crashes and cancellations are not fair.

`ConnectedConverges` assumes the same of connected runs as `Converges` of the
others: refreshes repeat and each of their commands has a deadline.

## Proofs

All safety invariants and action properties that the passing runs check are proved;
liveness is not. Every proof goes the same way:
an inductive invariant, checked with TLC on the instance of its run before it was
proved; a lemma per action, with a step per conjunct the action can disturb; the
properties as consequences. Parameters are arbitrary: sets may have any size and
bounds any value, under the `ASSUME`d facts named below.

### The store: `GenerationStoreProofs`

It proves for any repositories, slots, workspaces, epochs,
generations and `Keep` what `connected_views` checks, that the pointer of a workspace
agrees with its default view (`ActivePointer`), and that every view left in the store
names existing generations with their receipts (`BackedViews`), under
`StoreAssumption`: configured slots and workspaces differ from repository
identities, because identities are 256-bit values, and `None` is none of them.

The invariant `IInv` is inductive. Beside the properties themselves it says:

* `SlotInv`: a default slot belongs to its repository's own workspace, a
  configured one to a connected workspace, and a slot's repository is registered;
* `GenInv`: an existing generation is no newer than its repository's epoch, and the
  newest id ever issued still exists, which is why ids are not issued twice;
* `StagingInv`: only an open writer stages, and only what is not yet readable;
* `IdsFollowEpochs`: ids order the generations of a repository by epoch;
* `ActiveInv`: the active generation holds the receipt of its own epoch, so no
  other of that epoch can be activated, and all retained ones are older;
* `ReceiptInv`: a receipt is no newer than its slot, names an existing generation
  of the slot's repository, and at the current epoch a readable one;
* `ViewInv`, `ActiveViewInv`: members of views are slots of the view's workspace
  backed by receipts; an active view has a readable generation for each slot.

`Refinement` follows from `IInv` step by step:
staging that reaches ready is `Build`, publication and activation are `Publish`,
recovery, failure and retention are `Collect`, all else stutters. The essential
lemma, `LaterView`, says that a view of current epochs is later than the active
one: at an equal epoch the receipt, of which there is one, fixes the generation.

### Over the store: `IndexingProofs`, `GenerationLifecycleProofs`

Indexing, connected runs and retention each begin with the proof that the
specification implies the store's (`IndexRunsUseTheStore`,
`ConnectedRunsUseTheStore`, `RetentionUsesTheStore`): every step of a run or sweep is
a command of the store or leaves it alone. All theorems about the store, the
contract with readers included, therefore hold under runs and under sweeps, and the
larger invariants contain `IInv` without proving it again. For retention this is
also the proof that planned sweeps collect only what `ApplyRetention` may.

`IndexingProofs` proves the types, that what is visible is whole (`VisibleIsWhole`), that a reported success
is fresh unless an edit was taken back while the run read (`ReportedIsFresh`), and that a reconciliation that finds nothing new
publishes nothing (`IdlePolls`). `WholeGenerations` alone is not inductive, because a
later run may resume what a crashed one completed. The invariant says instead that
only whole generations ever get a receipt (`ReceiptsWhole`), that what is planned and
not built is still to do (`ProgressInv`), that a run's generation is one of its
candidate and that, if nothing was taken back, the fence has seen it (`TargetInv`), and that a reconciling run
which publishes found another snapshot active (`PollInv`).

`GenerationLifecycleProofs` has two parts. Of connected runs it proves the types,
`OneInstant` and `ViewsTogether`. `ConnectedAssumption`
says that a manifest names each of its slots once and has at least one, which the
manifest's parser demands. What a run observes precedes its milestone and is found
unchanged after it; a worktree never returns to an older version, so at the milestone all worktrees
were in the versions observed (`InstantInv`). That the members move together needs that a staged
generation is newer than each visible one (`StagedInv`, `DoneInv`) and that the
visible view stays in place while the run has the lease (`VisibleInv`, `MemberInv`,
`ReuseInv`).

Of retention it proves that nothing dangles (`NothingDangles`), that an
application removes only what was shown and answers positively only when all of it is
gone (`AppliedAsShown`), and that the rows a plan reserves cover its application
(`ReservationsCover`), under `RetentionAssumption`: positive limits, distinct ranks,
finitely many slots and finitely many artifacts in a snapshot. The first needs that the
content of a generation being staged is there before the generation has files
(`StagedContent`). The second, for replays, needs that the digest determines
the candidates (`PlanInv`) and that what an audit names is gone and its ids are spent
(`AuditInv`), which rests on the store's rule that ids are not reissued.

The third compares counts and sums over sets of any size. A plan is offered only if
roots, eligible generations, two passes over the candidates' estimates and the audit row
fit (`PlanFits`); it has then counted every eligible generation, since a list that the
limit cut short is as long as the limit (`PrefixFills`) and leaves no row for the
rest. What a sweep marks and deletes is at most what its generations are recorded
in, each record once however many share it, and one generation more adds at
most its own records (`SharedGrows`), which its estimate counts twice over
(`SharedBounded`, `SweepBounded`). `CountInv`, that the tables are finite, makes all
of these numbers. The prover cannot instantiate the library's induction rules, so
induction over a finite set is done through a smallest counterexample
(`SmallestSubset`, from the well-foundedness of strict inclusion), and the
community modules' `SumFunctionOnSet` is shown to count the cells of a diagram with
one column for each index (`SumIsCardinality`); what is needed of sums (`SumFacts`)
follows from facts about cardinality.

### `SourceCaptureProofs`

`OneState` and `StillFresh`, and the types, for any files, contents, commits and edits, under
`CaptureAssumption` (paths are ordered, commits have trees). The argument: as long as
nothing takes back an earlier value, a value observed twice was there all the time in
between. `ReadInv` says that what was read was there at some time, `FenceInv` and
`RecheckInv` that what agrees was there when the fence read the status and when it
began its second pass, `HeadInv` the same of HEAD; `StatusInv` and `TopologyInv` relate
the status records and the tracked paths, which are read one after the other, to the state
at the fence. `mixed_capture` shows that the premise is needed.

### `WatchSchedulerProofs`

The safety and action properties of the watch
service for all intervals and limits, and that the runner never spins
(`NeverSpins`), under `WatchAssumption`: they are positive
and the poll interval is at most the periodic one, as `effective_poll_interval`
ensures. The invariant `WatchInv` adds `InStep` (what schedule and loop agree on
in each phase), `Clocks` (idle time, source poll and the deadlines advance
together), `WaitIsBounded` (a wait ends before patience does) and `FailureIsPaced`
(after a failure a retry deadline is set or the budget is exhausted).

### `LocalMutationsProofs`

Honest reports and responses, the fence of the unresolved flag (`UnresolvedFence`),
the lease as a fence of earlier sessions (`LeaseFence`), permits (`PermitsBoundTasks`)
and types, for any finite set of callers, any assignment of operations to them and any
number of sessions, crashes and permits, under `WorkerAssumption` and
`MutationAssumption` (`None` is no caller, command, outcome or message). The
invariant follows a mutation through the queue and the worker:

* `SessionInv`: a worker that has not ended holds the lease; a caller past the lease
  uses one session;
* `CommandInv`: a queued or current command belongs to a user of its session, or is the
  shutdown of a dropped handle;
* `AppendInv`: a mutation is in one place at a time, is not durable before it commits,
  and is not executed if barred;
* `ResultInv`, `CallerInv`: what the worker is about to send, what a call holds, and
  what the operation and its supervisor will say agree with the log, and an error that
  may have come after a commit is only ever the answer to a plan. `Void`, that a
  mutation is not durable and nothing on the way can make it so, is what lets a
  refusal be honest not only now but for ever.

### `EngineeringMemoryProofs`

`RecallGrounded`, `MergesNeverCompete`, `UpdatesReplace` and the types with the
discipline of the two locks, for any processes, versions, histories, commits and
bounds, under `FilesAssumption` (finitely many versions without a cycle) and
`MemoryAssumption`. `OperationOK` is what an operation carries from step to step: the
versions it approves were asked for (`Consents`); HEAD is where its first capture found it
unless it moved, and one move is not enough to evaluate at a foreign commit and still pass the second
capture (`Tracks`); a writer past its second look has the file it saw, or was raced
(`Writes`). `LocksInv` makes the other processes harmless. That the selected version
supersedes all approved ones is `SelectedSupersedes`: what it does not supersede would
contain another head, as there is no cycle.

### `GraphTraversalProofs`

`TraceExact` and `ImpactConservative`, for any finite graph, any request and any
limits, under `GraphAssumption`: declarations and sites are finite and ordered, a
request has a start, a direction, kinds and positive limits, and impact is asked
inbound of a declaration. `EndsAt` is a recursive function, and what it computes is
first established as an equation from an explicit function that satisfies it
(`WalksByLength`, `EndsAtEquation`); no induction over lengths is needed after that,
because the levels of the search are the induction. The invariant `TraversalInv` has
these parts beside the types:

* `PlaceOK`: what each place in the loop says of frontiers, results and flags;
* `FrontierOK`: a node enters a frontier once, so an edge is selected once;
* `TraceOK`, `LevelOK`: the trace lists no edge twice, by depth, each at the length of
  a walk that ends with it, and a frontier is where walks of the level's length lead;
* `ReachOK`, `CompleteOK`: only what the start leads to is visited, and while nothing
  was refused, the seen nodes that have left the frontiers have all their edges listed
  or pending. When no frontier is left the seen nodes are closed, so they hold
  everything that can be reached;
* `LostOK`: a flag other than that of the frontier stands for an edge the trace can no
  longer list, and that stays so to the end;
* `OrderOK`, `ClassesOK`: from a declaration, an edge is listed after one that led to
  its origin, so impact analysis finds the class it propagates, and a class
  is what the edges taken so far support.

### Only model-checked

Liveness (`Converges`, `EveryChangeReconciled`, `StopsWhenAsked`, `EverythingEnds`,
`ConnectedConverges`), which the prover does not handle. The violations are runs of TLC by their nature. `IndexingTypeOK` and
`ConnectedTypeOK` are stated for the proofs; no run lists them.

## Where the documents and the code differ

* `mixed_capture`. `docs/research/source-identity-2026-07-25.md` says that an
  attempt "never publishes a mixed generation". The fence compares contents, so an
  edit that is taken back between two reads goes unnoticed: a file read with its
  earlier content and another read with its later one can both agree with the
  fence although the worktree held them together at no instant of the attempt, from
  the start of preparation (`held`). It takes several edits that are each undone in
  the right gaps. `ConfirmedIsOneState` is what holds otherwise.
* `task_reports`. `docs/adr/0033-bounded-mutation-outcome-resolution.md` says
  (line 161) "Callers never receive a rollback-shaped error for known committed
  work." The facade of task checkpoints (`local/local_task.rs`, line 491) returns the
  error of its shutdown although it holds the receipt, and before that
  `append_task_checkpoint` looks at deadline and cancellation once more after the
  receipt. `ReportsAreHonest` shows that these are the only reports that deny a commit:
  a retention receipt that the clean-up's error replaced is reported as unknown.
* `impact_classes`. `RustGraphImpactClass::Possible` is documented as "Only ambiguous
  or heuristic paths are available." The classes are computed in one pass over the
  trace. Let A use the start, X use the start by name only and A directly, and Y use
  X, with the edge of Y ordered before the edge from X to A: Y is classed when X is
  still possible, and keeps that class although X is upgraded afterwards. The error
  is on the cautious side; `ImpactIsConservative` shows that the other never happens.

* Without a run of its own: `docs/schemas/phase1-sqlite-provisional-v3.md` (line 201)
  says that "worst-case mark/delete work and the audit row are reserved in the
  digest-bound plan". `estimate_retention_generation` counts no rows of SCIP overlays,
  although the sweep marks and deletes them, so near the limit an accepted plan can
  fail with `RetentionLimitExceeded`, and fails again when repeated. Nothing is lost;
  a larger limit resolves it. `ReservationsSuffice` shows that overlays are the only
  cause.

Also of note, and not disagreements. A projection of memory is a root for as long as
it exists, and projections are never deleted, so each generation memory was projected
onto is kept. A trace's frontier flag may be set although
nothing is missing, when the node left out leads nowhere new. A new record file that
has two names after a crash stays unreadable until it is replaced by hand. When the retry budget is exhausted and the
periodic deadline has already passed, the next attempt follows immediately. This is
why `BackoffUnlessProvoked` exempts an overdue periodic reconciliation.

## Not modelled

Most of the repository's lines are data without control: parsers and extractors
for each language, the decoding of SCIP and of rows, the mapping of rows to types
and back with its validation, canonical encodings and digests, ranking, formatting,
wire types, command-line arguments, and the errors of each. They are deterministic
functions of one input, their correctness is that of each field, and a model of them
would repeat the code. The modules here cover the control that remains, which is
why the mapped share of the lines is small.

With control, and left out: the limit on generations that a startup recovers;
the verification of artifacts that are reused; the resolution of sites to candidates;
the documents and occurrences of SCIP overlays; personal memory;
what reviews change in an evaluation; and the retry of an operation whose outcome
was unknown. Configuration, identities, migrations, backup and diagnostics keep no
state that changes over time or only read.

## Plan

Done: the store with its contract, the capture, runs over one and over
several repositories, retention plans, the watch service, writer sessions with the
operations around them, engineering memory and graph traversal, each with its
proofs. Next, in this order:

1. `ContentStaging`: the rows of a generation and their verification, orphans
   included.
2. The rest of SCIP overlays, and personal memory.
