# Verification of comfyui-turing-utils

This directory holds TLA+ models of the stateful core of `comfyui-turing-utils`, TLC
configurations that check them on small instances, and theorems that TLAPS checks for every
value of their constants. `src/...` below is the repository; `job_api/`, `workspace/` and
`runtime/` abbreviate directories of `src/comfyui_turing_utils/`.

## 1. Inventory of the system

The repository is a ComfyUI plugin. Most of its files are numerical (attention kernels,
quantization, model adapters) or vendored (SEC / SAM2). Three parts keep state that several
actors change, and their correctness is about order and failure: the job API, the Canvas
workspace, and the stage barrier.

| Component | State | Operations | Hard behaviour | What makes it correct | Modelled by |
|---|---|---|---|---|---|
| Job lifecycle, `job_api/service.py`, `routes.py` | `Jobs.requests`, `Jobs.jobs`, `Job` fields, a directory per job, a lock file per session | submit, launch, execute, download, delete, expire, sweep, close | coroutines interleaved at every await, disk threads that outlive a cancellation, ComfyUI's own queue and worker, other clients' controls, failing removals | a directory is removed only when nobody uses it, nothing is left behind, a request runs once, every job ends and leaves | `JobApi` |
| Progress observer, `job_api/progress.py` | `Job.status`, progress, timings | worker events, forwarded with `call_soon_threadsafe` | events applied late | a late event does not change a settled outcome | `JobApi` (the status only) |
| Material publication, `workspace/runs.py`, `store.py`, `material_execution.py` | SQLite `runs`, the selection in a card's JSON file | compile, execute, publish, select, recover | three commits in two stores, crashes between them, several recoverers | at most once, never over newer content, true verdict, always finished | `Publication`, `MaterialSlot` |
| Card and canvas files, `workspace/transactions.py`, `workflow_files.py`, `native.py` | card files, `canvas.json`, `.canvas-commit.json` | save, patch, copy, add, settings, layout, automatic values, recover | a save of several files cut anywhere, foreign edits, writers with and without a journal | atomic saves on checked revisions; foreign edits stop recovery; nothing else does | `ProjectCommit`, `ProjectStore` |
| Material tasks, `workspace/execution.py`, `tasks.py`, `cache.py` | `self.active`, `materials`, `material_revisions`, `waits`, `lock`; `operations` and `runs` rows | start an operation, share or follow a running material, submit, poll, wait for a dependency, cancel, interrupt, status | coroutines interleaved at every await, two revisions of one canvas, ComfyUI's queue cleared from outside, restart | a material is generated once at a time, success is earned, an upstream to be refreshed is never read stale, manual choices and interrupts hold, every operation ends and leaves nothing | `MaterialTasks` (and the rows in `Publication`) |
| Order of materials, `workspace/compiler.py`, `tasks.py`, `projection.py` | none | cards → targets in order, prompts | circles, boundaries between cards, materials that are only loaded | nothing is generated before what it reads, a circle is refused before anything runs | `MaterialOrder` (the order) |
| Stage barrier, `runtime/stage_barrier.py`, `stage_barrier_prompt.py` | `BarrierPlanner`: the phase `(round, stage)` of each stage path, the paths last seen, the floor; ComfyUI's `ExecutionList` | pick the next node, wait for the active phase, replan | lazy inputs and expansions reveal paths late, asynchronous nodes end in between, two waits on one event | passed phases are never reopened, nothing unrelated starts, no prompt is kept from finishing | `StageBarrier` |
| Previews, `workspace/previews.py` | bounded poster queue, cache | request, render, evict | deduplication, limit | – | not modelled |
| Templates, `workspace/templates.py`, `template_files.py` | template files, versions | save, rename, import | versioned saves | – | not modelled |
| Web client, `src/web/` | per-card save queue, task tracking | edit, save, resume | late answers | – | not modelled |
| Command line client, `src/skills/turing-workflow/` | resume record of a job | submit, poll, download | lost answers | – | not modelled |
| Kernels, adapters, media, nodes, vendored code | tensors | – | – | outside TLC's reach | – |

How they interact. Request handlers are coroutines of ComfyUI's asyncio loop; anything that
touches the disk runs in a thread (`asyncio.to_thread`, or `disk()` in the job API). The job
API and the workspace both feed ComfyUI's prompt queue; its single worker thread executes
nodes, calls `publish_material` from them, and sends progress events back to the loop. The
workspace's threads share `transactions.LOCK`, the project's SQLite database and its JSON
files. A stage barrier wraps the list of pending nodes of every prompt that worker executes. `PROJECT.json` lists every component and every hazard, each at its line.

## 2. Modules

| Module | What it is |
|---|---|
| `JobApi` | all jobs of one process: handlers, runners, sweeper, shutdown, and the native worker they see |
| `MaterialSlot` | abstract: what a material's selection promises |
| `Publication` | the three-commit publication of a result, its recoverers and editors |
| `ProjectStore` | abstract: files whose saves happen at one instant, on checked revisions |
| `ProjectCommit` | the commit journal and all the writers of a project's files |
| `MaterialTasks` | the operations of a directory, their executions, ComfyUI's queue and worker |
| `MaterialOrder` | the targets of an operation and their order, as functions of the canvas |
| `StageBarrier` | the planner of stage barriers and the execution list it restricts |
| `JobApi_proofs`, `Publication_proofs`, `ProjectCommit_proofs`, `MaterialTasks_proofs`, `MaterialOrder_proofs`, `StageBarrier_proofs` | theorems about the modules they are named after |
| `MaterialReads_proofs` | more about `MaterialTasks`: what prompts read, what a person selected, who waits for whom |
| `StageGraph_proofs` | lemmas `StageBarrier_proofs` rests on: closures of a graph, the planner's recursion |
| `MCJobApi`, `MCPublication`, `MCProjectCommit`, `MCMaterialTasks`, `MCStageBarrier` | instances for TLC |

In each module the definitions named `Mut...`, next to the definition they vary, are plausible
mistakes (a dropped guard, a missing reset, a wrong order). They are used by nothing; replacing the
definition by the variant must break the property that `PROJECT.json` pairs it with.

### JobApi

An action is the code between two awaits of one coroutine, or the end of one operation of a disk
thread. `handler` and `runner` say in which await each coroutine is suspended; `io` names
the operations still running in a thread for a job (a cancelled `disk()` waits for its thread,
which is why `Joined` guards `HandlerCancelled`); `discarding` is the set of callers inside
`discard()`, the only way out of `Jobs.jobs`; `loop` keeps the callbacks whose relative order
matters: `execution_start`, queued by the worker, and the runner's own steps. Files are
abstracted to the three parts whose presence the properties tell apart (`root`, `inputs`,
`outputs`). `foreign`, `queue`, `running`, `stage`, `interrupted` and `history` are ComfyUI's
side, modelled from what `service.py` and `progress.py` read and write of it (marked external).
Actions map to `Jobs.begin` (`Submit`), `submit` (`ReceiveChunk`, `Uploaded`, `HandlerFails`,
`HandlerCancelled`), `Jobs.launch` (`Launch`), `Jobs._execute` (`RunnerWake`, `LoopPoll`,
`LoopIo`), `_results` and `_finish` (`ResultsDone`, `Finish`, and `ClearDone`, where the runner
concludes), `_clear_work` (`ClearWork`: its thread reads the status and removes files, which is a step of
its own, since events reach the loop in between), `discard`
(`DiscardDone`, `DiscardFailed`), `delete`, the download route, `_sweep` and `close`.

### Publication and MaterialSlot

One material of one project. `slot` is its selection in the card file, `run` the SQLite rows
(with the compile that precedes a row), `lock` is `transactions.LOCK`, `thread` the place of
the worker and of each request thread. `Intend`, `Select` and `Settle` are the three commits of
`finish_run`; `Open` is the part of `Project(...)` that takes the lock, `List` (which does not),
`Opened` and the same three commits the `recover_publications` it ends with. `Crash` may fall between any two steps, `Raise` is an exception from one of the
commits, `SelectRaises` the one `set_selection` raises when the card no longer has the
material. `MaterialSlot` forgets lock, database, file and threads: a result takes effect at
most once, atomically, on the version it was compiled from, and has one truthful verdict; editors
replace or trim the selection only as it was shown to them. The
refinement reads the slot's version from `contentRev`, its edition (trims included) from `rev`, what an editor
was shown from the revision a request carries, the runs from the rows, and
the effects from the history variable `writes`. The other history variable, `overtaken`, says
that somebody else's content came after a run read the selection; removing the material takes
this content away and resets it. `Wait` asks for a row that is live or stopped where the UPDATE of
`wait_for_material` has no condition: a prompt reads before it publishes, so the row is.

`Editable` chooses whether cards may be saved without the material: the guarantees of
`MaterialSlot` hold only when they are not (see findings 2 and 3).

### ProjectCommit and ProjectStore

The files of one project. A content is a revision (what editors send along and the code
compares: the counter of `canvas.json`, the structural hash of a card) and a value (everything
the revision leaves out). `journal` is `.canvas-commit.json`: for each file its content before
and after; `before` stands for the hash of the source, since equal hashes are equal contents.
`request` follows a client's request through `load_json("canvas.json")`, which recovers a
pending commit (`Recovered`, `Stop`, `Prepare`, `Apply`, `Unlink`), to `Show`, `Refuse` or
a save, and through the second `recover_commit` that ends `commit_project`. The table of
saves is `Plans`: which files are written, which change their revision, which revisions are
checked, and whether the journal is used (`save_layout` and `Project.select` write one file
directly). Files are replaced one by one in any order with the manifest last, as every caller lists
them. `Edit` is a person or a tool changing a file between two requests; it may keep the
revision or restore an earlier content. `Crash` and `Fail` end a request anywhere.

`ProjectStore` has no journal, lock, request or crash: `Save` changes all files of a
plan at once and only on the revisions its client was shown. The refinement reads a file's content
as `journal[f].after` while a commit is pending: the instant a save takes effect is the
replacement of the journal file, and everything after it is a stutter.

### MaterialTasks

An action is what the event loop does between two awaits of one coroutine of `MaterialTasks`, a
step of ComfyUI's worker, or a request. `ops` holds a row of `operations` with the record in
`self.active`; `task` an `_execute` coroutine with its row of `runs` and its prompt's place in
ComfyUI (`item`); `frame` what a caller awaits inside `_material` or `_wait`, and with which
snapshot; `materials`, `waits` and `lock` are the attributes of those names. `Material` is the
entry of `_material`, `Again` its loop after a task of another revision has ended, `Unregistered`
its `finally`; `Advance` and `Finish` are `_operation`; `Compile`, `SubmitBegin`, `SubmitEnd`,
`PollSuccess`, `PollFailure`, `PollWaiting`, `DependSnapshot` (a thread reads the canvas for the
dependency), `Depend` (the entry into `_material` with what was read, kept in `frame` until then, while
anything may change) and `DependResume` are `_execute` with
`_submit`, `_enqueue` and `_wait`; `StartSnapshot`, `StartShared` and `StartQueued` are `start`;
`Cancel`, `Interrupt` and `Status` the requests. `WorkerBlocks` is `wait_for_material`,
`WorkerPublishes` the whole of `finish_run`: that its three commits act as one is what
`Publication` shows. Tasks woken by the same future run in any order, and the worker takes queued
prompts in any order, which prompt hooks allow.

Abstracted: a prompt is the material it writes and those it reads that are to be refreshed
(`Needs`, per revision of the canvas, since an edit may change them); contents are a counter per
material (`selection`, with `manual` for the last one a person made). What a
waiting prompt leaves in ComfyUI's cache for its continuation (`cache.py`) saves time and
decides nothing. One directory: nothing but `self.lock` and the queue is shared by several.

### MaterialOrder

`Reads` and `Ordered` are the two traversals inside `material_order` (`sources` and `visit`),
`MaterialOrder` both of them, `PlanCard` is `plan_card`, `Targets` what `_snapshots` makes of the
selected cards. A canvas is its finitely many nodes, the links into them by any of their inputs, and the cards.
Which materials are computed is read from the links into their content (`value`, `images`, `text`); the
order follows all links, the `audio` of a video included, and a material that is only loaded is ordered
with the others of its card before it is left out. `visit` is a function
of where the traversal is: the targets being visited, those wanted there, the position among
them and the order completed so far. The result is compared with a definition that has no traversal: paths
through ordinary nodes as a transitive closure. Its only variable `drawn` says which canvas is
planned on and never changes (`Planning`). `MaterialTasks` takes the targets of an operation as the
constant `Plan`; `MCMaterialTasks` assumes that the plan of its instance is what `Targets`
returns for its canvas.

### StageBarrier

One prompt. ComfyUI's `ExecutionList` is modelled as the wrappers use it: `pending`, `links`,
`blocked`, the event an asynchronous node sets, and nodes that when they run ask for lazy inputs
or expand into a subgraph (`Ask`), go asynchronous (`Launch`) or end (`Complete`). The planner's state
is `rounds` (the stage half of a phase is the path's label), `visible` and `floor`. `Candidates`
is `BarrierPlanner.candidates`, `Planned`, `Bounds` and `MinimumRound` are `_assign_phases`,
`Floor` is `_record_completed`, `Hidden` and `Discovery` look for paths a lazy input or an expansion
may still reveal. `Pick`, `Wait` and `Wake` are `stage_aware_stage_node_execution` with
`_wait_for_active_barrier_phase`; `NativeWait`, `NativeWake` and `NativePick` are ComfyUI's own
wait underneath, from which the other wrapper picks directly. Which candidate ComfyUI picks is
left open. `Unblock` does not fire between the event being set and the wake-up of whoever waits for it;
a node that ends there leads to the same state as one that ends just before the event is set again or just
after the wake-up, up to an event that is set once more than needed.

`Assignment` is a recursive function over the nodes and `Floor` a choice; that both exist for every
prompt without cycles is a theorem (`PhasesAreAssigned`), so no step is missing because one of
them has no value. That prompts have no cycles is assumed (`PromptsAssumption`), for all links
together, lazy and dynamic ones included: ComfyUI rejects a prompt or fails it on a circle, and the planner
raises on a circle among stage paths.

## 3. Runs

| Run | Instance | Question and result |
|---|---|---|
| `jobapi_life` | 1 job, 2 downloads, 2 failing removals, shutdown at any time | `RemovalExcludesUse`, `GoneLeavesNothing`, `LeaseHeld`, `SettledFiles`, `StartedOnce` over all interleavings; `SubmissionSettles`, `EveryJobLeaves` under the fairness below, unless the process is shut down first |
| `jobapi_close` | 2 jobs, 1 download | `LockCoversUse`, `InterruptsOwn`: hold with two jobs competing for the worker and a shutdown at any time |
| `jobapi_failed` | 1 job | `FailureIsReported` is violated (finding 1) |
| `publication_safe` | 2 runs, 2 contents, 2 request threads, 2 edits, 1 crash | `PublishedOnce`, `KeepsNewer`, `IntentKept`, `TruthfulVerdict`, `SlotSpec`: hold |
| `publication_card` | 1 run, 2 request threads, 2 card saves or edits, 1 crash, 1 failing commit | `NoOrphanSelection`, `RestoredIntentFinishes`: hold when cards are edited |
| `publication_edited` | 1 run, 4 edits | `KeepsNewer` is violated when cards are edited (finding 2) |
| `publication_removed` | 1 run, 2 edits | `IntentFinishes` is violated when cards are edited (finding 3) |
| `project_commit` | 2 cards and the manifest, 2 clients, 2 contents, 2 crashes or failures | `StoreSpec`, `ForeignEditStops`, `OnlyForeignBlocks`, `CommitFinishes`: hold |
| `tasks` | 2 operations, a material and the one it reads, 1 edit of the canvas, 1 event | `OneAtATime`, `SuccessIsEarned`, `NothingLeft`, `ReadsRefreshed`, `ManualChoiceKept`, `InterruptHolds`, `OutcomeStays`, `OperationsEnd`: hold; and, over the 14 418 canvases of `SmallCanvases`, `CirclesRefused`, `DependenciesFirst`, `InterfaceOrder` |
| `tasks_circle` | 2 operations, 2 materials that read each other | `NoCircle` is violated (finding 4) |
| `barrier` | every prompt of the family `Small` (4 nodes) | `RoundsFollowDependencies`, `PhasesInOrder`, `OnlyRequiredStarts`, `PromptFinishes`: hold |
| `barrier_rendezvous` | one prompt of 4 nodes | `Rendezvous` is violated (finding 5) |

Each run also gives the type invariant of its module where listed. `CHECK_DEADLOCK FALSE` in every
configuration: the bounds stop the model (no identity left to submit, no content left to
write), and so does an idle system.

**Bounds.** `MaxReaders`, `MaxFaults` (JobApi); `MaxEdits`, `MaxCrashes`, `MaxFaults`
(Publication); `MaxVersions`, `MaxFaults` (ProjectCommit), besides the sizes of the constant
sets. Jobs share only the native worker and its interrupt flag, so one job with two readers
shows everything about a directory, and two jobs what the worker and the shutdown
make of several. Two removals that fail let a first attempt and its retry fail. In Publication
two runs and two request threads are what it takes to have a publisher, a recoverer of the
same run and an editor at once; one crash separates any two of the three commits. In
ProjectCommit two cards and the manifest give a commit that is cut after its first file and
before its last; two contents are a save and a foreign edit, or the saves of two clients, and a
foreign edit may also restore what a file held before; two crashes interrupt a save and the
recovery of it. In MaterialTasks `MaxEvents` counts what people and failures do: cancel, interrupt, a
prompt removed in ComfyUI's interface, a choice by hand, a failing compile, validation or
execution, a restart, each at any step; `MaxEdits` one edit, so that operations of two revisions
meet on a material; two operations, one over both materials, share, follow and wait for each
other's tasks. The three properties of `MaterialOrder` speak of `drawn`, the canvas that is planned on. Planning
keeps no state, so `DrawnSpec` starts once on each of the 14 418 `SmallCanvases`, where nothing follows,
and once on `NoCanvas`, where operations run: `SmallCanvases` has every set of up to five links among three materials and a node, or two and two, for cards
that read each other or a card outside the selection; all materials with a link are computed, or
all but one of them, which is then only loaded. Five links are a circle through every node and one link more. `MaxTasks` is 5 and never reached: `OperationsEnd` would fail if an operation
wanted a task that is not there. `Small` holds all prompts of four nodes whose links lead from
lower to higher numbers, with labels 0 and 1 on any but the first, the first two asynchronous
unless they are paths, and the inputs of the last node strong, lazy, from an expansion, or strong with a
cached second node; a drop of the label, a hidden path and an unrelated asynchronous node fit
in four. What the bounds hide of safety in the workspace protocols and the
barrier, the theorems below cover for the properties they name.

**Symmetry** is used only in runs without liveness properties.

**Fairness.** `JobApi`: the loop runs its callbacks, disk threads end, the worker goes on with
its queue, the sweeper keeps sweeping; strong fairness only for the end of an upload, which is
bounded in size and aborted after 120 idle seconds (`routes.py`), so that it cannot send chunks
forever. Open downloads are assumed to end and time to pass. Nothing is assumed of clients
(submission, deletion) or of failures. `Publication`: threads inside a request run on, and
requests keep coming, because "reopening finishes" needs somebody to reopen. `ProjectCommit`: the same. `MaterialTasks`: the loop with
its threads and the worker go on, no more: weak fairness of either as a whole, since none of their steps can be
repeated for ever. `StageBarrier`: the loop goes on and asynchronous nodes end.

## 4. Theorems

Checked by TLAPS for every value of the constants, from the assumptions
`JobApiAssumption`, `PublicationAssumption`, `CommitAssumption`, `TasksAssumption`,
`CanvasesAssumption` and `PromptsAssumption` alone (distinct names, bounds that are naturals, the
types of the parameters; for canvases and prompts also that nodes are finitely many, for prompts
that links make no cycle). They state every invariant and every action property the passing runs
check, and both refinements.

**JobApi_proofs.** `TypeCorrect`, `TakenOnce`, `RemovalIsExclusive`, `GoneIsGone`,
`LeasesHold`, `FilesSettle`, `InterruptsOnlyOwn` and `LockIsLast`, for any identities, downloads and
failing removals. None of the properties is inductive: that a removal excludes every use rests on
what the handler and the runner may have under way at each of their awaits. The invariant therefore
describes one job, `JobInv`: `Uploading` (until it has launched, the handler is the only one at
work, and its threads fit its await), `Running` (the same for the runner, its prompt and its
history record), `Starting` (the queue and the worker have the prompt at most once between them),
`Scheduled` (the runner's next step is in the loop once and has not begun), `Removing` (whoever is
in `discard()` came after the upload and after the runner) and `Holding` (what the directory holds).
A step concerns one job: `Untouched` carries the invariant of every job whose state it leaves alone
or only shrinks, and each action is then shown for its own job. `LockIsLast` has an invariant of its
own, `CloseInv`: once the sweeper has ended, every job is on the list of `close()`, waited for, or idle.
So has `FilesSettle`, `Settling`: the status `_clear_work` reads in its thread is the one the loop then
publishes, because no event of the worker is left to be served once a thread of the runner ended. A finished
job without a cleanup error holds its results or nothing; the third case of `SettledFiles` is finding 1, a
failure published as success, and says what is left then: the directory, without inputs or results.

**Publication_proofs.** `TypeCorrect`, `DisciplineHolds`, `IntentIsKept` and `AbsentIsEmpty` in
every configuration; `AtMostOnce`, `NewerContentKept`, `VerdictIsTrue` and `ImplementsSlot` while
`~Editable`, the very condition findings 2 and 3 show to be necessary. All but
`AbsentIsEmpty` are not inductive: that a retry may test `contentRev = base` and nothing else is sound only because a
run that has written is either past that revision for good or already has its verdict. The
invariant is `Discipline` (types, and `Calls`: only the owner of the lock is between two
commits, on a publishing row; whatever a recoverer still has to do is publishing or published),
`HasRows` (a run a worker came to publish has a row), and `Sound` (per run: how its base
revision, its `writes`, its `overtaken` flag and the slot's revision relate, and what a thread
past the second commit concluded). `ImplementsSlot` adds what editors have before them (`SeenStep`)
and that a request thread goes on after a recovery (`Serves`).

**ProjectCommit_proofs.** `TypeCorrect`, `DisciplineHolds`, `ForeignEditStopped`,
`OnlyForeignBlocked` and `ImplementsStore`. The invariant adds to the types: `Holding` (only
the owner of the lock is inside a request), `Loaded` (who loaded `canvas.json` left nothing
pending, which is what makes the two writers without a journal sound), `Applying` (past the
checks nothing is foreign and every file not still to be replaced holds the intended content,
which is what `Unlink` needs to be a stutter), and `Fresh` (a new content differs from all
earlier ones, which is what makes a save change exactly the files it names).

**MaterialTasks_proofs.** `TypeCorrect`, `OneExecution`, `EarnedSuccess`, `NothingIsLeft`,
`OutcomeIsFinal` and `InterruptIsFinal`, for any operations, materials, dependencies and number of
edits and accidents. `Registry` (a running task is the registered one of its material) is
inductive only with who calls what: `Calls` says that whoever awaits is at the place where it
awaits, `TaskState` what a task's place says about its outcome and its prompt, and that tasks are created
in order; `Owned` that every registered task is in the hands of the caller that created it, an
operation or an older task; `Earned` what an operation has behind it and that it awaits a task of
its next target. `NothingIsLeft` then follows because the oldest running task can only
belong to an operation. A call is summarised once (`Called`: a new task, or the registered one) and
each action is shown to be a move of a task, the return of a call or a new call.

**MaterialReads_proofs.** `ReadsAreRefreshed` and `ManualChoiceIsKept`, on top of the invariant
above. A prompt is told to read a material ("resumed") for four different reasons: the operation
generated it, an earlier dependency did, a task that was pending when the operation was asked for
ended, or one of the registry did. `RInv` follows the executions through all these places: what is
in `generated`, `pending`, the registry, a task's `sources` and its awaited task are executions
that had not ended when the operation was asked for (`ops[o].old` are those that had); a restart
ends them all, and an operation takes nothing over from before it began. `Choices` follows a
selection through `_material`: the base a caller hands on is one the asker had been shown, or is
neither ahead of the selection nor made by hand (`BaseKept`), which is inductive because
selections only grow and the loop of `_material` adopts only what the awaited execution itself
selected.

`LayersAvoidCircles` and `LayersGoOn`, in the same module, mark the limit of finding 4. They assume
`Layered`: the dependencies of all revisions of the canvas together have no circle. Then no tasks await each other in one
(`NoCircle`, the property `tasks_circle` violates without the assumption), and as long as an
operation is active either the event loop or ComfyUI's worker has a step that waits for nobody
(`NobodyStuck`; with `ENABLED` out of reach, `LoopGoesOn` and `WorkerGoesOn` spell out what the
guards of their actions ask for). The invariant `WInv` says that a task asks for a material its own prompt reads
(`Fits`), so that it awaits a task of lower rank however it got hold of it; that the
lock is held by somebody about to release it (`Locks`); and that nobody counts on a task of an
earlier process (`NoneDied`). The running task of lowest rank cannot wait for another one, so it
can go on itself, or the lock or the worker it waits for can.

**MaterialOrder_proofs.** `RefusesCircles`, `DependenciesComeFirst` and `KeepsInterfaceOrder`,
for every set of canvases. Planning keeps no state, so there is nothing to carry from step to step:
the work is to show what two nested recursions compute. That the recursive functions exist at all
is `RecursiveFunction` (a definition whose result at an argument depends on arguments of lower
weight has a solution, by the argument of lowest weight where two attempts differ). `sources` is
followed from the largest sets of visited nodes down: it finds the materials that ordinary nodes lead to
(`WalkOn`, `WalkSound`), and a circle exactly where ordinary nodes close one (`CirclesMet`,
`CirclesSound`); that makes `ReadsAre`, the first traversal without a traversal. `visit` gets
lighter at every step, visiting a target more or going one position on, and for each place it
holds that what it adds is in order, nothing twice, whatever is wanted there and only what that needs
(`TraversalAdds`), and that coming back to what is being visited means that something needs itself
(`TraversalCloses`). At the outermost level every target adds only what it needs itself and what
no earlier one needed, which keeps the order of the targets (`TraversalSorts`). The theorems put the
uses of `material_order` together: a batch is ordered from plans that are themselves ordered
and filtered card by card. The two kinds of use follow different needs, those of all materials of a card and those
of the computed materials of all cards, so a batch is refused for a circle in any of these scopes, and
`InterfaceOrder` counts the places of the first kind for a target of the second.

**StageBarrier_proofs**, with **StageGraph_proofs.** `TypeCorrect`, `PassedPhasesStay`,
`DependenciesTakeRounds`, `NothingElseStarts`, `WaitsAreAnswered` and `PhasesAreAssigned`, for
every prompt without cycles. The invariant says that a completed path is still in the planner's
last view or its phase is at most the floor (`FloorCovers`): a replan then puts every pending path
at or after the floor. `Linked` says that listed links lead between listed nodes and that a node
that is done has its inputs, so a path that completes finds the paths it needs among those the
floor covers: with a higher label they are of an earlier round. `Waiting` says that a wait is for
a node whose asynchronous work goes on, and that in ComfyUI's own wait only nodes get ready
that have been started before. What leads to the
paths of the active phase holds a node of lowest rank, which nothing pending blocks: so a candidate exists
unless it is under an external block, and the fallback to any ready node starts nothing new.
The lemmas replace induction by the least counterexample of a set of numbers: `Closure` is
shown to be what paths reach (`ClosureIs`), closed because ranks bound their length
(`ClosureClosed`); `Assignment` is built rank by rank (`AssignmentSolved`); a finite set has a
topmost element (`Topmost`).

Only model-checked:

- every liveness property (`SubmissionSettles`, `EveryJobLeaves`, `RestoredIntentFinishes`,
  `CommitFinishes`, `OperationsEnd`, `PromptFinishes`): liveness under fairness and `ENABLED` are
  out of the prover's reach. `WaitsAreAnswered` is the safety part of the last one, `LayersGoOn`
  that of `OperationsEnd`;
- `Rendezvous`, which does not hold (finding 5).

## 5. Findings

1. **A failed job may report success** (`jobapi_failed`). `Observer.event` sets `running` on
   `execution_start` as long as `finished` is not set; `_finish` publishes every status but
   `failed` as `succeeded`. A prompt that fails at once is found in the history by the runner's
   poll before the queued event is delivered; the event overwrites `failed` while the cleanup
   thread runs. The job ends as `succeeded` with its error set and without outputs, against
   `docs/job-api.md:250`.
2. **A delayed run may replace a newer selection** (`publication_edited`). Saving a card
   without a material deletes its selection and with it the content revision. When the material is back,
   revisions start again at 0, and a run compiled before may find its base revision
   under a content chosen later (in the trace: a run compiled from the selection with revision 1, removal,
   return, a new selection with revision 1, overwritten by the run), against `runs.py:4-5` and `docs/architecture.md:258-259`.
3. **A removed material blocks its project** (`publication_removed`). `finish_run` commits the
   intent before it knows the material is in the card. If it is not, `set_selection` raises
   and so does every later `Project(directory)`, the one that would restore the
   material included, against `runs.py:3-4`. `RestoredIntentFinishes` shows the limit: if the
   material comes back for good (a request that had passed its own recovery before can still save
   the card), the intent finishes.

4. **Materials that depend on each other may hang** (`tasks_circle`). `_wait` looks for circles
   among `self.waits`, where only `_wait` makes entries; a task that generates its dependency awaits
   it inside `_material` without one. An operation on a, which reads b, generates b from
   within a's task; b's task finds a's task running and waits for it in `_wait`. Neither ends, and later
   operations join them, against `docs/material-canvas.md:172` and `:189`. Circles within the
   targets of one card are refused before anything starts (`material_order`), so the run has one
   target per operation. Without a circle among the materials of all revisions together,
   it cannot happen (`LayersAvoidCircles`).
5. **A stage path releases its consumers alone** (`barrier_rendezvous`). `_direct_hidden_stage_inputs` takes a
   path that has just completed for one that is still hidden, so its consumers are
   discovery targets of its own phase and run before the other paths of that phase, against
   `README.md:381-382`.

## 6. Not modelled

- Contents: graphs, prompts, media, parameters, validation. Models keep the decisions that
  depend on them as choices (`HandlerFails`, `Refuse`, `ResultsDone`).
- The erasure of earlier sessions in `Jobs.start` and the migration of old project formats: they
  run before anything else.
- In `ProjectCommit`, an edit made outside the program between a check and a write of the same
  request (no lock of the program can exclude it), an edited journal file, and the window in
  `recover_commit` between looking for the journal and taking the lock.
- A crash between `os.replace` and the durability of the directory entry: file replacement is
  taken as atomic and durable, as the code takes it.
- In `JobApi`, a prompt of another client that takes a job's identity after the job was launched
  (`service.py:305-309`): identities are random, and what others hold is chosen once, at the start.
- In `MaterialTasks`: several directories at once, the continuation caches of `cache.py`, and the
  automatic values written after a run (`ProjectCommit` has their commit).
- In `StageBarrier`: `stage_barrier_prompt.py`, which splits barriers into paths before a prompt
  runs, circles among paths (an error at once), and the stateless entry point. Labels are numbers; a
  lazy link that is added between nodes already pending does not by itself call for a replan, and
  the model shows it so.
- Numerical, vendored and user interface code, which is most of the repository: kernels,
  attention, quantization, model adapters and media make up the bulk of its lines, have no
  protocol, and their correctness is about tensors and hardware. The models cover the stateful
  services completely enough to check them and nothing else, so their share of all lines is small.

## 7. What is left

1. The client's per-card save queue (`src/web/lib/serial_writes.js`) against `ProjectStore`'s
   checked saves (late answers, conflicts, retry), and the versions of templates.
2. The bounded queue of `previews.py`.

