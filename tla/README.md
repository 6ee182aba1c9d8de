# TLA+ models of Arsitect's pipeline, schedulers and stores

Arsitect drives a software project through a *pipeline of stages*.  A stage is
executed by running the skills bound to it (CLI subprocesses), is reviewed by a
human or passed automatically, depending on an execution strategy, and then
hands over to the next stage.  This directory holds TLA+ modules of the parts
of the backend (`src/backend/app`) that decide *what may happen when*, the
configurations that check them with TLC, and proofs checked by TLAPS.

Run everything from this directory:

    tlc -workers 2 -config pipeline_races.cfg MCStagePipeline.tla
    tlapm StagePipelineProofs.tla

`PROJECT.json` lists the components, the runs, the mutant of every property,
the source lines of every definition, the hazards and the theorems.

## 1. The system

All of the backend is one asyncio process (FastAPI, uvicorn) over one SQLite
database reached through SQLAlchemy's `AsyncSession`.  Requests interleave at
every `await`.  Each request has a session of its own (`get_db`), which commits
at the end, or rolls back if the handler raises.  Three features of that
session decide most of the interesting behaviour:

* `expire_on_commit=False`: objects loaded before a commit are answered from
  the identity map afterwards, as long as some frame of the handler keeps them
  alive (the map is weak);
* `autoflush=False`, and a flush writes only attributes that differ from what
  was loaded;
* SQLite has one writer: from its first flush to its commit a request excludes
  other writers (which wait up to 30 s, then fail), but not readers.

### Components

| Component | State | Operations | Talks to | What would make it correct |
|---|---|---|---|---|
| **Stage orchestration** (`services/stage_orchestrator.py`, `stage_gate_controller.py`, `api/v1/requirement_studio.py`, `execute` routes) | `projects.current_stage_id`, `project_stages.runtime_status`, `gate_decisions`, `skill_executions`, `artifact_files` | execute, complete, fail, advance, gate pass/reject, rollback, regenerate, start project | skill batch (awaited inside the request), gate controller, event bus | a stage under review has exactly one gate to decide; nothing is reviewed or passed that did not run; a human decision where the strategy asks for one; every request answers |
| **Skill batch and PocketFlow runner** (`_execute_skill_bindings`, `services/pocketflow/*`) | coroutines of the bindings, per-engine project locks, subprocesses, results on the shared session | resolve, lock, prep, spawn, timeout, terminate, kill, post, record | called by orchestration | at most one skill writes the project's directory; no process or lock left behind; auxiliaries only after successful primaries; the batch ends with one outcome |
| **Project lifecycle** (`services/project_service.py`, `governance/project_governance.py`) | `projects.project_status`, `execution_strategy` | create, activate, archive, cancel, update strategy, draft clean-up | starts the first stage | activation starts exactly the first mandatory stage; strategy changes do not reach started stages |
| **Declared stage state machine** (`services/stage_state_machine.py`) | a transition table | validate, transition | nobody calls it | the statuses move along the table |
| **Database sessions** (`infrastructure/database/session.py`) | identity map, transaction | load, flush, commit, rollback | everybody | — (its semantics are the atomicity of all models) |
| **Gate controller of the scheduler** (`scheduler/gate_controller.py`, `/gates` routes) | `gate_decisions`; wait events in memory | create, approve, reject, retry, bypass, wait | shares its table with orchestration; skill state machine | whatever it does to a stage's gates can be traced to a call |
| **Bypass approvals** (`bypass_service.py`, `bypass_approval_service.py`) | `bypass_records` | apply, approve, reject, expire | the bypass route of the gate controller | no bypass without an application |
| **DAG scheduler** (`scheduler/dag_scheduler.py`) | nodes and running DAG in memory | build layers, run a layer under a semaphore | PocketFlow adapter, three-level state machine | every skill runs at most once, after those it depends on; only skills on or behind a cycle never run |
| **Three-level state machine** (`scheduler/state_machine.py`) | skill, batch and execution states | transition, aggregate, recover | gate controller, DAG scheduler | transitions follow the table from the *stored* state |
| **Skill execution records** (`api/v1/skill_executions.py`, `trigger_validator.py`, `retry_manager.py`) | `skill_executions` | trigger, batch trigger, retry, stop, confirm | results written by batches | only what has failed is retried, a bounded number of times; release skills are confirmed; a stopped one stays stopped |
| **Execution plans** (`execution_plan_generator.py`, `api/v1/execution_plans.py`, plan methods of the orchestrator) | `execution_plans`, `plan_nodes` | generate (topological order, groups), freeze, execute, cancel, delete | DAG editor, orchestrator | the order respects dependencies; a plan with groups is complete; no node is left executing |
| **Event bus, notifications** (`common/event_bus.py`, `advanced/notification_manager.py`, the frontend's `sse.ts` and canvas page) | client sets, client queues (100), streams | broadcast, connect, send, reconnect, read again | everybody publishes | no page hears an event after missing one; a committed change is shown |
| **CLI sessions and chat** (`services/cli_service.py`, `chat_service.py`) | sessions, numbered messages | open, add message, switch mode, close | CLI adapter, architecture fixes | message numbers unique and dense |
| **Architecture fixes** (`services/arch_governance_service.py`, `git_service.py`, `file_backup_service.py`) | working tree, index, branches, backups, issues | branch, apply files, validate, commit, roll back | chat, terminal, language model | fixes do not touch the user's branch; a failed one leaves nothing behind; an executed one stays |
| **Artifact store and editor** (`services/artifact_service.py`, `edit_artifact`, `common/artifact_store.py`, `artifacts/artifact_editor.py`) | files, `artifact_files`, `artifact_versions` | save with expected hash, rollback to a version, studio edit | stages mark rows stale | what was saved can be found; calls one after the other lose nothing |
| **Execution task center** (`task_center_service.py`, `execution_issue_service.py`) | tasks, issues | list, count, update a row | — | — |
| Everything else (health, complexity scoring, C4 documents, document forge, generators, LLM policies, search, metrics, CRUD, rendering) | — | — | — | not a protocol; see section 5 and `components` in `PROJECT.json` |

### What is hard

* **Concurrency inside one request.**  Executing a stage takes minutes, during
  which the handler holds objects it loaded before.  Rollback, regenerate, a
  second execute or a decision may commit in the meantime.
* **Two writers of one table.**  Stage gates are decided by the orchestrator
  and by `/gates`; executions are written by batches and by `/executions`.
  Neither looks at the other's state.
* **Automatic advance.**  In a `full_auto` project the handler that completes a
  stage makes the next one ready and executes it, recursively, in the same
  request and session.  Activation and start do the same.
* **Partial failure.**  `start_stage` commits `in_progress` before the skills
  run; a plan is generated in four commits; an artifact is saved as a file, a
  row and a version; a fix writes files and branches that no database
  transaction takes back.  Anything that fails in between leaves the rest.
* **Locks that are not shared.**  The lock of a project lives in the engine of
  one request; what keeps two architecture fixes apart is a database lock taken
  for another purpose.
* **Timeouts and crashes.**  A skill that hangs is terminated, may ignore that,
  and is killed.  A process that dies forgets queues and uncommitted rows, but
  not files and branches.
* **Delivery.**  Events are broadcast before their transaction commits, through
  bounded queues, over connections that break.

The full list, line by line, with the properties that cover each item, is
`hazards` in `PROJECT.json`.

## 2. Modules

| Module | Content | Extends / uses |
|---|---|---|
| `StagePipeline` | the requests of stage orchestration and activation over the database | — |
| `GateApprovals` | the same with a second writer of its gates, the `/gates` routes | extends `StagePipeline` |
| `StageRun` | abstract specification of running a stage's skills | — |
| `SkillBatch` | how the skills are run: coroutines, lock, subprocesses, session | instantiates `StageRun` |
| `SkillExecutions` | execution rows between batches and the `/executions` routes | — |
| `TaskGraph` | abstract specification of running a graph of skills | — |
| `DagScheduler` | Kahn's layers and their execution under a semaphore | instantiates `TaskGraph` |
| `ExecutionPlans` | generation of a plan, and the plan routes over it | — |
| `ArchFix` | fixes of architecture issues over one git working tree | — |
| `ArtifactVersions` | saves, rollbacks and edits of one artifact | — |
| `StageFeed` | events, connections and reads of a canvas page | — |
| `MC...` | instances for TLC: symmetry, and lists of skills for `MCExecutionPlans` | the module of that name |
| `...Proofs` | theorems (about every module but the abstract ones) | the module of that name, `TLAPS`; `StagePipelineProofs` is about both writers of the gates and extends `GateApprovals` |

`StageRun` is the joint between the two models.  `SkillBatch` is shown to
implement it; `StagePipeline` uses nothing of a batch but what `StageRun`
promises: `FinishSkills` takes one of the outcomes `SUCCESS`, `PARTIAL`,
`FAILED` once per start, and `RAISED` is `Abort`.

### StagePipeline

*State.*  The rows are variables of their own: `projectActive`,
`projectStrategy`, `current`, `strategy`, `runtime`, and, per request that
created them, `run` (the batch of executions), `artifacts` and `gate`.
Requests are identified with what they create, which loses nothing, since a
request creates at most one batch and one gate per stage.  `strategy[s]` is the
effective strategy, `stage.execution_strategy or project.execution_strategy`.
The other variables are what a handler holds between its awaits: `pc`, `at`
(the stage), `cache` (the status of the stage objects in its identity map),
`pinned` (whether a frame keeps that object alive), `verdict`, `sawGate`,
`sawArtifacts`, `heldCurrent`.

*Steps.*  One step for what a handler reads before its first flush, one per
commit.  Between first flush and commit a request holds SQLite's write lock,
so that whole stretch is one step.

| Code | Actions |
|---|---|
| `execute_stage` (both routes), `start_stage` | `BeginExecute`, `CommitStart` |
| `_execute_skill_bindings` | `FinishSkills` |
| `complete_stage`, `create_gate` | `ReloadStage`, `RefuseComplete`, `CompleteForReview`, `CompleteAndAdvance` |
| `_fail_stage` | `ReloadStage`, `FailStage` |
| `advance_stage`, `_find_next_stage`, automatic execution | `BeginAdvance`, `CommitAdvance`, `AdvanceFrom` |
| `decide_gate`, `review_stage` (accept, reject) | `BeginDecide`, `CommitPass`, `CommitReject` |
| `rollback_stage` | `BeginRollback`, `CommitRollback` |
| `review_stage` (regenerate) | `BeginRegenerate`, `CommitRegenerate` |
| `start_project` | `BeginStartProject`, `CommitStartProject` |
| `activate_project` | `BeginActivate`, `CommitActivate` |
| an exception, a lost connection, a crash | `Abort` |

A stage without bound skills counts as a success at once, which is one of the
outcomes of `FinishSkills`.  Requests whose guard fails change nothing and are
not steps.

*Left out.*  Timestamps; `ProjectStage.execution_status`, which no guard of the
orchestrator reads; events and logs; the strategy updates of `ProjectService`
(strategies are parameters of a behaviour); the files PostStage scans (every
batch has artifacts of its own).

### StageRun and SkillBatch

A *batch* is one call of `_execute_skill_bindings`.  `phase` and `turn` say
where it is, `task` where each binding's coroutine is, `lock` is the engine's
`asyncio.Lock` with its FIFO of waiters, `process` the subprocess of each
binding, `status` what the session has for `overall_status`.

| Code | Actions |
|---|---|
| `_run_binding`: the resolver finds no SKILL.md | `ResolveFails` |
| `LockManager.acquire`, `release` | `Acquire`; the release is part of each action that leaves the lock |
| `PrepStage`, `ExecStage`, spawning | `PrepFails`, `Spawn`, `SpawnRaises` |
| `CLIAdapter`: timeout, terminate, kill, reap | `Exit`, `Terminate`, `Kill`, `Return` |
| result and artifacts through the shared session | `Record`, `Recorded`, `RecordFails` |
| the loop over primaries, `gather` over auxiliaries | `NextPrimary`, `PrimaryRaises`, `StartAuxiliaries`, `End`, `EndRaises` |

`Record` models what SQLAlchemy does to a session that is used by two tasks: a
flush that starts while another is awaited raises, and after a failed flush the
session refuses everything until it is rolled back.

### TaskGraph and DagScheduler

One call of `DAGScheduler.execute` on a DAG posted to `/scheduler/dag/execute`.
It is independent of the stage pipeline: its results are events and a returned
dictionary, and the state machine it reports to is built without a database.
The initial states have every dependency relation, so the runs check *all*
graphs of their size and the theorems all finite ones.

| Code | Actions |
|---|---|
| `topological_layers`: counting, one turn of the loop, its end | `Init`, `AddLayer`, `EndLayering` |
| `execute`: semaphore and tasks of a layer, `gather` | `NextLayer`, `Finish` (both wait for `LayerEnded`) |
| `run_with_limit`, `_execute_node` | `ExecuteNode`, `NodeEnds` |

A skill that fails or raises ends like one that succeeds: the code starts the
next layer all the same, and `TaskGraph` says "ended", not "succeeded", for
that reason.  *Left out:* YAML syntax; `from_execution_plan`, which only tests
call; `cancel`, which nobody calls and `execute` would not notice; the gate
controller, which the route does not pass.

### GateApprovals

Extends `StagePipeline` by `call` (where each request to `/gates` is, and the
row it works on) and `bypass` (its application).  A request of these routes
builds a controller of its own, so it finds every gate in the table, decided or
not, and never looks at the stage.

| Code | Actions |
|---|---|
| `approve_gate`, `reject_gate`, `retry_gate` | `BeginResolve`, `CommitResolve` |
| `bypass_gate`, `apply_bypass`, the commit inside the skill's transition | `BeginBypass`, `CommitApplication`, `CommitResolve` |
| `approve_bypass` | `ApproveBypass` |
| an exception between two commits | `FailCall` |

Since an approval through `/gates` does not advance the stage, it leaves a stage
under review that no pending gate belongs to, and a retry reopens gates that
were passed.  The properties say that this is the only way such states arise.

### SkillExecutions

`row` holds the rows by creator and skill, `batch` says how far each batch is,
`pc` and `arg` are the locals of the routes.

| Code | Actions |
|---|---|
| `start_stage`, the end of `_execute_skill_bindings` | `StartBatch`, `EndBatch` |
| `trigger_execution`, `validate_trigger` | `BeginTrigger`, `Create` |
| `batch_trigger_execution` | `BeginBatchTrigger`, `TriggerNext`, `Create` |
| `attempt_retry` | `BeginRetry`, `Create` |
| `stop_execution` | `BeginStop`, `CommitStop` |
| `confirm_release` | `Confirm` |

Nothing in the repository runs an execution a route has created; so a retry
never fails, and `retry_count` never passes 1 although `retry_manager.py:49-69`
counts up to 3 (BR-005 in
`openspec/changes/sdlc-visualizer/high-level-requirements/02-functional-requirements.md:268`
asks for retries within the limit).

### ExecutionPlans

One plan.  The initial states have every dependency set over the lists of
`Layouts`, including repeated skills, unknown dependencies and cycles.

| Code | Actions |
|---|---|
| `generate_plan`: plan, sort, nodes, matrix, groups, each a commit | `CommitPlan`, `SortStep`, `EndSort`, `CommitNodes`, `CommitMatrix`, `CommitGroups`, `GenerateFails` |
| `freeze_execution_plan`, `delete_execution_plan` | `Freeze`, `Delete` |
| `execute_execution_plan`, `schedule_stage_execution` | `BeginExecute`, `MarkExecuting`, `Refresh`, `MarkCompleted` |
| `cancel_execution_plan` | `BeginCancel`, `CancelNode`, `EndCancel` |

A flush writes only a status that differs from the one loaded, and the node
repository commits and refreshes per node: an overlapping execution may so
overwrite a cancelled or completed node.

### ArchFix

One git repository (`tree`, `index`, `snap` per branch, `head`), the handlers
(`pc`, branch, files, backups) and the database (`issue`, `writer`, who holds
SQLite's write lock).  Git and file calls block the event loop, so a fix is
overtaken only where it awaits.

| Code | Actions |
|---|---|
| the message of a card is flushed, or no message at all | `Begin` |
| `handle_change_action`: skip, delete, model answer and branch | `Skip`, `DeleteFile`, `OpenBranch` |
| `_apply_file_change`, `FileBackupService` | `ApplyFile`, `ApplyRefused` |
| restore, `reset --hard`, `checkout` | `GiveUp`, `Reject` (through `LeaveBranch`) |
| `GitService.commit` and the outcome | `Accept`, `Record`, `CloseRaised` |
| end of the transaction, "database is locked" | `Close`, `LockTimeout` |
| a crash; a user saving a file | `Crash`, `Edit` |

### ArtifactVersions

The file, its row (`current`, `synced`) and its versions; a content stands for
its hash.  `replaced` and `overlapped` are history variables.

| Code | Actions |
|---|---|
| `save_content`: load, check, write | `BeginSave`, `Check`, `Open`, `Fill` |
| row and version, a commit each | `UpdateArtifact`, `Refresh`, `CreateVersion` |
| `rollback` | `BeginRollback`, `SelectVersion`, then as a save |
| `edit_artifact` | `BeginEdit`, `ReadForEdit`, `Open`, `Fill`, ... |
| others writing the file | `External` |

### StageFeed

Transactions (`change`), the server's `clients`, `stream` and `queue`, and the
pages' connection (`link`), pending `reads` and `view`.  Events are numbered.

| Code | Actions |
|---|---|
| `broadcast` before the transaction commits; `get_db` | `Announce`, `End` |
| `connect_sse`, its generator, its `finally` | `Connect`, `Send`, `EndStream` |
| `EventSource` errors, unmounting | `Break`, `Leave` |
| `fetchStageProgress`, `get_stage_progress` | `Answer`, `Apply`, `LoseRead` |
| the server process restarts | `Restart` |

A client whose queue is full leaves the set but keeps its open stream: it gets
what is queued, then nothing.  The event bus itself has no live subscriber and
is left out.

## 3. What is checked

### Passing runs

| Run | Instance | Shows |
|---|---|---|
| `pipeline_races` | 2 stages, 3 concurrent requests of any kind, one of which may fail at any point; semi-automatic and automatic project | `PendingReviewHasGate`, `OnePendingGate`, `ReviewedWorkRan`, `ExecutesInOrder`, `SignedOff` under every interleaving |
| `pipeline_single_operator` | 3 stages, 4 requests one after the other, two stages with a gate, first stage skippable | what holds in addition for an operator who waits for each response: `FreshResults`, `InProgressIsExecuted`, `ResetHasNoFreshArtifact`, `GateDecidedOnce`, `LeavesReviewByDecision` |
| `pipeline_liveness` | 2 stages, 2 concurrent requests, `full_auto` project with manual and automatic stages | `RequestsReturn`, `StageRunEnds` |
| `skills_batch` | 2 primaries, 3 auxiliaries, fairness | exclusion, order, clean-up of a batch, with failures at every step; `SkillBatch` implements `StageRun`, liveness included |
| `dag_scheduler` | every graph on 3 skills and one id outside the DAG, `max_parallel` 2, fairness | `Layered`, `OnlyCyclesLeftOut`, `AtMostMaxParallel`; `DagScheduler` implements `TaskGraph`, liveness included |
| `gate_approvals` | 2 stages, 3 requests to the pipeline one after the other, 2 calls of `/gates` at any point | `StrandedByCall`, `DoubledByRetry`, `SignedOffUnlessOverruled`, `BypassOnRecord`: each damage to a stage's gates is a call's doing |
| `skill_executions` | 2 skills, one a release skill, one batch, 3 requests | `NoRetryOfRetry`, `RetriesAfterFailure`, `UnconfirmedFromBatch`, `StoppedForGood` |
| `execution_plans` | 3 lists of two or three entries with all dependency sets, 2 requests, one of which may fail, and a generator that may | `SortIsRight`, `GroupsMeanComplete`, `AuxiliaryAfterPrimary`, `ExecutingHasOwner`, `TypeOK` |
| `arch_fix` | 3 fixes from decision cards, one tracked and one new file, one user edit, crashes | `MainUntouched`, `ExecutedStays`, `LeavesNothingBehind` |
| `artifact_versions` | 3 saves, rollbacks or edits, one foreign write | `SavedIsKept` whatever overlaps; `OneAtATime` for calls that do not |
| `stage_feed` | 2 transactions, 1 page, 2 connections, queue of 1, 3 events | `NoGaps`; `Shown` (liveness) |

`CHECK_DEADLOCK FALSE` is set because each instance serves a fixed set of
requests, batches, fixes or events and then stops; that nobody waits for ever
*before* that is `RequestsReturn`, `Shown` and the fairness of `StageRun` and
`TaskGraph`.

*Bounds.*  Two stages are enough for an advance, an automatic execution of the
next stage, and a rollback over one; a third stage gives the single-operator
run a stage in the middle, and its four requests are what it takes to decide a
gate, run the stage again and decide a second time.  Two requests that overlap
are enough for each race of a read with a commit, the third creates the state
in which they meet (a stage has to have come under review before two decisions
can race on it).  `MaxInFlight` stands for the connection pool.  For the batch,
two primaries give "the last one failed, the first succeeded" and the reverse;
three auxiliaries a holder of the lock, a waiter and one more behind it, so that
FIFO order and a session broken by another binding both matter.  Three skills
make a cycle with a skill behind it, a skill with two dependencies in one layer
or in two, and a layer in which two skills end badly while the third still waits
for a permit.  For `/gates`, one call strands a stage and the second reopens it
or overrules a sign-off.  Three execution requests are a trigger, a retry
of the same execution and a retry of that retry.  Three fixes are one that is
executed, one that fails on top of its branch and one that waits; two files are
one that git tracks and one that it does not, which `reset --hard` treats
differently; one edit is enough to make git refuse a checkout.  Three artifact
calls are two that race and one that reads what they left.  A queue of one
event with three events is filled, overflows and has an event behind the gap;
the second connection is the page's return.  The theorems below drop these
bounds for safety.

*Symmetry* permutes requests, calls, batches or fixes that cannot be told
apart, in runs that check safety only.

### A claim of the repository that does not hold

`arch_claim_branch` checks `MainUntouched` for two fixes that a *chat plan*
starts.  They hold no database lock while they work, share the checked-out
branch, and one commits its files to the user's branch; the comment at
`arch_governance_service.py:674` says that a fix is committed on a dedicated
branch.  `findings` in `PROJECT.json` quotes it.

### Divergences met while modelling

The models follow the code in all of these; they are listed for the reader of
the repository's documents, and no run is spent on them.

* The transition table of `stage_state_machine.py` is consulted by no one:
  stages start from `not_started`, and regenerate makes any stage ready.
* A failed auxiliary skill does not keep a stage from review; after a failed
  primary the auxiliaries' executions stay `RUNNING`, and a trigger for such a
  skill is then refused for ever.
* An execution may be `SUCCESS` without its artifacts, when the flushes of two
  auxiliaries collide in their shared session (`stage_orchestrator.py:485`,
  against the docstring at `:397`).
* Artifacts of an execution in flight are registered after a rollback, unmarked.
* `LockManager` excludes only skills of one batch: each request has its own.
* An approval through `/gates` does not advance the stage.
* Nodes of a cancelled or completed plan may be overwritten by an execution
  that overlaps.
* Two artifact calls that overlap may take the same version number, which
  `get_version` then refuses for ever; the conflict check of the older artifact
  editor compares with a hash cache that each request creates empty.
* An answer without files marks an issue executed and then raises on
  `applied[0]`; `reset --hard` on a failed fix discards uncommitted edits of
  the user.
* Events are broadcast before their commit, so a page may read too early; reads
  that overlap are applied in the order of their answers; a page that
  reconnects does not read again.

### Fairness

`StagePipeline!FairSpec` has weak fairness of `Continue(r)` for every request:
the event loop runs every ready task, waiting for SQLite's lock ends because
the holder goes on, and skills end because the CLI adapter kills them at its
timeout — which is what `SkillBatch` shows in detail.  Nothing is assumed of
clients: no request need arrive, so a stage may wait for its review for ever.

`SkillBatch!FairSpec` has weak fairness of every coroutine's and the batch's
steps, and of the exit of a process that received SIGKILL.  A process that runs
or received SIGTERM need not exit.

`DagScheduler!FairSpec` has weak fairness of the background task and of each
skill's coroutine: `wait_for` with `timeout`, then `kill_timeout`, then SIGKILL
bounds every execution.

`StageFeed!Spec` has weak fairness of the generators (`Send`) and, per event,
of answering a read and applying its answer: the loop runs a generator whose
queue is not empty, and a request that is sent is answered unless it is lost,
which is a step of its own.  Transactions, connections and reconnections owe
nothing, so `Shown` speaks only of changes that are committed while an event is
on its way.

### Mutants

Every property of a passing run has a mutant: a definition placed before the
one it replaces (`...Silently`, `...Unjudged`, `...Dropping`, ...) that differs
from it as a plausible mistake would (a dropped guard, a status filter
forgotten, a lock not released), and for which TLC finds the property violated.

## 4. What is proved

The theorems hold for every value of the constants that satisfies the named
assumptions of the modules: any number of stages, requests, failures, batches,
skills, fixes, files, calls and connections, any strategies, any finite graph.

| Module | Assumptions |
|---|---|
| `StagePipeline`, `GateApprovals` | `NAssumption`, `ParameterAssumption`; `CallsAssumption`: a request is served by one of the two writers.  The theorems about a single operator also assume `MaxInFlight = 1`, and `StageIsExecuted` that `Faulty = {}`: a request that fails while skills run leaves its stage in progress |
| `SkillBatch` | `CountAssumption`: the numbers of skills are naturals |
| `DagScheduler` | `NodesAssumption`: finitely many skills; `ParallelAssumption`: `max_parallel` is at least 1 (its default is 3) |
| `SkillExecutions` | `SkillsAssumption`: release, bound and id-named skills are skills; `OwnersAssumption`: routes and batches create different rows |
| `ExecutionPlans` | `SkillsAssumption`: the ids that one request can name are finitely many, and `Foreign` are those that are no skills; `LayoutsAssumption`: a layout is a list of entries; `FaultyAssumption` |
| `ArchFix` | `CardsAssumption`, `TrackedAssumption`, `EditsAssumption`; `NamesAssumption`: contents can be told apart.  The last three theorems also assume `Cards = Fixes`, all fixes come from decision cards; `arch_claim_branch` shows what happens otherwise |
| `ArtifactVersions` | `ExternalAssumption`; `NamesAssumption`: contents can be told apart |
| `StageFeed` | `CapacityAssumption`, `MaxEventsAssumption`, `ConnAssumption`, `LinkAssumption` |

| Theorem | Statement | Argument |
|---|---|---|
| **StagePipelineProofs** | | |
| `TypeCorrect` | `Spec => []TypeOK` | inductive (`TypeInit`, `TypeStep`); one step per action, `ReturnTyped` and `AdvanceTyped` for the two shared tails |
| `GatesAvailable` | a stage under review has a pending gate | inductive with `TypeOK` (`ReviewStep`): `StepKinds` sorts every step into *quiet* (no stage enters review, no gate leaves pending), completion and decision, `PassingStep` the effect of a decision |
| `GatesUnique` | at most one pending gate per stage | `UniqueStep`: only a completion creates a gate, and only if there is none; the check and the insert are in one transaction |
| `DecisionsRecorded` | a stage whose strategy asks for a decision is passed only with a passed gate | `SignOffStep`, with `GatesAvailable` and `StrategiesFixed` |
| `ExecutionOrder` | a request executes stages in order, each at most once | inductive on `pc`, `at` and `run` of one request; `AdvanceGoesForward`, `OthersUntouched` |
| `WorkBehindReview` | what is under review or passed has run | needs `ExecutionOrder`: a handler in `ending` with verdict `ok` has an execution that succeeded (`ReviewedStep`), a request that decides has seen the stage under review (`DecidedStep`), and `WorkStaysRun` says no step takes that back |
| *single operator* | | |
| `OneOperator` | `SingleInv`: who is served is alone, and acts on what the rows still say | inductive, see below |
| `ResultsFresh` | no stage is under review or passed on results a rollback made stale | only a rollback makes results stale, of the stages behind its own, and it takes these back in the same commit (`RollbackSingle`) |
| `ResetClean` | a stage back at `not_started` has no artifact that counts as current | the rollback has read all artifacts behind its stage, and nobody has added one since |
| `StageIsExecuted` | a stage in progress is the current one and is executed by exactly one request | `Executed`, stated for a witness; `Alone` makes it the only one |
| `DecidedOnce` | a passed or rejected gate stays so | `GateChanges` lists what writes a gate; a decision writes one that is still pending, and `GatesAhead` says a completion creates one where there is none |
| `ReviewEndsByDecision` | a stage leaves its review for passed only in the step that passes its gate | a handler completes a stage that is in progress (`Handling`), `PassingStep` says no other stage under review passes with it, and a decision passes the gate it has read, which is still pending |
| *both writers* | | |
| `GatesTyped` | types, with the second writer | `CallsOK`: what a call works on (`Working`), and that a bypass past its application has one on record (`Applied`) |
| `OnlyCallsStrand`, `OnlyRetriesDouble`, `SignOffKept` | a lost, doubled or overruled gate is traced to a call | a call that has decided has decided for good (`DecidedStays`); a step is the orchestrator's or a call's: for the former the step lemmas above apply as they are, for the latter the call is the witness |
| `WorkWithBothWriters` | also with `/gates`, requests execute in order and what is under review or passed has run | `OrderStep` and `WorkStep` for the orchestrator; `ServeLeaves`: a call writes no stage, no execution and no local of a request |
| `BypassApplied` | no bypass without a committed application | `Applied`: a bypass that resolves the gate has its application committed |
| **SkillBatchProofs** | | |
| `BatchTyped`, `ProcessesKept`, `Exclusion`, `CleanEnd` | type, keeper of a process, exclusion, nothing left behind | corollaries of `LockInvariant`, see below |
| `PrimariesFirst` | auxiliaries only after successful primaries | a second invariant over it: before its turn a primary has done nothing, and once the auxiliaries have started no primary moves |
| `OneOutcome` | `Spec => Abstract!Safe` | the initial state maps to `StageRun!Init`, and every step to an end of one batch or a stutter |
| **DagSchedulerProofs** | | |
| `LayersRight` | every skill listed once, after its dependencies, as early as they allow | part of `SchedInvariant` (`LayeredStep`), see below |
| `CyclesLeftOut` | the layers leave out exactly the skills on or behind a cycle | what is not placed when the loop ends depends on itself, so it is one of the sets that make up `Stuck`; conversely `ClosedOut` keeps every such set out |
| `ParallelBound`, `Settling` | at most `max_parallel` executing; nothing left running | `Running`: a queued or executing skill is of the running layer, whose permits and executing skills add up to `max_parallel` |
| `RunsAfterDependencies` | `Spec => Abstract!Safe` | a skill that gets a permit is in the running layer, its dependencies are in earlier ones, which have settled |
| **ExecutionPlansProofs** | | |
| `PlansTyped` | types; a request that works on a node has it still to do | inductive with `AtWork` |
| `SortCorrect` | the sort accepts exactly the lists that can be sorted, and sorts those | `SortInv`, see below |
| `GroupsComplete` | stored groups mean a whole plan with one primary skill per stage | `Progress`: what is stored follows from how far the generator is and whether the plan is still there |
| `AuxiliariesLast` | auxiliary skills run after the primary ones of their stage were started | `PrimariesFirst`: what a request has loaded as started is started, and what it has left out of `todo` is; `StaysStarted`, `NewlyStarted` |
| `ExecutionsOwned` | an executing node has a request that works on it or failed there | `Owned`, which also says what that request has loaded, so that its write to `COMPLETED` is not skipped |
| **SkillExecutionsProofs** | | |
| `TypeCorrect` | types, and rows only by their creator | inductive |
| `RetriesNotRetried`, `RetriesAfterFailures`, `Unconfirmed` | no retry is retried; retries repeat failures; unconfirmed releases come from batches | `Inductive`: `Rows` says which columns a batch's and a route's row can have, `Serving` what a request has checked before it creates its row.  `Settled` makes the check last: once its batch has ended, an execution that failed or was stopped stays so |
| `StoppedStays` | only its own batch undoes a stop | an action property: per action, with `Serving` for the routes that have looked at a row before they write it |
| **ArtifactVersionsProofs** | | |
| `TypeCorrect`, `SavedStays` | types; what was saved is kept under its number | versions are only added, and a call that answers has added its own |
| `OneAfterTheOther` | calls that do not overlap | while nothing has overlapped at most one call is active (`Alone`), versions are numbered up to `current` and upwards (`UpTo`, `InOrder`), the active call holds the next number (`Counting`) and, if nobody else wrote the file, has written the content it announces (`Writing`) |
| **StageFeedProofs** | | |
| `FeedTyped`, `NothingMissed` | types; no event heard after a missed one | `Registered`: who is in the client set has a serving stream; then heard and queued events follow each other, up to the last event announced for members of the set |
| **ArchFixProofs** | | |
| `TypeCorrect`, `CardsExclude` | types; two fixes of cards never work at once | `Locked`: a fix of a card that works holds SQLite's write lock from the flushed message to the end of its transaction |
| `UserBranchKept`, `CommitsKept`, `RolledBack` | the user's branch is untouched; executed fixes stay; failed ones leave nothing | `Branching`: a working fix has its own branch checked out; `Clean`: only the working fix has content that is not committed; `HeadSettled`: between fixes a settled branch is checked out.  `WaitingKeep` and `LeaveStep` are the two shared halves: what others cannot disturb, and the way back |

`EngineExclusive` alone is not inductive: a step from a state where a binding
executes without being at the head of the queue could break it.  `LockInv` adds
that only an executing binding has a live process (`Reaped`), that an executing
binding is the head of the queue (`Head1st`), that the queue holds only
bindings that are locking or executing (`Queued`), none twice (`Once`), and
that whoever is active is awaited by the batch (`Awaited`).  The last is what
makes `NothingLeftBehind` follow when a batch ends: everything it awaits has
settled, so nothing is active, so the queue is empty.

`SchedInv` has two halves.  `GraphInv` says that `in_degree` is the number of
dependencies not placed yet and that the layer found last is exactly what can be
placed next (`Counted`).  That is what a layering by counting has to get right,
and it needs the cardinality of set differences, hence finiteness.  `Paced` says
that all layers before the running one have settled, so that only its semaphore
is in use.

`SingleInv` says why one operator is spared the races of `pipeline_races`.  None
of its properties is inductive alone, since each would break in a state where a
handler commits what it has read too early.  `Alone` and `Untouched` give that
nobody else has read anything; `Synced` that the objects in the session say what
the rows say, so an unchanged field that is not flushed is right; `Handling`
that what the handler's guards have checked before an await still holds at its
commit, the artifacts a rollback has listed included; `GatesAhead` that the
gates a chain of automatic executions will create do not exist yet.  A request
that fails leaves all of this intact, so only `StageIsExecuted` needs
`Faulty = {}`.

`SortInv` has one half that holds for every list and one for lists without
repeated skills.  `Counted`: `in_degree` is not positive exactly for what is
queued or ordered, and the order repeats nothing.  `Settled`: `in_degree` is the
number of dependencies not ordered yet, all dependencies of what is ordered come
before it, and a set of skills each of which waits for another of the set stays
out.  With a repeated skill the edges are counted twice and the last entry's
`in_degree` once, so `Settled` fails; but then the order cannot reach the length
of the list (`SkillsAndEntries`), and the code refuses the plan.  The counting
needs cardinalities of differences of finite sets; that the last entry of a
repeated skill exists (`LastEntry`), the well-foundedness of finite sets.

*Only model-checked:* `RequestsReturn`, `StageRunEnds`, `Shown`, and the fairness
part of the two refinements, whose safety part is `OneOutcome` and
`RunsAfterDependencies`.  All of these are liveness under fairness, which needs
`ENABLED` and is beyond the prover.  Some type invariants are only proved and
named in no configuration.

## 5. Not modelled, and what is left

Most of the repository is not a protocol.  The models cover the services and
routes in which several requests, coroutines, processes or pages share state;
the rest reads its input and builds a text, a document or a query result in one
go, and a model of it would copy the code:

* *Generators*: document forge, C4 extraction and rendering, sketches,
  interface contracts, templates, import and export.  Text in, text out.
* *Scoring and queries*: complexity, health, metrics, search, history, the
  execution task center, CRUD routes and repositories.  One query or one
  committed row per request, no state between requests that others read.
* *Language models and CLI adapters* appear where they are called, as results
  that may come, fail or never come.
* *Frontend*, except the stage feed: components that render what they are given.
* `stage_state_machine.py` and the event bus: nobody calls the first, nobody
  subscribes to the second.

Within the modelled components these are left out:

* expiry of bypass applications and the approval chain behind them (records
  that gates do not read);
* `PostStage`'s scan of the directory the stages share (attributing files to
  executions by time of writing);
* the registry of the skills and their bindings, which is read at start-up;
* in `arch_governance_service.py` the scan and the card texts, of which only the
  answer matters here.

Left for later, in this order: the strategy cascade and the life cycle of
projects against a completing stage (`project_service.py`); the message numbers
of CLI sessions with several connections (`cli_service.py`).
