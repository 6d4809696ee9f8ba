# Formal models of the LongForm agents platform

TLA+ models of the program in `src/core`: the workflow engine, what keeps its
state in the database, the life of a run in a process, and the services around
it - agents that talk, plans that are compiled, files, approvals and events -
with the TLC runs that check them on small instances and TLAPS proofs of what
holds for every instance. `PROJECT.json` is the index: components, runs,
mutants, the map from definitions to source lines, findings, hazards and
theorems.

    tlc -workers 2 -config RuntimeRetry.cfg MCRuntime.tla     # one run
    tlapm SchedulerAloneProofs.tla                            # the proofs of a module

## 1. The system

A project is written by a *workflow run*. A plan (made by a model or taken from
a template) is decomposed into phases, given agents, compiled into a graph of
agents, quality gates, human reviews, forks and joins, and executed on one
asyncio event loop. Runs can be paused, resumed, cancelled and replayed, they
save checkpoints to a database, survive the death of the process, and several
processes may share one database.

### Inventory

| component (source) | state | operations | what is hard | what makes it correct |
|---|---|---|---|---|
| graph, builder, validators (`graph/types.py`, `builder.py`, `validators.py`) | nodes, typed edges | build, queries, validate | several notions of start, end and cycle | one edge per pair; a valid plan gives a graph that runs |
| scheduler (`graph/runtime.py`, `Scheduler`) | ready, running, completed, failed, in-degree counters | initialize, next, complete, snapshot, restore | counters lowered in any order; two writers of ready | joins wait; nothing is handed out twice; no release is lost |
| runtime, executors, router (`graph/runtime.py`) | graph state, status, counters of the loop | execute, main loop, resume, cancel, requeue, save | requests between any two awaits; retries; parallel batches; limits | gates hold, budgets hold, the loop stops, status is honest |
| collaboration graph (`run/collaboration_graph.py`, `run/run_context.py`) | control flags | pause, cancel, from_checkpoint, replay | flags read once per round; a recovered run is PAUSED whatever it was | no dispatch after a cancel; recovery repeats and skips nothing it need not |
| run lock (`run/run_lock.py`) | one row per project, heartbeat tasks | acquire, beat, takeover, release | late beats, dead owners, failing statements | one instance per project; a dead owner is replaced |
| checkpoint store (`agent/state_manager.py`, `run/checkpoint_migrate.py`, `storage/database.py`) | versioned column, history table, one connection | save, load, migrate, delete | one transaction for all coroutines, swallowed errors, version reset | a register; migration loses nothing |
| database (`storage/database.py`, `db/`) | the one connection, its lock and health check; the schema and the recorded scripts | get, probe, reconnect; base schema, migrations | awaits outside the lock; scripts that stop in the middle, two processes that start | one connection; a recorded script is done; moved rows arrive |
| lifecycle (`orchestration/runner.py`, `run/natural_runner.py`, `run/run_recovery.py`, `run/graph_registry.py`, `project/manager.py`) | project status, registry of live graphs | launch, start, finish, fail, reconcile | status and liveness are read at different times, a run lost by its registry | one launch, one runner; "running" ends |
| decisions (`communication/decision_service.py`) | decision rows | answer, resume | double answers; a resume racing the end of the run | one resume |
| agent loop, adaptive router (`agent/base.py`, `agent/tools.py`, `run/adaptive_router.py`) | messages, budgets, recursion depth | execute, tools, ask_peer, review, retry | nested agents on one context, timeouts at every level | calls are answered; the depth comes back |
| plans and compiler (`orchestration/decomposer.py`, `plan_validator.py`, `planner.py`, `run/template_compiler.py`) | the plan, a cache | decompose, refine, validate, compile | five modules with their own order | a valid plan runs, in its order |
| teams (`orchestration/template_matcher.py`, `agent/team_builder.py`, `agent/registry.py`) | agents, drafts of agents | match, register, compose, assign | concurrent planners, partial failure | every task has an agent that exists |
| long texts (`skeleton/`, `memory/curator.py`, `run/collaboration_hooks.py`) | current unit, window, threads | plan, expand, curate | copies written back after an await; a start in the middle; any list of phases | the three move together; nothing noted is undone |
| negotiation (`run/negotiation.py`, `run/shared_thread.py`) | ledger of constraints | extract, prompt, judge | one current_phase_id for all branches, phases without a gate | nothing agreed escapes its gate |
| conversation bus, consensus (`communication/`) | rows, history, cached verdicts | send, converse, check | one connection for all dialogues | answers hang on their questions |
| artifacts (`vault/`) | files, rows with their runs, versions | write, materialize, check | file and row fail separately; rows of earlier runs | no phase accepted with nothing on disk |
| approvals (`gateway/pending_tools.py`) | map and write-behind table | register, answer, reload | tasks that die with the process | a call runs once |
| event bus (`events.py`, `observability/redis_bridge.py`) | ring, client queues | broadcast, replay, relay | full queues, reconnection, two processes | order kept; losses are only what the bounds took |
| quality rules, budget, rate limiter, knowledge, cross-run memory, evolution, models, skills, security, studio, metrics | data or nothing | | I/O and text | not modelled, see section 7 |

Interaction: the main loop calls `Scheduler.next`, runs the batch through
`NodeExecutor`/`ParallelExecutor` (agents call models, tools and each other,
gates call the quality gateway), then `Scheduler.complete` and
`Router.resolve` + `_schedule_next`. The scheduler and the router *both* write
the ready set. `on_phase_enter` and `on_phase_complete` start dialogues, hand
over, write files and run the curator. HTTP handlers set the flags of
`run_context.control` and call `cancel`, `resume` and `replay_from` on the same
event loop; launches and resumes are wrapped in the run lock. Everything that
is stored goes through one SQLite connection, so the statements of all these
coroutines interleave in one transaction.

## 2. Plan

The order in which the modules were written, most important behaviour first.

1. `WorkflowGraph`, `GraphScheduler`: the graph as a constant and the scheduler
   as operators on a record; `SchedulerAlone` with its abstract specification
   `DagExecution`, and `SchedulerAloneProofs`.
2. `GraphRuntime` (composes the scheduler with router, executors, control
   flags, checkpoints, crash and replay) and `RuntimeProperties`;
   `RuntimeProofs` for every graph and for graphs with retries, `PipelineProofs`
   for those that templates without retries are compiled to, and for chains with
   gates.
3. `RunLock`, `RunLockProofs`.
4. `CheckpointStore` with its abstract specification `CheckpointRegister`, and
   `CheckpointStoreProofs`.
5. `RunLifecycle`, `RunLifecycleProofs`.
6. `AgentExecution`; `CompiledGraph`, `PlanCompiler`; `TemplateMatch`,
   `TeamPlanning`; `LongForm`.
7. `Negotiation`, `Conversation`, `Artifacts`, `Approvals`, `EventFeed`;
   `Connections`, `Migrations`. `MCServices` checks the parts of 6 and 7.
8. `AgentsProofs` about what agents do (`Negotiation`, `AgentExecution`,
   `Conversation`, `LongForm`), `ServicesProofs` about what is kept for them
   (`Approvals`, `Artifacts`, `EventFeed`, `Connections`, `Migrations`).

What is left, should the project go on: `GateHolds` and `NeverHitsSafetyLimit`
for phases with a node between agent and gate and for graphs with branches,
`TasksHaveAgents` as a theorem, the content of `run_checkpoints`, and a composition of `RunLifecycle` with `RunLock` for
several processes.

## 3. The modules and the code

Operators named `Mut...` are the plausible mistakes that show each property can
fail; nothing else refers to them. The `MC...` modules hold the constants of
the runs.

**`WorkflowGraph`.** Nodes with a kind, edges with a type and a condition.
Conditions are reduced to the two gate expressions the compiler writes (a pass,
a refusal) and "other", whose value each evaluation chooses. Edges to the end
marker are edges, as in `builder.build()`. `GraphAssumption` states what the
builder guarantees; a graph put together by hand may break it and is out of
scope.

**`GraphScheduler`.** The five fields of `Scheduler` are a record;
`initialize`, `next` (`Batches`, `Dispatched`), `complete` (`Succeeded`,
`Failed`), `is_complete`, `is_deadlocked` and the snapshot pair are operators
on it. Both users below apply these same definitions. Order within a set is
not kept: `next` may take any candidate when there is no parallel group.

**`SchedulerAlone` / `DagExecution`.** One variable; a step is one call of
`next` or `complete`. `DagExecution` says only: a node starts once, and when
every edge that holds it back is through.

**`GraphRuntime`.** Variables: the scheduler record, `GraphState` (its control
part), the runtime's status, the control flags, the place of the loop, results
of the current batch, the last checkpoint. A step is what the coroutine does
between two awaits at which someone else can act:

| action | code |
|---|---|
| `Execute` | `execute()` up to the loop |
| `StopTerminated`, `StopAtLimit` | `GraphState.should_stop()` |
| `HonourCancel`, `HonourPause` | the control flags at the top of a round |
| `NothingLeft`, `NothingEligible`, `Schedule`, `DispatchMissing` | the four outcomes of `next()` |
| `FinishNode` | one node of the batch ending in `NodeExecutor.execute`, per kind; an agent in `Adaptive` may also ask a human (`AskAdaptive`) and leave the run paused |
| `Settle`, `SettlePaused`, `RouteRaises` | `complete()`, `resolve()`, `_schedule_next()` with the requeue and skip of `_requeue_quality_retry` |
| `Tail`, `Final` | the end of a round, the end of the loop |
| `Resume`, `ResumeRaises`, `Cancel`, `RequestPause`, `RequestCancel` | calls from outside |
| `Crash`, `Recover` | death of the process, `from_checkpoint` |
| `ReplayFrom` (with `ResetFromPhase`), then `Execute` | `replay_from` |

`runs` is a history variable: how often each node was handed out. `env` holds
the run's configuration value `review_mode` and the bounds.

**`RunLock`.** One row of the lock table, statement by statement. Time advances
by ticks; only ages are kept, and ages beyond `STALE_AFTER + MaxElapsed` are
cut off because nothing distinguishes them. A task computes with the clock it
read when it began, as the code does.

**`CheckpointStore` / `CheckpointRegister`.** The slot of one project as
statements see it and as of the last commit (`disk`), and whether a transaction
is open on the one connection. A statement is a step.

| action | code (`agent/state_manager.py` unless named) |
|---|---|
| `Select`, `Begin`, `Update` (`Hit`, `Miss`, `UpdateFails`), `CommitUpdate`, `Conflict` | `save_checkpoint` and its callers' answer to a conflict |
| `Insert`, `Close` | `_append_checkpoint_history` |
| `Ask`, `Patch` | `load_pending_decision_raw`, `_patch_run_context_decision_id` (`decision_service.py`) |
| `Advance`, `Resume`, `Unload` | `GraphRuntime._save_checkpoint`, `CollaborationGraph.from_checkpoint`, the end of a run |
| `Delete`, `CloseDelete` | `delete_checkpoint` |
| `ForeignWrite`, `ForeignCommit`, `Crash` | any other user of `get_db()`; the death of the process |

A document is what matters of a `RunContext`: how much work it holds, whether
the decision is in it, whether it has the old form. `CheckpointRegister` is the
abstract specification: a document is replaced as a whole under the next
version, or cleared, and a safe copy is what a rollback returns to.

**`RunLifecycle`.** One project in one process: the row, the mark `_executing`,
the registry `_running`, the runtime of each graph, and coroutines of three
kinds. A step ends at an await. A run is named by the coroutine that began it
(`RunOf`); an answer that finds no live graph of it makes one of its own from
the checkpoint, which nobody registers (`Ensure`). An exception before the
handler in `execute_workflow` leaves the status as it is (`CompileFails`).
`MCLifecycle` lets one of a set of casts of coroutines come together in a
behaviour; the others stay where a crash would leave them.

| action | code |
|---|---|
| `Resolve`, `Check`, `Lock`, `Unavailable`, `Delete`, `ReadRow`, `WriteConfig`, `BeginRun`, `ClearRecover`, `Register` (or `CompileFails`), `Start`, `End`, `Timeout`, `AfterTimeout`, `Raise`, `Finish`, `Except`, `MarkRecover`, `Fail` | `launch_workflow`, `execute_workflow`, `_execute_workflow_body` |
| `StartNatural`, `BackgroundFails` and the shared steps | `start_natural_run`, `execute_natural_collab`, `background_safe_execute` |
| `ReadDecision`, `ResolveDecision`, `Ensure`, `Resume` and the shared steps | `resolve_decision_and_resume`, `ensure_collaboration_graph` |
| `ReadStatus`, `DetectOrphan`, `Reconcile` | `reconcile_orphaned_run`: the row is read, then liveness is asked, then the row is written |
| `Crash`, `LockExpires` | death of the process; the lock row it leaves goes stale |

**`AgentExecution`.** The agent nodes of one batch. A coroutine is a stack of
frames, one per agent that is executing: `ask_peer` pushes one, and every way
out - a text, an error, an exception, a timeout of an inner or of the whole
execution - pops one or more.

| action | code |
|---|---|
| `ExecuteAgent`, `RetryEmpty`, `RecordResult` | `NodeExecutor._execute_agent` (`graph/runtime.py`) |
| `Continue`, `Retry`, `AskHuman` | `_adaptive_evaluate`, `AdaptiveRouter.evaluate` |
| `ReplyText`, `ReplyCalls`, `ReplyError`, `NextRound`, `LastRound` | the loop of `BaseAgent.execute` |
| `UseTool`, `NoTools`, `AskOverBudget`, `AskNobody`, `AskRefused`, `Ask` | one tool call; `_ask_peer`, `execute_subgraph` |
| `ReviewPasses`, `ReviewRefuses` | self review |
| `Raise`, `PeerTimeout`, `AgentTimeout` | exceptions, the three `wait_for` |

**`CompiledGraph` / `PlanCompiler`.** `CompiledGraph` holds pure operators: what
`TemplateCompiler`, `GraphBuilder.build` and `GraphValidator` compute, and the
nodes a run of the scheduler would release. `PlanCompiler` is the way there:
`Decompose`, `Refine`, then `AutoPlan`, `SavedPlan` or `Template`, then
`Compile` behind its cache, and `AskAgain`.

**`TemplateMatch` / `TeamPlanning`.** `TemplateMatch` holds the matcher's layers
and the choice of a team as operators on scores. `TeamPlanning` runs planners
of both forms side by side over the tables of agents and of temporary agents:
`List`, `EnsureGeneric`, `Split`, `Match`/`MatchFails`, `Use`, `Compose`,
`Fill`, `Revise`, and `RollBack` of the shared connection.

**`LongForm`.** `PlanSkeleton` (the skeleton and the expansion of the writing
phase in any list out of `Plans`, with the topology inferred from the result),
`Ingest` (the run is put at any unit, with any window and threads),
`DispatchPhases`, `Fail`, `Curate` (the curator takes its copy),
`Curated`/`CuratorFails` (and writes it back), `GateEnds`. A phase that failed
goes on to its gate and to its successors, as the router does in `GraphRuntime`,
and a phase is due as soon as one of those before it is done (`Due`).

**`Negotiation`.** A batch of phases: `Enter`, `Discuss`, `Prompt`, `AskPeer`,
`PeerAnswers`, `Finish`, then the gate's `StartGate`, `Judge`, `JudgingFails`,
`Verdict`, or, for a phase compiled with a human node in the place of the gate
(not in `Gated`), `Review`.

**`Conversation`.** The same moment seen from the bus: `Enter`, `Insert` and
`Commit` of each message (an await apart), `Break`, `Conclude` (consensus with
its cache), `HandOver`, `SendBack`, `RollBack`.

**`Artifacts`.** `FileWrite` (the tool), `PersistOutput` (the runtime),
`CheckOutput` (the check that fails a node), `Materialize`, `Redo` and `NewRun`,
over files, rows and kept versions. A row names an agent and a run: the row of
the tool bears the run it is written in, those the platform adds bear none
(`Unmarked`), and the check counts both but not the rows of other runs.

**`Approvals`.** `Execute`, `Resolve`, `WriteBehind` (one background task
reaches the connection), `Reconnect` (tasks wait while the connection is made,
and may be overtaken: `Turns`), `Crash`, `Start`.

**`EventFeed`.** `Broadcast`, `Relay` between processes, `Connect` (subscribe
and replay), `Receive`, `Disconnect`, `Restart`. An event is of the client's
project, of another or of none (`Of`): each takes a number, only the first goes
into the ring, and the last is only handed to clients that are connected.

**`Connections`.** `_get_sqlite_conn` as coroutines run it, a step per await:
`Get`, `ProbeReturns`, `CloseReturns`, `Acquire`, `Connected`, `Settings`,
`SetUpFails`, `ModeReturns`; around them `Tick` (two minutes) and `Breaks`. The
global `_db` is read again after each await, as in the code: what a coroutine
closes need not be what it probed, and what it returns need not be what it made.

**`Migrations`.** The start of processes: `Schema`, `ReadVersions`, then per file
`Skip` or `Begin`, `RunStatement` for each statement of `executescript`,
`DuplicateColumn`, `StatementFails`, `Record`; `Started` and `Dies`. Columns and
indexes are names. Of the data only the rows that script 026 moves are kept,
with `MakeCopy`, `CopyRows`, `DropTable` and `RenameTable` for its statements.

`MCServices` puts eleven of these parts into one state space that is their
disjoint union: the initial state picks a part out of `Parts` and only that
part takes steps. Each part is checked exactly as it would be alone; nothing is
said about their composition.

## 4. What the runs show

| run | instance and bounds | properties | distinct states |
|---|---|---|---|
| `MCScheduler` | fork, unequal branches, join, error handler, error edge to the end, loop-back | `JoinSafe`, `ImplementsDag`, `ReleasedNodesRun` | 149 |
| `RuntimeRetry` | two gates in a row, 2 retries, both modes, a failing agent, a guarded node, a checkpoint every 5 nodes, 1 pause, 1 crash | `RetryWithinBudget`, `GateHolds`, `NeverHitsSafetyLimit`, `RetryNotDeadlock` | 257 930 |
| `RuntimePause` | compiled two-phase pipeline with a human review, agents that may ask a human, 2 pauses, 2 crashes, a checkpoint every 2 nodes | `RunsOnce`, `EndsWell`, `CausalOrder`, `LossBounded`, `CompletedMeansDone`, `HumanGate` | 22 168 |
| `RuntimeCancel` | the same with failing nodes, failing writes, 1 cancel request or `cancel()`, 1 crash, 1 replay | `NoDispatchAfterCancel` | 119 902 |
| `RuntimeLoop` | router with a default edge into a loop that feeds itself, a checking checkpoint, an error edge to the end, guarded nodes, an agent that may ask a human, 1 pause, 1 crash, `max_iterations` 2 | `NotTwice`, `QuiescentSave`, `Stops` | 293 429 |
| `LockExclusive` | 3 processes, 2 may die, beats at most 1 tick late | `MutualExclusion`, `NeverDisplaced` | 36 276 |
| `LockSilent` | 2 processes, 1 may die, beats, inserts, confirmations and deletes may fail | `SilentRowReplaced` | 18 306 |
| `Checkpoint` | a run that saves twice, a coroutine that answers 2 requests, 1 delete, 1 crash, other users of the connection, failing updates and inserts | `ImplementsRegister`, `MigrationLossless` | 440 269 |
| `Lifecycle` | any three of 2 launches, 1 natural run and 2 answers to decisions; 2 crashes | `OneLaunch`, `OneRunner`, `RunningEnds` | 790 405 |
| `Services` | eleven parts, each with the bounds below | one or two for each part | 4 020 458 |
| `FindFailure` | the pipeline with a failing agent | `FailureHoldsBack` (violated) | |
| `FindUnsaved` | one run and one request, nothing fails | `SavedIsStored` (violated) | |

The parts of `Services`:

| part | bounds | property: what it says |
|---|---|---|
| `Negotiation` | phase A, then B and C together; C has a review in the place of a gate; 2 texts; 1 retry | `NoneUnjudged`: every constraint recorded under a released phase with a gate has a verdict, unless judging raised |
| `AgentExecution` | 2 agents that may ask each other, depth 2, 1 retry of each sort | `CallsAnswered`, `DepthIsPeers` |
| `PlanCompiler` | plans of at most 3 tasks out of an answer of 4, every dependency relation | `ValidPlanRuns`, `PlannedOrderKept` |
| `LongForm` | 3 units at most; 4 lists of phases (the writing alone; a chain; with a phase beside it; none naming a dependency); put at unit 1, at 3 with a window, at 2 without; 1 thread due in the first unit; window of 2; 1 retry | `MemoryMovesTogether`, `ResolvedStays` |
| `TeamPlanning` | 2 planners, one of them streaming; 3 templates; 2 tasks | `TasksHaveAgents`: every task of an unrevised plan has an agent that exists |
| `Conversation` | 2 speakers with 1 and 2 rounds, 1 rollback | `AnswersThread`: an answer hangs on its question |
| `Artifacts` | 2 phases of one writer, one with an expected file; 1 repetition; 2 runs | `NothingFromNothing`: a phase is completed only with an expected file, a file its agent wrote in this run, or one the platform stored for it |
| `Approvals` | 4 calls, of every mode; 2 crashes; the connection made anew at any time | `RunsOnceUnlessLost`: an approved call runs once and a refused one never, unless the removal of its row was lost or its tasks met a new connection |
| `EventFeed` | 2 processes, ring of 2, queue of 1, 3 events of three sorts, 1 restart | `FeedHasNoGap`: in order, no event twice, and none missing but those the bounds took or nobody keeps |
| `Connections` | 2 coroutines, 4 connections, 2 that break, 1 set-up that fails | `OneUndisturbed`: undisturbed, everybody is given the same one connection |
| `Migrations` | 2 processes, scripts 016, 026 and 029, empty and old databases, any number of crashes and failures | `SimpleScriptsDone`, `RowsKept`: the rows 026 moves are in one of its two tables, unless two processes moved them at once |

The bounds are small but reach the interesting cases. With two gates one
verdict can leak to the next; two retries are the least number that separates
an off-by-one from an uncounted retry; two pauses pause a resumed run, and two
crashes crash a recovered one; a checkpoint every two nodes leaves one node
unsaved at a crash, and in `RuntimeRetry` it is every five, the value of the code
(`types.py:575`), so that a crash takes back up to three rounds of a retry;
`max_iterations` 2 lets the loop limit and the safety limit both be reached, and
in `RuntimeRetry` it is 7, just above what the longest legal run needs, so that
`NeverHitsSafetyLimit` is tight. The graph of `RuntimeLoop` has what sends the
main loop round again - a loop node, a router, preconditions that hold back, a
pause - so that `Stops` has something to refute. Three processes let
two of them compete for a dead owner's row. Two saves and two requests
let a conflict, its retry and another conflict happen; one foreign transaction
is enough to swallow a `BEGIN`, to commit what is not its own, or to leave
statements that a crash takes back. Any three of the
five coroutines of `Lifecycle` meet: two launches beside a natural run or an
answer, two answers beside a launch or a natural run, so that both get past the
check before and after the graph is lost; two crashes let a run that is found as
an orphan, or marked to be recovered, be lost again. A ring
of two and a queue of one overflow at the third event. A thread due in the first
unit is passed, overdue and resolved late, and is long past for a run that begins
at the third; a window of two slides once.
Two runs are enough for a row of an earlier one. Three tasks are the least that
make a fork, a join and a chain that leaves a dependency out.
Two coroutines are enough for one to undo what the other did to the connection;
with two that break, one that was made anew breaks again. Scripts 016, 026 and
029 are the three kinds: one column at the end, a moved table, and a column with
something after it.
`MayFail` and `Guarded` keep the failing and the held-back nodes apart so that
each graph has both.

Some properties hold only on a kind of graph or of plan, and say so:
`CausalOrder`, `CompletedMeansDone` and `EndsWell` on pipelines,
`RetryNotDeadlock` on gates that follow their agent directly, `ResolvedStays`
where the phases run one by one, `NoneUnjudged` of phases that have a gate,
`PlannedOrderKept` on plans that were neither
refined nor saved. `RetryWithinBudget` is not the retry budget alone: a crash
takes back what was counted since the last checkpoint, `LostRounds` executions of
an agent at most. `OneRunner` excepts a run its process has lost. Where the code does not keep a claim that its documentation
makes without such a condition, the difference is listed here.

`OneLaunch` excepts launches whose mark a failed background task has
dropped, and `RunningEnds` is about one process.

### Disagreements between code and documentation

Runs that expect a violation (quotes in `PROJECT.json`, `findings`):

* `FindFailure`: a failed agent's ordinary successor is executed. `complete`
  holds it back; the router, asked regardless of the result, releases it.
* `FindUnsaved`: `save_checkpoint` returns the next version though nothing was
  written. Its `BEGIN` fails inside a transaction that another coroutine has
  opened on the same connection, and the error is swallowed
  (`state_manager.py:255`).

Seen in the models and not kept as runs of their own; a definition named in
brackets fails in the model, on the graph or the instance described. In the
engine:

* A join starts when its shorter branch is through: `_schedule_next` does not ask
  `pending` (`runtime.py:3142`; `JoinWaits`, on the graph `Skew...` of `MCGraphs`).
* In a compiled retry phase, with its checkpoint node between agent and gate, a
  refused output ends in "deadlock" (`runtime.py:3271`; `RetryNotDeadlock`, on the
  graph `Phase...` of `MCGraphs`).
* A first gate that times out lets through what it protects (`runtime.py:3149`;
  `FailedGateHolds`, on the instance of `RuntimeRetry` with that gate in
  `MayFail`).
* An agent that failed, was sent back and succeeded counts twice in `is_complete`
  (`runtime.py:322`): the run is COMPLETED before the gate has judged the second
  output (`CompletedMeansDone`, on a compiled retry phase whose agent may fail).
* Human nodes executed in a parallel batch mark the state paused, but the run
  ends as CANCELLED and cannot be resumed (`runtime.py:2919`).
* `replay_from` keeps nothing: `execute()` makes a new `GraphState` and starts
  from the start nodes (`runtime.py:2811`), against `collaboration_graph.py:212`
  ("保留上游输出").
* Under review, used-up retries end the run as FAILED (`runtime.py:3195`)
  although the comment five lines above says it waits for a human.
* A pause or a crash between a refused verdict and the next round counts the
  verdict twice (`runtime.py:3178`).
* Under review, a run that has failed because its retries are used up may be
  recovered: its last checkpoint has the state PAUSED after `from_checkpoint`,
  and on a graph with another branch the resumed run goes on beside the refused
  phase and ends as "deadlock" (`RetryNotDeadlock` fails there).
* The default target of a router is executed together with the chosen one, and
  an error handler also after a success: `complete` and `_evaluate_edge` treat
  these edges as ordinary ones (`runtime.py:310`, `:608`).
* A skipped phase may still run. A refused gate leaves its agent in `ready`;
  each resume then routes the gate again and spends a retry, and the one past
  the limit skips the phase without taking the agent out
  (`runtime.py:3222`): agent and successors run together (`NotTwice` fails on
  the instance of `RuntimeRetry`).
* A checkpoint node returns a snapshot and writes nothing (`runtime.py:1990`).
* An approved human node stays among the failed nodes (`types.py:448`), so the
  run is reported as partial.
* The feedback of an adaptive retry is stored where nothing reads it, and a
  node that asked a human is not run again (`runtime.py:1341`).
* Autofix never runs: it calls a method the gateway does not have
  (`coach.py:103`). The run budget is compared with counters that nothing
  raises (`budget.py:58`).

In storage, locks and the life of a run:

* After a crash, two answers to one decision both read that it is open
  (`decision_service.py:139`), and each rebuilds the run from the checkpoint
  without registering it (`graph_registry.py:46`); the run lock lets both in as
  the same instance, and the run is executed twice (`ActedOnce`, with one launch,
  two answers and one crash).
* A connection breaks while two coroutines use it. Each closes it, outside the
  lock (`database.py:181`); the one whose close returns last clears the
  connection that the other has made since, and makes another (`OneWriter`). The
  other may also be given `None` (`NeverNone`).
* On an empty database script 029 ends at its ALTER, because the base schema has
  the column; it is recorded and its index is never made (`database.py:344`;
  `RecordedIsDone`). A script with several ALTERs that was interrupted ends the
  same way.
* A process that dies between DROP and RENAME of script 026 leaves the rows in
  `asset_versions_new`; the next start makes an empty `asset_versions` and
  records the script (`database.py:327`; `RowsMoved`).
* A re-entrant acquire keeps running after the first release has deleted the
  row, and another process takes the project (`run_lock.py:74`). A beat later
  than `STALE_AFTER` (45 s; it shares the event loop with the workflow) lets a
  second process in; the first does not look.
* An answer or a pause that meets the end of its launch leaves whichever status
  was written last (`runner.py:511`).
* The patch of a decision reads a document and writes it back whole and without
  an expected version, over whatever progress the run has saved in between
  (`decision_service.py:65`). History is trimmed by the row id of the oldest
  version to keep, so that after a delete, which starts the versions anew, newer
  rows may go before older ones (`state_manager.py:97`).
* The post-run hook is a coroutine that is never awaited
  (`collaboration_graph.py:509`).

In plans and teams:

* A revised plan names agents that do not exist (`planner.py:332`), keeps the
  layers of the plan before it (`planner.py:352`), and lists stored in the order
  of the model's answer are chained in that order: `RevisedHaveAgents` and
  `DependenciesKept` fail.
* The compiler's cache does not tell topologies apart
  (`template_compiler.py:175`; `CacheFits`), and the graph validator is called by
  nobody (`validators.py:3`; `Validated`, `WithoutWarnings`).
* A task may be done by another agent than the one the matcher found for it
  (`MatchedAgentKept`).

In what agents leave behind:

* What is agreed under a phase that a human reviews or decides about is never
  judged (`template_compiler.py:461`; `EachIsJudged`), although the prompt says
  so (`negotiation.py:204`).
* A chapter may be written with the brief of the next (`curator.py:63`;
  `ChapterGetsOwnBrief`), and the preconditions that are to chain chapters hold
  nothing back (`integration.py:205`).
* A missed constraint is not put before the agent that repeats the phase
  (`run_context.py:314`; `UnmetIsListed`).
* A file the agent wrote with its tool is replaced by its last message
  (`runtime.py:1744`; `DeliverableKept`); another phase's file counts as this
  phase's, and so does a message of an earlier run that the platform stored
  (`project_artifact_service.py:308`; `OwnFile`).
* A list of phases that names no dependencies is a pipeline as it was planned and
  a dag once the writing is expanded, because the chapters name some: a review
  planned behind the writing starts with the first chapter
  (`template_compiler.py:103`, `integration.py:205`).
* After a rollback an id of the message table is given out again, and an answer
  may hang on a stranger's question (`bus.py:76`; `AnswersThreadAlways`); a
  phase that was sent back talks with the author of the last hand-over to all
  (`TalksWithAuthor`); the bus never has the hand-overs of earlier executions
  (`bus.py:502`). The verdict of the consensus check is cached without its
  threshold and the cached dictionary is changed in place (`consensus.py:120`).
* An optimised agent definition is not written back: the update raises and the
  exception is swallowed (`self_optimizer.py:218`).

The definitions named here without a run of their own, and those marked "(Not
so.)", stand in the modules beside the properties that do hold; no run checks
them. Those without a definition were found while the lines were modelled.

## 5. Fairness

* `GraphRuntime`: `WF_vars(MainLoop)`. The loop is one coroutine; every await in
  it ends, because nodes run under `asyncio.wait_for` or, for agents, under
  timeouts of their own. Nobody is obliged to ask, resume, recover or replay, so
  `Stops` (in `RuntimeLoop`) says that the loop stops, not that the run completes.
* `SchedulerAlone`: `next` is called again while there is something to hand
  out, and every running node ends; both follow from the main loop.
* `RunLock`: time passes, a heartbeat task and a task inside a statement are
  scheduled, workflows end, and processes keep asking. A crash is never fair.
  `BeatDies` and a failing statement may happen every time: `SilentRowReplaced`
  holds without assuming that a release ever succeeds.
* `RunLifecycle`: a coroutine that has begun goes on (`WF_vars` for each launch,
  natural run and answer, except in its first place), because every await in it
  ends. `ReadStatus`, `DetectOrphan` and `Reconcile` are fair: they run at every start of the
  process and whenever a project is shown. Nobody has to begin a coroutine, and
  a crash is never fair. `RunningEnds` rests on the reconciler alone where a
  process died or a background task broke.
* `CheckpointStore` and the parts of `Services` are checked for safety only.

## 6. Proofs

Every theorem holds for all values of the constants that satisfy the named
assumption of its module.

`SchedulerAloneProofs` assumes `GraphAssumption` and nothing else: every graph,
every order of batches, successes and failures. Inductive invariant
`IInv == TypeOK /\ Disjoint /\ JoinSafe /\ CountsOpen`, where `CountsOpen` says
that the counter of a node which has not started is the number of its
incoming edges still open. `JoinSafe` alone is not inductive: that `complete`
may release a node at counter zero is only safe because the counter *is* that
number. The lemmas are about opening and closing one edge (`CloseOne`), about
one node ending (`EndingIInv`, used for success and failure), and one per
method. From it: `TypeCorrect` (no counter of a node below zero), `JoinSafety`,
`Disjointness`, and `Refinement` (every step is a step of `DagExecution` or a
stutter).

`RunLockProofs` proves `TypeCorrect` from `LockAssumption` alone, and
`Exclusion` and `Undisplaced` under `ExclusionAssumption`: one workflow of the
project per process, no failing beat, confirmation or release, and
`MaxBeatDelay + 2 * MaxElapsed < STALE_AFTER`. The code's constants are a beat
every 10 s and staleness at 45 s, and it bounds neither the delay nor the
calls, so the assumption is the operating condition the lock needs.
The inductive invariant adds to `TypeOK`: a workflow that runs has its row and a
heartbeat (`RunsWithRow`), a row names only a task between its write and its
delete (`RowIsHeld`), how old the row of a live task can be at each place
(`RowIsFresh`), and the owner a task is about to displace has died
(`VictimIsDead`). `RowIsFresh` is what makes a row that looks stale a dead
process's (`StaleIsDead`).

`CheckpointStoreProofs`: `TypeCorrect`, and `SlotIsRegister`, that the store
implements `CheckpointRegister` for any number of requests, saves, crashes and
foreign transactions. The mapping takes the slot as statements see it for the
register and the committed one for its safe copy; lemma `StepRefines` goes
through the statements and shows each to be a `Put`, a `Clear`, a `Keep`, an
`Undo` or a stutter. The type invariant is all that needs: the version check and
the update are one statement. `WriteBackLosesNothing` (`MigrationLossless`)
needs more, because a version does not identify a document: a rollback takes
versions back and they are given out again. `MigrationInv` adds that only the
document from before the upgrade has the old form and the slot does not return
to it without its saved copy (`OnlyOld`), and that from its load on slot and
copy hold it or a later version until a delete (`Since`).

`RunLifecycleProofs`: `LaunchExclusion` and `RunnerExclusion` for any number of
launches, natural runs and answers. `OneLaunch` is not inductive; `Marked` is
what it lacks: a launch inside the body has the project in `_executing`, unless
a background task broke. `OneRunner` needs `RunInv`: a launch or natural run that has not come to
its execution has a graph that is new (`NotStarted`), an answer that is about to
resume has a graph to resume, and a copy of its own only of a run that the
registry has lost for good (`Usable`); a checkpoint is of a run that was executed
(`Stored`); the graph of whoever executes is not PAUSED (`Executed`), which is
what `resume()` asks before it runs one, so that no graph is executed twice
(`OneGraph`). What is proved is exactly what the registry gives: the run it holds
is executed once; a run it has lost may be executed by answers with copies
(`ActedOnce` fails, section 4), and the theorem says that by nothing else.
`TypeCorrect` follows.

`RuntimeProofs` is about every graph the builder accepts, under
`GraphAssumption`, `RuntimeAssumption` and `NullAssumption` (a node has at most
one default and one loop-back edge, bounds are positive, NULL is none of the
values). `RInv` is inductive: nothing is in flight where the loop, a resume or a
replay may go on (`Quiet`), results belong to nodes in flight (`Results`), a
batch is one node or a group without edges inside (`OneBatch`), the counter of
`next()` ends just past its limit (`Bounded`), and a checkpoint holds no running
node (`SavedQuiet`). It gives `RuntimeTypeCorrect`, `CheckpointsAreQuiet` and
`CancelEndsDispatch`. `NotTwice` is false in general (the skipped phase of
section 4). It is proved while no phase has been skipped (`NotTwiceUntilSkip`),
and without a condition in review mode, which skips none (`NotTwiceInReview`);
the invariant has to speak of the checkpoint too, because a recovery goes back
to its retry counters.

Two more theorems of `RuntimeProofs` are about graphs with retries; the graph and
the constants of `RuntimeRetry` satisfy their hypotheses.

* `RetriesAreBounded` (`RetryWithinBudget`) under `Budgeted`: every agent has one
  gate and is no gate itself, an agent with others before it neither fails nor asks a
  human (a resume would route those before it once more), nothing is replayed,
  and if the process may crash, checkpoints are written, any number of nodes
  apart. A crash takes back the batches settled since the last checkpoint and the
  one at hand, and an agent is in every other of them at most, because its gate is
  between two of its turns: `LostRounds`, three for the five nodes of the code.
  What is inductive (`BInv`) is a balance: the times an
  agent was handed out, with the one it is `ready` for, are paid for by
  the first execution, the retries granted and what crashes have lost (`Within`), in
  the live state as well as in the checkpoint, where as many more are due as the agent
  has been handed out since it was written, at most one in two batches
  (`HandedOut`, `Spent`).
* `RetriesDoNotDeadlock` (`RetryNotDeadlock`) under `Direct`: a gate follows its
  agent directly, the only conditions are those of gates with a retry, no agent
  asks a human, and every node is reached from the start. Inductive (`DInv`): the counter of a node with one
  way in is at most one (`LowCounts`), a gate that has run has left a verdict
  (`Verdicts`), and in every state and checkpoint from which the loop may go on
  what follows a completed node has a place or somebody has failed (`Gathered`,
  `SavedWhole`). The theorem leaves out runs in review mode
  after a crash (`Sheltered`), for which the property is false (section 4).

`PipelineProofs` is about the graphs of templates without retry edges, through
pauses, resumes, crashes and recoveries in any number. `Tree`: one way into
every node, no loop-back edge, no failing node, no replay. On a tree
`OnceOnTrees` (`RunsOnce`) and `CausesFirstOnTrees` (`CausalOrder`) follow from
`TInv`: every node has one place in the scheduler, what has a place has its
predecessor behind it, and the node that a resume would route again leads to
nothing that is listed as failed (`Placement`); a node was handed out once, and
once more for each crash (`Counted`). `Pipeline` adds: one way out of every
node, one start, no error edge, and whoever leads to the end marker has all
others before it. On a pipeline `PipelineCompletes` (`CompletedMeansDone`) and
`PipelineHumanGate` (`HumanGate`) follow from `PInv`: one node at a time is at
the front, and a run terminates as completed only behind all of them. With
`SaveMayFail = FALSE` also `PipelineLossBounded` (`LossBounded`): a checkpoint
that is not written loses more. `PipelineEndsWell` (`EndsWell`) needs a pipeline
with nothing in its way (`Unhindered`: no conditions, preconditions or loop
counters, nobody cancels, and the limit of rounds fits its length); its invariant
`EInv` says for which reasons the loop may be left (`Reasons`), that rounds are
nodes that were started (`Calm`), and that what follows a node that is done has a
place, but for what follows the human node that a resume is to route (`Behind`).
The hypotheses are there for what the code
does without them: a loop-back edge, a failing node with its retry or a replay hands a node out
again, a join may run before a branch (section 4), and `is_complete` counts a
failed and repeated node twice. The graph of `RuntimePause` is such a pipeline; its
constants satisfy all of them.

`GatesHold` (`GateHolds`) is about pipelines with gates, with replays, cancels and
checkpoints that are not written. `Gated`: one node leads to one other, from one
start; a gate that sends back stands directly behind its agent, and nothing else
leads to it; no agent asks a human by way of the adaptive router; it lets on only by an edge that asks for a pass, and what it protects
follows nobody else and checks nothing itself; such an agent asks nobody and
checks nothing; only a node that others do not lead to may fail. The graph and the
constants of `RuntimeRetry` satisfy it. Inductive (`GInv`), for the live
state and for the checkpoint alike (`Fit`): at most one node is live; why it may
be ready is told by the node that ran last, which a resume would route again
(`Near`, `Due`); whoever is ready or runs although its phase was skipped is an
agent (`Worn`); who runs, has completed or is the point of a resume has been
handed out before (`Ran`); and what is ready for the first time was let on
(`Allowed`). `TurnRoutes` says that routing the node whose turn it is keeps all
this, `Endings` that such a node has left a verdict if it is a gate. The
theorem is about the first time a node is handed out; what runs again beside a
skipped phase (section 4) is not held back by anybody.

`RetriesStayInLimit` (`NeverHitsSafetyLimit`) is about the same pipelines (`Sized`): no
loop nodes, which have a limit of their own; no gate leads to the end marker,
which a skip would hand out; and `2 * MaxIterations`, the limit of the main loop,
is at least the number of turns there can be (`Budget`: one of every node, and
one more of each gate and its agent for every retry). A turn is a pair of node and
round. `Tally` are the turns that were had or waived; inductive (`Limited`, beside
`GInv`): while the loop may go on, `iteration` is at most the size of `Tally`.
A dispatch adds a turn; settling and routing take none away (`SettledTally`,
`RoutedTally`), since who becomes ready again has been granted another round for
it, and a skip releases nobody who runs, which is what `GInv` is needed for. A
resume, a recovery and a replay count from zero. `RuntimeRetry` satisfies `Sized`
with a budget of 13 and a limit of 14.

`AgentsProofs` is about four parts of `Services`, each for any values of its
constants.

* `AgreedIsJudged` (`NoneUnjudged`), any phases, with and without a gate, any
  batches and texts. Inductive: while anybody in the batch is at work,
  `current_phase_id` names a phase whose gate or review is to come
  (`CurrentAhead`), also the phase a question was asked under
  (`AskedAhead`), and a gate that judges has what is unjudged among its targets
  (`ToJudge`).
* `AgentsAreTyped`, `CallsGetAnswers` (`CallsAnswered`) and `DepthCountsPeers`
  (`DepthIsPeers`), any agents, depth and budgets, under `AgentsAssumption` (among
  others, every agent has at least one round). Inductive: in the stack of a
  coroutine all frames but the last wait for the one above and each owes as many
  messages as it has calls to do (`Sound`, `Coroutine`). That the depth counts
  the waiting frames of all coroutines takes the cardinality of the set of those
  frames; a lemma per way in and out says by how much it changes (`Above`).
* `AnswersHang` (`AnswersThread`), any speakers and rounds. While nothing was
  rolled back the rows that are there stay, and each phase holds the ids of its
  own (`Dialogue`): the row it is about to commit is its question, the one it
  answers is the question it asked, and every earlier question has its answer.
* `OneStory` (`MemoryMovesTogether`) and `NotedForGood` (`ResolvedStays`), under
  `WritingAssumption` and `PlansAssumption`: any lists of phases, and any unit,
  window and threads to begin with. `StoryInv`: the unit, the window and the marks of
  the threads have come from where the run was put (`given`) to the same unit
  (`Consistent`), in the context and in every copy a
  curator holds. It is inductive for any phases, since a curator writes all of it
  back. What was given need not fit together - a rewrite begins at its unit with an
  empty window and threads that are overdue unmarked - so the window is that of
  `given` with every unit since, and the threads are marked from the first
  curated unit on. That nothing resolved is lost holds only where phases run one by
  one, since nobody then writes between a copy and its return. `Expanded` proves of
  the expansion of any list that is a chain, with the skeleton's first unit, that it
  is a chain again, so that it is compiled to a pipeline (`Shape`). `ChainInv` adds
  that a phase has begun only when all before it are done, failed ones too
  (`InTurn`), and that a copy is what the context is (`UpToDate`). `OneAtATime`
  says that at most one phase of a chain is on its way.

`ServicesProofs` is about five parts, each for any values of its constants.

* `OncePerApproval` (`RunsOnceUnlessLost`), any calls and modes, with the
  connection made anew at any time. Inductive:
  a process that is down has no tasks (`DownIsIdle`), only calls that were made
  and had to ask are waiting or on their way (`Registered`), a call that was not
  made has not run (`NotMade`), and an asked call that has run is out of the
  table or has its removal behind every registration (`Settled`), which is the
  order of the background tasks, unless they met a connection that was being made.
* `AcceptedIsBacked` (`NothingFromNothing`), any phases, writers, expected
  files and number of runs. Inductive: a row of an agent and a run has a file of
  that agent, written in that run's name, behind it (`RowsBacked`), because rows
  are added only with a file and no step removes one; that the check counts no
  row of another run is then what makes an accepted phase backed in its own.
* `FeedGapless` (`FeedHasNoGap`), any number of processes, any size of ring and
  queue, under `FeedAssumption` (the ring holds at least one event). Inductive:
  the ring holds ids of the process in order (`Ring`; not all of the last ones,
  since other projects' events take numbers too), what was seen and what is
  queued increases and the queue lies behind what was seen (`Seen`, `Queued`),
  and whatever a client that is away has neither received nor lost is in the ring
  or was pushed out of it (`Held`).
  `AfterIsTail` says that what a replay selects is the tail of the ring.
  The attempt at this proof showed that a replay may leave the queue longer
  than its size, and the model, which took a queue for full only at exactly its
  size, now compares as `asyncio.Queue.full` does.
* `RecordedSimpleScripts` (`SimpleScriptsDone`) uses no assumption: every set of
  scripts, base schema and number of processes. Inductive: what lies behind a
  process in a simple script is made (`BehindIsMade`), and no step unmakes a
  column or an index (`DiskGrows`). That a duplicate may only be the last
  statement is what makes recording it right (`DuplicateIsDone`).
* `RowsAreKept` (`RowsKept`) uses `ScriptAssumption`: one conditional script
  moves rows, and copies them before it drops, with no rename between, as 026
  does. Inductive: while no two processes have been in that script at once at
  most one is in it (`OneMover`), behind the copy the new table has the rows
  (`Copied`), and while the old table is gone they are not in it (`Nowhere`).
* `SharedUndisturbed` (`OneUndisturbed`), any number of coroutines: while nothing
  has broken or failed, whoever is past the lock holds it (`Holder`), nobody
  connects but when there is no connection (`Single`), and the one everybody
  waits for is there (`Waiting`).

Model-checked only:

* `GateHolds` and `NeverHitsSafetyLimit` on graphs that are no pipeline, where a
  verdict may meet a gate it was not given for, and any number of nodes is live.
* `ValidPlanRuns`, `PlannedOrderKept` and `TasksHaveAgents`. The layers of a
  plan, the order of its tasks and the teams of the planner are recursive
  computations and folds over data.
* Liveness (`ReleasedNodesRun`, `Stops`, `SilentRowReplaced`, `RunningEnds`) and
  anything about ENABLED, which are beyond the prover. The induction theorems of
  the library take an operator as a parameter, which no installed prover can
  instantiate; where a recursive definition had to be reasoned about (`After`
  in `EventFeed`), the proof takes the least element of a set of
  counterexamples instead (`NatLeast`).

## 7. What is left out

* What agents, functions, subgraphs, LLM conditions and quality rules compute:
  an outcome is chosen. Retry hints, fallback models, hooks and observability
  events do not touch the control state and are left out.
* `autonomous_max_retries` is the same constant as `max_retries`; `dry_run` and
  runs with checkpoints disabled are not modelled.
* The semaphore of the parallel executor (5) only orders the nodes of a batch,
  which end in any order here. Results of a batch are settled in any order.
* A condition that raises is modelled on the edges with condition "other", the
  ones that call code.
* In `GraphRuntime` a checkpoint is one step that succeeds or fails; its
  statements are in `CheckpointStore`. Rows of `run_checkpoints` only matter by
  being inserted, their content and their trimming are left out.
* A recovered run sees the control flags that were saved with it, as
  `from_checkpoint` restores them; a request made between crash and recovery
  has nothing to reach.
* Dispatch by `TIMEOUT_EDGE` does not exist in the scheduler: such an edge
  behaves like an ordinary one, and no graph here has one.
* `RunLifecycle` is one process: the row of the run lock is a flag in it, and
  several processes are the subject of `RunLock`.
* Of the communication: atmosphere and character arcs; of
  artifacts: their approval states, the log of workflow events, and the edits and
  reverts of `versioning.py`, which nothing under `src` calls; of the event
  feed: several clients.

* Of the database: the pool of read connections, which nothing in the sources
  uses, the change of the event loop, `close_db`, seed data, PostgreSQL, and
  what the settings of a connection do. `schema.sql` is one step, since all its
  statements can be repeated.

Components without a model:

* Quality rules: checks of texts; a verdict is an outcome of a gate. Autofix
  calls a method that does not exist and changes nothing.
* Budget: nothing raises its counters, so every check passes.
* Rate limiter: a token bucket between whose reading and writing there is no
  await.
* Cross-run memory, evolution and self optimisation: called after a run, and
  not reached on the main path (see the hook above) or without effect.
* Knowledge and ingestion, models, skills and capabilities: storage, retrieval,
  catalogues and client configuration. Of ingestion, what a run is given by it is
  a step (`Ingest` in `LongForm`): any unit, window and threads.
* Security, vault encryption, observability, studio: filtering, metrics and
  read-mostly services around the system.
* Celery tasks: wrappers that call the functions modelled here in a worker.
