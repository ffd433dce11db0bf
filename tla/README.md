# A verification project for pipeline-runner

`pipeline-runner` (the `moka` command) runs coding-agent workflows: a plan is a
DAG of nodes, each node is an agent, a command, a builtin or a group of
parallel children, and a node passes only when its gates pass. Runs are
journalled so that they can be resumed, observed by a run-control store, and
executed either in one process or as pods of a remote workflow. This directory
models that machinery in TLA+, checks it with TLC on small instances, and
proves with TLAPS, for every plan, most of the safety properties the runs check.

Paths below are relative to the repository root.

## 1. Inventory

| Component | State it keeps | Operations | Interacts with | What is hard about it |
|---|---|---|---|---|
| Workflow scheduler, `src/runtime/scheduler.ts`, `local-scheduler.ts` | results by node, running fibers, blocked nodes, completion queue, first failure | tick: cancel, launch or stop; take a completion; fail-fast skip | executors (promises), journal, tracker, abort signal | completions and launches interleave; capacity and category slots; a rejected promise ends the run |
| Workflow lifecycle, `workflow-lifecycle.ts`, `workflow-execution.ts` | outcome, hook failures | start, success, failure and complete hooks; finish; resume | scheduler, hooks, journal scope | verdict from failure, abort and hook results; resume from a partial journal |
| Run journal and durable store, `run-journal.ts`, `journal-acquisition.ts`, `durable-store/` | in-memory mirror, write queue, write errors, table | hydrate, record, flush, close | scheduler | crash with writes queued; a failed write among many |
| Node execution, `node-execution.ts`, `retry.ts`, `hooks/` | attempt, last output, last failure per node | attempt body, hooks, gates, retry with delay, finish | tracker, gates, remediation, abort signal | every await is a point where the run may be cancelled |
| Remediation, `remediation/remediation.ts` | the shared `context.task` | self-remediation, remediation of upstream implementations | node execution (recursive), tracker | mutates state shared by concurrent nodes |
| Node state tracker, `node-state-tracker.ts` | status per node | record an event or throw | all of the above | an event refused by the table is a defect that kills the run |
| Gate orchestration, `gates/orchestrator.ts` | results so far | run gates in order, failure hook | node execution | required and optional gates, cancellation between gates |
| Parallel node, `parallel-node/`, `parallel-worktrees/` | children in flight, category semaphores, fail-fast abort, worktrees | fan out, abort, aggregate, clean up | node execution, git | nested abort, semaphore waits, leases released on failure |
| Run control, `src/run-control/` | run manifest, event log, node status and sessions, supervisor timers | create, record event, publish schedule, stop, detach, step, submit a result | runtime reporter, supervisor, CLI in other processes | several processes write one manifest; queued writes are applied late |
| Runner command, `src/runner-command/` | what a pod finds in the store and in git | pre-schedule, select ready wave, run a node, finalise | run control, git refs | pods are retried and run at the same time |
| Git run refs, `src/run-state/git-refs.ts` | refs per run and node | publish, fetch, compare and swap | runner command | concurrent pushes |
| Run control: stepping, `next-node.ts`, `submit-result.ts`, `src/runtime/step/` | the table of node records, a mirror per command | next node, submit a result | planning, durable store | no claim: several workers hold one node |
| Drain merge and pull requests, `drain-merge/`, `open-pull-request/` | the main checkout, branches, the remote | merge the children, commit, push, open or edit the pull request | parallel node, git, GitHub | a sequence of git commands cut short anywhere |
| Loop controller, `src/loop/` | backlog it read, passed and blocked tickets, budgets | select, launch, poll, follow the checks, remediate, merge, refresh | tickets, remote submit, GitHub, Argo | people and CI change what it has just read |
| Tickets, `src/tickets/`, `src/commands/ticket/` | ticket files | next, start, complete, create, apply a plan | loop controller, remote submit | several operators, a plan applied half-way |
| Remote submit, `moka-submit.ts`, `src/remote/submit/`, `argo-submit.ts` | record, ConfigMaps, workflow | check, record, create, clean up, own | Kubernetes, run control | calls that fail after they took effect |
| Planning and schedule passes, `src/planning/`, `src/schedule/` | none (functions) | generate, repair, normalise, validate, compile, order | scheduler, stepping | passes that rewrite the graph one after the other |
| Goal loop, `goal-loop/`, `goal-state/` | goal state, continuations | continue until passed, blocked, out of budget or without progress | agent nodes | verdicts taken back, budgets |
| OpenCode sessions, `opencode-*.ts`, `runner/subprocess.ts` | server lease, session registry, protected files | start, create, subscribe, prompt, watch, abort, release | agent nodes | a watchdog races the late answer; one server for all nodes |
| Agent nodes, `runtime/agent-node/` | candidates, repairs, handoff of an attempt | prompt models in order, repair the output, derive the handoff | OpenCode sessions, node execution | each call replaces the result of the one before |
| Event sink, `runner-event-sink.ts` | queue of events | deliver in order with retry | remote service | lost or repeated delivery |
| Everything else: configuration, prompt rendering, CLI, host installation, factory templates, remote manifests | files | parse, render, write | | text, not protocol |

`PROJECT.json` lists each of these with its status, and under `hazards` the
places in the code that are hard to test, with the properties aimed at them.

## 2. Modules

### WorkflowScheduler

One run of the local scheduler inside its lifecycle, with the Postgres durable
store beneath it and users, crashes and resumes around it. The lifecycle is the
variable `phase`; `running`, `completed`, `blocked`, `queue` and `failure` are
the fields of `SchedulerState`; `executing` holds the nodes whose promise has
not settled, which differs from `running` after an interruption, because the
executor is a plain promise that an interrupted fiber leaves behind. `writeQ`,
`writeErr` and `db` are the serialized write queue, the collected write errors
and the table; the mirror equals the table when a run starts and is then
`completed`.

One action is the code between two awaits: a tick either cancels
(`TickCancelled`), launches a capped selection (`TickLaunch`) or stops
(`TickTerminal`); `TakeResult` is `Queue.take` with all of `applyCompletion`,
the journal record and the fail-fast skip included. The selection is stated as
the fixed point of the walk in index order (`IsSelection`): a ready node is in
the selection exactly when the nodes selected before it leave it a slot. A run
that fails fast has one slot (`Limit`), as in the code, so that no other node is
in flight when a failure is applied; `failFast` is fixed when a run starts, from
`FailFastModes`. An event the tracker refuses throws; `LegalPrefix` gives the nodes recorded before
the throw.

How a node settles is taken from `NodePromise`: passed, failed, partial (a
failed parallel node whose output names children), ungated (status passed
although its gates never ran, because the run was cancelled) or rejected.

A resume starts a process with empty memory and the rows of the table. The
model assumes that the process that crashed is gone.

### NodeStateTracker, NodeExecution, NodePromise

`NodeStateTracker` is the event table. `NodeExecution` is the attempt loop of
one node, instantiated for each of several nodes in flight: every await (hooks,
runner, each gate, the failure hook, remediation, retry delay) is a value of the
program counter and another node, or a cancellation, may come between. A
remediation is an actor of its own that runs the same loop for a derived node
and replaces the shared task while it does. `NodePromise` is the abstract
specification: a launched node is open until it settles in one of the ways the
scheduler model knows. `NodeExecution` is checked and proved to implement it
(`PromiseKept`), which is what allows `WorkflowScheduler` to leave the inside of
a node out.

Gates are positions in the list a node is configured with: `good` and `bad` are
those that ran in this attempt, and the next one is the least of what is left of
`GatesToPass`, from which a self-remediation drops the artifacts. The attempt
counter saturates at `AttemptCap`; this loses nothing since the code only asks
whether it is below `max_attempts`. What a gate or a runner decides is a free
choice. Upstream implementations are remediated in any order, a superset of the
order the code uses.

### ParallelWorktrees, ParallelNode

`ParallelWorktrees` is the life of one child worktree as the registry, the
directory and the branch see it: a lease is created and released in steps, one
per git command or manifest write, and a process may die between two of them.
`RetentionState` is the decision to keep or to remove: dirty, unmerged, head
moved or merged.

`ParallelNode` runs several parallel nodes that share that registry. A child is
queued, takes a place among `maxParallelNodes`, waits for a permit of its
category, leases a worktree, runs, settles, and gives back worktree, permit and
place in that order. The fail-fast gate trips on a failed child and is linked to
the run's abort signal. A rejected child interrupts its siblings, whose agents
go on working in directories that are being released. When a parallel node
starts it collects what it finds in the registry. `attempts` counts the starts
of a parallel node in one process, as `max_attempts` does; a new process starts
whatever had not passed again. `MaxCrashes` bounds the deaths of the process.
`sync` is the git call in progress, with the parallel node it is made for (`by`)
and the children that are to be released after it (`rest`); the code releases
them in the order of the plan, hence the least of them goes first. Every git call
and every write of a manifest may throw, with or without its effect, which
rejects that parallel node; a rejected promise ends the run (`RunStands`).

### RunControl

The record of a detached run. The launcher creates it, spawns the controller and
then notes its process id; the controller's reporter projects runtime events to
statuses and writes them through one queue; its supervisor writes heartbeats and
stall marks through a second one, each write of which first waits for the
reporter's queue. Both share one database connection, so that two writes are
executed in the order in which they were started; only a control write whose
wait has just ended and the next reporter write start together (`even`). A read
replays the event log, so the model keeps the last status of run and nodes.
`moka stop` reads, kills, and writes statuses from what it read; a statement the
killed controller had sent is still executed (`wire`). Failed reporter writes
are skipped (`lost`); failed control writes are remembered and make the flush at
the end of the command reject (`controlErr`). A runner that rejects, before the run
has started or in the middle of it, is stopped by the same `finally` block as one
that returned (`StopSupervisor`), without a `workflow.finish`. A killed controller
loses its memory (`MemoryGone`); the projection's last status of a node is not kept,
since the one that is asked for is that of its `node.finish`. The status of the run and those of its nodes are kept
apart by name (`RunIsNoNode`). Not modelled: a controller that dies without a
stop, of which the code takes no notice.

### ArgoGraph, RemoteRunner

`ArgoGraph` is a compiled plan as the remote side sees it: which nodes are tasks,
what a task waits for (containers are transparent, children of a parallel node
inherit its needs) and which nodes are terminal. `Below` is what a need stands
for: everything in each set that holds the need and is closed under looking into
containers, so that nesting may be as deep as it likes without recursion. Needs
name nodes of the same level (`Level`), as the validation of a plan demands; a
group inside a parallel node is taken to name its siblings.

`RemoteRunner` is a run as pods. `stage` is where the workflow is: the
pre-schedule phases of a dynamic run, or `workflow.start` of a static one, then
the nodes, then the finalizer, which runs whatever happened. The pod of a node
resolves the store and skips a node recorded as passed (`start`), merges the
refs of what the node needs and runs it (`run`), pushes (`push`), records
(`record`) and exits. Steps of a pod that only touch its own disk are one step,
since losing the pod loses them together. What a task waits for (`WaitsFor`) and
what its pod merges (`Merges`) are two tables, since the code computes them by
two paths and they differ for the children of a parallel node that has needs.
Exit codes 0 and 1 settle a pod and everything else is retried. A ref is the set
of pairs of a node and whether the attempt that did the work passed, because
failed attempts push too. `db` holds durable records, `sched` whether the run
record has the schedule a resume needs, and `blind` the nodes whose ref was
pushed by a pod that could not reach the store: the properties speak about the
others. The status in the run record is left out; no step reads it.

External: Argo starts a task when its dependencies succeeded, starts nothing new
in a DAG with a failed task, and retries a pod only when the one before it is gone.

### FanOutDelivery

What follows a fan-out in a local run, composed with `ParallelNode`: the
`drain-merge` that joins its branches and the `open-pull-request` that publishes
the checkout. A branch is the set of what was committed on it (where the run
started, children, what nodes left uncommitted, somebody else's work);
`checkout`, `branches`, `origin` and `lease` are the main checkout, the local
branches, the remote's head branch and pull request, and what the checkout last
knew of it; `outputs` is what `lastOutputByNode` tells a drain-merge of the
children, and `merge.left` the children still to be merged, in the order of the
plan. `ahead` are the children whose branch has commits that were not merged:
what a worktree holds uncommitted is on no branch and is not merged. Between the
end of a fan-out (`FanDone`) and a merge nothing is forgotten but by a crash. One
action is one git or `gh` command, any of which may fail, before or after it took
effect, and the process may die between two. A resumed process goes again through
whichever of the three nodes had not passed (`Interrupted`), without the outputs of
the process before: a fan-out that failed runs again, also when the drain-merge
behind it has passed. `MaxDeliveries` bounds the executions of merge and delivery.

### DependencyGraph, Tickets, LoopController

`DependencyGraph` says what `src/planning/graph.ts` answers, `Tickets` which
ticket is selected under each strategy and which the loop skips to. Both answer
with the set of tickets the code may come to, which on every backlog that was
checked has one element; the loop's walk over blocked and resolved tickets is
`SelectReadyChain`, in which `SelectAfterSkips` is a view of the backlog that a walk
reaches and `SelectUnresolved` what is selected in it.
`LoopController` is `moka loop-controller`: `ctl` is its program counter and
ticket; around it are the backlog on main, the workflow it follows and the pull
requests. A poll that finds the workflow running opens another call inside the
error handler of this one, so `frames` holds an error count per open call and a
failed read is handed outwards through them (`MaxFrames` bounds the nesting).
CI may change the checks between any two reads; people merge, close and edit;
any seam but the workflow read ends the controller when it fails; a restarted
pod knows nothing (`MaxDisturbances`). External: workflows, pull requests, CI.

### Submission, TicketCommands

`Submission` is `moka submit`: options, record, three ConfigMaps created in
parallel, the workflow, and the transfer of ownership or the clean-up. A call is
sent, lands, is acknowledged or lost; the first failure interrupts the others,
whose creates may still land. `TicketCommands` composes it with the operator's
commands on a backlog that several clients share: `next`, `start`, `complete`,
`create` and `loop`, each of which reads once and then writes by one call of the
backlog tool per change. A session of a client is one command line. A new ticket
takes the least free id. The parent an operator names is passed on as it is: only
the epic a plan makes for itself is known to exist.

### AgentSession, AgentNode, GoalLoop

`AgentSession` is one call of the executor: the lease of the shared server, the
session registry, create, subscribe, prompt with its retries, the idle watchdog,
the wall clock and cancellation, or the guarded subprocess of a command runner.
`sess` is what the server has, which differs from what the caller knows: a turn
the caller gave up may go on. Time is a clock per call that counts up to its
budget. `AgentNode` is one attempt of an agent node over it: candidates, launch
plans, fallback to the next model, repair of an output that does not fit its
schema, and the handoff. `GoalLoop` drives a node by continuations and folds the
events of the runtime into the goal state, which keeps what its signatures tell
apart.

### SchedulePlanning, RunStepping, ScheduledRun

`SchedulePlanning` holds the planner's algorithms: baselines, work units, the
coverage, drain-merge, delivery and id passes, validation, compilation, the cycle
search and the topological sort as the code walks them. An id is a sequence of
words, since passes make ids by adding words and meet others by accident.
`RunStepping` is a table of node records and workers who call `next node`,
execute, and `submit-result`; each command reads the table into its own copy,
submits against it and writes when its store is closed. `ScheduledRun` composes
both: a planner that may fail or answer one of a set of schedules, its repair and
fallbacks, the schedule file, the phases of a remote run before its schedule is
published, and then the stepping of what was compiled.

### Composition and refinement

`WorkflowScheduler` composes scheduler, lifecycle and store; `ParallelNode`
composes parallel nodes with the worktrees of `ParallelWorktrees`, and
`FanOutDelivery` that with git, the remote and GitHub; `RunControl`
composes launcher, reporter, supervisor, store and stop; `RemoteRunner` composes
Argo, pods, store, refs and finalizer over `ArgoGraph`; `LoopController` composes
the loop with workflows, CI and people over `Tickets`; `TicketCommands` composes
operators' commands with their submissions; `GoalLoop` composes the loop with
agent nodes and their sessions; `ScheduledRun` composes planning with stepping.
`NodeExecution => NodePromise` is a refinement with a mapping of program
counters to open and settled. The scheduler's node actions are those of
`NodePromise` by inspection.

## 3. Runs

| Run | Instance | Properties | Shows |
|---|---|---|---|
| `SchedulerDag` | `build` (parallel, category green) -> `merge` (drain-merge) -> `ship`, and `test` (green); two slots, green capped at one; with and without fail-fast; one restart, fair | `NeedsSatisfied`, `PassIsComplete`, `OutcomeIsDurable`, `DurablyPassedNeverReRuns`, `DrainsBeforeStopping`, `FailFastStops`, `RunEnds` | dependency order, completeness of PASS, durability of the outcome, no re-run of durable passes, limits that defer nodes and never drop them, nothing launched after a failure that fails fast, every run ends |
| `NodeChain` | a writer and a parallel node that has it remediated, fair | `PassedMeansGated`, `PromiseKept`, `NodesEnd` | gates before passed on every path, the refinement of the node promise (no path records an event the tracker refuses), and every launched node ends unless upstream remediation goes on for ever |
| `ParallelNodeRun` | a node with two children of one category (one permit or two) and a node with a third child, two places, with and without fail-fast, one attempt of each or two of the first in a process, one crash, fair | `WorktreesAreRegistered`, `RetainedWorkKept`, `FanOutEnds` | every directory registered, work of a retained lease never deleted, every fan-out ends, also when git fails at any step |
| `DeliveryRun` | a fan-out of two children, its drain-merge and pull request; side by side and four executions of merge and delivery in one process, or one child after the other, a crash and three executions | `DrainedMeansMerged`, `DeliveredMeansPublished` | exit code 0 of a merge or a delivery stands for commits that were joined and published |
| `RunControlRun` | one node with a finish hook, two reporter writes and a control write waiting when the next is made, one stop, fair | `RunVerdictStands`, `KilledRunStaysAborted`, `StallIsRecorded`, `StopTerminates` | the record of a run that ended has its verdict, or none when its runner rejected, a kill has the last word but for what was on the wire, stall marks are not overwritten by older events, the supervisor's stop ends |
| `RemoteRun` | a chain through a group, a review of a parallel node of two children, and a parallel node that needs an implementation; static and dynamic, one retry, one resume, fair | `RecordedWorkIsPushed`, `UpstreamWorkPassed`, `GreenRunIsDelivered`, `RemoteRunEnds` | records never run ahead of refs, nothing is built on the work of a failed attempt, a green run has delivered every task's work where tasks merge what they wait for, every submission ends |
| `LoopRun` | an epic with two children, a flat backlog with a dangling dependency and a missing parent, a cyclic one; the whole backlog or a root, budgets of one, one disturbance, fair | `LaunchedOnce`, `PassedMeansMerged`, `LaunchedAfterDependencies`, `LoopEnds` | a ticket is launched once, only after what it depends on, passes only when merged, and the loop ends |
| `SubmitRun` | two operators on three tickets with room for three more; seven kinds of request, seventeen command lines against four, one with a parent that does not exist, fair | `PlanAppliedInOrder`, `OnlyUnacknowledgedMapsLeak`, `SubmissionEnds` | a plan is applied in dependency order however far it gets, a submission leaks only ConfigMaps it could not know of, every submission ends |
| `AgentRun` | two nodes on one server or in one worktree, or one of eight profiles alone, one of them driven by a goal loop of two continuations, fair | `TurnsAreEnded`, `ReturnedResultIsSound`, `GoalPassedOnStandingVerdict`, `IdleMeansSilence`, `AgentWorkEnds` | which turns a caller may leave behind, what an attempt returns after fallback, repair and handoff, when the watchdog may fire, that attempts and goal loops end |
| `StepRun` | twenty-one answers of a planner, two baselines, tickets or none, local or remote; two workers, one failure, one fault, fair | `PlanOrderSound`, `VerifiedAfterImplementation`, `DeliveryIsLast`, `PublishedPlanStands`, `RunDrains` | what the passes and the compiler guarantee of a plan whatever the planner says, a published plan stands, and its stepping ends |
| `SchedulerUngated` | as `SchedulerDag` | `DurablePassWasGated` | violated: a cancelled node with exit code 0 is journalled as passed without gates |
| `DeliveryResumed` | as `DeliveryRun` | `ReplayJoinsAnew` | violated: a fan-out that runs again behind a drain-merge that passed |

Bounds. Four nodes are enough for a diamond of every role the scheduler tells
apart: a category, a cap that defers, a recoverable parallel failure with its
drain-merge, a node below it and an independent node. One restart is enough for
every property about a resume, since a resume starts from the table alone. Two
attempts distinguish first, middle and last. Two nodes in flight are enough for
a conflict over the shared task. Two parallel nodes, one of them with two
children, are the fewest with contention for a permit, for a place and for the
registry; a second attempt and one crash reach every state a lease can be left
in. What follows a fan-out is gone through with one parallel node and one start
of it in each process, where two children are a merge that succeeds and one that
conflicts; three executions of merge and delivery are a first, one after a failure or
a crash, and one more. Run-control nodes meet only in the queues, which heartbeats and events
of one node fill as well; `MaxEvents` and `MaxControl` bound what waits. A remote
run with one retry per pod and one resume has every kind of second attempt: after
a lost pod, after a recorded failure, after a pod without a store, and after a
submission that ended; the code's limit of three retries repeats the first.

The loop's budgets of one reach the exhaustion of each; two nested frames
are the fewest with an error handed from one to another; three tickets are an
epic with a dependency. In `SubmitRun` only one of the clients starts a second kind of
submission, since submissions share nothing but the backlog; six ids leave room
for an applied plan and its retry. In `AgentRun` nodes meet in the server's
event stream, in the worktree and in the lease, each of which needs two; clocks
run to the budget of the profile; two continuations and two events each are the
fewest with a verdict taken back and a signature repeated. `MaxWaves` in `StepRun`
(90 in the code) is 7, which the execute baseline exceeds and other plans do not, so
that both sides of the limit happen; one retry
of a pod, one failed result and one fault (a worker that dies or a refused write)
are one of each kind.

Fairness. The event loop runs what is due, so the scheduler, the write queue
and the hooks are weakly fair; runners have timeouts and gates and hooks are
bounded, so promises settle. The steps of a fan-out are fair for the same reason;
merge and delivery are not assumed to be tried again. Argo runs what can run and
pods have deadlines, so a remote run makes progress, and the loop's
workflow ends; the loop controller is one fiber whose waits are
sleeps, hence fair. A ticket command is one fiber, and the API server answers,
so a call that was sent lands or is lost. Of the OpenCode server nothing is
assumed: only fibers and the clocks of the callers are fair, which is why
`AgentWorkEnds` speaks of nodes that have a wall-clock budget. A worker that
steps a run goes on unless it dies. Nothing obliges a user to cancel, a person to
merge or a process to crash.

Each property of a passing run has a mutant in `PROJECT.json`: a plausible
mistake in one definition, defined beside it, that makes the property fail.

## 4. Proofs

Each proof module extends one model and proves its theorems for every value of
the constants. All follow one argument: an inductive invariant, a lemma per
action (or per group of actions that change the same things) that the invariant
survives it, and theorems that read the property off the invariant. Where a
property does not follow from itself, the section says what had to be added.

**`WorkflowSchedulerProofs`.**

* `TypeCorrect`: `Spec => []TypeOK`.
* `NeedsAlwaysSatisfied`: `NeedsSatisfied`. It needs `FibersInv`: fibers exist
  only inside the loop and only for nodes without a result, and the completion
  queue holds at most one entry per running node, so no completion overwrites
  the result a running node depends on.
* `DurablyPassedStaysDone`: `DurablyPassedNeverReRuns`. It needs `JournalInv`:
  every queued write is the result of a completed node, hence every passed row
  belongs to a completed node while the loop runs.
* `OutcomeAlwaysDurable`: `OutcomeIsDurable`, from the last part of
  `JournalInv`: without a write error every result is in the table or queued.
* `PassAlwaysComplete`: `PassIsComplete`. It needs `VerdictInv` and one fact
  about the selection: if nothing runs and nothing may be taken, nothing is
  ready (the first ready node in index order always finds a slot, because caps
  and limits are positive), and then in an acyclic plan everything is complete.
* `FailFastNeverLaunches`: `FailFastStops`. It needs `BlockedInv`: after a failure
  a fail-fast run has blocked every node it did not start, and a later completion
  frees none of them; only a tick launches.
* `NothingIsDropped`: `DrainsBeforeStopping`. By `BlockedInv` what is blocked is held
  back by a failure that stands; the first node in index order left out for another
  reason would have been ready, because what is held back is closed under dependents.

Assumptions: finite plan, needs within the plan, index topological and
injective, positive caps.

**`NodeExecutionProofs`.** `AttemptLoopInvariant` and `AttemptLoopTyped`, and from
them `NodesPassGated` (`PassedMeansGated`) and `ExecutionKeepsPromise`
(`PromiseKept`, the refinement of `NodePromise`: initial states to initial
states, every step to a step or a stutter). `NodeInv` ties the program counter to
the status in the tracker (`StatusFits`), which is why no event is refused; the
gates that ran to the result (`Held`); and an actor that waits for a remediation
to the remediation (`FixAwaited`). An upstream node that is remediated has passed
before (`UnitsPassed`), so that a remediation does not record events under a node
which is still at work. Assumptions: `PlanTyped`, which also says that what a planned node
implements is not another planned node, because the children of a parallel node
are not planned themselves; `GatesTyped`; `AttemptsTyped`.

**`FanOutProofs`.** About `ParallelNode`: `FanOutInvariant`, `NoWorktreeEscapes`
(`WorktreesAreRegistered`) and the action property `WorkIsRetained`
(`RetainedWorkKept`). A directory is removed some steps after it was found clean, so
the invariant remembers what the check found: past it, work in the directory was
put there by an agent that is still running (`CallFits`, `ChildFits`). Agents are
counted exactly but under a rejected parallel node, whose agents go on.

About `FanOutDelivery`: `DeliveryInvariant`, the action properties `DrainMergesAll`
(`DrainedMeansMerged`) and `DeliveryIsPublished` (`DeliveredMeansPublished`), and
`DeliveryRunsTheFanOut`: a behaviour with delivery is one of `ParallelNode`, so that
what is proved of the one holds in the other. `MergeFits` says that while a merge is
under way the fan-out is over in this process, so that its outputs do not change and
no child commits (`FanStaysSettled`, `SettledFanIsQuiet`), and that without a conflict
every output with commits that are not joined is still to be merged. `DrainMergesAll`
speaks of the moment a drain-merge exits 0: afterwards a resume may run the fan-out
again (section 5). `DeliveryFits` says that the branch which is published holds what
was integrated. Assumptions: `KidsArePartition`, `IndexIsOrder`, `BoundsAreNaturals`,
`FanIsParallel`.

**`RunControlProofs`.** `ControlInvariant`, `ControlTyped`, `VerdictIsRecorded`
(`RunVerdictStands`), `StopHasTheLastWord` (`KilledRunStaysAborted`) and
`StallsAreRecorded` (`StallIsRecorded`), for queues of any length. `VerdictFits`: once
the run has an outcome, either the record has it and nothing about the run is
queued, or it is the last such entry of the reporter's queue and the process still
drains as far as that. `UndecidedFits`: without one, nothing but the start of the run
is in the record or queued. `StallFits` does the same for a stall mark, in front of
which older events of the node may be waiting; `PhaseFits` says where the
processes are. Assumptions: `HookedAreNodes`, `RunIsNoNode`, `BoundsTyped`.

**`RemoteRunnerProofs`.** `RemoteRunInvariant`, `RecordsFollowRefs`
(`RecordedWorkIsPushed`), `BuildsOnPassedWork` (`UpstreamWorkPassed`) and
`GreenRunsDeliver` (`GreenRunIsDelivered`), for every set of plans, any retry
limit and any number of resumes. A record vouches for a ref only of nodes that
no pod without a store has gone through (`blind`); the invariant carries for
each node what its record, its ref and its pod may say of each other
(`RecordFits`, `RefClean`, `PodFits`), for a dynamic run that records and waves
are closed under needs (`DynamicFits`), and for the end what an outcome stands
for (`EndFits`). That a green run holds *all* work is an induction along the
plan, made as an argument about a set without a first element (`IsAcyclic`). It
holds where tasks merge what they wait for (`MergesWhatItWaitsFor`), which the
children of a parallel node with needs do not (section 5). Assumption:
`PlansAreCompiled`: plans are well formed and without a cycle, which
`compile.ts` (`cycleIssues`) and Argo both refuse.

**`LoopControllerProofs`.** `LoopInvariant`, `LoopTyped`, `TicketsLaunchOnce`
(`LaunchedOnce`), `PassedTicketsAreMerged` (`PassedMeansMerged`) and the action
property `DependenciesLandFirst` (`LaunchedAfterDependencies`), for every
backlog and budget. `TicketFits`: the controller is on a ticket it has not
resolved; `SelectionFits`: the dependencies of a ticket about to be submitted
are done as the controller sees them; `MergeFits`: the pull request of a passed
ticket is merged, and so is that of the ticket whose merge it is about to note;
`BudgetFits`: a launched ticket is resolved or the one it is on, so that it is
not selected again, and what was remediated is what was counted. Of the
selection they need only that it is of a ticket not yet resolved whose
dependencies are done (`SelectedIsFresh`). Assumptions: `TicketsAreIds`,
`BacklogsTyped`, `BudgetsTyped`.

**`TicketCommandsProofs`.** `CommandsInvariant`, `CommandsTyped`, `PlansApplyInOrder`
(`PlanAppliedInOrder`) and `FailedSubmissionsCleanUp` (`OnlyUnacknowledgedMapsLeak`),
for any number of clients, any backlog and any plans. `PlanFits` relates what one
command has made to the backlog: ids of its own, one parent, the dependencies the
plan asks for, and needs that were made before. It is stated of a command and a
backlog, so that `GrowthKeeps` carries it over the steps of the other clients: a
backlog only grows, because a new ticket takes a free id. `SubmissionFits` says that
nothing is called before the maps are sent, and that after a clean-up without an
error nothing acknowledged is left; since a submission has names of its own, no
other client can disturb it. Assumptions: `IdsAreNumbers`, `BacklogTyped`,
`LinesTyped`.

**`GoalLoopProofs`.** `AgentRunTyped`, `OnlyUncleanSessionsRunOn` (`TurnsAreEnded`),
`AttemptsReturnSoundResults` (`ReturnedResultIsSound`), `PassedGoalHasAStandingVerdict`
(`GoalPassedOnStandingVerdict`) and the action property `WatchdogWaitsForSilence`
(`IdleMeansSilence`), for any nodes, models, profiles, events and budgets, and
for a server of which nothing is assumed. Six invariants hold together (`Whole`).
The types hold only with two of the others: that no continuation starts at the bound
(`LoopInv`), and that an attempt makes a call exactly while it asks a model, repairs or
finalizes (`AttemptInv`), which the goal loop respects because it starts a node
afresh only when it is at rest (`RestInv`). `TurnsInv` says of every session, of calls
that are over and of calls under way, that without a give-up it holds at most the
turn its call waits for (`Awaited`), and that a call knows its session before it
prompts, so that the watchdog never fires on a turn it cannot name. `ClocksInv`:
on an attached stream the idle clock never runs ahead of the silence. `FilesInv`:
guarded processes that never shared the worktree took a good snapshot each, so that
what the last one puts back is the file as it was written. Assumptions:
`ProfilesTyped`, `EventsTyped`, `LoopBounds`. The theorems are about `Spec`; the
`FairSpec` of `AgentRun` has fewer behaviours.

Only model-checked, and why:

* Liveness (`RunEnds`, `NodesEnd`, `FanOutEnds`, `StopTerminates`, `RemoteRunEnds`,
  `LoopEnds`, `SubmissionEnds`, `AgentWorkEnds`, `RunDrains`) is out of the
  prover's reach, as `ENABLED` is.
* The planner: the searches and sorts of `SchedulePlanning` are recursive operators
  as in `graph.ts`, of which nothing can be proved for every plan, so that
  `PlanOrderSound`, `VerifiedAfterImplementation` and `DeliveryIsLast` are checked on
  the answers of `StepRun`. `PublishedPlanStands` is a fact about phases and pods only,
  but its module extends the planner's, and is checked there too.
* That the loop's selection has one outcome. The theorems hold for each of them;
  TLC finds one, on every backlog of `LoopRun`, in each state that selects.

## 5. Disagreements between code and documents

Two runs find a violation:

* `SchedulerUngated`, `src/runtime/node-execution.ts:678`. Exit code 0 under
  cancellation is a passed result, is journalled, and is skipped by a resume;
  "Agent self-reporting is not enough to pass deterministic gates" (`README.md:324`).
* `DeliveryResumed`, `src/runtime/run-journal.ts:33`. A drain-merge that passed behind
  a fan-out that failed stands when a resume runs the fan-out again, and what that
  execution puts on its branches is not joined; "a failed node and everything
  downstream replay" (`docs/config-architecture.md:421`, and the comment in the code).

Met while modelling, and visible in the models, without a run of their own.

Nodes and the local run:

* `node-execution.ts:905`: a retry a remediation asked for is not compared to
  `max_attempts`, which `README.md:322` gives as the bound.
* `remediation/remediation.ts:92`: a node started while another is being remediated
  takes the remediation's task as its prompt, although the input of a node is
  "prompt + criteria + upstream outputs" (`docs/moka-orchestrator-design.md:16`).
* `remediation/remediation.ts:223`: a self-remediation runs without the artifact
  gate and its pass stands for the node's.
* `node-execution.ts:755`: a failed optional gate makes an attempt fail.
* `scheduler.ts:436`: after a rejected promise the run ends while other
  executors go on.
* `workflow-execution.ts:180`: a resume restores results but not the outputs
  that later prompts are built from. A drain-merge after it finds nothing to merge
  and exits 0, although the exit code is "non-zero iff any PASSed child failed to
  merge" (backlog task pipe-31.4, line 117).
* `durable-store/postgres/postgres-store.ts:108`: the mirror is read once and a write
  is an upsert, so that a later failure replaces a pass of another process.

Parallel nodes, merge and delivery:

* `parallel-node/parallel-node.ts:63`: the collection at the start of a parallel node
  does not tell an orphaned lease from one in use, and removes the clean worktree a
  child of another node is working in (`docs/config-architecture.md:406`).
* `parallel-node.ts:328`: children skipped by the gate are not in the result, so
  a parallel node cancelled before it started anything exits 0.
* `parallel-worktrees.ts:171`: a crash between `worktree remove` and `branch -D`
  leaves a branch that makes the next `worktree add -b` fail.
* `drain-merge/drain-merge.ts`: the branches to merge are taken from what the
  child says of itself in its output, which nothing completes with the
  branch, base or path of its worktree (backlog task pipe-31.3, line 125). A clean
  child's branch is deleted with its worktree, so that its merge is a conflict.
  A process that dies in a merge leaves an unmerged index, and later checkouts fail.
  What a dirty worktree holds uncommitted is not merged, and the merge exits 0
  (`drain-merge.ts:153`).
* `open-pull-request/open-pull-request.ts`: a push whose answer is lost leaves a
  stale lease, so that the retry is refused; a fetch in between makes
  `--force-with-lease` accept anything.

Run control and stepping:

* `supervisor.ts:291`: hook events of a finished node's finish hooks start its
  stale timer again, and the finished node is marked stalled although
  `tests/run-control-heartbeats.test.ts:148` speaks of a silent active node.
* `supervisor.ts:242`: a node that stalled during its finish hook is written
  `running` after the hook restored its verdict, and stays so.
* `runtime-event-projection.ts:116`: two nodes in the same hook restore each
  other's status.
* `cli/run-service.ts:108`: a heartbeat that could not be written turns a passed
  run into an error, although persistence "must never abort the pipeline run"
  (`runtime-reporter.ts:231`).
* `cli/run-service.ts:101`: a runner that rejects leaves a record that says `queued` or
  `starting` for good.
* `stop-command.ts:64`: a stop between spawn and `updateRunController` kills
  nothing, and the run goes on under the status aborted; nodes that became
  active after the stop read the record keep their status.
* `submit-result.ts`: "Recorded" is printed before the write is made, which may fail.
* A detached run of a scheduled entrypoint is started with the generated workflow id
  alone. `updateNodeSession` looks at the base manifest in Postgres and at the
  replayed one in the file store. The sequence numbers of the event sink start at 1
  in every pod.

Remote runs:

* `runner-command/run.ts:770`: a child of a parallel node merges only its own needs
  and not what the parallel node needs, although it is ordered after that (`run.ts:768`:
  "Same resolver the Argo DAG compiler uses, so ordering and ref-materialization never
  diverge"; `argo-graph.ts:194`, `dependency-refs.ts:26`, `git-refs.ts:56`). The final
  merge of a run lacks the work in the same way.
* `dependency-refs.ts:54`: a dynamic run executes a parallel node in one pod,
  which pushes `nodes/<parallel>`, while dependents and the final merge fetch
  `nodes/<child>`; a dynamic run with a parallel node cannot end green.
* `runner-command/run.ts:912`: a durable write that fails surfaces when the store
  is closed and the pod exits 1, although the comment says that a store failure
  never changes the exit code. With the comment's behaviour the drain of a
  dynamic run would select the unrecorded node for ever (the mutant
  `WriteErrorLogged`).
* `run.ts:611`: a pod that cannot reach the store runs a recorded node again and
  replaces the ref that later pods trust the record for.
* `pre-schedule.ts:466`, `store-manifest.ts:124`: a pod that dies after publishing a
  schedule conflicts with its own schedule when it is retried, since a schedule
  holds the time it was generated at.
* `finalize.ts:295`: the run record says passed before success hooks and the final
  merge, either of which may still fail; a static finalizer never updates it.
* `argo-submit.ts:463`: the ConfigMaps are created in parallel and the first
  failure interrupts the others, whose maps then leak; a `createWorkflow` whose
  answer is lost has the maps of a live workflow deleted; a submission that fails
  leaves the run it recorded. `runnerPayloadJson` drops `headBranch`.

Tickets and the loop:

* `loop/controller.ts`: the error budget of a poll is multiplied by the polls that
  are nested inside each other's error handler; a failed event post ends the
  controller; `resolvePr` finds only open pull requests, so that one a person
  merged early is a blocked ticket; auto-merge is never armed; remediations are
  submitted without waiting for the run before; `repositorySha` gets a branch name;
  skipping a blocked child lets its parent become ready; `defaultSubmitRun` passes
  no `eventAuthSecretKey`, without which the submission is refused.
* `commands/ticket/shared.ts:83`: two operators may claim one ticket, and a claim
  reopens one that was completed in between.
* `tickets/`: a cycle of parents makes the scope of a root recurse for ever.

Agents:

* `opencode-session-executor.ts`: a wall-clock timeout leaves the session running;
  an idle abort that races a prompt's answer is no failure to fall back from;
  the watchdog of a silent session is fed by the events of others, and a dropped
  stream fires it on a live one; repair and handoff have no idle
  bound; a `createSession` whose answer is lost orphans a session; a retry "provably
  not accepted" also follows resets after acceptance.
* `opencode-runtime.ts`: a release while a start is pending does nothing, and a
  failed start is kept for the rest of the run.
* `runner/subprocess.ts`: two guarded subprocesses in one worktree restore each
  other's protected files.
* `goal-loop/`: failures of gates are never reset, so that a lack of progress is
  rarely found; a PASS without evidence ends as blocked.

Planning:

* `generate.ts:848`: the order of work units is satisfied by needs between siblings
  inside a parallel node, which execution ignores; two nested parallel writers under a
  single child are always rejected; the baseline used as a fallback is always rejected
  when the task names tickets; an id may occur in two scopes; a pull request the
  planner placed itself may precede verification.

## 6. Plan

What is left to be proved:

* `RunStepping`: a record is of a node whose needs are settled, for any table; what
  the planner gives it stays with TLC.

Not modelled, because they are text rather than protocol: configuration schemas,
prompt rendering, manifests for the remote engine, host installation, factory
templates, command-line parsing. Partly: the event sink is an effect that succeeds
or fails, its queue is not modelled; what single gate kinds decide is a free choice
but for acceptance criteria; artifacts and queries of run control; credentials,
forced reruns and the status in the run record of a remote run; the passes that
assign models and references, which leave the graph alone.
