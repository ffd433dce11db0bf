----------------------------- MODULE RemoteRunner -----------------------------
(***************************************************************************)
(* A run as pods of an Argo workflow.  Each node is a pod that clones the    *)
(* repository, asks the durable store whether the node has passed, merges    *)
(* the refs of its dependencies, runs the node, pushes its ref and records   *)
(* its result (src/runner-command/run.ts, src/run-state/git-refs.ts); a      *)
(* last pod finalises the run and merges the final ref (finalize.ts).        *)
(* Argo starts pods, retries them (src/remote/argo/policy.ts) and decides    *)
(* whether the workflow succeeded.                                          *)
(*                                                                         *)
(* A static workflow is a DAG of all tasks; a dynamic one first generates    *)
(* its schedule (pre-schedule.ts) and then drains waves of ready nodes       *)
(* (select-ready-wave.ts).  A resumed run is submitted as a static workflow  *)
(* under the same run id: refs and records stay.                            *)
(*                                                                         *)
(* Work is a set of pairs: a node, and whether the attempt that did it       *)
(* passed.  Assumed of Argo: a pod is retried only when the one before it    *)
(* is gone, so two pods never push to the same ref.                         *)
(***************************************************************************)
EXTENDS Naturals, ArgoGraph

CONSTANTS
    Plans,        \* plans a run may have
    Modes,        \* {"static", "dynamic"} or one of them
    RetryLimit,   \* retryStrategy.limit
    MaxResumes    \* bound: `moka resume`

NoRef == {<<"no ref", "bad">>}   \* not the work of any node

ASSUME PlansAreCompiled ==
    /\ \A p \in Plans : IsPlan(p)
    /\ \A p \in Plans : "no ref" \notin NodesOf(p) /\ IsAcyclic(p)
    /\ Modes \subseteq {"static", "dynamic"}
    /\ RetryLimit \in Nat /\ MaxResumes \in Nat

\* What Argo waits for before a task, and what its pod merges.
WaitsFor == [p \in Plans |-> [n \in NodesOf(p) |-> Dependencies(p, n)]]
Merges == [p \in Plans |-> [n \in NodesOf(p) |-> ResolveExecutable(p, p.needs[n])]]

Nodes == UNION {NodesOf(p) : p \in Plans}
Work == Nodes \X {"ok", "bad"}

VARIABLES
    plan, mode,   \* of the submission
    stage,        \* where the workflow is
    wtries,       \* retries of the pod of the current stage
    wave,         \* dynamic: what select-ready-wave wrote
    pod,          \* the pod of each node
    sched,        \* whether the run record has a schedule
    db,           \* durable node records
    refs, final,  \* refs of the run: nodes/<id> and final
    blind,        \* nodes a pod without a store pushed a ref for
    argo,         \* workflow.status and whether it was stopped
    outcome,      \* of the finalizer
    verdict,      \* how the finalizer pod ended
    resumes

submission == <<plan, mode>>
flow == <<stage, wtries, wave>>
stored == <<db, refs, blind>>
ending == <<final, argo, outcome, verdict>>
vars == <<submission, flow, pod, sched, stored, ending, resumes>>

PrePhases == {"pre-research", "pre-planning", "generate-schedule", "record-schedule"}
Startup == PrePhases \cup {"workflow.start", "select-ready-wave"}
Stages == Startup \cup {"nodes", "finalize", "hooks", "promote", "done"}
Alive == {"start", "run", "push", "record"}
Results == {"passed", "failed", "infra"}

Pod == [pc : {"idle", "ok", "bad"} \cup Alive, store : BOOLEAN,
        tree : SUBSET Work, res : Results, tries : 0..RetryLimit]
NoPod == [pc |-> "idle", store |-> FALSE, tree |-> {}, res |-> "passed",
          tries |-> 0]
NoPods == [n \in Nodes |-> NoPod]

TypeOK ==
    /\ plan \in Plans /\ mode \in {"static", "dynamic"}
    /\ stage \in Stages /\ wtries \in 0..RetryLimit /\ wave \in SUBSET Top(plan)
    /\ pod \in [Nodes -> Pod]
    /\ sched \in BOOLEAN
    /\ db \in [Nodes -> {"none", "passed", "failed"}]
    /\ refs \in [Nodes -> (SUBSET Work) \cup {NoRef}]
    /\ final \in (SUBSET Work) \cup {NoRef}
    /\ blind \in SUBSET Nodes
    /\ argo \in {"Running", "Succeeded", "Failed", "Stopped"}
    /\ outcome \in {"none", "PASS", "FAIL", "CANCELLED"}
    /\ verdict \in {"none", "exit0", "exit1", "exit70"}
    /\ resumes \in 0..MaxResumes

FirstStage(m) == IF m = "static" THEN "workflow.start" ELSE "pre-research"

Init ==
    /\ plan \in Plans /\ mode \in Modes
    /\ stage = FirstStage(mode) /\ wtries = 0 /\ wave = {}
    /\ pod = NoPods
    /\ sched = FALSE
    /\ db = [n \in Nodes |-> "none"]
    /\ refs = [n \in Nodes |-> NoRef] /\ final = NoRef
    /\ blind = {}
    /\ argo = "Running" /\ outcome = "none"
    /\ verdict = "none" /\ resumes = 0

----------------------------------------------------------------------------
(* The pods before the nodes: workflow.start, or the pre-schedule phases and *)
(* the selection of a wave.                                                 *)

GoTo(s) == stage' = s /\ wtries' = 0

\* The workflow is over for Argo, which runs the onExit pod.
EndWorkflow(status) ==
    GoTo("finalize") /\ argo' = status /\ wave' = {} /\ pod' = NoPods

\* createRun, whose failure is logged, then the start hooks.
WorkflowStart ==
    /\ stage = "workflow.start"
    /\ sched' \in {sched, TRUE}
    /\ GoTo("nodes")
    /\ UNCHANGED <<submission, wave, pod, stored, ending, resumes>>

PreAgentPhase ==
    /\ stage \in {"pre-research", "pre-planning"}
    /\ GoTo(IF stage = "pre-research" THEN "pre-planning" ELSE "generate-schedule")
    /\ UNCHANGED <<submission, wave, pod, sched, stored, ending, resumes>>

\* publishScheduleManifest: a schedule is published once.  When a retried pod
\* plans another one, that is a conflict and it exits with 70: StagePodDies.
GenerateSchedule ==
    /\ stage = "generate-schedule"
    /\ sched' = TRUE
    /\ stage' = "record-schedule"
    /\ UNCHANGED <<submission, wtries, wave, pod, stored, ending, resumes>>

RecordSchedule ==
    /\ stage = "record-schedule"
    /\ GoTo("select-ready-wave")
    /\ UNCHANGED <<submission, wave, pod, sched, stored, ending, resumes>>

\* A start hook or an agent failed, or a record could not be written: exit 1.
StagePodFails ==
    /\ stage \in Startup \ {"select-ready-wave"}
    /\ EndWorkflow("Failed")
    /\ UNCHANGED <<submission, sched, stored, final, outcome, verdict,
                   resumes>>

\* A crash, or exit 64 or 70.
StagePodDies ==
    /\ stage \in Startup
    /\ IF wtries < RetryLimit
       THEN /\ wtries' = wtries + 1
            /\ stage' = IF stage = "record-schedule" THEN "generate-schedule" ELSE stage
            /\ UNCHANGED <<argo, wave, pod>>
       ELSE EndWorkflow("Failed")
    /\ UNCHANGED <<submission, sched, stored, final, outcome, verdict,
                   resumes>>

\* readyNodeIdsFromRunStore: nodes without a record whose needs are recorded
\* and did not fail.
ReadyNodes ==
    {n \in Top(plan) : /\ db[n] = "none"
                       /\ \A m \in plan.needs[n] : db[m] = "passed"}

\* The wave is run when it is not empty; the drain ends otherwise.
SelectReadyWave ==
    /\ stage = "select-ready-wave"
    /\ IF ReadyNodes = {}
       THEN EndWorkflow("Succeeded")
       ELSE GoTo("nodes") /\ wave' = ReadyNodes /\ UNCHANGED <<argo, pod>>
    /\ UNCHANGED <<submission, sched, stored, final, outcome, verdict,
                   resumes>>

----------------------------------------------------------------------------
(* The pod of one node. *)

NodeTasks == IF mode = "static" THEN Tasks(plan) ELSE wave
Running(n) == stage = "nodes" /\ n \in NodeTasks

\* The retry strategy: a lost pod or an exit code other than 0 and 1.
Retried(n) ==
    IF pod[n].tries < RetryLimit
    THEN [NoPod EXCEPT !.pc = "start", !.tries = pod[n].tries + 1]
    ELSE [NoPod EXCEPT !.pc = "bad"]

\* Exit codes 0 and 1 settle the pod; 64, 70 and a lost pod are retried.
Exits(n, code) ==
    pod' = [pod EXCEPT ![n] = CASE code = 0 -> [NoPod EXCEPT !.pc = "ok"]
                                [] code = 1 -> [NoPod EXCEPT !.pc = "bad"]
                                [] code = 70 -> Retried(n)]

podOnly == <<submission, flow, sched, stored, ending, resumes>>

\* Argo starts a task of the DAG when its dependencies succeeded, unless a
\* task has failed; the items of a wave are started together.
StartPod(n) ==
    /\ Running(n) /\ pod[n].pc = "idle"
    /\ mode = "static" =>
          /\ \A m \in WaitsFor[plan][n] : pod[m].pc = "ok"
          /\ \A m \in Nodes : pod[m].pc # "bad"
    /\ pod' = [pod EXCEPT ![n].pc = "start"]
    /\ UNCHANGED podOnly

\* Mutant: any record counts as done.
RecordedAtAll(n) == db[n] # "none"

AlreadyPassed(n) == db[n] = "passed"

\* A store out of reach is none: the node runs without one, unless its schedule
\* is kept there.
WithoutStore(n) ==
    \/ mode = "static" /\ pod' = [pod EXCEPT ![n].pc = "run"]
    \/ mode = "dynamic" /\ Exits(n, 70)

\* The workspace is cloned and the store resolved.
ResolveStore(n) ==
    /\ Running(n) /\ pod[n].pc = "start"
    /\ \/ AlreadyPassed(n) /\ Exits(n, 0)
       \/ /\ ~AlreadyPassed(n)
          /\ pod' = [pod EXCEPT ![n].pc = "run", ![n].store = TRUE]
       \/ WithoutStore(n)
    /\ UNCHANGED podOnly

MergedRefs(n) == {refs[m] : m \in Merges[plan][n]}

\* Every dependency's ref is fetched and merged, or the pod exits with 70.
FetchesEveryRef(n) == NoRef \notin MergedRefs(n)

\* The work of a container is that of the leaves it runs in its own process.
WorkOf(n, r) ==
    LET done == IF plan.kind[n] = "parallel" THEN ResolveExecutable(plan, {n})
                                             ELSE {n} \cap Tasks(plan)
    IN  done \X {IF r = "passed" THEN "ok" ELSE "bad"}

ResultsOf(n) == IF plan.kind[n] = "group" THEN {"passed"} ELSE Results
Status(r) == IF r = "passed" THEN "passed" ELSE "failed"

\* The node has run on the merged refs and its changes are committed.
Committed(n, r) ==
    pod' = [pod EXCEPT ![n].pc = "push", ![n].res = r,
                       ![n].tree = (UNION (MergedRefs(n) \ {NoRef})) \cup WorkOf(n, r)]

\* Mutant: the result is recorded as soon as the node has run.
RecordsWhenRun(n) ==
    /\ Running(n) /\ pod[n].pc = "run"
    /\ IF FetchesEveryRef(n)
       THEN \E r \in ResultsOf(n) :
               /\ Committed(n, r)
               /\ db' = IF pod[n].store THEN [db EXCEPT ![n] = Status(r)] ELSE db
       ELSE Exits(n, 70) /\ UNCHANGED db
    /\ UNCHANGED <<submission, flow, sched, refs, blind, ending, resumes>>

\* The refs are merged, setup commands run, then runScheduledWorkflowTask; the
\* changes are committed whatever the result.
RunTask(n) ==
    /\ Running(n) /\ pod[n].pc = "run"
    /\ IF FetchesEveryRef(n) THEN \E r \in ResultsOf(n) : Committed(n, r)
                             ELSE Exits(n, 70)
    /\ UNCHANGED podOnly

\* commitAndPushNodeRef: HEAD replaces the ref.
PushNodeRef(n) ==
    /\ Running(n) /\ pod[n].pc = "push"
    /\ refs' = [refs EXCEPT ![n] = pod[n].tree]
    /\ blind' = IF pod[n].store THEN blind ELSE blind \cup {n}
    /\ pod' = [pod EXCEPT ![n].pc = "record", ![n].tree = {}]
    /\ UNCHANGED <<submission, flow, sched, db, ending, resumes>>

ExitCode(r) == [passed |-> 0, failed |-> 1, infra |-> 70][r]

\* Mutant: a record that cannot be written leaves the exit code as it is.
WriteErrorLogged(n) ==
    /\ Running(n) /\ pod[n].pc = "record"
    /\ \/ pod[n].store /\ db' = [db EXCEPT ![n] = Status(pod[n].res)]
       \/ UNCHANGED db
    /\ Exits(n, ExitCode(pod[n].res))
    /\ UNCHANGED <<submission, flow, sched, refs, blind, ending, resumes>>

\* persistNodeResult.  The write is queued; its error surfaces when the scope
\* closes the store, and the command fails with 1.  A pod may be lost once the
\* record is written.
RecordResult(n) ==
    /\ Running(n) /\ pod[n].pc = "record"
    /\ \/ /\ pod[n].store /\ db' = [db EXCEPT ![n] = Status(pod[n].res)]
          /\ Exits(n, ExitCode(pod[n].res)) \/ Exits(n, 70)
       \/ pod[n].store /\ Exits(n, 1) /\ UNCHANGED db
       \/ ~pod[n].store /\ Exits(n, ExitCode(pod[n].res)) /\ UNCHANGED db
    /\ UNCHANGED <<submission, flow, sched, refs, blind, ending, resumes>>

\* The pod is lost, or a clone, a merge, a setup command, the task itself or a
\* push fails with an error (exit 64 or 70).
PodDies(n) ==
    /\ Running(n) /\ pod[n].pc \in Alive
    /\ Exits(n, 70)
    /\ UNCHANGED podOnly

\* Nothing runs, and nothing more will be started.
NodesSettled ==
    /\ stage = "nodes"
    /\ \A n \in NodeTasks : pod[n].pc \in {"ok", "bad", "idle"}
    /\ \/ \A n \in NodeTasks : pod[n].pc # "idle"
       \/ mode = "static" /\ \E n \in NodeTasks : pod[n].pc = "bad"
    /\ CASE \E n \in NodeTasks : pod[n].pc = "bad" -> EndWorkflow("Failed")
         [] mode = "dynamic" /\ \A n \in wave : pod[n].pc = "ok" ->
               GoTo("select-ready-wave") /\ wave' = {} /\ pod' = NoPods /\ UNCHANGED argo
         [] OTHER -> EndWorkflow("Succeeded")
    /\ UNCHANGED <<submission, sched, stored, final, outcome, verdict,
                   resumes>>

\* The workflow is stopped: pods are killed wherever they are.  The finalizer
\* recognises it by the message of a failure, which may be missing.
StopWorkflow ==
    /\ stage \in Startup \cup {"nodes"}
    /\ \E status \in {"Stopped", "Failed"} : EndWorkflow(status)
    /\ UNCHANGED <<submission, sched, stored, final, outcome, verdict, resumes>>

----------------------------------------------------------------------------
(* The finalizer pod, which is not retried. *)

Ends(v) == stage' = "done" /\ verdict' = v

FailedNodes == {n \in Top(plan) : db[n] = "failed"}
MissingNodes == {n \in Top(plan) : db[n] = "none"}

\* Mutant: a run without a recorded failure has passed.
NothingFailed ==
    CASE argo = "Stopped" -> "CANCELLED"
      [] OTHER -> IF FailedNodes = {} THEN "PASS" ELSE "FAIL"

\* finalizerOutcome and, for a dynamic run, what the records say instead.
FinalizerOutcome ==
    CASE argo = "Stopped" -> "CANCELLED"
      [] mode = "dynamic" -> IF FailedNodes \cup MissingNodes = {} THEN "PASS" ELSE "FAIL"
      [] OTHER -> IF argo = "Succeeded" THEN "PASS" ELSE "FAIL"

\* A dynamic run without a published schedule has no context: FinalizerDies.
FinalizeExecution ==
    /\ stage = "finalize"
    /\ mode = "dynamic" => sched
    /\ outcome' = FinalizerOutcome
    /\ stage' = "hooks"
    /\ UNCHANGED <<submission, wtries, wave, pod, sched, stored, final, argo,
                   verdict, resumes>>

\* Success hooks may turn the outcome; only PASS is promoted.
FinalizeHooks ==
    /\ stage = "hooks"
    /\ \/ outcome = "PASS" /\ stage' = "promote" /\ UNCHANGED <<outcome, verdict>>
       \/ outcome = "PASS" /\ outcome' = "FAIL" /\ Ends("exit1")
       \/ outcome # "PASS" /\ Ends("exit1") /\ UNCHANGED outcome
    /\ UNCHANGED <<submission, wtries, wave, pod, sched, stored, final, argo,
                   resumes>>

PromoteFinalRef ==
    /\ stage = "promote"
    /\ LET sources == {refs[n] : n \in TerminalNodes(plan)}
       IN  IF NoRef \in sources THEN Ends("exit70") /\ UNCHANGED final
                                ELSE Ends("exit0") /\ final' = UNION sources
    /\ UNCHANGED <<submission, wtries, wave, pod, sched, stored, argo, outcome,
                   resumes>>

FinalizerDies ==
    /\ stage \in {"finalize", "hooks", "promote"}
    /\ Ends("exit70")
    /\ UNCHANGED <<submission, wtries, wave, pod, sched, stored, final, argo,
                   outcome, resumes>>

\* resumeRunByOrigin: the persisted schedule is submitted as a static workflow.
Resume ==
    /\ stage = "done" /\ verdict # "exit0" /\ sched
    /\ resumes < MaxResumes /\ resumes' = resumes + 1
    /\ mode' = "static" /\ GoTo(FirstStage("static"))
    /\ argo' = "Running" /\ outcome' = "none" /\ verdict' = "none"
    /\ UNCHANGED <<plan, wave, pod, sched, stored, final>>

----------------------------------------------------------------------------
PodStep(n) ==
    \/ StartPod(n) \/ ResolveStore(n) \/ RunTask(n)
    \/ PushNodeRef(n) \/ RecordResult(n)

Progress ==
    \/ WorkflowStart \/ PreAgentPhase \/ GenerateSchedule \/ RecordSchedule
    \/ SelectReadyWave \/ NodesSettled
    \/ \E n \in Nodes : PodStep(n)
    \/ FinalizeExecution \/ FinalizeHooks \/ PromoteFinalRef \/ FinalizerDies

Faults == StagePodFails \/ StagePodDies \/ \E n \in Nodes : PodDies(n)

Next == Progress \/ Faults \/ StopWorkflow \/ Resume

Spec == Init /\ [][Next]_vars

\* Argo runs what can run, and pods have deadlines; faults, stops and resumes
\* need not happen.
FairSpec == Spec /\ WF_vars(Progress)

----------------------------------------------------------------------------
Passed(S) == S \X {"ok"}

\* A node recorded as passed has its ref on the remote, with passing work of
\* the node and of everything it needs: the ref is pushed before the record is
\* written, whichever pod of whichever submission did it.  (run.ts, push then
\* persistNodeResult.)  A pod that could not reach the store is exempt: it
\* runs a recorded node again and replaces the ref.
RecordedWorkIsPushed ==
    \A n \in Nodes :
       db[n] = "passed" /\ blind = {} =>
          /\ refs[n] # NoRef
          /\ WorkOf(n, "passed") \subseteq refs[n]
          /\ Passed(Merges[plan][n]) \subseteq refs[n]

\* No node is run on the work of a failed attempt of a node it needs, although
\* failed attempts are pushed too, retried, and skipped when a record exists.
UpstreamWorkPassed ==
    \A n \in Nodes :
       pod[n].pc = "push" =>
          \A m \in Merges[plan][n] \ blind :
             <<m, "ok">> \in pod[n].tree /\ <<m, "bad">> \notin pod[n].tree

\* Every task merges what Argo makes it wait for: so it is unless a parallel node
\* with tasks in it has needs of its own, for which its children wait and whose work
\* they do not merge (run.ts:770).
MergesWhatItWaitsFor == \A n \in Tasks(plan) : WaitsFor[plan][n] = Merges[plan][n]

\* A workflow that ends green has a final ref with the passing work of every
\* task: none is lost between the refs of nodes and the promoted one.
GreenRunIsDelivered ==
    verdict = "exit0" =>
       /\ final # NoRef
       /\ blind = {} /\ MergesWhatItWaitsFor => Passed(Tasks(plan)) \subseteq final

\* Every submission ends: retries are bounded, and each wave of a dynamic run
\* records what it ran, so that the drain does not go round for ever.
RemoteRunEnds == []<>(stage = "done")
=============================================================================
