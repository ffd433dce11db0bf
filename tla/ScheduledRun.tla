---------------------------- MODULE ScheduledRun ----------------------------
(***************************************************************************)
(* From a task to a run being stepped: the schedule is generated by a planner   *)
(* that may fail (src/planning/generate.ts) or read from a file, compiled,     *)
(* recorded with the run, and worked off by RunStepping.  A local run is       *)
(* created with its schedule (src/cli/run-service.ts).  A remote one exists    *)
(* first: a pod researches, a pod plans tickets, and a pod generates the       *)
(* schedule and publishes it (src/runner-command/pre-schedule.ts).  Argo        *)
(* retries a pod that dies or exits with an error other than 1.               *)
(***************************************************************************)
EXTENDS SchedulePlanning, RunStepping

CONSTANTS
    Answers,            \* answer -> the artifact it parses to, [root, nodes]
    Backlog,            \* the tickets on disk
    Tasks,              \* the sets of tickets a task may name
    TicketPlan,         \* the tickets the pre-planning phase planned
    ImplementationProfile,
    MaxWaves,           \* MAX_DYNAMIC_SCHEDULE_WAVES
    RetryLimit          \* retryStrategy.limit of a pod

VARIABLES
    compiled,   \* the plan a schedule compiled to, until the run is created
    phase,      \* see Phases
    request,    \* where the schedule comes from, what is asked of it, its pod
    artifact    \* the schedule that was accepted

vars == <<phase, request, artifact, compiled, stepVars>>

AgentPhases == {"pre-research", "pre-planning"}
Phases == AgentPhases \cup {"planning", "repairing", "accepted", "planned", "published",
                            "stepping", "rejected"}

SCHEDULE_PLANNER_REPAIR_ATTEMPTS == 1

NoArtifact == [root |-> "root", nodes |-> << >>]
NotCompiled == [ok |-> FALSE]
NoRequest == [origin |-> "none", pod |-> "none", baseline |-> "quick", tickets |-> {},
              deliver |-> FALSE, attempts |-> 0, retries |-> 0]

\* pod is the phase the current pod starts with, as long as it can be retried.
Init ==
    /\ artifact = NoArtifact /\ compiled = NotCompiled
    /\ request \in [origin : {"file", "local", "remote"}, pod : {"none", "pre-research"},
                    baseline : {"quick", "execute"}, tickets : Tasks, deliver : BOOLEAN,
                    attempts : {0}, retries : {0}]
    /\ request.pod = "pre-research" <=> request.origin = "remote"
    /\ request.origin = "file" => request = [NoRequest EXCEPT !.origin = "file"]
    /\ phase = IF request.origin = "remote" THEN "pre-research" ELSE "planning"
    /\ SteppingInit

NextPod(start) ==
    /\ phase' = start
    /\ request' = [request EXCEPT !.pod = start, !.retries = 0]

\* The agent's answer is JSON of the schema and is recorded; its process
\* fails, which is recorded and ends the workflow; or it is no such JSON.
RunAgentPhase(answer) ==
    /\ phase \in AgentPhases
    /\ \/ /\ answer = "valid"
          /\ NextPod(IF phase = "pre-research" THEN "pre-planning" ELSE "planning")
       \/ /\ answer = "exit 1"
          /\ phase' = "rejected" /\ request' = [request EXCEPT !.pod = "none"]
       \/ /\ answer = "unparsable"
          /\ phase' = "rejected" /\ UNCHANGED request
    /\ UNCHANGED <<artifact, compiled, stepVars>>

\* Only what the pods before this one recorded is known to it.
SchedulePhaseContext(backlog) ==
    IF request.pod = "planning" THEN MergePhaseContext(backlog, TicketPlan) ELSE backlog

SchedulePlanningContext ==
    PruneOutOfScope(SchedulePhaseContext(BacklogContext(Backlog, request.tickets)))

Baseline == IF request.baseline = "quick" THEN QuickBaseline ELSE ExecuteBaseline
HasTicketPlan == request.pod = "planning" /\ SchedulePlanningContext.units # << >>
Fallback == [root |-> "root",
             nodes |-> IF HasTicketPlan
                       THEN TicketPlanSchedule(SchedulePlanningContext, ImplementationProfile)
                       ELSE Baseline]

\* What a call to the planner may give; most of it is no schedule.
SchedulePlannerOutputs == {"call failed", "nothing", "unparsable"} \cup DOMAIN Answers
NothingToRepairWith(answer) == answer \in {"call failed", "nothing"}
Parses(answer) == answer \in DOMAIN Answers
AcceptedGeneratedSchedule(answer) ==
    Parses(answer) /\ UnsupportedBuiltins(Answers[answer].nodes) = {}

Accept(schedule) == phase' = "accepted" /\ artifact' = schedule
Reject == phase' = "rejected" /\ artifact' = NoArtifact

\* The planner's call fails, it says nothing, or it says something.
PlanScheduleArtifact(answer) ==
    /\ phase = "planning" /\ request.origin # "file"
    /\ \/ answer = "call failed" /\ HasTicketPlan /\ Accept(Fallback)
       \/ answer = "call failed" /\ ~HasTicketPlan /\ Reject
       \/ answer = "nothing" /\ Reject
       \/ AcceptedGeneratedSchedule(answer) /\ Accept(Answers[answer])
       \/ /\ ~NothingToRepairWith(answer) /\ ~AcceptedGeneratedSchedule(answer)
          /\ phase' = "repairing" /\ UNCHANGED artifact
    /\ UNCHANGED <<request, compiled, stepVars>>

\* A repair that cannot be had leaves the fallback; a repair that is wrong
\* again ends the run.
RepairInvalidScheduleArtifact(answer) ==
    /\ phase = "repairing"
    /\ request' = [request EXCEPT !.attempts = @ + 1]
    /\ \/ NothingToRepairWith(answer) /\ Accept(Fallback)
       \/ AcceptedGeneratedSchedule(answer) /\ Accept(Answers[answer])
       \/ /\ ~NothingToRepairWith(answer) /\ ~AcceptedGeneratedSchedule(answer)
          /\ IF request'.attempts < SCHEDULE_PLANNER_REPAIR_ATTEMPTS
             THEN UNCHANGED <<phase, artifact>>
             ELSE Reject
    /\ UNCHANGED <<compiled, stepVars>>

Planned(result) ==
    IF result.ok
    THEN phase' = "planned" /\ compiled' = result /\ UNCHANGED artifact
    ELSE Reject /\ UNCHANGED compiled

\* What was accepted is normalised, validated and compiled; what fails now is
\* neither repaired nor replaced by the fallback.
GenerateSchedule ==
    /\ phase = "accepted"
    /\ LET nodes == NormalizeGenerated(request.deliver, artifact.nodes)
           valid == /\ ProfilesKnown(artifact.nodes)
                    /\ ValidateScheduleArtifact([artifact EXCEPT !.nodes = nodes],
                                                SchedulePlanningContext)
       IN  IF valid THEN Planned(CompileScheduleArtifact(nodes)) ELSE Planned(NotCompiled)
    /\ UNCHANGED <<request, stepVars>>

\* A schedule file is compiled as it is.
LoadScheduleFile(answer) ==
    /\ phase = "planning" /\ request.origin = "file"
    /\ IF Parses(answer)
       THEN Planned(CompileScheduleArtifact(Answers[answer].nodes))
       ELSE Reject /\ UNCHANGED compiled
    /\ UNCHANGED <<request, stepVars>>

\* From here on only the places, the ids and the needs matter.  The ids are in the
\* order they were declared in, the compiled index, by which the ready nodes are
\* sorted again whatever order the plan hands them over in (scheduler.ts:253).
RunPlan == [ids |-> [i \in DOMAIN compiled.nodes |-> compiled.nodes[i].id],
            needs |-> compiled.needs]
StartStepping ==
    /\ phase' = "stepping" /\ request' = NoRequest
    /\ artifact' = NoArtifact /\ compiled' = NotCompiled

\* A local run is created with its schedule, which every `next node` compiles.
CreateRun ==
    /\ phase = "planned" /\ request.origin # "remote"
    /\ plan' = RunPlan /\ StartStepping
    /\ UNCHANGED <<table, at, task, verdict, failures, faults>>

\* Variant: the schedule in the record is replaced.
OverwriteSchedule ==
    /\ phase = "planned" /\ request.origin = "remote"
    /\ IF Len(compiled.batches) <= MaxWaves
       THEN plan' = RunPlan /\ phase' = "published" /\ UNCHANGED artifact
       ELSE Reject /\ UNCHANGED plan
    /\ compiled' = NotCompiled
    /\ UNCHANGED <<request, table, at, task, verdict, failures, faults>>

\* The record takes a schedule once, or the same one again.  A schedule holds the
\* time it was generated at (baseline.ts:225), so that a pod that is retried never
\* has the same one.  The read and the write of the record are one step: only one
\* pod of a run plans at a time, and nobody else writes its schedule.
PublishSchedule ==
    /\ phase = "planned" /\ request.origin = "remote"
    /\ IF Len(compiled.batches) <= MaxWaves /\ plan = NoPlan
       THEN plan' = RunPlan /\ phase' = "published" /\ UNCHANGED artifact
       ELSE Reject /\ UNCHANGED plan
    /\ compiled' = NotCompiled
    /\ UNCHANGED <<request, table, at, task, verdict, failures, faults>>

\* The result of the phase is recorded and waves of nodes are selected.
RecordPhaseResult == phase = "published" /\ StartStepping /\ UNCHANGED stepVars

\* It exits with an error, because a record cannot be written, or is lost.
PodDies ==
    /\ request.pod # "none" /\ phase # "rejected"
    /\ phase' = "rejected" /\ artifact' = NoArtifact /\ compiled' = NotCompiled
    /\ UNCHANGED <<request, stepVars>>

RetryPod ==
    /\ phase = "rejected" /\ request.pod # "none" /\ request.retries < RetryLimit
    /\ phase' = request.pod /\ compiled' = NotCompiled
    /\ request' = [request EXCEPT !.attempts = 0, !.retries = @ + 1]
    /\ UNCHANGED <<artifact, stepVars>>

Step == phase = "stepping" /\ SteppingNext /\ UNCHANGED <<phase, request, artifact, compiled>>

Next ==
    \/ \E answer \in {"valid", "exit 1", "unparsable"} : RunAgentPhase(answer)
    \/ \E answer \in SchedulePlannerOutputs :
          \/ PlanScheduleArtifact(answer)
          \/ RepairInvalidScheduleArtifact(answer)
          \/ LoadScheduleFile(answer)
    \/ GenerateSchedule
    \/ CreateRun
    \/ PublishSchedule
    \/ RecordPhaseResult
    \/ PodDies
    \/ RetryPod
    \/ Step

Spec == Init /\ [][Next]_vars
LiveSpec == Spec /\ SteppingFairness

----------------------------------------------------------------------------
TypeOK ==
    /\ phase \in Phases /\ request.retries \in 0 .. RetryLimit
    /\ request.attempts \in 0 .. SCHEDULE_PLANNER_REPAIR_ATTEMPTS
    /\ DOMAIN table \subseteq NodeIds(plan)
    /\ at \in [Workers -> {"idle", "executing", "submitting", "recorded", "told"}]
    /\ verdict \in [Workers -> {"none", "passed", "failed"}]

(* A plan that was accepted lists every node once, in the order and in the     *)
(* batches, and after all it declared to need and all its members, wherever    *)
(* the planner or a pass put it (compile.ts:425, graph.ts:447).                *)
PlanOrderSound ==
    phase = "planned" =>
        LET Waits(n) == n.needs \cup n.members
            Before(i) == {compiled.order[j] : j \in 1 .. i - 1}
            Earlier(k) == UNION {compiled.batches[j] : j \in 1 .. k - 1}
            Named(id) == CHOOSE n \in ToSet(compiled.nodes) : n.id = id
        IN  /\ Len(compiled.order) = Cardinality(NodeIds(compiled))
            /\ ToSet(compiled.order) = NodeIds(compiled)
            /\ \A i \in DOMAIN compiled.order : Waits(Named(compiled.order[i])) \subseteq Before(i)
            /\ UNION ToSet(compiled.batches) = NodeIds(compiled)
            /\ \A k \in DOMAIN compiled.batches : \A id \in compiled.batches[k] :
                  id \notin Earlier(k) /\ Waits(Named(id)) \subseteq Earlier(k)

Generated == phase = "planned" /\ request.origin # "file"

(* In a generated plan every node that implements something, or holds nodes     *)
(* that do, is verified by a node of the top level that runs after it: a        *)
(* sibling inside a parallel node does not count, because the children of one   *)
(* do not wait for each other (passes/coverage.ts:17, generate.ts:792).         *)
VerifiedAfterImplementation ==
    Generated => \A n \in ToSet(compiled.nodes) :
        (\E m \in ToSet(FlattenNodes(<<n>>)) : IsImplementationNode(m))
        => \E v \in ToSet(compiled.nodes) : IsCoverageNode(v) /\ n.id \in Upstream(compiled, v.id)

(* When a pull request is asked for and the planner did not place one, it is    *)
(* opened after everything else: also after the verification and the merges    *)
(* that the other passes add (generate.ts:1144, passes/open-pull-request.ts:53). *)
DeliveryIsLast ==
    Generated /\ request.deliver /\ ~HasPullRequestNode(artifact.nodes) =>
        \E n \in ToSet(compiled.nodes) :
            /\ n.kind = "builtin" /\ n.builtin = "open-pull-request"
            /\ NodeIds(compiled) \ {n.id} \subseteq Upstream(compiled, n.id)

(* A schedule that was published for a run stands: a pod that dies after it     *)
(* published is retried and plans another one, which may differ in every node, *)
(* but whoever reads the run record, before or after, reads one plan            *)
(* (store-manifest.ts:122, pre-schedule.ts:466).                               *)
PublishedPlanStands == [][plan # NoPlan => plan' = plan]_vars

(* The workers of a run are in the end all told that nothing is ready, and by  *)
(* then every node has a durable result or is blocked by a failure, whatever   *)
(* worker died or write was refused on the way (submit-result.ts:54, the write *)
(* lost at process exit).                                                     *)
RunDrains == (phase = "stepping") ~> (NothingLeft(table) /\ \A w \in Workers : at[w] = "told")
=============================================================================
