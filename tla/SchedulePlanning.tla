-------------------------- MODULE SchedulePlanning --------------------------
(***************************************************************************)
(* How a schedule becomes a plan (src/planning, src/schedule/passes): the     *)
(* passes that normalise a generated schedule, its validation, and its        *)
(* compilation.  A workflow is the sequence of its nodes; a parallel node     *)
(* holds a workflow of its own.  An id is a sequence of words, so that an id  *)
(* made from another one is the other one with a word added.                  *)
(***************************************************************************)
EXTENDS DependencyGraph, SequencesExt, TLC

CONSTANTS
    SchedulingRoles,    \* profile -> what it is scheduled for
    WorkspaceWrite,     \* the profiles that may write to the workspace
    CoverageProfiles,   \* those with the coverage role, in order of preference
    Slug                \* the words an id cannot keep -> what replaces them

ScheduleBuiltins == {"drain-merge", "duplication", "fallow", "lint",
                     "open-pull-request", "semgrep", "test", "typecheck"}

AnyNode == [id |-> <<"node">>, kind |-> "agent", profile |-> "", builtin |-> "", gates |-> {},
            needs |-> {}, nodes |-> << >>, members |-> {}, unit |-> ""]
Agent(id, profile, needs) ==
    [AnyNode EXCEPT !.id = id, !.profile = profile, !.needs = needs]
Builtin(id, builtin, needs) ==
    [AnyNode EXCEPT !.id = id, !.kind = "builtin", !.builtin = builtin, !.needs = needs]

Ids(nodes) == {nodes[i].id : i \in DOMAIN nodes}

(* The seeds the planner starts from. *)
Mechanical(name, after, builtins) ==
    LET Word(builtin) == IF builtin = "test" THEN "tests" ELSE builtin
    IN  [i \in DOMAIN builtins |->
            Builtin(<<name, Word(builtins[i])>>, builtins[i], {after})]

QuickBaseline ==
    LET mechanical == Mechanical("mechanical", <<"implement">>, <<"test", "typecheck">>)
    IN  <<Agent(<<"backlog-intake">>, "moka-researcher", {}),
          Agent(<<"red-tests">>, "moka-test-writer", {<<"backlog-intake">>}),
          Agent(<<"implement">>, "moka-code-writer", {<<"red-tests">>})>> \o mechanical \o
        <<[Agent(<<"verify">>, "moka-verifier", Ids(mechanical))
             EXCEPT !.gates = {"typecheck", "test", "lint", "fallow"}]>>

ExecuteBaseline ==
    LET mechanical == Mechanical("mechanical-green", <<"green-implementation">>,
                                 <<"test", "typecheck", "lint", "fallow">>)
        reviews == <<Agent(<<"acceptance-review">>, "moka-acceptance-reviewer", Ids(mechanical)),
                     [Agent(<<"verification">>, "moka-verifier", Ids(mechanical))
                        EXCEPT !.gates = ScheduleBuiltins \ {"drain-merge", "open-pull-request"}],
                     Agent(<<"code-quality-review">>, "moka-thermo-nuclear-reviewer", Ids(mechanical))>>
    IN  <<Agent(<<"backlog-intake">>, "moka-researcher", {}),
          Agent(<<"research">>, "moka-researcher", {<<"backlog-intake">>}),
          Agent(<<"red-tests">>, "moka-test-writer", {<<"research">>}),
          Agent(<<"green-implementation">>, "moka-code-writer", {<<"red-tests">>})>> \o mechanical \o reviews \o
        <<Agent(<<"learn">>, "moka-learner", Ids(reviews))>>

(***************************************************************************)
(* The work units: the tickets a task names, or the tickets below those that  *)
(* have some, with the dependencies that are in scope.  A backlog is          *)
(* [ids, parent, deps], ids in order.                                         *)
(***************************************************************************)
BacklogDescendants(b, t) ==
    LET below[k \in 0 .. Len(b.ids)] ==
            IF k = 0 THEN {t}
            ELSE LET S == below[k - 1] IN S \cup {c \in ToSet(b.ids) : b.parent[c] \in S}
    IN  below[Len(b.ids)] \ {t}

BacklogContext(b, tickets) ==
    LET named == tickets \cap ToSet(b.ids)
        split == {t \in named : BacklogDescendants(b, t) # {}}
        units == (named \ split) \cup UNION {BacklogDescendants(b, t) : t \in split}
    IN  [parents |-> split, units |-> SelectSeq(b.ids, LAMBDA t : t \in units), deps |-> b.deps]

\* The tickets of a ticket plan come after the units of the backlog.
MergePhaseContext(ctx, ticketPlan) ==
    [parents |-> ctx.parents, units |-> ctx.units \o ticketPlan.units,
     deps |-> ticketPlan.deps @@ ctx.deps]

PruneOutOfScope(ctx) ==
    LET inScope == ctx.parents \cup ToSet(ctx.units)
    IN  [ctx EXCEPT !.deps = [t \in inScope |-> ctx.deps[t] \cap inScope]]

(* Trees of nodes, and what depends on what in them. *)
RECURSIVE FlattenNodes(_)
FlattenNodes(nodes) ==
    IF nodes = << >> THEN << >>
    ELSE <<Head(nodes)>> \o FlattenNodes(Head(nodes).nodes) \o FlattenNodes(Tail(nodes))

DependentsByNeed(nodes) ==
    [id \in Ids(nodes) \cup UNION {n.needs : n \in ToSet(nodes)} |->
        SelectSeq(nodes, LAMBDA n : id \in n.needs)]

\* A parallel node counts as a dependent of each of its children.
DependentsWithContainment(nodes) ==
    LET flat == FlattenNodes(nodes)
        byNeed == DependentsByNeed(flat)
    IN  [id \in DOMAIN byNeed |->
            byNeed[id] \o SelectSeq(flat, LAMBDA p : p.kind = "parallel" /\ id \in Ids(p.nodes))]

\* Breadth first; of two nodes with one id only the first is looked at.
RECURSIVE VisitDependents(_, _, _)
VisitDependents(queue, visited, index) ==
    IF queue = << >> THEN {}
    ELSE IF Head(queue).id \in visited THEN VisitDependents(Tail(queue), visited, index)
    ELSE {Head(queue)} \cup
         VisitDependents(Tail(queue) \o index[Head(queue).id], visited \cup {Head(queue).id}, index)
ReachableDependents(id, index) == VisitDependents(index[id], {}, index)

(* Scheduling roles. *)
HasSchedulingRole(n, role) == n.kind = "agent" /\ role \in SchedulingRoles[n.profile]
IsImplementationNode(n) == HasSchedulingRole(n, "implementation")
IsCoverageNode(n) == HasSchedulingRole(n, "coverage")

RECURSIVE IsWriteCapable(_)
IsWriteCapable(n) ==
    \/ n.kind = "command"
    \/ n.kind = "agent" /\ n.profile \in WorkspaceWrite
    \/ n.kind = "parallel" /\ \E c \in ToSet(n.nodes) : IsWriteCapable(c)
IsWriteFanout(n) ==
    n.kind = "parallel" /\ Len(SelectSeq(n.nodes, IsWriteCapable)) > 1

IdSuffixes == <<"2", "3", "4", "5">>
UniqueGeneratedId(id, used) ==
    LET word == Head(id)
        base == <<IF word \in DOMAIN Slug THEN Slug[word] ELSE word>> \o Tail(id)
        free == {k \in DOMAIN IdSuffixes : Append(base, IdSuffixes[k]) \notin used}
    IN  IF base \notin used THEN base
        ELSE Append(base, IdSuffixes[CHOOSE k \in free : \A j \in free : k <= j])

(***************************************************************************)
(* Coverage: implementation work that nothing verifies gets a generated       *)
(* verification.  Work inside a parallel node is verified after that node,    *)
(* since the children do not wait for each other.                             *)
(***************************************************************************)
\* Variant: what a parallel node holds is taken to be verified inside it.
SiblingCoverageOnly(n) == IsImplementationNode(n)

RECURSIVE NeedsImplementationCoverage(_)
NeedsImplementationCoverage(n) ==
    \/ IsImplementationNode(n)
    \/ n.kind = "parallel" /\ \E c \in ToSet(n.nodes) : NeedsImplementationCoverage(c)

HasDownstreamCoverage(id, index) ==
    \E d \in ReachableDependents(id, index) : IsCoverageNode(d)

AddImplementationCoverage(nodes) ==
    LET index == DependentsByNeed(nodes)
        uncovered == SelectSeq(nodes, LAMBDA n : /\ NeedsImplementationCoverage(n)
                                                 /\ ~HasDownstreamCoverage(n.id, index))
        id == UniqueGeneratedId(<<"generated-coverage">>, Ids(nodes))
    IN  IF CoverageProfiles = << >> \/ uncovered = << >> THEN nodes
        ELSE Append(nodes, [Agent(id, Head(CoverageProfiles), Ids(uncovered))
                                EXCEPT !.gates = ScheduleBuiltins \ {"drain-merge", "open-pull-request"}])

(* Drain-merge: what the children of a parallel node write is joined before    *)
(* anything that waits for that node.                                         *)
IsDrainMerge(n) == n.kind = "builtin" /\ n.builtin = "drain-merge"
HasDrainMerge(id, index) == \E d \in ReachableDependents(id, index) : IsDrainMerge(d)

InsertDrainMerge(nodes, id) ==
    LET merge == UniqueGeneratedId(<<"generated-drain-merge">> \o id, Ids(nodes))
        Reroute(n) == IF id \in n.needs
                      THEN [n EXCEPT !.needs = (@ \ {id}) \cup {merge}] ELSE n
    IN  Append([i \in DOMAIN nodes |-> Reroute(nodes[i])], Builtin(merge, "drain-merge", {id}))

IntegrateParallelWriteFanout(nodes) ==
    LET index == DependentsByNeed(nodes)
        unintegrated == SelectSeq(nodes, LAMBDA n : IsWriteFanout(n) /\ ~HasDrainMerge(n.id, index))
    IN  FoldLeft(LAMBDA current, n : InsertDrainMerge(current, n.id), nodes, unintegrated)

(* Delivery: the pull request waits for every node nothing else waits for. *)
HasPullRequestNode(nodes) ==
    \E n \in ToSet(nodes) : n.kind = "builtin" /\ n.builtin = "open-pull-request"

AppendPullRequestDelivery(enabled, nodes) ==
    LET terminals == TerminalDependencyItems(
                        [nodes |-> Ids(nodes),
                         needs |-> [id \in Ids(nodes) |->
                                      UNION {n.needs : n \in {m \in ToSet(nodes) : m.id = id}}]])
        id == UniqueGeneratedId(<<"generated-open-pull-request">>, Ids(nodes))
    IN  IF ~enabled \/ HasPullRequestNode(nodes) \/ terminals = {} THEN nodes
        ELSE Append(nodes, Builtin(id, "open-pull-request", terminals))

(* Ids: every node of the tree gets a slug no earlier one has.  Of two nodes  *)
(* with the same id the later one decides what both are called.               *)
RECURSIVE RewriteIds(_, _)
RewriteIds(nodes, new) ==
    [i \in DOMAIN nodes |->
        [nodes[i] EXCEPT !.id = new[@],
                         !.needs = {IF d \in DOMAIN new THEN new[d] ELSE d : d \in @},
                         !.nodes = RewriteIds(@, new)]]

CanonicalizeIds(nodes) ==
    LET Name(s, n) == LET id == UniqueGeneratedId(n.id, s.used)
                      IN  [used |-> s.used \cup {id}, new |-> (n.id :> id) @@ s.new]
    IN  RewriteIds(nodes, FoldLeft(Name, [used |-> {}, new |-> << >>], FlattenNodes(nodes)).new)

\* Variant: the pull request is added before what still has to be verified.
DeliveredBeforeCoverage(deliver, nodes) ==
    CanonicalizeIds(
        IntegrateParallelWriteFanout(
            AddImplementationCoverage(
                AppendPullRequestDelivery(deliver, nodes))))

NormalizeGenerated(deliver, nodes) ==
    CanonicalizeIds(
        AppendPullRequestDelivery(deliver,
            IntegrateParallelWriteFanout(
                AddImplementationCoverage(nodes))))

(***************************************************************************)
(* The schedule of a ticket plan: one implementation node for each unit.      *)
(***************************************************************************)
TicketPlanSchedule(ctx, profile) ==
    LET Name(s, u) == LET id == UniqueGeneratedId(<<u, "implement">>, s.used)
                      IN  [used |-> s.used \cup {id}, of |-> (u :> id) @@ s.of]
        of == FoldLeft(Name, [used |-> {}, of |-> << >>], ctx.units).of
    IN  [i \in DOMAIN ctx.units |->
            LET u == ctx.units[i]
            IN  [Agent(of[u], profile, {of[d] : d \in ctx.deps[u] \cap ToSet(ctx.units)})
                    EXCEPT !.unit = u]]

(***************************************************************************)
(* Validation of a generated schedule.  These look at the flattened tree, so   *)
(* they take a child's needs for an order the children will run in.           *)
(***************************************************************************)
UnsupportedBuiltins(nodes) ==
    {n \in ToSet(FlattenNodes(nodes)) :
        \/ n.kind = "builtin" /\ n.builtin \notin ScheduleBuiltins
        \/ ~(n.gates \subseteq ScheduleBuiltins)}

MissingAssignedWorkUnits(nodes, ctx) ==
    ToSet(ctx.units) \ {n.unit : n \in ToSet(FlattenNodes(nodes))}

\* Of the nodes of a unit's prerequisite, one that comes before is enough.
UnorderedWorkUnits(nodes, ctx) ==
    LET flat == ToSet(FlattenNodes(nodes))
        index == DependentsWithContainment(nodes)
        Before(m, n) == n.id \in {d.id : d \in ReachableDependents(m.id, index)}
    IN  {n \in flat : /\ IsImplementationNode(n) /\ n.unit \in ToSet(ctx.units)
                      /\ \E p \in ctx.deps[n.unit] \cap ToSet(ctx.units) :
                            \A m \in flat : m.unit = p => ~Before(m, n)}

UncoveredImplementation(nodes) ==
    {n \in ToSet(FlattenNodes(nodes)) :
        IsImplementationNode(n) /\ ~HasDownstreamCoverage(n.id, DependentsWithContainment(nodes))}

UnsafeParallelWorktrees(nodes) ==
    {n \in ToSet(FlattenNodes(nodes)) :
        IsWriteFanout(n) /\ ~HasDrainMerge(n.id, DependentsWithContainment(nodes))}

ValidateScheduleArtifact(artifact, ctx) ==
    /\ artifact.root = "root"
    /\ MissingAssignedWorkUnits(artifact.nodes, ctx) = {}
    /\ UnorderedWorkUnits(artifact.nodes, ctx) = {}
    /\ UnsupportedBuiltins(artifact.nodes) = {}
    /\ UncoveredImplementation(artifact.nodes) = {}
    /\ UnsafeParallelWorktrees(artifact.nodes) = {}

(***************************************************************************)
(* Compilation: each scope is checked on its own, then the top level becomes   *)
(* a graph.  A group waits for its members.                                   *)
(***************************************************************************)
ProfilesKnown(nodes) ==
    \A n \in ToSet(FlattenNodes(nodes)) : n.kind = "agent" => n.profile \in DOMAIN SchedulingRoles

RECURSIVE ValidWorkflowNodes(_)
ValidWorkflowNodes(nodes) ==
    /\ Cardinality(Ids(nodes)) = Len(nodes)
    /\ \A n \in ToSet(nodes) :
          /\ n.needs \subseteq Ids(nodes)
          /\ n.kind = "parallel" => ValidWorkflowNodes(n.nodes)

UngroupedNeeds(nodes) == nodes
NormalizeGroupDependencies(nodes) ==
    [i \in DOMAIN nodes |-> [nodes[i] EXCEPT !.needs = @ \cup nodes[i].members]]

GroupIssues(nodes) ==
    {n \in ToSet(nodes) : n.kind = "group" /\
        (n.members = {} \/ ~(n.members \subseteq Ids(nodes) \ {n.id}))}

\* Depth first along dependents: a dependent on the path closes a cycle, and
\* a node is looked at once.
RECURSIVE VisitForCycles(_, _, _, _)
VisitForCycles(id, path, s, index) ==
    LET here == Append(path, id)
        From(d) == ToSet(SubSeq(here, CHOOSE i \in DOMAIN here : here[i] = d, Len(here)))
        Visit(t, m) == IF m.id \in ToSet(here) THEN [t EXCEPT !.cycles = @ \cup {From(m.id)}]
                       ELSE IF m.id \in t.done THEN t
                       ELSE VisitForCycles(m.id, here, t, index)
        left == FoldLeft(Visit, s, index[id])
    IN  [left EXCEPT !.done = @ \cup {id}]

FindDependencyCycles(nodes) ==
    LET index == DependentsByNeed(nodes)
        Start(s, n) == IF n.id \in s.done THEN s ELSE VisitForCycles(n.id, << >>, s, index)
    IN  FoldLeft(Start, [done |-> {}, cycles |-> {}], nodes).cycles

ValidateNodeGraph(nodes) ==
    /\ Cardinality(Ids(nodes)) = Len(nodes)
    /\ GroupIssues(nodes) = {}
    /\ \A n \in ToSet(nodes) : n.needs \subseteq Ids(nodes)
    /\ FindDependencyCycles(nodes) = {}

\* From each sink to what it needs; a node is listed after all of that.
RECURSIVE VisitForOrder(_, _, _)
VisitForOrder(n, s, nodes) ==
    LET Visit(t, m) == IF m.id \in t.visited THEN t ELSE VisitForOrder(m, t, nodes)
        needed == SelectSeq(nodes, LAMBDA m : m.id \in n.needs)
        left == FoldLeft(Visit, [s EXCEPT !.visited = @ \cup {n.id}], needed)
    IN  [left EXCEPT !.results = Append(@, n.id)]

TopologicalOrder(nodes) ==
    LET needed == UNION {n.needs : n \in ToSet(nodes)}
        sinks == SelectSeq(nodes, LAMBDA n : n.id \notin needed)
        Visit(s, n) == IF n.id \in s.visited THEN s ELSE VisitForOrder(n, s, nodes)
    IN  FoldLeft(Visit, [visited |-> {}, results |-> << >>], sinks).results

\* A planned node knows its place; only the kinds that use a field keep it.
RECURSIVE PlannedNodes(_)
PlannedNodes(nodes) ==
    LET For(kind, n, field, none) == IF n.kind = kind THEN field ELSE none
        Planned(n, i) == [n EXCEPT !.profile = For("agent", n, @, ""),
                                   !.builtin = For("builtin", n, @, ""),
                                   !.members = For("group", n, @, {}),
                                   !.nodes = For("parallel", n, PlannedNodes(@), << >>)]
                         @@ [index |-> i]
    IN  [i \in DOMAIN nodes |-> Planned(nodes[i], i)]

ParallelBatches(needs) == DependencyBatches([nodes |-> DOMAIN needs, needs |-> needs], DOMAIN needs)

CompileScheduleArtifact(nodes) ==
    LET grouped == NormalizeGroupDependencies(nodes)
        planned == PlannedNodes(grouped)
        needs == [id \in Ids(planned) |-> (CHOOSE n \in ToSet(planned) : n.id = id).needs]
    IN  IF ~(ProfilesKnown(nodes) /\ ValidWorkflowNodes(nodes) /\ ValidateNodeGraph(grouped))
        THEN [ok |-> FALSE]
        ELSE [ok |-> TRUE, nodes |-> planned, needs |-> needs,
              order |-> TopologicalOrder(grouped),
              batches |-> ParallelBatches(needs)]
=============================================================================
