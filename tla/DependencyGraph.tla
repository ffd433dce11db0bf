-------------------------- MODULE DependencyGraph --------------------------
(***************************************************************************)
(* The shared dependency graph (src/planning/graph.ts): what it answers.   *)
(* A graph is [nodes, needs], needs[n] the declared dependencies of n; a   *)
(* dependency on something that is not a node has no edge.  How the cycle  *)
(* search and the topological sort get there is in SchedulePlanning.       *)
(***************************************************************************)
EXTENDS Integers, FiniteSets, Sequences

DependencyPredecessorIds(g, n) == g.needs[n] \cap g.nodes

\* Some set of nodes each of which waits for another of the set.
DependencyCycleIds(g) ==
    {S \in SUBSET g.nodes \ {{}} :
        \A n \in S : DependencyPredecessorIds(g, n) \cap S # {}}

\* Each round takes the nodes none of whose predecessors remains; a round that
\* takes none gives up and returns no batch at all.
DependencyBatches(g, ids) ==
    LET ready(rest) == {n \in rest : DependencyPredecessorIds(g, n) \cap rest = {}}
        rounds[rest \in SUBSET ids] ==
            IF rest = {} THEN << <<>>, TRUE >>
            ELSE IF ready(rest) = {} THEN << <<>>, FALSE >>
            ELSE LET tail == rounds[rest \ ready(rest)]
                 IN  << <<ready(rest)>> \o tail[1], tail[2] >>
    IN  IF rounds[ids][2] THEN rounds[ids][1] ELSE <<>>

\* Items nothing else depends on.
TerminalDependencyItems(g) == g.nodes \ UNION {g.needs[n] : n \in g.nodes}
=============================================================================
