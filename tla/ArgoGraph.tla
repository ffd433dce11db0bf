------------------------------ MODULE ArgoGraph ------------------------------
(***************************************************************************)
(* A compiled plan as the remote side sees it: which nodes become tasks of   *)
(* the Argo workflow, what each task waits for, and which refs the final     *)
(* branch is merged from (src/argo-graph.ts, src/planning/dependency-refs). *)
(*                                                                         *)
(* A plan is a record: the kind of each node, the children of a parallel     *)
(* node and the needs of each node.  The members of a group are among its    *)
(* needs, which is how planning normalises them.                            *)
(***************************************************************************)
EXTENDS FiniteSets

Kinds == {"exec", "group", "parallel"}   \* exec: agent, command or builtin

NodesOf(p) == DOMAIN p.kind
Top(p) == NodesOf(p) \ UNION {p.kids[n] : n \in NodesOf(p)}

\* Nodes that may name each other in their needs: the nodes of one level.
Level(p, n) ==
    IF n \in Top(p) THEN Top(p)
    ELSE UNION {p.kids[q] : q \in {r \in NodesOf(p) : n \in p.kids[r]}}

\* Needs are checked against the nodes of the same level.
IsPlan(p) ==
    /\ p.kind \in [NodesOf(p) -> Kinds]
    /\ p.kids \in [NodesOf(p) -> SUBSET NodesOf(p)]
    /\ p.needs \in [NodesOf(p) -> SUBSET NodesOf(p)]
    /\ \A n \in NodesOf(p) :
          /\ p.kids[n] # {} <=> p.kind[n] = "parallel"
          /\ p.needs[n] \subseteq Level(p, n)

Tasks(p) == {n \in NodesOf(p) : p.kind[n] = "exec"}

\* Containers are transparent: a need stands for the tasks below it.
Inside(p, n) ==
    CASE p.kind[n] = "exec" -> {}
      [] p.kind[n] = "group" -> p.needs[n]
      [] p.kind[n] = "parallel" -> p.kids[n]

Below(p, ns) ==
    {k \in NodesOf(p) : \A S \in SUBSET NodesOf(p) :
        (ns \subseteq S /\ \A m \in S : Inside(p, m) \subseteq S) => k \in S}

ResolveExecutable(p, needs) == Below(p, needs) \cap Tasks(p)

\* What a child takes over from the parallel nodes around it.
InheritedNeeds(p, n) ==
    LET above[c \in NodesOf(p)] ==
            UNION {above[q] \cup p.needs[q] : q \in {r \in NodesOf(p) : c \in p.kids[r]}}
    IN  above[n]

Dependencies(p, n) == ResolveExecutable(p, InheritedNeeds(p, n) \cup p.needs[n])
TerminalNodes(p) == Tasks(p) \ UNION {Dependencies(p, n) : n \in Tasks(p)}

\* Argo takes no DAG with a cycle: some task of a set is one that no task of
\* the set waits for.
IsAcyclic(p) ==
    \A S \in SUBSET Tasks(p) :
        S # {} => \E m \in S : \A n \in S : m \notin Dependencies(p, n)
=============================================================================
