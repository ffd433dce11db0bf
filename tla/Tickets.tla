------------------------------ MODULE Tickets ------------------------------
(***************************************************************************)
(* Ticket selection (src/tickets): which backlog ticket is worked on next.   *)
(* A backlog is [ids, deps, parent, prio]: ids are numbers, compared as       *)
(* numbers; parent is NoTicket for a top-level ticket; deps and parent may    *)
(* name tickets the backlog no longer holds.  Statuses are kept apart, since  *)
(* the same graph is read under several of them.  `view` is the set of        *)
(* tickets the tasksById index of a graph view still holds.                   *)
(***************************************************************************)
EXTENDS DependencyGraph

NoTicket == 0
Statuses == {"To Do", "In Progress", "Done"}
Strategies == {"priority", "bfs", "dfs"}

TicketGraph(b) == [nodes |-> b.ids, needs |-> b.deps]

\* The graph is refused when its dependencies are cyclic; dangling ones are not edges.
BuildTicketGraphOk(b) == DependencyCycleIds(TicketGraph(b)) = {}
DanglingDependencies(b) == {d \in UNION {b.deps[t] : t \in b.ids} : d \notin b.ids}

ChildrenByParentId(b, view, t) == {c \in view : b.parent[c] = t}

\* The whole graph, or the tickets below a root that are reached through the view.
ScopedTicketIds(b, view, root) ==
    LET below[k \in 0 .. Cardinality(b.ids)] ==
            IF k = 0 THEN {root}
            ELSE below[k - 1] \cup UNION {ChildrenByParentId(b, view, t) : t \in below[k - 1]}
    IN  IF root = NoTicket THEN b.ids
        ELSE IF root \notin b.ids THEN {}
        ELSE below[Cardinality(b.ids)]

HasIncompleteChildren(b, st, view, t) ==
    \E c \in ChildrenByParentId(b, view, t) : st[c] # "Done"

\* A predecessor that is missing from the view is not Done.
IsReadyTicket(b, st, view, includeParents, t) ==
    /\ st[t] = "To Do"
    /\ includeParents \/ ~HasIncompleteChildren(b, st, view, t)
    /\ \A d \in DependencyPredecessorIds(TicketGraph(b), t) : d \in view /\ st[d] = "Done"

CompareReadyTickets(b, t, u) ==
    b.prio[t] < b.prio[u] \/ (b.prio[t] = b.prio[u] /\ t < u)

\* The ids from a traversal root down to t, empty when no root reaches it.  The roots
\* are the given one, or every id whose parent is not found in the view: a ticket
\* dropped from the view counts, one whose parent is not in the backlog does not.
PathTo(b, view, root) ==
    LET isRoot(t) == IF root = NoTicket THEN t \notin view \/ b.parent[t] = NoTicket
                     ELSE t = root
        path[k \in 0 .. Cardinality(b.ids), t \in b.ids] ==
            IF isRoot(t) THEN <<t>>
            ELSE IF k = 0 \/ t \notin view \/ b.parent[t] \notin b.ids THEN <<>>
            ELSE LET up == path[k - 1, b.parent[t]]
                 IN  IF up = <<>> THEN <<>> ELSE Append(up, t)
    IN  [t \in b.ids |-> path[Cardinality(b.ids), t]]

LexicallyBefore(p, q) ==
    \E i \in 1 .. Len(q) :
        /\ \A j \in 1 .. (i - 1) : j <= Len(p) /\ p[j] = q[j]
        /\ i > Len(p) \/ p[i] < q[i]

\* Breadth first by level, depth first in preorder, and what no traversal reaches last.
OrderByTraversal(b, view, o, t, u) ==
    LET p == PathTo(b, view, o.root)[t]
        q == PathTo(b, view, o.root)[u]
    IN  \/ p # <<>> /\ q = <<>>
        \/ p = <<>> /\ q = <<>> /\ CompareReadyTickets(b, t, u)
        \/ /\ p # <<>> /\ q # <<>>
           /\ IF o.strategy = "bfs"
              THEN Len(p) < Len(q) \/ (Len(p) = Len(q) /\ LexicallyBefore(p, q))
              ELSE LexicallyBefore(p, q)

SelectReadyTickets(b, st, view, o) ==
    {t \in ScopedTicketIds(b, view, o.root) \cap view :
        IsReadyTicket(b, st, view, o.includeParents, t)}

\* The ready tickets the sort may put first: one, its orders being total.
SelectNextTicket(b, st, view, o) ==
    LET ready == SelectReadyTickets(b, st, view, o)
        before(t, u) == IF o.strategy = "priority" THEN CompareReadyTickets(b, t, u)
                        ELSE OrderByTraversal(b, view, o, t, u)
    IN  IF ready = {} THEN {NoTicket}
        ELSE {t \in ready : \A u \in ready \ {t} : before(t, u)}
=============================================================================
