------------------------- MODULE MCWorkflowScheduler -------------------------
(* A small plan for TLC. *)
EXTENDS WorkflowScheduler

\* build (parallel) -> merge (drain-merge) -> ship, beside test; build and test
\* share a category with one slot
DagNodes == {"build", "merge", "ship", "test"}
DagNeeds == [build |-> {}, merge |-> {"build"}, ship |-> {"merge"}, test |-> {}]
DagIndex == [build |-> 0, test |-> 1, merge |-> 2, ship |-> 3]
DagCategory == [build |-> "green", merge |-> "none", ship |-> "none", test |-> "green"]
DagCaps == [green |-> 1]
====
