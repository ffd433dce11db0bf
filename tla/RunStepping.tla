---------------------------- MODULE RunStepping ----------------------------
(***************************************************************************)
(* Stepping a recorded run from outside (src/run-control/next-node.ts,        *)
(* submit-result.ts, src/runtime/step, the Postgres durable store).  A worker  *)
(* asks `moka next node` for a node, executes it, and hands the result to      *)
(* `moka submit-result`.  Every command reads the table of node records into   *)
(* a copy of its own; nothing marks a node as taken, so two workers may      *)
(* hold the same one, and the later record replaces the earlier.              *)
(*                                                                         *)
(* A plan is [ids, needs]: the nodes in the order they were declared, and what *)
(* each waits for.                                                            *)
(***************************************************************************)
EXTENDS Integers, FiniteSets, Sequences, TLC

CONSTANTS
    Workers,
    MaxFailures,    \* bound: results that are failures
    MaxFaults       \* bound: workers that die, writes the database refuses

VARIABLES
    plan,           \* the plan of the schedule in the run record, NoPlan before
    table,          \* the durable records: node -> status
    at,             \* what each worker is doing
    task,           \* the node it holds
    verdict,        \* the result it has for that node
    failures, faults

stepVars == <<plan, table, at, task, verdict, failures, faults>>

NoPlan == [ids |-> << >>, needs |-> << >>]
NoNode == << >>
NodeIds(p) == DOMAIN p.needs

SteppingInit ==
    /\ plan = NoPlan /\ table = << >>
    /\ at = [w \in Workers |-> "idle"]
    /\ task = [w \in Workers |-> NoNode]
    /\ verdict = [w \in Workers |-> "none"]
    /\ failures = 0 /\ faults = 0

(* Results of any status are settled: a failed node is not handed out again.  *)
CollectStoredResults(records) == [id \in DOMAIN records \cap NodeIds(plan) |-> records[id]]

ReadyNodes(results) ==
    SelectSeq(plan.ids, LAMBDA id :
        /\ id \notin DOMAIN results
        /\ \A d \in plan.needs[id] : d \in DOMAIN results /\ results[d] # "failed")

\* moka next node: the first ready node, or word that there is none.
NextNode(w) ==
    /\ plan # NoPlan /\ at[w] = "idle"
    /\ LET ready == ReadyNodes(CollectStoredResults(table))
       IN  \/ /\ ready # << >>
              /\ at' = [at EXCEPT ![w] = "executing"]
              /\ task' = [task EXCEPT ![w] = Head(ready)]
           \/ /\ ready = << >>
              /\ at' = [at EXCEPT ![w] = "told"]
              /\ UNCHANGED task
    /\ UNCHANGED <<plan, table, verdict, failures, faults>>

ExecuteNode(w) ==
    /\ at[w] = "executing"
    /\ \/ verdict' = [verdict EXCEPT ![w] = "passed"] /\ UNCHANGED failures
       \/ /\ failures < MaxFailures
          /\ verdict' = [verdict EXCEPT ![w] = "failed"] /\ failures' = failures + 1
    /\ at' = [at EXCEPT ![w] = "submitting"]
    /\ UNCHANGED <<plan, table, task, faults>>

\* moka submit-result: the record goes to the copy and to the queue of
\* writes, and the command says so.
SubmitResult(w) ==
    /\ at[w] = "submitting"
    /\ at' = [at EXCEPT ![w] = "recorded"]
    /\ UNCHANGED <<plan, table, task, verdict, failures, faults>>

Release(w) ==
    /\ task' = [task EXCEPT ![w] = NoNode]
    /\ verdict' = [verdict EXCEPT ![w] = "none"]

\* Variant: the command ends with its queue of writes.
ExitWithoutFlush(w) ==
    /\ at[w] = "recorded"
    /\ at' = [at EXCEPT ![w] = "idle"] /\ Release(w)
    /\ UNCHANGED <<plan, table, failures, faults>>

\* The scope of the command closes the store: the write is awaited, and its
\* failure is the command's, so that the worker submits again.
CloseStore(w) ==
    /\ at[w] = "recorded"
    /\ \/ /\ table' = (task[w] :> verdict[w]) @@ table
          /\ at' = [at EXCEPT ![w] = "idle"] /\ Release(w)
          /\ UNCHANGED faults
       \/ /\ faults < MaxFaults /\ faults' = faults + 1
          /\ at' = [at EXCEPT ![w] = "submitting"]
          /\ UNCHANGED <<table, task, verdict>>
    /\ UNCHANGED <<plan, failures>>

\* A worker that dies starts over with `next node`.
WorkerDies(w) ==
    /\ at[w] \in {"executing", "submitting", "recorded"}
    /\ faults < MaxFaults /\ faults' = faults + 1
    /\ at' = [at EXCEPT ![w] = "idle"] /\ Release(w)
    /\ UNCHANGED <<plan, table, failures>>

SteppingNext ==
    \E w \in Workers : \/ NextNode(w) \/ ExecuteNode(w) \/ SubmitResult(w)
                       \/ CloseStore(w) \/ WorkerDies(w)

SteppingFairness ==
    \A w \in Workers : WF_stepVars(NextNode(w) \/ ExecuteNode(w) \/ SubmitResult(w) \/ CloseStore(w))

----------------------------------------------------------------------------
\* What a node waits for, directly or not.
Upstream(p, id) ==
    LET reach[k \in 0 .. Cardinality(NodeIds(p))] ==
            IF k = 0 THEN p.needs[id]
            ELSE LET S == reach[k - 1] IN S \cup UNION {p.needs[d] : d \in S}
    IN  reach[Cardinality(NodeIds(p))]

\* What waits, directly or not, for a node that failed by these records.
Blocked(records) ==
    LET failed == {id \in DOMAIN records : records[id] = "failed"}
        blocked[k \in 0 .. Cardinality(NodeIds(plan))] ==
            IF k = 0 THEN failed
            ELSE LET S == blocked[k - 1] IN S \cup {id \in NodeIds(plan) : plan.needs[id] \cap S # {}}
    IN  blocked[Cardinality(NodeIds(plan))] \ failed

NothingLeft(records) == NodeIds(plan) \subseteq DOMAIN records \cup Blocked(records)
=============================================================================
