-------------------------- MODULE WorkflowScheduler --------------------------
(***************************************************************************)
(* One workflow run on the local scheduler: the tick loop of              *)
(* src/runtime/scheduler.ts inside the workflow lifecycle of               *)
(* workflow-lifecycle.ts, journaling through the Postgres durable store    *)
(* (mirror, serialized write queue, table), with user cancellation,        *)
(* process crashes and `moka resume`.                                      *)
(*                                                                         *)
(* A node is handed to an executor whose promise settles at some later     *)
(* moment; NodeExecution.tla models what happens inside it.  Here it only   *)
(* matters how it settles:                                                 *)
(*   "passed"    status passed, every gate evaluated and passed;           *)
(*   "ungated"   status passed because the runner exited 0 while the run   *)
(*               was being cancelled, whatever the gates say               *)
(*               (cancelledNodeResult);                                    *)
(*   "failed"    status failed;                                            *)
(*   "partial"   a parallel node that failed but whose output names        *)
(*               children, so drain-merge dependents may still run;        *)
(*   "error"     the promise rejected.                                     *)
(***************************************************************************)
EXTENDS Naturals, FiniteSets, Sequences

CONSTANTS
    Nodes,            \* planned node ids
    Needs,            \* [Nodes -> SUBSET Nodes]
    Index,            \* [Nodes -> Nat], the topological index
    Category,         \* [Nodes -> category or NoCategory]
    Categories,       \* fan-out categories
    CategoryCap,      \* [Categories -> Nat \ {0}], fan_out_width
    ParallelNodes,    \* nodes of kind "parallel" with children
    DrainMergeNodes,  \* builtin drain-merge nodes
    FailFastModes,    \* the values of execution.failFast a run may have
    MaxParallel,      \* maxParallelNodes (Cardinality(Nodes) when unset)
    MaxRestarts       \* bound: how often the run may be resumed

NoCategory == "none"
NoFailure == "none"

\* Result kinds a settled node can have; "none" means no result yet.
Passing == {"passed", "ungated"}
Results == Passing \cup {"failed", "partial"}
Entries == Results \cup {"none"}

\* What a node fiber offers to the completion queue, and a journal write.
NodeOutcome == [node : Nodes, kind : Results \cup {"error"}]
JournalWrite == [node : Nodes, kind : Results]

ASSUME NodesFinite == IsFiniteSet(Nodes) /\ NoFailure \notin Nodes
ASSUME NeedsAreNodes == Needs \in [Nodes -> SUBSET Nodes]
ASSUME IndexIsTopological ==
    /\ Index \in [Nodes -> Nat]
    /\ \A n \in Nodes : \A m \in Needs[n] : Index[m] < Index[n]
    /\ \A n, m \in Nodes : Index[n] = Index[m] => n = m
ASSUME CategoriesTyped ==
    /\ NoCategory \notin Categories
    /\ Category \in [Nodes -> Categories \cup {NoCategory}]
    /\ CategoryCap \in [Categories -> Nat \ {0}]
ASSUME KindsTyped == ParallelNodes \subseteq Nodes /\ DrainMergeNodes \subseteq Nodes
ASSUME FailFastTyped == FailFastModes \subseteq BOOLEAN
ASSUME MaxParallelTyped == MaxParallel \in Nat \ {0}
ASSUME MaxRestartsTyped == MaxRestarts \in Nat

VARIABLES
    failFast,    \* plan.execution.failFast, fixed for the run
    phase,       \* where the run is in the lifecycle
    cancelled,   \* context.signal.aborted
    running,     \* nodes with a live scheduler fiber
    executing,   \* nodes whose executor promise has not settled
    queue,       \* the completion queue
    completed,   \* state.completed, by node
    blocked,     \* state.blocked
    failure,     \* ctx.failure: the node of the first blocking failure
    hookFailed,  \* the workflow.success hook failed
    outcome,     \* outcome computed by the lifecycle, not yet returned
    reported,    \* what the caller got: an outcome, "REJECTED" or "none"
    status,      \* node state tracker status, running and gating as "ready"
    outputs,     \* nodes with an entry in lastOutputByNode
    writeQ,      \* serialized write-through queue of the durable store
    writeErr,    \* writeErrors is not empty
    db,          \* durable_node_record rows of this run
    restarts

schedVars == <<running, executing, queue, completed, blocked, failure>>
nodeVars == <<status, outputs>>
storeVars == <<writeQ, writeErr, db>>
vars == <<failFast, phase, cancelled, schedVars, hookFailed, outcome,
          reported, nodeVars, storeVars, restarts>>

Phases == {"start", "tick", "await", "successHook", "passCompleteHook",
           "failureHook", "failCompleteHook", "close", "done", "crashed"}
Live == Phases \ {"done", "crashed"}
Outcomes == {"PASS", "FAIL", "CANCELLED"}
Statuses == {"pending", "ready", "passed", "failed", "cancelled", "skipped"}

TypeOK ==
    /\ failFast \in FailFastModes
    /\ phase \in Phases
    /\ cancelled \in BOOLEAN
    /\ running \in SUBSET Nodes
    /\ executing \in SUBSET Nodes
    /\ queue \in Seq(NodeOutcome)
    /\ completed \in [Nodes -> Entries]
    /\ blocked \in SUBSET Nodes
    /\ failure \in Nodes \cup {NoFailure}
    /\ hookFailed \in BOOLEAN
    /\ outcome \in Outcomes \cup {"none", "REJECTED"}
    /\ reported \in Outcomes \cup {"none", "REJECTED"}
    /\ status \in [Nodes -> Statuses]
    /\ outputs \in SUBSET Nodes
    /\ writeQ \in Seq(JournalWrite)
    /\ writeErr \in BOOLEAN
    /\ db \in [Nodes -> Entries]
    /\ restarts \in 0..MaxRestarts

----------------------------------------------------------------------------
(* The plan's graph. *)

Dependents(n) == {m \in Nodes : n \in Needs[m]}

\* The least set that holds n's dependents and is closed under dependents.
Descendants(n) ==
    {d \in Nodes :
        \A S \in SUBSET Nodes :
            (Dependents(n) \subseteq S /\ \A m \in S : Dependents(m) \subseteq S)
            => d \in S}

\* A failed parallel node whose every dependent is a drain-merge is recoverable.
IsRecoverable(n, k) ==
    /\ k = "partial"
    /\ Dependents(n) # {}
    /\ Dependents(n) \subseteq DrainMergeNodes

ShouldContinue(n, k) == k \in Passing \/ IsRecoverable(n, k)

\* Mutant: a failure nothing depends on is not counted.
LeafFailureIgnored(n, k) == ~ShouldContinue(n, k) /\ Dependents(n) # {}

IsBlockingFailure(n, k) == ~ShouldContinue(n, k)

----------------------------------------------------------------------------
(* Readiness and selection. *)

Unstarted == {n \in Nodes : completed[n] = "none" /\ n \notin running}

NeedMet(m) == completed[m] # "none" /\ ShouldContinue(m, completed[m])

\* Mutant: a needed node counts as soon as it was started.
ReadyOnceStarted ==
    {n \in Unstarted \ blocked : \A m \in Needs[n] : m \notin Unstarted}

ComputeReady == {n \in Unstarted \ blocked : \A m \in Needs[n] : NeedMet(m)}

Limit == IF failFast THEN 1 ELSE MaxParallel

Capacity == IF Cardinality(running) < Limit
            THEN Limit - Cardinality(running) ELSE 0

Earlier(S, n) == {m \in S : Index[m] < Index[n]}
InCategory(S, c) == {m \in S : Category[m] = c}

\* Mutant: a settled node keeps its category slot.
SlotsNeverReleased(S, n) ==
    /\ Cardinality(Earlier(S, n)) < Capacity
    /\ Category[n] # NoCategory =>
         Cardinality(InCategory((Nodes \ Unstarted) \cup Earlier(S, n), Category[n]))
             < CategoryCap[Category[n]]

\* cappedSelection walks the ready nodes in index order and takes one unless
\* the capacity is used up or its category is at its cap.
MayTake(S, n) ==
    /\ Cardinality(Earlier(S, n)) < Capacity
    /\ Category[n] # NoCategory =>
         Cardinality(InCategory(running \cup Earlier(S, n), Category[n]))
             < CategoryCap[Category[n]]

IsSelection(S) ==
    /\ S \subseteq ComputeReady
    /\ \A n \in ComputeReady : n \in S <=> MayTake(S, n)

----------------------------------------------------------------------------
(* The state a fresh process starts a run in. *)

FreshProcess ==
    /\ cancelled' = FALSE
    /\ running' = {} /\ executing' = {} /\ queue' = << >>
    /\ completed' = [n \in Nodes |-> "none"]
    /\ blocked' = {} /\ failure' = NoFailure
    /\ hookFailed' = FALSE
    /\ outcome' = "none"
    /\ status' = [n \in Nodes |-> "pending"]
    /\ outputs' = {}
    /\ writeQ' = << >> /\ writeErr' = FALSE

Init ==
    /\ failFast \in FailFastModes
    /\ phase = "start"
    /\ cancelled = FALSE
    /\ running = {} /\ executing = {} /\ queue = << >>
    /\ completed = [n \in Nodes |-> "none"]
    /\ blocked = {} /\ failure = NoFailure
    /\ hookFailed = FALSE
    /\ outcome = "none" /\ reported = "none"
    /\ status = [n \in Nodes |-> "pending"]
    /\ outputs = {}
    /\ writeQ = << >> /\ writeErr = FALSE
    /\ db = [n \in Nodes |-> "none"]
    /\ restarts = 0

\* The lifecycle has its result; the scope closes the journal next.
Finish(o) == phase' = "close" /\ outcome' = o

----------------------------------------------------------------------------
(* The scheduler. *)

\* Mutant: the journal is not consulted.
NoRowsHydrated == [n \in Nodes |-> "none"]

\* resumeCompleted: the mirror is hydrated from the table when the store is
\* opened and nothing is written before this point, so it equals the table.
PassedRows == [n \in Nodes |-> IF db[n] \in Passing THEN db[n] ELSE "none"]

StartHookPasses ==
    /\ phase = "start"
    /\ IF cancelled
       THEN Finish("CANCELLED") /\ UNCHANGED completed
       ELSE phase' = "tick" /\ completed' = PassedRows /\ UNCHANGED outcome
    /\ UNCHANGED <<failFast, cancelled, running, executing, queue, blocked,
                   failure, hookFailed, reported, nodeVars, storeVars,
                   restarts>>

StartHookFails ==
    /\ phase = "start"
    /\ Finish("FAIL")
    /\ UNCHANGED <<failFast, cancelled, schedVars, hookFailed, reported,
                   nodeVars, storeVars, restarts>>

\* Tick on an aborted run: the fibers are interrupted and their results lost;
\* the promises behind them are not stopped.
TickCancelled ==
    /\ phase = "tick" /\ cancelled
    /\ running' = {} /\ queue' = << >>
    /\ Finish("CANCELLED")
    /\ UNCHANGED <<failFast, cancelled, executing, completed, blocked,
                   failure, hookFailed, reported, nodeVars, storeVars,
                   restarts>>

\* Events are recorded in index order; the first illegal one throws.
LegalPrefix(S, from) ==
    {n \in S : \A m \in S : Index[m] <= Index[n] => status[m] \in from}

\* markNodeReady throws from any status but pending and kills the scheduler.
TickLaunch ==
    /\ phase = "tick" /\ ~cancelled
    /\ \E S \in SUBSET ComputeReady :
        LET launched == LegalPrefix(S, {"pending"})
        IN  /\ IsSelection(S)
            /\ running \cup S # {}
            /\ executing' = executing \cup launched
            /\ status' = [n \in Nodes |->
                             IF n \in launched THEN "ready" ELSE status[n]]
            /\ IF launched = S
               THEN /\ running' = running \cup S
                    /\ phase' = "await"
                    /\ UNCHANGED outcome
               ELSE running' = {} /\ Finish("REJECTED")
    /\ UNCHANGED <<failFast, cancelled, queue, completed, blocked, failure,
                   hookFailed, reported, outputs, storeVars, restarts>>

\* Nothing running and nothing launchable: the scheduler's terminal result.
TickTerminal ==
    /\ phase = "tick" /\ ~cancelled
    /\ running = {} /\ IsSelection({})
    /\ phase' = IF failure = NoFailure THEN "successHook" ELSE "failureHook"
    /\ UNCHANGED <<failFast, cancelled, schedVars, hookFailed, outcome,
                   reported, nodeVars, storeVars, restarts>>

\* Mutant: under fail-fast only descendants are blocked.
BlocksDescendantsOnly(n) == (Unstarted \ {n}) \cap Descendants(n)

\* A blocking failure stops the rest of the run (fail-fast) or its descendants.
BlockedBy(n) ==
    (Unstarted \ {n}) \cap (IF failFast THEN Nodes ELSE Descendants(n))

\* applyFailFastSkip records SKIPPED for every node it blocks; a throw kills
\* the scheduler.
ApplyFailure(n) ==
    LET asked == IF failFast THEN BlockedBy(n) ELSE {}
        skipped == LegalPrefix(asked, {"pending", "ready"})
    IN  /\ failure' = IF failure = NoFailure THEN n ELSE failure
        /\ blocked' = blocked \cup BlockedBy(n)
        /\ status' = [m \in Nodes |-> IF m \in skipped THEN "skipped" ELSE status[m]]
        /\ IF skipped = asked
           THEN running' = running \ {n} /\ phase' = "tick" /\ UNCHANGED outcome
           ELSE running' = {} /\ Finish("REJECTED")

\* Queue.take and applyCompletion of a settled node.
TakeResult ==
    /\ phase = "await" /\ queue # << >> /\ Head(queue).kind # "error"
    /\ LET n == Head(queue).node
           k == Head(queue).kind
       IN  /\ completed' = [completed EXCEPT ![n] = k]
           /\ writeQ' = Append(writeQ, [node |-> n, kind |-> k])
           /\ IF IsBlockingFailure(n, k)
              THEN ApplyFailure(n)
              ELSE /\ running' = running \ {n} /\ phase' = "tick"
                   /\ UNCHANGED <<failure, blocked, status, outcome>>
    /\ queue' = Tail(queue)
    /\ UNCHANGED <<failFast, cancelled, executing, hookFailed, reported,
                   outputs, writeErr, db, restarts>>

\* Queue.take of a rejected promise: interrupt every fiber and fail the run.
TakeError ==
    /\ phase = "await" /\ queue # << >> /\ Head(queue).kind = "error"
    /\ running' = {} /\ queue' = << >>
    /\ phase' = "failureHook"
    /\ UNCHANGED <<failFast, cancelled, executing, completed, blocked,
                   failure, hookFailed, outcome, reported, nodeVars,
                   storeVars, restarts>>

----------------------------------------------------------------------------
(* Node executors, as NodePromise.tla has them.  A promise settling after   *)
(* its fiber was interrupted is observed by nobody.                        *)

Settle(n, k, s, hasOutput) ==
    /\ n \in executing
    /\ executing' = executing \ {n}
    /\ queue' = IF n \in running THEN Append(queue, [node |-> n, kind |-> k])
                ELSE queue
    /\ status' = [status EXCEPT ![n] = s]
    /\ outputs' = IF hasOutput THEN outputs \cup {n} ELSE outputs
    /\ UNCHANGED <<failFast, phase, cancelled, running, completed, blocked,
                   failure, hookFailed, outcome, reported, storeVars,
                   restarts>>

\* A failed parallel node that kept its output counts as partial.
FailedOrPartial(n, hasOutput) ==
    IF n \in ParallelNodes /\ hasOutput THEN {"failed", "partial"} ELSE {"failed"}

NodePasses(n) == Settle(n, "passed", "passed", TRUE)

\* failedHookCycle and a rejected first attempt fail without an output.
NodeFails(n) ==
    \E o \in BOOLEAN : \E k \in FailedOrPartial(n, o) : Settle(n, k, "failed", o)

\* cancelledNodeResult: exit code 0 is reported as passed; so is a remediation
\* cancelled that way, and then the node it remediates.
NodeCancelled(n) ==
    /\ cancelled
    /\ \/ \E s \in {"cancelled", "passed"} : Settle(n, "ungated", s, TRUE)
       \/ \E k \in FailedOrPartial(n, TRUE) : Settle(n, k, "cancelled", TRUE)

\* cancelledCycle: no event is recorded.
NodeAborted(n) ==
    /\ cancelled
    /\ \E o \in BOOLEAN : \E k \in FailedOrPartial(n, o) : Settle(n, k, status[n], o)

\* A rejected hook dispatch or remediation, whatever was recorded before.
NodeRejects(n) ==
    \E o \in BOOLEAN, s \in {status[n], "passed", "failed", "cancelled"} :
        Settle(n, "error", s, o)

NodeSettles(n) ==
    /\ n \in executing
    /\ \/ NodePasses(n) \/ NodeFails(n) \/ NodeCancelled(n) \/ NodeAborted(n)
       \/ NodeRejects(n)

----------------------------------------------------------------------------
(* The durable store: writes run one at a time in order. *)

PersistWrite ==
    /\ phase \in Live /\ writeQ # << >>
    /\ db' = [db EXCEPT ![Head(writeQ).node] = Head(writeQ).kind]
    /\ writeQ' = Tail(writeQ)
    /\ UNCHANGED <<failFast, phase, cancelled, schedVars, hookFailed, outcome,
                   reported, nodeVars, writeErr, restarts>>

\* Mutant: a failed write goes to the back of the queue.
FailedWriteRequeued ==
    /\ phase \in Live /\ writeQ # << >>
    /\ writeErr' = TRUE
    /\ writeQ' = Append(Tail(writeQ), Head(writeQ))
    /\ UNCHANGED <<failFast, phase, cancelled, schedVars, hookFailed, outcome,
                   reported, nodeVars, db, restarts>>

WriteFails ==
    /\ phase \in Live /\ writeQ # << >>
    /\ writeErr' = TRUE
    /\ writeQ' = Tail(writeQ)
    /\ UNCHANGED <<failFast, phase, cancelled, schedVars, hookFailed, outcome,
                   reported, nodeVars, db, restarts>>

\* Mutant: close() swallows the write errors.
CloseSwallowsErrors ==
    /\ phase = "close" /\ writeQ = << >>
    /\ phase' = "done" /\ reported' = outcome
    /\ UNCHANGED <<failFast, cancelled, schedVars, hookFailed, outcome,
                   nodeVars, storeVars, restarts>>

\* close() waits for the queue and rethrows the first write error.
CloseJournal ==
    /\ phase = "close" /\ writeQ = << >>
    /\ phase' = "done"
    /\ reported' = IF writeErr THEN "REJECTED" ELSE outcome
    /\ UNCHANGED <<failFast, cancelled, schedVars, hookFailed, outcome,
                   nodeVars, storeVars, restarts>>

----------------------------------------------------------------------------
(* Workflow finalisation hooks. *)

SuccessHook ==
    /\ phase = "successHook"
    /\ hookFailed' \in BOOLEAN
    /\ phase' = "passCompleteHook"
    /\ UNCHANGED <<failFast, cancelled, schedVars, outcome, reported,
                   nodeVars, storeVars, restarts>>

PassCompleteHook ==
    /\ phase = "passCompleteHook"
    /\ \E fails \in BOOLEAN :
        Finish(IF hookFailed \/ fails THEN "FAIL"
               ELSE IF cancelled THEN "CANCELLED" ELSE "PASS")
    /\ UNCHANGED <<failFast, cancelled, schedVars, hookFailed, reported,
                   nodeVars, storeVars, restarts>>

\* A failure hook that throws skips the complete hook.
FailureHook ==
    /\ phase = "failureHook"
    /\ \/ phase' = "failCompleteHook" /\ UNCHANGED outcome
       \/ Finish("FAIL")
    /\ UNCHANGED <<failFast, cancelled, schedVars, hookFailed, reported,
                   nodeVars, storeVars, restarts>>

FailCompleteHook ==
    /\ phase = "failCompleteHook"
    /\ Finish("FAIL")
    /\ UNCHANGED <<failFast, cancelled, schedVars, hookFailed, reported,
                   nodeVars, storeVars, restarts>>

----------------------------------------------------------------------------
(* The environment: the user aborts, the process dies, the user resumes. *)

Cancel ==
    /\ phase \in Live /\ ~cancelled
    /\ cancelled' = TRUE
    /\ UNCHANGED <<failFast, phase, schedVars, hookFailed, outcome, reported,
                   nodeVars, storeVars, restarts>>

Crash ==
    /\ phase \in Live /\ restarts < MaxRestarts
    /\ phase' = "crashed"
    /\ FreshProcess
    /\ UNCHANGED <<failFast, reported, db, restarts>>

\* resumeRunWithContext in a new process: refused without a passed row.
Resume ==
    /\ phase \in {"crashed", "done"} /\ restarts < MaxRestarts
    /\ restarts' = restarts + 1
    /\ FreshProcess
    /\ IF \E n \in Nodes : db[n] \in Passing
       THEN phase' = "start" /\ reported' = "none"
       ELSE phase' = "done" /\ reported' = "REJECTED"
    /\ UNCHANGED <<failFast, db>>

Tick == TickCancelled \/ TickLaunch \/ TickTerminal
Scheduler == StartHookPasses \/ StartHookFails \/ Tick \/ TakeResult \/ TakeError
Store == PersistWrite \/ WriteFails \/ CloseJournal
Finalise == SuccessHook \/ PassCompleteHook \/ FailureHook \/ FailCompleteHook

\* The run is over for good once it may not be resumed again.
Terminated ==
    /\ phase \in {"done", "crashed"} /\ restarts = MaxRestarts /\ executing = {}
    /\ UNCHANGED vars

Next ==
    \/ Scheduler \/ Store \/ Finalise
    \/ \E n \in Nodes : NodeSettles(n)
    \/ Cancel \/ Crash \/ Resume
    \/ Terminated

Spec == Init /\ [][Next]_vars

\* The event loop keeps running the scheduler, the hooks and the write queue,
\* and every executor promise settles in the end (runners have timeouts and
\* hooks are bounded by policy).  Nothing obliges the user or the crash.
Fairness ==
    /\ WF_vars(Scheduler) /\ WF_vars(Store) /\ WF_vars(Finalise)
    /\ \A n \in Nodes : WF_vars(NodeSettles(n))

FairSpec == Spec /\ Fairness

----------------------------------------------------------------------------
(* Properties. *)

\* computeReadyNodeIds: a node is in flight only when every node it needs has a
\* result that lets the workflow continue, in this run or from the journal.
NeedsSatisfied == \A n \in running : \A m \in Needs[n] : NeedMet(m)

\* A node whose passed result is durable is never launched again, by this run or
\* by a resume of it ("they are not re-run", scheduler.ts).
DurablyPassedNeverReRuns ==
    [][\A n \in running' \ running : db[n] \notin Passing]_vars

\* A blocking failure keeps n from running.
HeldBack(n) ==
    \E m \in Nodes :
        /\ completed[m] # "none" /\ IsBlockingFailure(m, completed[m])
        /\ failFast \/ n \in Descendants(m)

\* When the loop drains by itself, every node without a result is downstream of
\* a blocking failure (or, under fail-fast, there was one): the caps defer nodes,
\* they never drop them.
DrainsBeforeStopping ==
    [][TickTerminal =>
         \A n \in Nodes : completed[n] = "none" => HeldBack(n)]_vars

\* A run reported PASS has a result for every node and no blocking failure.
PassIsComplete ==
    reported = "PASS" => \A n \in Nodes : NeedMet(n)

\* Once the caller has an outcome, every result of the run is in the table: the
\* journal was flushed and no write error was swallowed.
OutcomeIsDurable ==
    phase = "done" /\ reported \in Outcomes =>
        \A n \in Nodes : completed[n] # "none" => db[n] = completed[n]

\* After a blocking failure a fail-fast run launches nothing more.
FailFastStops ==
    [][failFast /\ failure # NoFailure => running' \subseteq running]_vars

\* Every run that starts comes to an end: no completion is lost, no node waits
\* for a slot for ever and the journal always closes.
RunEnds == phase = "start" ~> phase \in {"done", "crashed"}

----------------------------------------------------------------------------
(* The inductive invariant behind the proofs (WorkflowSchedulerProofs).     *)

Scheduling == phase \in {"tick", "await"}
NodesIn(q) == {q[i].node : i \in 1..Len(q)}
OncePerNode(q) == \A i, j \in 1..Len(q) : q[i].node = q[j].node => i = j

\* Fibers live only inside the loop and only for nodes without a result; what
\* the completion queue holds are results of such nodes, one each, whose
\* promises have settled.
FibersInv ==
    /\ ~Scheduling => running = {}
    /\ phase = "start" => queue = << >>
    /\ \A n \in running : completed[n] = "none"
    /\ Scheduling => NodesIn(queue) \subseteq running \ executing
    /\ OncePerNode(queue)

\* Every queued write is the result of a completed node; inside the loop every
\* passed row belongs to a completed node, and without a write error every
\* completed node is in the table or about to be.
JournalInv ==
    /\ phase = "start" => writeQ = << >> /\ \A n \in Nodes : completed[n] = "none"
    /\ \A i \in 1..Len(writeQ) : completed[writeQ[i].node] = writeQ[i].kind
    /\ Scheduling => \A n \in Nodes : db[n] \in Passing => completed[n] # "none"
    /\ ~writeErr => \A n \in Nodes :
          completed[n] # "none" => db[n] = completed[n] \/ n \in NodesIn(writeQ)

\* No failure on record means that nothing is blocked and every result lets
\* the workflow continue; a PASS in the making has a result for every node.
VerdictInv ==
    /\ phase \notin {"close", "done"} => outcome = "none"
    /\ phase # "done" => reported = "none"
    /\ reported = "PASS" => outcome = "PASS"
    /\ phase = "done" /\ reported \in Outcomes => writeQ = << >> /\ ~writeErr
    /\ phase = "start" => failure = NoFailure /\ blocked = {}
    /\ Scheduling /\ failure = NoFailure =>
          /\ blocked = {}
          /\ \A n \in Nodes : completed[n] # "none" => ShouldContinue(n, completed[n])
    /\ phase \in {"successHook", "passCompleteHook"} \/ outcome = "PASS" =>
          \A n \in Nodes : NeedMet(n)

\* While the loop runs, what is blocked is held back by a failure, and after a
\* failure a fail-fast run has every node it did not start blocked.
BlockedInv ==
    Scheduling =>
        /\ \A n \in blocked : HeldBack(n)
        /\ failFast /\ failure # NoFailure => Unstarted \subseteq blocked

----------------------------------------------------------------------------
(* What the repository's documents say and the code does not keep.          *)

\* README.md: "Agent self-reporting is not enough to pass deterministic gates."
\* A result that counts as passed in the table went through its gates.
DurablePassWasGated == \A n \in Nodes : db[n] # "ungated"
=============================================================================
