----------------------------- MODULE NodePromise -----------------------------
(***************************************************************************)
(* What the scheduler relies on about executePlannedNode: a launched node   *)
(* settles at most once, in one of these ways and no other.  The executor   *)
(* alternatives of WorkflowScheduler.tla (NodePasses .. NodeRejects) are    *)
(* these, and NodeExecution.tla implements this specification.             *)
(***************************************************************************)
EXTENDS Naturals

CONSTANTS Nodes, ParallelNodes

VARIABLES
    cancelled,  \* context.signal.aborted
    settled,    \* "idle", "pending" or how the promise settled
    status,     \* tracker status; "ready" stands for every live status
    outputs     \* settled nodes with an entry in lastOutputByNode

vars == <<cancelled, settled, status, outputs>>

\* A failed parallel node that kept its output counts as partial.
FailedOrPartial(n, hasOutput) ==
    IF n \in ParallelNodes /\ hasOutput THEN {"failed", "partial"} ELSE {"failed"}

Init ==
    /\ cancelled = FALSE
    /\ settled = [n \in Nodes |-> "idle"]
    /\ status = [n \in Nodes |-> "pending"]
    /\ outputs = {}

Launch(n) ==
    /\ settled[n] = "idle"
    /\ settled' = [settled EXCEPT ![n] = "pending"]
    /\ status' = [status EXCEPT ![n] = "ready"]
    /\ UNCHANGED <<cancelled, outputs>>

Settle(n, k, s, hasOutput) ==
    /\ settled[n] = "pending"
    /\ settled' = [settled EXCEPT ![n] = k]
    /\ status' = [status EXCEPT ![n] = s]
    /\ outputs' = IF hasOutput THEN outputs \cup {n} ELSE outputs
    /\ UNCHANGED cancelled

\* Every gate held.
Passes(n) == Settle(n, "passed", "passed", TRUE)

Fails(n) ==
    \E o \in BOOLEAN : \E k \in FailedOrPartial(n, o) : Settle(n, k, "failed", o)

\* The runner was done when the cancellation was noticed; exit code 0 passes.
Cancelled(n) ==
    /\ cancelled
    /\ \/ \E s \in {"cancelled", "passed"} : Settle(n, "ungated", s, TRUE)
       \/ \E k \in FailedOrPartial(n, TRUE) : Settle(n, k, "cancelled", TRUE)

\* The cancellation was noticed before the attempt began: no event.
Aborted(n) ==
    /\ cancelled
    /\ \E o \in BOOLEAN : \E k \in FailedOrPartial(n, o) : Settle(n, k, "ready", o)

\* The promise rejects, whatever was recorded before.
Rejects(n) ==
    \E o \in BOOLEAN, s \in {"ready", "passed", "failed", "cancelled"} :
        Settle(n, "error", s, o)

Cancel == cancelled' = TRUE /\ UNCHANGED <<settled, status, outputs>>

Next ==
    \/ \E n \in Nodes :
         Launch(n) \/ Passes(n) \/ Fails(n) \/ Cancelled(n) \/ Aborted(n) \/ Rejects(n)
    \/ Cancel

Spec == Init /\ [][Next]_vars
=============================================================================
