--------------------------- MODULE NodeStateTracker ---------------------------
(***************************************************************************)
(* The event table of src/runtime/node-state-tracker.ts: from which        *)
(* statuses a node execution event may be recorded and which status it      *)
(* leaves.  An event recorded from any other status throws.                *)
(***************************************************************************)

NodeStatuses == {"pending", "ready", "running", "gating",
                 "passed", "failed", "cancelled", "skipped"}

Open == {"running", "gating"}

AllowedFrom ==
    [READY           |-> {"pending"},
     STARTED         |-> {"ready", "running"},
     RUNNER_STARTED  |-> {"running"},   \* and START_HOOKS_, SNAPSHOT_BEFORE_FINISHED
     RUNNER_FINISHED |-> {"running"},   \* and OUTPUT_RECORDED, SNAPSHOT_AFTER_FINISHED
     GATES_STARTED   |-> {"running"},
     GATES_FINISHED  |-> {"gating"},
     RETRYING        |-> Open,
     PASSED          |-> Open,
     FAILED          |-> Open,
     CANCELLED       |-> Open,
     SKIPPED         |-> {"pending", "ready"}]

StatusAfter ==
    [READY           |-> "ready",
     STARTED         |-> "running",
     RUNNER_STARTED  |-> "running",
     RUNNER_FINISHED |-> "running",
     GATES_STARTED   |-> "gating",
     GATES_FINISHED  |-> "gating",
     RETRYING        |-> "running",
     PASSED          |-> "passed",
     FAILED          |-> "failed",
     CANCELLED       |-> "cancelled",
     SKIPPED         |-> "skipped"]

\* record: the status after the event, or "illegal" where the code throws.
Record(s, event) ==
    IF s \in AllowedFrom[event] THEN StatusAfter[event] ELSE "illegal"
=============================================================================
