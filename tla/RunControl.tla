------------------------------ MODULE RunControl ------------------------------
(***************************************************************************)
(* The run-control record of a detached run (src/run-control): the CLI that *)
(* creates the run and spawns its controller, the controller with its       *)
(* runtime reporter and supervisor, and `moka stop` in another process.     *)
(*                                                                         *)
(* The store is a base manifest and an event log; reading a run replays the *)
(* log, so of every run and node status only the last one written counts    *)
(* and only that is kept here.  A database statement is one step.           *)
(*                                                                         *)
(* Runtime events reach the log through the reporter's serialized queue.    *)
(* Stall marks and heartbeats go through a queue of the supervisor's own,   *)
(* each write of which first waits for what the reporter has queued by then.*)
(***************************************************************************)
EXTENDS Integers, FiniteSets, Sequences

CONSTANTS
    Nodes,      \* planned nodes
    Hooked,     \* nodes with a required node.finish hook; one hook id for all
    MaxEvents,  \* bound: reporter writes waiting when an event is emitted
    MaxControl  \* bound: control writes waiting when a timer fires

ASSUME HookedAreNodes == Hooked \subseteq Nodes
ASSUME RunIsNoNode == "run" \notin Nodes   \* run and node statuses are apart
ASSUME BoundsTyped == MaxEvents \in Nat \ {0} /\ MaxControl \in Nat \ {0}

VARIABLES
    launcher,    \* the CLI that starts the run
    controller,  \* the detached process
    at,          \* where a node is in its execution
    verdict,     \* status of a node's node.finish event
    outcome,     \* run status of the workflow.finish event
    hookPrev,    \* projection: status to restore, by hook id (there is one)
    act,         \* supervisor: activity of a node with a stale timer
    bridgeQ,     \* the reporter's queue
    controlQ,    \* the supervisor's queue
    waiting,     \* reporter writes the first control write still waits for
    even,        \* it and the next reporter write start together
    draining,    \* reporter writes supervisor.stop waits for
    runStatus,   \* replayed run status
    nodeStatus,  \* replayed node statuses
    pid,         \* the manifest names the controller's process
    stopper,     \* the `moka stop` process
    snapshot,    \* what it read
    lost,        \* a reporter write failed and was skipped
    controlErr,  \* the control queue has a failure to report
    landed,      \* a run status of the killed controller has landed
    wire         \* statements of a killed controller the database still executes

schedVars == <<at, verdict, outcome>>
queueVars == <<bridgeQ, controlQ, waiting, even>>
dbVars == <<runStatus, nodeStatus, pid, wire>>
stopVars == <<stopper, snapshot>>
ghosts == <<lost, landed>>
vars == <<launcher, controller, schedVars, hookPrev, act, queueVars, draining,
          dbVars, stopVars, ghosts, controlErr>>

NodeStatuses == {"queued", "running", "blocked", "passed", "failed", "stalled",
                 "aborted"}
ActiveNodeStatuses == {"queued", "running", "stalled"}
RunOutcomes == {"passed", "failed"}   \* a cancelled run ends as a failed one does

NodeWrite == [of : Nodes, status : NodeStatuses]
RunWrite == [of : {"run"}, status : {"starting"} \cup RunOutcomes]
Heartbeat == [of |-> "run", status |-> "heartbeat"]
Write == NodeWrite \cup RunWrite \cup {Heartbeat}

Alive == {"booting", "active", "stopping", "closing"}

TypeOK ==
    /\ launcher \in {"start", "created", "spawned", "recorded", "failed"}
    /\ controller \in {"none", "ended", "killed"} \cup Alive
    /\ at \in [Nodes -> {"todo", "busy", "finished", "hook", "done"}]
    /\ verdict \in [Nodes -> {"none", "passed", "failed"}]
    /\ outcome \in {"none"} \cup RunOutcomes
    /\ hookPrev \in NodeStatuses \cup {"none"}
    /\ act \in [Nodes -> {"none", "running", "stalled"}]
    /\ bridgeQ \in Seq(NodeWrite \cup RunWrite)
    /\ controlQ \in Seq(NodeWrite \cup {Heartbeat})
    /\ waiting \in Nat /\ even \in BOOLEAN /\ draining \in Nat
    /\ runStatus \in {"none", "queued", "starting", "aborted"} \cup RunOutcomes
    /\ nodeStatus \in [Nodes -> NodeStatuses \cup {"none"}]
    /\ pid \in BOOLEAN
    /\ stopper \in {"idle", "read", "killed", "run", "done"}
    /\ snapshot \in [pid : BOOLEAN, nodes : SUBSET Nodes]
    /\ lost \in BOOLEAN /\ landed \in BOOLEAN /\ controlErr \in BOOLEAN
    /\ wire \in SUBSET Write

Init ==
    /\ launcher = "start" /\ controller = "none"
    /\ at = [n \in Nodes |-> "todo"] /\ verdict = [n \in Nodes |-> "none"]
    /\ outcome = "none"
    /\ hookPrev = "none"
    /\ act = [n \in Nodes |-> "none"]
    /\ bridgeQ = << >> /\ controlQ = << >> /\ waiting = 0 /\ even = FALSE /\ draining = 0
    /\ controlErr = FALSE
    /\ runStatus = "none" /\ nodeStatus = [n \in Nodes |-> "none"] /\ pid = FALSE
    /\ stopper = "idle" /\ snapshot = [pid |-> FALSE, nodes |-> {}]
    /\ lost = FALSE /\ wire = {} /\ landed = FALSE

----------------------------------------------------------------------------
(* The launcher: createRun, spawn, updateRunController. *)

CreateRun ==
    /\ launcher = "start"
    /\ launcher' = "created"
    /\ runStatus' = "queued" /\ nodeStatus' = [n \in Nodes |-> "queued"]
    /\ UNCHANGED <<controller, schedVars, hookPrev, act, queueVars, draining,
                   pid, wire, stopVars, ghosts, controlErr>>

\* A spawn that fails leaves the run queued.
StartDetachedRunController ==
    /\ launcher = "created"
    /\ \/ launcher' = "spawned" /\ controller' = "booting"
       \/ launcher' = "failed" /\ UNCHANGED controller
    /\ UNCHANGED <<schedVars, hookPrev, act, queueVars, draining, dbVars,
                   stopVars, ghosts, controlErr>>

UpdateRunController ==
    /\ launcher = "spawned"
    /\ launcher' = "recorded" /\ pid' = TRUE
    /\ UNCHANGED <<controller, schedVars, hookPrev, act, queueVars, draining,
                   runStatus, nodeStatus, wire, stopVars, ghosts, controlErr>>

----------------------------------------------------------------------------
(* Emitting an event: projection, the reporter's queue, the supervisor. *)

Emitting == controller \in {"active", "stopping", "closing"} /\ Len(bridgeQ) < MaxEvents
RunActive == controller = "active" /\ outcome = "none"

NodeEvent(n, s) == bridgeQ' = Append(bridgeQ, [of |-> n, status |-> s])

\* Mutant: a control write does not wait for the reporter.
NoFlush(q) == 0

\* bridge.flush(): what a control write whose turn it is now has to wait for.
FlushEffect(q) == Len(q)

\* A write whose turn has come starts at once.
EnqueueControlWrite(w) ==
    /\ controlQ' = Append(controlQ, w)
    /\ waiting' = IF controlQ = << >> THEN FlushEffect(bridgeQ') ELSE waiting

\* markNodeRunning: a node that was marked stalled is written running again.
MarkNodeRunning(n) ==
    IF ~RunActive THEN UNCHANGED <<act, controlQ, waiting>>
    ELSE /\ act' = [act EXCEPT ![n] = "running"]
         /\ IF act[n] = "stalled"
            THEN EnqueueControlWrite([of |-> n, status |-> "running"])
            ELSE UNCHANGED <<controlQ, waiting>>

ClearNode(n) ==
    /\ act' = [act EXCEPT ![n] = "none"]
    /\ UNCHANGED <<controlQ, waiting>>

EventFrame ==
    UNCHANGED <<launcher, controller, outcome, even, draining, dbVars,
                stopVars, ghosts, controlErr>>

WorkflowStart ==
    /\ controller = "booting"
    /\ controller' = "active"
    /\ bridgeQ' = <<[of |-> "run", status |-> "starting"]>>
    /\ UNCHANGED <<launcher, schedVars, hookPrev, act, controlQ, waiting,
                   even, draining, dbVars, stopVars, ghosts, controlErr>>

NodeStart(n) ==
    /\ Emitting /\ RunActive /\ at[n] = "todo"
    /\ at' = [at EXCEPT ![n] = "busy"]
    /\ NodeEvent(n, "running") /\ MarkNodeRunning(n)
    /\ UNCHANGED <<verdict, hookPrev>> /\ EventFrame

\* Events without a status: sessions, outputs, artifact checks, observability.
Quiet == UNCHANGED bridgeQ

\* agent, gate and hook events of a node at work, and the next attempt.
Progress(n) ==
    /\ Emitting /\ at[n] = "busy"
    /\ NodeEvent(n, "running") \/ Quiet
    /\ MarkNodeRunning(n)
    /\ UNCHANGED <<at, verdict, hookPrev>> /\ EventFrame

\* An agent that exits non-zero (its "failed" is "blocked" here), a failed gate; a
\* failed artifact check.
Trouble(n) ==
    /\ Emitting /\ at[n] = "busy"
    /\ NodeEvent(n, "blocked") \/ Quiet
    /\ ClearNode(n)
    /\ UNCHANGED <<at, verdict, hookPrev>> /\ EventFrame

NodeFinish(n) ==
    /\ Emitting /\ at[n] = "busy"
    /\ at' = [at EXCEPT ![n] = IF n \in Hooked THEN "finished" ELSE "done"]
    /\ \E s \in {"passed", "failed"} :
        verdict' = [verdict EXCEPT ![n] = s] /\ NodeEvent(n, s)
    /\ ClearNode(n)
    /\ UNCHANGED hookPrev /\ EventFrame

\* The node.finish hooks run after the node.finish event, whose status is the last
\* one the projection has observed of the node.
HookStart(n) ==
    /\ Emitting /\ at[n] = "finished"
    /\ at' = [at EXCEPT ![n] = "hook"]
    /\ hookPrev' = verdict[n]
    /\ NodeEvent(n, "running") /\ MarkNodeRunning(n)
    /\ UNCHANGED verdict /\ EventFrame

\* The result of a node.finish hook is not looked at: the node's verdict stands.
HookFinish(n) ==
    /\ Emitting /\ at[n] = "hook"
    /\ at' = [at EXCEPT ![n] = "done"]
    /\ hookPrev' = "none"
    /\ \/ /\ NodeEvent(n, IF hookPrev = "none" THEN "running" ELSE hookPrev)
          /\ MarkNodeRunning(n)
       \/ /\ NodeEvent(n, "blocked")
          /\ ClearNode(n)
    /\ UNCHANGED verdict /\ EventFrame

\* PASS needs every node; a failed or cancelled run may leave nodes at work.
WorkflowFinish ==
    /\ controller = "active" /\ outcome = "none" /\ Len(bridgeQ) < MaxEvents
    /\ outcome' \in RunOutcomes
    /\ outcome' = "passed" => \A n \in Nodes : at[n] = "done" /\ verdict[n] = "passed"
    /\ bridgeQ' = Append(bridgeQ, [of |-> "run", status |-> outcome'])
    /\ act' = [n \in Nodes |-> "none"]
    /\ UNCHANGED <<launcher, controller, at, verdict, hookPrev,
                   controlQ, waiting, even, draining, dbVars, stopVars, ghosts,
                   controlErr>>

----------------------------------------------------------------------------
(* Timers of the supervisor. *)

MarkNodeStalled(n) ==
    /\ RunActive /\ act[n] = "running" /\ Len(controlQ) < MaxControl
    /\ act' = [act EXCEPT ![n] = "stalled"]
    /\ UNCHANGED bridgeQ
    /\ EnqueueControlWrite([of |-> n, status |-> "stalled"])
    /\ UNCHANGED <<launcher, controller, schedVars, hookPrev, even, draining,
                   dbVars, stopVars, ghosts, controlErr>>

EnqueueHeartbeat ==
    /\ RunActive /\ Len(controlQ) < MaxControl
    /\ UNCHANGED bridgeQ
    /\ EnqueueControlWrite(Heartbeat)
    /\ UNCHANGED <<launcher, controller, schedVars, hookPrev, act, even, draining,
                   dbVars, stopVars, ghosts, controlErr>>

----------------------------------------------------------------------------
(* The two queues. *)

\* One write less to wait for.
Less(k) == IF k > 0 THEN k - 1 ELSE k

\* recordEvent: the replayed status is the last one written.
Apply(w) ==
    IF w.status = "heartbeat" THEN UNCHANGED <<runStatus, nodeStatus>>
    ELSE IF w.of = "run" THEN runStatus' = w.status /\ UNCHANGED nodeStatus
    ELSE nodeStatus' = [nodeStatus EXCEPT ![w.of] = w.status] /\ UNCHANGED runStatus

\* The store has one connection (max: 1): of two writes the one that was started
\* first is written first.
ControlFirst == controlQ # << >> /\ waiting = 0 /\ ~even

\* A write that fails is logged and skipped.
Persist ==
    /\ controller \in Alive /\ bridgeQ # << >> /\ ~ControlFirst
    /\ \/ Apply(Head(bridgeQ)) /\ UNCHANGED lost
       \/ lost' = TRUE /\ UNCHANGED <<runStatus, nodeStatus>>
    /\ bridgeQ' = Tail(bridgeQ)
    /\ waiting' = Less(waiting) /\ draining' = Less(draining)
    /\ even' = (controlQ # << >> /\ waiting = 1 /\ Tail(bridgeQ) # << >>)
    /\ UNCHANGED <<launcher, controller, schedVars, hookPrev, act, controlQ, pid,
                   wire, stopVars, landed, controlErr>>

\* The queue goes on after a failure, which the next flush reports.
EndControlWrite ==
    /\ controller \in Alive /\ controlQ # << >> /\ waiting = 0
    /\ \/ Apply(Head(controlQ)) /\ UNCHANGED controlErr
       \/ controlErr' = TRUE /\ UNCHANGED <<runStatus, nodeStatus>>
    /\ UNCHANGED bridgeQ
    /\ controlQ' = Tail(controlQ)
    /\ even' = FALSE
    /\ waiting' = IF Tail(controlQ) = << >> THEN 0 ELSE FlushEffect(bridgeQ)
    /\ UNCHANGED <<launcher, controller, schedVars, hookPrev, act, draining,
                   pid, wire, stopVars, ghosts>>

\* Mutant: the command ends when the run does.
EndsUnflushed ==
    /\ controller = "active" /\ outcome # "none"
    /\ controller' = "ended"
    /\ UNCHANGED <<launcher, schedVars, hookPrev, act, queueVars, draining,
                   dbVars, stopVars, ghosts, controlErr>>

\* supervisor.stop, in the finally block: the runner has returned, or it has
\* rejected, before the run or in the middle of it, and said nothing of an outcome.
\* Timers are cleared, then the reporter's queue is awaited, then the other.
StopSupervisor ==
    /\ controller \in {"booting", "active"}
    /\ controller' = "stopping"
    /\ draining' = Len(bridgeQ)
    /\ act' = [n \in Nodes |-> "none"]
    /\ UNCHANGED <<launcher, schedVars, hookPrev, queueVars, dbVars,
                   stopVars, ghosts, controlErr>>

BridgeFlushed ==
    /\ controller = "stopping" /\ draining = 0
    /\ controller' = "closing"
    /\ UNCHANGED <<launcher, schedVars, hookPrev, act, queueVars, draining,
                   dbVars, stopVars, ghosts, controlErr>>

\* Mutant: the stop waits for the reporter once more, with nobody to write.
ControlFlushStuck ==
    /\ controller = "closing" /\ controlQ = << >> /\ bridgeQ # << >>
    /\ controller' = "ended"
    /\ UNCHANGED <<launcher, schedVars, hookPrev, act, queueVars, draining,
                   dbVars, stopVars, ghosts, controlErr>>

\* The flush in the finally block rejects with a control write's failure.
ControlFlushed ==
    /\ controller = "closing" /\ controlQ = << >>
    /\ controller' = "ended"
    /\ UNCHANGED <<launcher, schedVars, hookPrev, act, queueVars, draining,
                   dbVars, stopVars, ghosts, controlErr>>

----------------------------------------------------------------------------
(* `moka stop`. *)

StopReads ==
    /\ stopper = "idle" /\ runStatus # "none"
    /\ stopper' = "read"
    /\ snapshot' = [pid |-> pid,
                    nodes |-> {n \in Nodes : nodeStatus[n] \in ActiveNodeStatuses}]
    /\ UNCHANGED <<launcher, controller, schedVars, hookPrev, act, queueVars,
                   draining, dbVars, ghosts, controlErr>>

\* The controller's queues, projection and timers die with it.
MemoryGone ==
    /\ at' = [n \in Nodes |-> "todo"] /\ verdict' = [n \in Nodes |-> "none"]
    /\ outcome' = "none"
    /\ hookPrev' = "none"
    /\ act' = [n \in Nodes |-> "none"]
    /\ bridgeQ' = << >> /\ controlQ' = << >> /\ waiting' = 0 /\ even' = FALSE
    /\ draining' = 0
    /\ controlErr' = FALSE

InFlight ==
    {w \in Write : \/ bridgeQ # << >> /\ w = Head(bridgeQ)
                   \/ controlQ # << >> /\ waiting = 0 /\ w = Head(controlQ)}

\* SIGTERM to the controller's group, which has no handler for it; a process that
\* is gone is no error.  A statement already sent is executed all the same.
StopControllerProcess ==
    /\ stopper = "read"
    /\ stopper' = "killed"
    /\ IF snapshot.pid /\ controller \in Alive
       THEN /\ controller' = "killed"
            /\ wire' \in SUBSET InFlight
            /\ MemoryGone
            /\ lost' = FALSE
       ELSE UNCHANGED <<controller, wire, schedVars, hookPrev, act, queueVars,
                        draining, controlErr, lost>>
    /\ UNCHANGED <<launcher, runStatus, nodeStatus, pid, snapshot, landed>>

\* What was on the wire lands.
WireLands ==
    /\ \E w \in wire :
        /\ Apply(w)
        /\ wire' = wire \ {w} /\ landed' = (landed \/ w \in RunWrite)
    /\ UNCHANGED <<launcher, controller, schedVars, hookPrev, act, queueVars,
                   draining, pid, stopVars, lost, controlErr>>

\* Mutant: the verdict is left to the controller when there is one.
AbortLeftToController ==
    /\ stopper = "killed"
    /\ stopper' = "run"
    /\ runStatus' = IF snapshot.pid THEN runStatus ELSE "aborted"
    /\ UNCHANGED <<launcher, controller, schedVars, hookPrev, act, queueVars,
                   draining, nodeStatus, pid, wire, snapshot, ghosts, controlErr>>

StopRunStatus ==
    /\ stopper = "killed"
    /\ stopper' = "run" /\ runStatus' = "aborted"
    /\ UNCHANGED <<launcher, controller, schedVars, hookPrev, act, queueVars,
                   draining, nodeStatus, pid, wire, snapshot, ghosts, controlErr>>

StopNodeStatus ==
    /\ stopper = "run" /\ snapshot.nodes # {}
    /\ \E n \in snapshot.nodes :
        /\ nodeStatus' = [nodeStatus EXCEPT ![n] = "aborted"]
        /\ snapshot' = [snapshot EXCEPT !.nodes = @ \ {n}]
    /\ UNCHANGED <<launcher, controller, schedVars, hookPrev, act, queueVars,
                   draining, runStatus, pid, wire, stopper, ghosts, controlErr>>

StopEnds ==
    /\ stopper = "run" /\ snapshot.nodes = {}
    /\ stopper' = "done"
    /\ UNCHANGED <<launcher, controller, schedVars, hookPrev, act, queueVars,
                   draining, dbVars, snapshot, ghosts, controlErr>>

\* `moka stop <run> <node>` writes a status and nothing else.
StopNode(n) ==
    /\ stopper = "idle" /\ runStatus # "none"
    /\ stopper' = "done"
    /\ nodeStatus' = [nodeStatus EXCEPT ![n] = "aborted"]
    /\ UNCHANGED <<launcher, controller, schedVars, hookPrev, act, queueVars,
                   draining, runStatus, pid, wire, snapshot, ghosts, controlErr>>

Launcher == CreateRun \/ StartDetachedRunController \/ UpdateRunController
NodeEvents(n) ==
    \/ NodeStart(n) \/ Progress(n) \/ Trouble(n) \/ NodeFinish(n)
    \/ HookStart(n) \/ HookFinish(n)
Timers == EnqueueHeartbeat \/ \E n \in Nodes : MarkNodeStalled(n)
Ending == StopSupervisor \/ BridgeFlushed \/ ControlFlushed
Stop ==
    \/ StopReads \/ StopControllerProcess \/ WireLands \/ StopRunStatus \/ StopNodeStatus
    \/ StopEnds \/ \E n \in Nodes : StopNode(n)

Next ==
    \/ Launcher \/ WorkflowStart \/ WorkflowFinish
    \/ \E n \in Nodes : NodeEvents(n)
    \/ Timers \/ Persist \/ EndControlWrite \/ Ending \/ Stop

Spec == Init /\ [][Next]_vars

\* Database calls return or fail; the controller's event loop runs what is due.
Fairness == WF_vars(Persist) /\ WF_vars(EndControlWrite) /\ WF_vars(Ending)

FairSpec == Spec /\ Fairness

----------------------------------------------------------------------------
(* Properties. *)

Undisturbed == stopper = "idle" /\ ~lost

\* When the run command has ended, the record says what the workflow.finish event
\* said, unless a write failed or somebody stopped the run; of a run whose runner
\* rejected without one it says no verdict (run-service.ts:101).
RunVerdictStands ==
    controller = "ended" /\ Undisturbed =>
        IF outcome = "none" THEN runStatus \in {"queued", "starting"}
        ELSE runStatus = outcome

\* A stop that found the controller's process and killed it has the last word on
\* the run, but for a run status that was on the wire: nothing the controller had
\* queued is written after "aborted".
KilledRunStaysAborted ==
    controller = "killed" /\ stopper \in {"run", "done"} /\ ~landed =>
        runStatus = "aborted"

\* A stall mark is not overwritten by an older event: once both queues are empty,
\* the record of a node the supervisor holds for stalled says so.
StallIsRecorded ==
    RunActive /\ bridgeQ = << >> /\ controlQ = << >> /\ Undisturbed /\ ~controlErr =>
        \A n \in Nodes : act[n] = "stalled" => nodeStatus[n] = "stalled"

\* The supervisor's stop comes to an end, also when writes fail and orphaned nodes
\* keep reporting.
StopTerminates == controller = "stopping" ~> controller \in {"ended", "killed"}
=============================================================================
