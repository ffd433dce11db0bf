---------------------------- MODULE NodeExecution ----------------------------
(***************************************************************************)
(* What happens inside the executor promise of a node: the attempt loop of  *)
(* src/runtime/node-execution.ts with its hooks, gates and retries, and the *)
(* remediation runs of remediation/remediation.ts, for several nodes of one *)
(* workflow that share one runtime context (task, abort signal, stores).    *)
(*                                                                         *)
(* A step is the code between two awaits.  An actor is a node (<<n,"main">>) *)
(* or the remediation node it is waiting for (<<n,"fix">>), which runs the   *)
(* same attempt loop under a fresh id.                                      *)
(***************************************************************************)
EXTENDS Naturals, Sequences, FiniteSets, NodeStateTracker

CONSTANTS
    Nodes,          \* planned nodes
    Needs,          \* [Nodes -> SUBSET Nodes]
    Gates,          \* [Nodes -> Seq(Gate)], declared, artifact and schema gates
    Units,          \* implementation nodes a remediation may run
    Implements,     \* [Nodes -> SUBSET Units]: itself and its children
    UnitGates,      \* [Units -> Seq(Gate)]: the schema gate of the profile
    Writable,       \* nodes whose profile can write
    Coverage,       \* nodes with the coverage scheduling role
    ParallelNodes,  \* nodes of kind "parallel"
    MaxAttempts,    \* [Nodes -> Nat]
    RetryOn,        \* [Nodes -> SUBSET Reasons]
    AttemptCap      \* attempts are counted up to here

Reasons == {"exit_nonzero", "gate_failure", "timeout"}
Exits == {"ok", "err", "timeout", "infra"}
Gate == [kind : {"declared", "artifact", "schema"}, required : BOOLEAN]
Self == "self"
Original == "original"

ASSUME PlanTyped ==
    /\ Needs \in [Nodes -> SUBSET Nodes]
    /\ Implements \in [Nodes -> SUBSET Units]
    /\ Writable \subseteq Nodes /\ Coverage \subseteq Nodes /\ ParallelNodes \subseteq Nodes
    /\ RetryOn \in [Nodes -> SUBSET Reasons]
    /\ Self \notin Units \cup Nodes /\ Original \notin Nodes
    /\ \A n \in Nodes : Implements[n] \cap Nodes \subseteq {n}   \* children are not planned
ASSUME GatesTyped == Gates \in [Nodes -> Seq(Gate)] /\ UnitGates \in [Units -> Seq(Gate)]
\* Only "attempt < MaxAttempts" is ever asked of an attempt, so counting up to
\* a cap above every MaxAttempts loses nothing.
ASSUME AttemptsTyped ==
    /\ MaxAttempts \in [Nodes -> Nat] /\ AttemptCap \in Nat \ {0}
    /\ \A n \in Nodes : MaxAttempts[n] < AttemptCap

Main(n) == <<n, "main">>
Fix(n) == <<n, "fix">>
Actors == Nodes \X {"main", "fix"}

Pcs == {"idle", "begin", "startHook", "runner", "gates", "gateHook", "successHook",
        "remediate", "selfFix", "ancestors", "unitFix", "schedule", "errorHook",
        "finishHook", "settled", "rejected"}

VARIABLES
    act,         \* [Actors -> the attempt loop of the actor]
    cancelled,   \* context.signal.aborted
    task,        \* context.task, Original or the node being remediated
    saved,       \* [Nodes -> originalTask of withRemediationTask]
    fixing,      \* [Nodes -> what its remediation node runs]
    todo,        \* [Nodes -> implementation units still to be remediated]
    remediated,  \* [Nodes -> BOOLEAN], of the loop over the units
    outputs      \* nodes with an entry in lastOutputByNode

nodeVars == <<saved, fixing, todo, remediated>>
vars == <<act, cancelled, task, nodeVars, outputs>>

Tasks == Nodes \cup {Original}

Actor == [pc : Pcs, status : NodeStatuses \cup {"illegal"}, attempt : 0..AttemptCap,
          last : Exits \cup {"none"},  \* exit of state.last
          cur : Exits \cup {"none"},   \* exit of this attempt
          gate : Nat,                  \* whose failure hook was dispatched last
          good : SUBSET Nat, bad : SUBSET Nat,  \* gate results
          result : {"none", "passed", "failed"}]

TypeOK ==
    /\ act \in [Actors -> Actor]
    /\ cancelled \in BOOLEAN
    /\ task \in Tasks
    /\ saved \in [Nodes -> Tasks]
    /\ fixing \in [Nodes -> Units \cup {Self}]
    /\ todo \in [Nodes -> SUBSET Units]
    /\ remediated \in [Nodes -> BOOLEAN]
    /\ outputs \in SUBSET Nodes

NewActor ==
    [pc |-> "idle", status |-> "pending", attempt |-> 0, last |-> "none",
     cur |-> "none", gate |-> 0, good |-> {}, bad |-> {}, result |-> "none"]

Init ==
    /\ act = [a \in Actors |-> NewActor]
    /\ cancelled = FALSE
    /\ task = Original
    /\ saved = [n \in Nodes |-> Original]
    /\ fixing = [n \in Nodes |-> Self]
    /\ todo = [n \in Nodes |-> {}]
    /\ remediated = [n \in Nodes |-> FALSE]
    /\ outputs = {}

----------------------------------------------------------------------------
(* The node an actor runs. *)

\* The gates configured for what an actor runs: of an upstream remediation only
\* the profile's schema gate is.
GatesOf(a) ==
    IF a[2] = "fix" /\ fixing[a[1]] # Self THEN UnitGates[fixing[a[1]]] ELSE Gates[a[1]]

\* Positions of the gates the actor goes through: a self-remediation drops the
\* artifacts.
GatesToPass(a) ==
    {i \in DOMAIN GatesOf(a) :
        a[2] = "fix" /\ fixing[a[1]] = Self => GatesOf(a)[i].kind # "artifact"}

\* Remediation nodes carry no retries: one attempt, default reasons.
AttemptLimit(a) == IF a[2] = "main" THEN MaxAttempts[a[1]] ELSE 1
RetriesOn(a) == IF a[2] = "main" THEN RetryOn[a[1]] ELSE Reasons

Upstream(n) ==
    {m \in Nodes : \A S \in SUBSET Nodes :
        (Needs[n] \subseteq S /\ \A k \in S : Needs[k] \subseteq S) => m \in S}

UpstreamUnits(n) ==
    UNION {Implements[m] : m \in {k \in Upstream(n) : act[Main(k)].status = "passed"}}

\* nodeRetryReason
RetryReason(r) ==
    IF r.cur = "timeout" THEN "timeout"
    ELSE IF r.bad # {} THEN "gate_failure" ELSE "exit_nonzero"

----------------------------------------------------------------------------
(* Updates of one actor's record. *)

Event(r, e) == [r EXCEPT !.status = Record(r.status, e)]
At(r, pc) == [r EXCEPT !.pc = pc]

\* The loop has its result; a planned node dispatches node.finish next, a
\* remediation node returns to the remediation.
Done(a, r, result) ==
    [r EXCEPT !.result = result,
              !.pc = IF a[2] = "main" THEN "finishHook" ELSE "settled"]

\* cancelledNodeResult: exit code 0 is reported as passed.
CancelledResult(a, r) ==
    Done(a, Event([r EXCEPT !.last = r.cur], "CANCELLED"),
         IF r.cur = "ok" THEN "passed" ELSE "failed")

NextAttempt(r) ==
    At([r EXCEPT !.attempt = IF @ < AttemptCap THEN @ + 1 ELSE @], "begin")

\* Mutant: with all gates green the exit code is not looked at.
GatesFinishedIgnoresExit(a, r) ==
    LET f == Event(r, "GATES_FINISHED")
    IN  IF cancelled THEN CancelledResult(a, f)
        ELSE IF r.bad # {} THEN At([f EXCEPT !.last = r.cur], "remediate")
             ELSE At(f, "successHook")

\* GATES_FINISHED and what finishNodeAttemptAfterGates makes of the results.
GatesFinished(a, r) ==
    LET f == Event(r, "GATES_FINISHED")
    IN  IF cancelled THEN CancelledResult(a, f)
        ELSE IF r.bad # {} \/ r.cur # "ok"
             THEN At([f EXCEPT !.last = r.cur], "remediate")
             ELSE At(f, "successHook")

Becomes(a, r) ==
    /\ act' = [act EXCEPT ![a] = r]
    /\ UNCHANGED <<cancelled, task, nodeVars>>

----------------------------------------------------------------------------
(* One attempt. *)

\* The scheduler launches a node once its needs have passed.
Launch(n) ==
    LET r == act[Main(n)]
    IN  /\ r.pc = "idle" /\ ~cancelled
        /\ \A m \in Needs[n] : act[Main(m)].pc = "settled" /\ act[Main(m)].result = "passed"
        /\ Becomes(Main(n), NextAttempt(Event(r, "READY")))
        /\ UNCHANGED outputs

\* cancelledCycle records no event.
BeginAttempt(a) ==
    LET r == act[a]
    IN  /\ r.pc = "begin"
        /\ Becomes(a, IF cancelled THEN Done(a, r, "failed")
                      ELSE At(Event(r, "STARTED"), "startHook"))
        /\ UNCHANGED outputs

StartHookPasses(a) ==
    LET r == act[a]
        fresh == [r EXCEPT !.cur = "none", !.gate = 0, !.good = {}, !.bad = {}]
    IN  /\ r.pc = "startHook"
        /\ Becomes(a, IF cancelled THEN Done(a, r, "failed")
                      ELSE At(Event(fresh, "RUNNER_STARTED"), "runner"))
        /\ UNCHANGED outputs

\* failedHookCycle after node.start or node.success.
HookFails(a) ==
    LET r == act[a]
        last == IF r.pc = "successHook" THEN [r EXCEPT !.last = r.cur] ELSE r
    IN  /\ r.pc \in {"startHook", "successHook"}
        /\ Becomes(a, Done(a, Event(last, "FAILED"), "failed"))
        /\ UNCHANGED outputs

\* The runner returns; its output is recorded; gates are skipped for an
\* infrastructure failure.
RunnerFinishes(a) ==
    LET r == act[a]
    IN  /\ r.pc = "runner"
        /\ \E exit \in Exits :
            LET f == Event([r EXCEPT !.cur = exit], "RUNNER_FINISHED")
            IN  Becomes(a, IF cancelled THEN CancelledResult(a, f)
                           ELSE IF exit = "infra"
                                THEN At([f EXCEPT !.last = exit], "remediate")
                                ELSE At(Event(f, "GATES_STARTED"), "gates"))
        /\ outputs' = IF a[2] = "main" THEN outputs \cup {a[1]} ELSE outputs

GatesLeft(a) == GatesToPass(a) \ (act[a].good \cup act[a].bad)

\* The gate loop ends at the last gate or at a cancellation.
GatesEnd(a) ==
    LET r == act[a]
    IN  /\ r.pc = "gates" /\ (cancelled \/ GatesLeft(a) = {})
        /\ Becomes(a, GatesFinished(a, r))
        /\ UNCHANGED outputs

GateIteration(a) ==
    LET r == act[a]
    IN  /\ r.pc = "gates" /\ ~cancelled
        /\ \E g \in GatesLeft(a) :
            /\ \A h \in GatesLeft(a) : g <= h
            /\ \/ Becomes(a, [r EXCEPT !.good = @ \cup {g}])
               \/ Becomes(a, At([r EXCEPT !.gate = g, !.bad = @ \cup {g}], "gateHook"))
        /\ UNCHANGED outputs

\* gate.failure dispatched; only a required gate stops the loop.
GateFailureHook(a) ==
    LET r == act[a]
    IN  /\ r.pc = "gateHook"
        /\ Becomes(a, IF GatesOf(a)[r.gate].required THEN GatesFinished(a, r)
                      ELSE At(r, "gates"))
        /\ UNCHANGED outputs

SuccessHookPasses(a) ==
    LET r == act[a]
    IN  /\ r.pc = "successHook"
        /\ Becomes(a, IF cancelled THEN CancelledResult(a, r)
                      ELSE Done(a, Event([r EXCEPT !.last = r.cur], "PASSED"), "passed"))
        /\ UNCHANGED outputs

\* The runner or a hook dispatch rejects: no more attempts; state.last stays.
AttemptRejects(a) ==
    /\ act[a].pc \in {"startHook", "runner", "gateHook", "successHook"}
    /\ Becomes(a, At(act[a], "errorHook"))
    /\ UNCHANGED outputs

----------------------------------------------------------------------------
(* Remediation and retry. *)

UsesAncestors(n, r) ==
    IF n \in Coverage THEN RetryReason(r) = "gate_failure" ELSE n \notin Writable

\* Run a remediation node for what; everyone in the context sees its task.
StartFix(n, what, pc) ==
    /\ act' = [act EXCEPT ![Main(n)] = At(@, pc),
                          ![Fix(n)] = NextAttempt(Event(NewActor, "READY"))]
    /\ fixing' = [fixing EXCEPT ![n] = what]
    /\ saved' = [saved EXCEPT ![n] = task]
    /\ task' = n
    /\ UNCHANGED <<cancelled, remediated, outputs>>

RestoreTask(n) == task' = saved[n]

\* The strategies after self-remediation: upstream implementations, or none.
NextStrategy(n, r) ==
    /\ act' = [act EXCEPT ![Main(n)] =
                 At(r, IF UsesAncestors(n, r) THEN "ancestors" ELSE "schedule")]
    /\ todo' = [todo EXCEPT ![n] = UpstreamUnits(n)]
    /\ remediated' = [remediated EXCEPT ![n] = FALSE]
    /\ UNCHANGED <<cancelled, saved, fixing, outputs>>

RemediateFailedNode(n) ==
    LET r == act[Main(n)]
    IN  /\ r.pc = "remediate"
        /\ IF RetryReason(r) = "gate_failure" /\ n \in Writable
           THEN StartFix(n, Self, "selfFix") /\ UNCHANGED todo
           ELSE NextStrategy(n, r) /\ UNCHANGED task

\* A remediation node is not remediated itself.
FixNotRemediated(n) ==
    /\ act[Fix(n)].pc = "remediate"
    /\ Becomes(Fix(n), At(act[Fix(n)], "schedule"))
    /\ UNCHANGED outputs

\* Mutant: the remediated node returns passed without a PASSED event.
SelfFixPassUnrecorded(n) ==
    LET r == act[Main(n)]
    IN  /\ r.pc = "selfFix" /\ act[Fix(n)].pc = "settled"
        /\ RestoreTask(n)
        /\ \/ /\ act[Fix(n)].result = "passed"
              /\ act' = [act EXCEPT ![Main(n)] = Done(Main(n), r, "passed")]
              /\ outputs' = outputs \cup {n}
              /\ UNCHANGED <<cancelled, nodeVars>>
           \/ NextStrategy(n, r)

\* The node passes if its remediation passed and changed something.
SelfFixReturns(n) ==
    LET r == act[Main(n)]
    IN  /\ r.pc = "selfFix" /\ act[Fix(n)].pc = "settled"
        /\ RestoreTask(n)
        /\ \/ /\ act[Fix(n)].result = "passed"
              /\ act' = [act EXCEPT ![Main(n)] = Done(Main(n), Event(r, "PASSED"), "passed")]
              /\ outputs' = outputs \cup {n}
              /\ UNCHANGED <<cancelled, nodeVars>>
           \/ NextStrategy(n, r)

AncestorsStep(n) ==
    LET r == act[Main(n)]
    IN  /\ r.pc = "ancestors"
        /\ IF todo[n] = {} \/ cancelled
           THEN /\ Becomes(Main(n), IF remediated[n] THEN NextAttempt(Event(r, "RETRYING"))
                                    ELSE At(r, "schedule"))
                /\ UNCHANGED outputs
           ELSE \E u \in todo[n] :
                    /\ StartFix(n, u, "unitFix")
                    /\ todo' = [todo EXCEPT ![n] = @ \ {u}]

UnitFixReturns(n) ==
    /\ act[Main(n)].pc = "unitFix" /\ act[Fix(n)].pc = "settled"
    /\ RestoreTask(n)
    /\ act' = [act EXCEPT ![Main(n)] = At(@, "ancestors")]
    /\ \E changed \in {FALSE, act[Fix(n)].result = "passed"} :
        /\ remediated' = [remediated EXCEPT ![n] = @ \/ changed]
        /\ outputs' = IF changed THEN outputs \cup ({fixing[n]} \cap Nodes) ELSE outputs
    /\ UNCHANGED <<cancelled, saved, fixing, todo>>

FixRejected(n) ==
    /\ act[Main(n)].pc \in {"selfFix", "unitFix"} /\ act[Fix(n)].pc = "rejected"
    /\ RestoreTask(n)
    /\ act' = [act EXCEPT ![Main(n)] = At(@, "rejected")]
    /\ UNCHANGED <<cancelled, nodeVars, outputs>>

\* Mutant: the attempt limit is ignored.
RetryWithoutLimit(a) ==
    LET r == act[a]
        e == Event(r, "RETRYING")
    IN  /\ r.pc = "schedule"
        /\ Becomes(a, IF RetryReason(r) \in RetriesOn(a)
                      THEN NextAttempt(e) ELSE At(e, "errorHook"))
        /\ UNCHANGED outputs

\* decideNodeRetry; RETRYING is recorded even when no retry follows.
ScheduleNodeRetry(a) ==
    LET r == act[a]
        e == Event(r, "RETRYING")
    IN  /\ r.pc = "schedule"
        /\ Becomes(a, IF RetryReason(r) \in RetriesOn(a) /\ r.attempt < AttemptLimit(a)
                      THEN NextAttempt(e) ELSE At(e, "errorHook"))
        /\ UNCHANGED outputs

\* node.error and FAILED.
FinishFailedNode(a) ==
    /\ act[a].pc = "errorHook"
    /\ Becomes(a, Done(a, Event(act[a], "FAILED"), "failed"))
    /\ UNCHANGED outputs

\* node.finish of a planned node.
FinishHook(a) ==
    /\ act[a].pc = "finishHook"
    /\ Becomes(a, At(act[a], "settled"))
    /\ UNCHANGED outputs

\* A rejected node.error or node.finish dispatch rejects the promise.
LastHookRejects(a) ==
    /\ act[a].pc \in {"errorHook", "finishHook"}
    /\ Becomes(a, At(act[a], "rejected"))
    /\ UNCHANGED outputs

Cancel ==
    /\ ~cancelled /\ cancelled' = TRUE
    /\ UNCHANGED <<act, task, nodeVars, outputs>>

----------------------------------------------------------------------------

Attempt(a) ==
    \/ BeginAttempt(a) \/ StartHookPasses(a) \/ HookFails(a) \/ RunnerFinishes(a)
    \/ GatesEnd(a) \/ GateIteration(a) \/ GateFailureHook(a) \/ SuccessHookPasses(a)
    \/ AttemptRejects(a) \/ ScheduleNodeRetry(a) \/ FinishFailedNode(a)
    \/ FinishHook(a) \/ LastHookRejects(a)

Remediation(n) ==
    \/ RemediateFailedNode(n) \/ FixNotRemediated(n) \/ SelfFixReturns(n)
    \/ AncestorsStep(n) \/ UnitFixReturns(n) \/ FixRejected(n)

Ended(n) == act[Main(n)].pc \in {"settled", "rejected"}

\* Nothing more can happen: every node has ended or will never be launched.
Terminated ==
    /\ \A n \in Nodes : Ended(n) \/ act[Main(n)].pc = "idle"
    /\ UNCHANGED vars

Next ==
    \/ \E n \in Nodes : Launch(n) \/ Remediation(n)
    \/ \E a \in Actors : Attempt(a)
    \/ Cancel
    \/ Terminated

Spec == Init /\ [][Next]_vars

\* Runners have timeouts, gate commands and hooks end, and the event loop runs
\* what is due: no actor is held up for ever in one place.
Fairness ==
    /\ \A a \in Actors : WF_vars(Attempt(a))
    /\ \A n \in Nodes : WF_vars(Remediation(n))

FairSpec == Spec /\ Fairness

----------------------------------------------------------------------------
(* Properties. *)

\* How the promise of a node settled, as the scheduler tells it apart.
SettledAs(n) ==
    LET r == act[Main(n)]
        byFix == act[Fix(n)].result = "passed" /\ fixing[n] = Self
    IN  CASE r.pc = "idle" -> "idle"
          [] r.pc = "rejected" -> "error"
          [] r.pc = "settled" /\ r.result = "passed" ->
                IF r.status = "cancelled" \/ (byFix /\ act[Fix(n)].status = "cancelled")
                THEN "ungated" ELSE "passed"
          [] r.pc = "settled" /\ r.result = "failed" ->
                IF n \in ParallelNodes /\ r.last # "none" THEN "partial" ELSE "failed"
          [] OTHER -> "pending"

\* Every gate of the node the actor runs held on its last attempt.
GatesHeld(a) == act[a].cur = "ok" /\ act[a].good = GatesToPass(a)

\* A node that passes in a run that is not being cancelled went through every
\* gate it has, on its last attempt or, with the artifacts left out, in the
\* remediation that replaced it.
PassedMeansGated ==
    \A n \in Nodes : SettledAs(n) = "passed" =>
        GatesHeld(Main(n)) \/ (fixing[n] = Self /\ GatesHeld(Fix(n)))

\* Every node that is launched comes to an end, unless it has upstream work
\* remediated over and over: those retries are counted nowhere, all others are.
NodesEnd ==
    \A n \in Nodes :
        \/ act[Main(n)].pc = "begin" ~> Ended(n)
        \/ []<>(act[Main(n)].pc = "unitFix")

Live == {"ready", "running", "gating"}

StatusAs(n) ==
    IF act[Main(n)].pc = "idle" THEN "pending"
    ELSE IF ~Ended(n) \/ act[Main(n)].status \in Live THEN "ready"
    ELSE act[Main(n)].status

\* The node keeps the promise the scheduler's model is built on.
Promise == INSTANCE NodePromise WITH
    settled <- [n \in Nodes |-> SettledAs(n)],
    status <- [n \in Nodes |-> StatusAs(n)],
    outputs <- {n \in outputs : Ended(n)}

\* NodeExecution implements NodePromise.
PromiseKept == Promise!Spec
=============================================================================
