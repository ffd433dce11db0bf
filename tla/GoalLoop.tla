------------------------------ MODULE GoalLoop ------------------------------
(***************************************************************************)
(* The bounded goal loop (src/runtime/goal-loop, goal-state): while a goal is  *)
(* not reached its node is continued, in the session it has, and the events of *)
(* the run are folded into the goal state.  Texts are numbers: 0 is none.      *)
(***************************************************************************)
EXTENDS AgentNode

CONSTANTS
    MaxContinuations,
    MaxEvents,      \* events of one continuation, its end not counted
    Required,       \* the task has acceptance criteria
    Event           \* [type |-> "output", verifier, verdict, evidence, violations, accept],
                    \* [type |-> "gate", verifier, passed] or [type |-> "files"]

ASSUME LoopBounds == MaxContinuations \in Nat /\ MaxEvents \in Nat /\ Required \in BOOLEAN

Verdict == {"none", "PASS", "FAIL"}

ASSUME EventsTyped == \A e \in Event :
    \/ /\ e.type = "output"
       /\ e.verifier \in BOOLEAN /\ e.verdict \in Verdict /\ e.evidence \in 0 .. 2
       /\ e.violations \in BOOLEAN /\ e.accept \in {"absent", "met", "unmet"}
    \/ e.type = "gate" /\ e.verifier \in BOOLEAN /\ e.passed \in BOOLEAN
    \/ e.type = "files"

VARIABLE goal

vars == <<goal, nodeVars>>

Terminal == {"passed", "blocked", "cancelled", "max_continuations_reached",
             "no_progress_detected"}
GoalPc == {"off", "check", "continue", "events", "post", "done", "failed"}

\* accept summarises the criteria: "met" when all pass with evidence and no violation.
Goal == [attempts : 0 .. MaxContinuations, verdict : Verdict, evidence : 0 .. 2,
         violations : BOOLEAN, accept : {"none", "met", "unmet"}, failures : Nat,
         changed : BOOLEAN, outcome : {"none", "PASS", "FAIL", "CANCELLED", "BLOCKED"}]

CreateGoalState ==
    [attempts |-> 0, verdict |-> "none", evidence |-> 0, violations |-> FALSE,
     accept |-> "none", failures |-> 0, changed |-> FALSE, outcome |-> "none"]

Loop == [pc : GoalPc, state : Goal, before : Goal, n : 0 .. MaxEvents,
         result : Terminal \cup {"none"}, last : {"none", "pass", "fail"}]

TypeOK == NodeTypeOK /\ goal \in Loop

Driven == {n \in Node : prof[n].goal}

Init ==
    /\ NodeInit
    /\ goal = [pc |-> IF Driven = {} THEN "off" ELSE "check", state |-> CreateGoalState,
               before |-> CreateGoalState, n |-> 0, result |-> "none", last |-> "none"]

GoalAt(pc) == goal.pc = pc

----------------------------------------------------------------------------
(* The goal state, an event at a time *)

RecordStructuredVerdicts(g, e) ==
    LET a == [g EXCEPT !.accept = IF e.accept = "absent" THEN @ ELSE e.accept]
    IN  IF ~e.verifier THEN a
        ELSE [a EXCEPT !.verdict = e.verdict, !.evidence = e.evidence,
                       !.violations = e.violations]

IgnoresVerifierGate(g, e) ==
    IF e.passed THEN g ELSE [g EXCEPT !.failures = @ + 1]

\* The failures of gates only grow; one of a verifier takes its verdict back.
RecordGateAttempt(g, e) ==
    IF e.passed THEN g
    ELSE LET f == [g EXCEPT !.failures = @ + 1]
         IN  IF e.verifier THEN [f EXCEPT !.verdict = "FAIL", !.evidence = 1] ELSE f

ApplyGoalStateEvent(g, e) ==
    CASE e.type = "output" -> RecordStructuredVerdicts(g, e)
      [] e.type = "gate"   -> RecordGateAttempt(g, e)
      [] e.type = "files"  -> [g EXCEPT !.changed = TRUE]

GoalStateCompletionEvidence(g) ==
    /\ g.verdict = "PASS" /\ g.evidence # 0 /\ ~g.violations
    /\ Required => g.accept = "met"

GoalStateFailureSignature(g) == <<g.failures, g.verdict = "FAIL", g.accept = "unmet">>

ProgressSignature(g) ==
    <<GoalStateFailureSignature(g), g.changed,
      IF g.verdict # "none" THEN g.evidence ELSE 0>>

IsNoProgress(before, after) ==
    /\ GoalStateFailureSignature(before) # <<0, FALSE, FALSE>>
    /\ ProgressSignature(before) = ProgressSignature(after)

----------------------------------------------------------------------------
(* The loop *)

TerminalResult(g) ==
    CASE cancelled -> "cancelled"
      [] g.outcome = "PASS" ->
            IF GoalStateCompletionEvidence(g) THEN "passed" ELSE "blocked"
      [] g.outcome = "BLOCKED" -> "blocked"
      [] g.outcome = "CANCELLED" -> "cancelled"
      [] OTHER -> "none"

End(result) ==
    goal' = [goal EXCEPT !.pc = "done", !.result = result, !.n = 0, !.before = CreateGoalState]

ContinueGoalLoop ==
    /\ GoalAt("check")
    /\ LET terminal == TerminalResult(goal.state)
       IN  IF terminal # "none" THEN End(terminal)
           ELSE IF goal.state.attempts >= MaxContinuations THEN End("max_continuations_reached")
           ELSE goal' = [goal EXCEPT !.pc = "continue", !.before = goal.state]
    /\ UNCHANGED nodeVars

AttemptNotRecorded(g) == g

StateWithContinuationAttempt(g) == [g EXCEPT !.attempts = @ + 1]

\* The prompt is written, then the continuation runs with the attempt recorded in its
\* state; the loop fails when either does.
RunGoalContinuation ==
    /\ GoalAt("continue")
    /\ \/ goal' = [goal EXCEPT !.pc = "failed"] /\ UNCHANGED nodeVars
       \/ \E n \in Driven :
            /\ goal' = [goal EXCEPT !.pc = "events", !.n = 0,
                                    !.state = StateWithContinuationAttempt(@)]
            /\ node' = [node EXCEPT ![n] = Fresh]
            /\ UNCHANGED session

\* The caller's continuation applies what the runtime reports to the state it got.
ContinuationEvent ==
    /\ GoalAt("events") /\ \A n \in Driven : Returned(n)
    /\ goal.n < MaxEvents
    /\ \E e \in Event :
        goal' = [goal EXCEPT
            !.state = ApplyGoalStateEvent(@, e), !.n = @ + 1,
            !.last = CASE e.type = "output" /\ e.verifier ->
                            IF e.verdict = "PASS" THEN "pass" ELSE "fail"
                       [] e.type = "gate" /\ e.verifier /\ ~e.passed -> "fail"
                       [] OTHER -> @]
    /\ UNCHANGED nodeVars

ContinuationEnds ==
    /\ GoalAt("events") /\ \A n \in Driven : Settled(n)
    /\ IF \E n \in Driven : NodeAt(n, "threw") THEN goal' = [goal EXCEPT !.pc = "failed"]
       ELSE \E outcome \in {"FAIL", "CANCELLED"} \cup
                IF \A n \in Driven : node[n].exit = "ok" THEN {"PASS"} ELSE {} :
              goal' = [goal EXCEPT !.pc = "post", !.state.outcome = outcome]
    /\ UNCHANGED nodeVars

PostContinuationResult ==
    /\ GoalAt("post")
    /\ LET terminal == TerminalResult(goal.state)
       IN  IF terminal # "none" THEN End(terminal)
           ELSE IF IsNoProgress(goal.before, goal.state) THEN End("no_progress_detected")
           ELSE goal' = [goal EXCEPT !.pc = "check", !.n = 0, !.before = CreateGoalState]
    /\ UNCHANGED nodeVars

GoalStep ==
    \/ ContinueGoalLoop \/ RunGoalContinuation \/ ContinuationEvent \/ ContinuationEnds
    \/ PostContinuationResult

----------------------------------------------------------------------------

RunOver ==
    /\ \A n \in Node \ Driven : Settled(n)
    /\ goal.pc \in {"off", "done", "failed"}

\* A driven node waits for its loop.
AgentStep(n) ==
    /\ n \in Driven => GoalAt("events")
    /\ \/ NodeStep(n)
       \/ SessionStep(n) /\ UNCHANGED node
    /\ UNCHANGED goal

Release == RunOver /\ lease # "closed" /\ ReleaseLease /\ UNCHANGED <<node, goal>>

Clock(n) == Tick(n) /\ UNCHANGED <<node, goal>>

Next ==
    \/ \E n \in Node :
        \/ AgentStep(n) \/ Clock(n)
        \/ ServerStep(n) /\ UNCHANGED <<node, goal>>
    \/ StartExecutor /\ UNCHANGED <<node, goal>>
    \/ Cancel /\ UNCHANGED <<node, goal>>
    \/ GoalStep
    \/ Release

Spec == Init /\ [][Next]_vars

\* Fibers run and clocks advance; the start of a server has a time-out of its own.  The
\* server owes nothing.
FairSpec ==
    /\ Spec
    /\ \A n \in Node :
        WF_vars(AgentStep(n)) /\ WF_vars(Clock(n))
    /\ WF_vars(GoalStep)
    /\ WF_vars(StartExecutor /\ UNCHANGED <<node, goal>>)
    /\ WF_vars(Release)

----------------------------------------------------------------------------
(* Properties *)

\* A goal passes only on a verdict that stands: after the verifier's last PASS no gate of
\* the verifier failed (recordGateAttempt, goalStateCompletionEvidence).
GoalPassedOnStandingVerdict ==
    goal.result = "passed" => goal.last = "pass" /\ goal.state.outcome = "PASS"

\* With wall-clock budgets for every call an attempt ends, however the server behaves,
\* and so does a goal loop, after at most its continuations (boundByAgentTimeout,
\* continueGoalLoop).
AgentWorkEnds ==
    /\ \A n \in Node : node[n].pc # "idle" /\ prof[n].envTimeout > 0 ~> Settled(n)
    /\ (goal.pc = "check" /\ \A n \in Driven : prof[n].envTimeout > 0) ~>
            goal.pc \in {"done", "failed"}

----------------------------------------------------------------------------
(* The inductive invariant behind the proofs (GoalLoopProofs).              *)

\* A verdict of PASS is the verifier's last word; no continuation is started beyond the
\* bound; and a loop that ended stays as it is.
LoopInv ==
    /\ goal.state.verdict = "PASS" => goal.last = "pass"
    /\ goal.pc = "continue" => goal.state.attempts < MaxContinuations
    /\ goal.result # "none" => goal.pc = "done"
    /\ goal.result = "passed" => goal.state.verdict = "PASS" /\ goal.state.outcome = "PASS"

\* Outside a continuation no driven node is at work.
RestInv ==
    goal.pc \in {"check", "continue", "post"} => \A n \in Driven : ~Calling(node[n])

GoalInv == LoopInv /\ RestInv
=============================================================================
