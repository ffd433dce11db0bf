------------------------------ MODULE AgentNode ------------------------------
(***************************************************************************)
(* One attempt of an agent node (src/runtime/agent-node): the prompt is       *)
(* rendered, models are tried in order until one answers, an output that does *)
(* not fit its schema is repaired, and a handoff is derived for the nodes that *)
(* depend on it.                                                             *)
(***************************************************************************)
EXTENDS AgentSession

VARIABLE node   \* a node's attempt

nodeVars == <<node, session>>

\* asked is the place of the model in the profile's list, 0 for the profile's own; an
\* attempt that was refused returned before it asked any.
NodePc == {"idle", "model", "repair", "handoff", "returned", "refused", "threw"}
Fresh == [pc |-> "idle", asked |-> 0, exit |-> "ok", valid |-> FALSE,
          empty |-> TRUE, repairs |-> 0, handoff |-> "none"]

Attempt == [pc : NodePc, asked : Nat, exit : Exits, valid : BOOLEAN, empty : BOOLEAN,
            repairs : Nat, handoff : {"none", "parsed", "minimal"}]

NodeTypeOK ==
    /\ SessionTypeOK
    /\ node \in [Node -> Attempt]
    /\ \A n \in Node : /\ node[n].asked <= Len(prof[n].models)
                       /\ node[n].repairs <= prof[n].repairs

NodeInit == SessionInit /\ node = [n \in Node |-> Fresh]

NodeAt(n, pc) == node[n].pc = pc
SetNode(n, r) == node' = [node EXCEPT ![n] = r]
Unsent == UNCHANGED <<prof, lease, cancelled, reg, sess, file, overlap>>
CallDone(n) == SetCall(n, NoCall)

----------------------------------------------------------------------------
(* Models *)

SelectNodeModelCandidates(p) == {i \in DOMAIN p.models : p.models[i] \in p.usable}

IsFirst(i, S) == i \in S /\ \A j \in S : i <= j

\* Without a candidate the model of the profile is used, unless a budget refused all.
OverBudget(p) == p.budget /\ p.models # <<>> /\ SelectNodeModelCandidates(p) = {}

DecideNodeModel(p, i) ==
    IF SelectNodeModelCandidates(p) = {} THEN i = 0
    ELSE IsFirst(i, SelectNodeModelCandidates(p))

\* What is left for when the model being asked fails.
NextCandidates(n) == {i \in SelectNodeModelCandidates(prof[n]) : i > node[n].asked}

RunModelAttempt(n, r, i) ==
    /\ SetNode(n, [r EXCEPT !.pc = "model", !.asked = i])
    /\ ExecuteRunner(n, "main", IF i = 0 THEN NoModel ELSE prof[n].models[i])

\* Rendering reads files the profile names; one that cannot be read fails the attempt.
RenderPathReferences(p) == ~p.unreadable

RenderAgentPrompt(n) == RenderPathReferences(prof[n])

ExecuteAgentNode(n) ==
    /\ NodeAt(n, "idle")
    /\ IF prof[n].missing \/ (RenderAgentPrompt(n) /\ OverBudget(prof[n]))
       THEN SetNode(n, [Fresh EXCEPT !.pc = "refused", !.exit = "agent"]) /\ UNCHANGED call
       ELSE IF ~RenderAgentPrompt(n)
       THEN SetNode(n, [Fresh EXCEPT !.pc = "threw"]) /\ UNCHANGED call
       ELSE \E i \in 0 .. Len(prof[n].models) :
                DecideNodeModel(prof[n], i) /\ RunModelAttempt(n, Fresh, i)
    /\ Unsent

\* Only an infrastructure failure goes on to the next model.
ShouldUseAttemptResult(n) == call[n].exit # "infra" \/ NextCandidates(n) = {}

RunSelectedModel(n) ==
    /\ NodeAt(n, "model") /\ CallAt(n, "back") /\ ~ShouldUseAttemptResult(n)
    /\ \E i \in NextCandidates(n) :
        IsFirst(i, NextCandidates(n)) /\ RunModelAttempt(n, node[n], i)
    /\ Unsent

----------------------------------------------------------------------------
(* Output and handoff *)

RepairAgain(n, repairs) == repairs < prof[n].repairs

SelectValidStructuredOutput(n, valid) == prof[n].schema => valid

OutputRepairContext(n, exit, valid) ==
    ~SelectValidStructuredOutput(n, valid) /\ exit = "ok"

MaybeDeriveHandoff(n, r) ==
    \/ ~prof[n].handoff /\ SetNode(n, [r EXCEPT !.pc = "returned"]) /\ CallDone(n)
    \/ /\ prof[n].handoff /\ ~r.empty      \* the output is a handoff itself
       /\ SetNode(n, [r EXCEPT !.pc = "returned", !.handoff = "parsed"]) /\ CallDone(n)
    \/ /\ prof[n].handoff
       /\ IF r.empty
          THEN SetNode(n, [r EXCEPT !.pc = "returned", !.handoff = "minimal"]) /\ CallDone(n)
          ELSE SetNode(n, [r EXCEPT !.pc = "handoff"]) /\ ExecuteRunner(n, "handoff", NoModel)

\* A structured answer that fits is taken whatever the exit code; a good exit with one
\* that does not is repaired.
FinalizeAgentOutput(n) ==
    /\ NodeAt(n, "model") /\ CallAt(n, "back") /\ ShouldUseAttemptResult(n)
    /\ LET r == [node[n] EXCEPT !.exit = call[n].exit, !.valid = call[n].valid,
                                !.empty = call[n].exit = "infra"]
       IN  IF OutputRepairContext(n, r.exit, r.valid) /\ RepairAgain(n, 0)
           THEN /\ SetNode(n, [r EXCEPT !.pc = "repair", !.repairs = 1])
                /\ ExecuteRunner(n, "repair", NoModel)
           ELSE MaybeDeriveHandoff(n, r)
    /\ Unsent

RepairedOnce(n) ==
    /\ NodeAt(n, "repair") /\ CallAt(n, "back")
    /\ LET r == [node[n] EXCEPT !.valid = call[n].valid, !.empty = call[n].exit = "infra"]
       IN  MaybeDeriveHandoff(n, r)
    /\ Unsent

\* Each repair starts from the output of the one before; the last output is kept, good
\* or not, and the exit code stays the one of the agent.
RunOutputRepair(n) ==
    /\ NodeAt(n, "repair") /\ CallAt(n, "back")
    /\ LET r == [node[n] EXCEPT !.valid = call[n].valid, !.empty = call[n].exit = "infra"]
           passed == call[n].exit = "ok" /\ call[n].valid
       IN  IF ~passed /\ RepairAgain(n, node[n].repairs)
           THEN /\ SetNode(n, [r EXCEPT !.repairs = @ + 1])
                /\ ExecuteRunner(n, "repair", NoModel)
           ELSE MaybeDeriveHandoff(n, r)
    /\ Unsent

\* A finalizer that fails, in any way, leaves a minimal handoff.
RunHandoffFinalizer(n) ==
    /\ NodeAt(n, "handoff") /\ call[n].pc \in {"back", "threw"}
    /\ \E made \in {"minimal"} \cup IF CallAt(n, "back") /\ call[n].exit # "infra"
                                    THEN {"parsed"} ELSE {} :
        SetNode(n, [node[n] EXCEPT !.pc = "returned", !.handoff = made])
    /\ CallDone(n) /\ Unsent

\* A rejected call of the node or of a repair is an error of the attempt.
AttemptThrows(n) ==
    /\ node[n].pc \in {"model", "repair"} /\ CallAt(n, "threw")
    /\ SetNode(n, [node[n] EXCEPT !.pc = "threw"])
    /\ CallDone(n) /\ Unsent

NodeStep(n) ==
    \/ ExecuteAgentNode(n) \/ RunSelectedModel(n) \/ FinalizeAgentOutput(n)
    \/ RunOutputRepair(n) \/ RunHandoffFinalizer(n) \/ AttemptThrows(n)

Returned(n) == node[n].pc \in {"returned", "refused"}
Settled(n) == Returned(n) \/ NodeAt(n, "threw")

----------------------------------------------------------------------------
(* Properties *)

\* What an attempt that asked a model returns as good has an output that fits the node's schema, unless
\* every repair was spent on it, has a handoff when the run asks for them, and left the
\* protected files as they were, unless two guarded processes shared the worktree
\* (finalizeAgentOutput, maybeDeriveHandoff, verifyAndRestore).
ReturnedResultIsSound ==
    \A n \in Node : NodeAt(n, "returned") =>
        /\ node[n].exit = "ok" /\ prof[n].schema /\ ~node[n].valid =>
                node[n].repairs = prof[n].repairs
        /\ prof[n].handoff => node[n].handoff # "none"
        /\ ~overlap /\ (\A m \in Node : ~CallAt(m, "process")) => file = "written"

----------------------------------------------------------------------------
(* The inductive invariants behind the proofs (GoalLoopProofs).             *)

\* A call is made only for an attempt under way; repairs come after the models, and an
\* output that does not fit leaves them only when all are spent.
Calling(r) == r.pc \in {"model", "repair", "handoff"}

AttemptFits(p, r, c) ==
    /\ Calling(r) <=> c.pc # "off"
    /\ r.pc = "model" => r.repairs = 0
    /\ r.pc \in {"handoff", "returned"} =>
          (r.exit = "ok" /\ p.schema /\ ~r.valid => r.repairs = p.repairs)
    /\ r.pc = "returned" => (p.handoff => r.handoff # "none")

AttemptInv == \A n \in Node : AttemptFits(prof[n], node[n], call[n])
=============================================================================
