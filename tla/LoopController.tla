--------------------------- MODULE LoopController ---------------------------
(***************************************************************************)
(* `moka loop-controller` (src/loop): drains the backlog one ticket at a      *)
(* time: launch a run, poll its workflow, find its pull request, follow the   *)
(* required checks, remediate or admin-merge, refresh the backlog, go on.     *)
(*                                                                         *)
(* Around it, external: the workflows and pull requests of the runs, the      *)
(* checks CI reports, people who merge, close or edit the backlog on main.    *)
(* The child-run submission is the injected seam of ControllerDeps; Submission *)
(* models what stands behind it.                                             *)
(***************************************************************************)
EXTENDS Tickets

CONSTANTS
    Ticket,         \* ids, numbers greater than NoTicket
    Backlogs,       \* backlogs over Ticket that main may hold
    Options,        \* values of --root (NoTicket for none) and --strategy
    CheckLists,     \* lists of checks a pull request may show, as sets of checks
    TokenMounted,   \* the admin token is mounted
    MaxMergePolls, MaxRemediationAttempts, MaxRetries,
    MaxFrames,      \* bound: reads of a workflow that is still running
    MaxDisturbances \* bound: edits of the backlog by people, restarts of the pod

ASSUME TicketsAreIds == Ticket \subseteq Nat \ {NoTicket}
ASSUME BacklogsTyped == \A b \in Backlogs : b.ids \subseteq Ticket
ASSUME BudgetsTyped ==
    /\ MaxMergePolls \in Nat \ {0} /\ MaxRemediationAttempts \in Nat \ {0}
    /\ MaxRetries \in Nat /\ MaxFrames \in Nat \ {0}
    /\ MaxDisturbances \in Nat

VARIABLES
    main,       \* [backlog, st]: the backlog on the base branch
    wf,         \* phase of the workflow the controller follows
    pr,         \* pull request of a ticket's last run
    disturbances,
    options,    \* --root and --strategy
    ctl,        \* controller: program counter and the ticket it is on
    tasks,      \* backlog records it holds
    passed, blocked,
    frames,     \* pollLoop: error counts of the calls that are still open, innermost last
    polls, attempts,
    launched,   \* create-new-pr runs of this controller, by ticket
    remediated, \* update-existing-pr runs of this controller, by ticket
    read        \* the checks it decided to merge by force on

world == <<main, wf, pr, disturbances>>
budget == <<frames, polls, attempts>>
history == <<launched, remediated, read>>
vars == <<world, options, ctl, tasks, passed, blocked, budget, history>>

Phases == {"none", "Running", "Succeeded", "Failed", "Error"}
Active == {"start", "select", "submit", "poll", "resolvePr", "state", "checks",
           "admin", "refresh", "finish"}
PollGaveUp == "pollGaveUp"

TypeOK ==
    /\ main \in [backlog : Backlogs, st : [Ticket -> Statuses]]
    /\ wf \in Phases
    /\ pr \in [Ticket -> {"none", "open", "merged", "closed"}]
    /\ read \in CheckLists \cup {{}}
    /\ disturbances \in 0 .. MaxDisturbances
    /\ options \in Options
    /\ ctl \in [pc : Active \cup {"finished", "failed", PollGaveUp},
                ticket : Ticket \cup {NoTicket}]
    /\ tasks \in [backlog : Backlogs, st : [Ticket -> Statuses]]
    /\ passed \subseteq Ticket /\ blocked \subseteq Ticket
    /\ frames \in Seq(0 .. MaxRetries)
    /\ polls \in 0 .. MaxMergePolls /\ attempts \in 0 .. MaxRemediationAttempts
    /\ launched \in [Ticket -> Nat] /\ remediated \in [Ticket -> Nat]

NoRuns == [t \in Ticket |-> 0]

Init ==
    /\ main \in [backlog : Backlogs, st : {[t \in Ticket |-> "To Do"]}]
    /\ options \in Options
    /\ wf = "none" /\ pr = [t \in Ticket |-> "none"]
    /\ disturbances = 0
    /\ ctl = [pc |-> "start", ticket |-> NoTicket]
    /\ tasks = main /\ passed = {} /\ blocked = {}
    /\ frames = <<>> /\ polls = 0 /\ attempts = 0
    /\ launched = NoRuns /\ remediated = NoRuns /\ read = {}

At(pc) == ctl.pc = pc
Goto(pc) == ctl' = [ctl EXCEPT !.pc = pc]

----------------------------------------------------------------------------
(* Selection: passed tickets are read as Done, resolved candidates are dropped *)
(* from a view one after the other.                                          *)

OverlayGraph == [t \in Ticket |-> IF t \in passed THEN "Done" ELSE tasks.st[t]]

\* The candidates when drop[1] .. drop[n] have been dropped from the view.
SelectAfterSkips(st, drop, n) ==
    SelectNextTicket(tasks.backlog, st,
                     tasks.backlog.ids \ {drop[i] : i \in 1 .. n}, options)

\* The first candidate that is not resolved; each one before it surfaced, and was dropped.
SelectUnresolved(st, resolved) ==
    {t \in (Ticket \cup {NoTicket}) \ resolved :
        \E n \in 0 .. Cardinality(resolved) : \E drop \in [1 .. n -> resolved] :
            /\ \A i \in 1 .. n : drop[i] \in SelectAfterSkips(st, drop, i - 1)
            /\ t \in SelectAfterSkips(st, drop, n)}

OnlyPassedSkipped == SelectUnresolved(OverlayGraph, passed)

BlockedTakenAsDone ==
    LET overlay == [t \in Ticket |-> IF t \in passed \cup blocked THEN "Done"
                                    ELSE tasks.st[t]]
    IN  SelectUnresolved(overlay, passed \cup blocked)

SelectReadyChain == SelectUnresolved(OverlayGraph, passed \cup blocked)

\* loadGraph, loop.start and the queued snapshot: a cyclic backlog ends the loop.
RunLoopController ==
    /\ At("start")
    /\ tasks' = main
    /\ IF /\ BuildTicketGraphOk(main.backlog)
          /\ DependencyBatches(TicketGraph(main.backlog), main.backlog.ids) # <<>>
       THEN Goto("select") ELSE Goto("failed")
    /\ UNCHANGED <<world, options, passed, blocked, budget, history>>

DrainStep ==
    /\ At("select")
    /\ IF ~BuildTicketGraphOk(tasks.backlog) THEN Goto("failed")
       ELSE \E t \in SelectReadyChain :
                IF t = NoTicket THEN Goto("finish")
                ELSE ctl' = [pc |-> "submit", ticket |-> t]
    /\ wf' = "none" /\ polls' = 0 /\ attempts' = 0 /\ read' = {}
    /\ UNCHANGED <<main, pr, disturbances, options, tasks, passed, blocked, frames,
                   launched, remediated>>

----------------------------------------------------------------------------
(* One ticket *)

BlockNode(t) ==
    /\ blocked' = blocked \cup {t}
    /\ ctl' = [pc |-> "select", ticket |-> NoTicket]

PassNode(t) == Goto("refresh")

\* A fresh run id, branch and workflow each time.
SubmitRun ==
    /\ At("submit")
    /\ wf' = "Running"
    /\ pr' = [pr EXCEPT ![ctl.ticket] = "none"]
    /\ launched' = [launched EXCEPT ![ctl.ticket] = @ + 1]
    /\ frames' = <<0>>
    /\ Goto("poll")
    /\ UNCHANGED <<main, disturbances, options, tasks, passed, blocked, polls,
                   attempts, remediated, read>>

\* An unknown phase reads as Running.  A read that finds the workflow running opens
\* another call inside the error handler of this one.
PollLoopRead ==
    /\ At("poll")
    /\ \/ wf = "Running" /\ Len(frames) < MaxFrames
          /\ frames' = Append(frames, 0) /\ UNCHANGED <<ctl, blocked>>
       \/ wf = "Succeeded" /\ Goto("resolvePr")
          /\ frames' = <<>> /\ UNCHANGED blocked
       \/ wf \in {"Failed", "Error"} /\ BlockNode(ctl.ticket)
          /\ frames' = <<>>
    /\ UNCHANGED <<world, options, tasks, passed, polls, attempts, history>>

\* A failed read retries in the innermost call that has budget left; the calls inside
\* it fail, each handing its error to the handler around it.
HandlePollError ==
    /\ At("poll")
    /\ LET open == {i \in DOMAIN frames : frames[i] < MaxRetries}
       IN  IF open = {}
           THEN frames' = <<>> /\ Goto(PollGaveUp)
           ELSE LET i == CHOOSE j \in open : \A k \in open : k <= j
                IN  /\ frames' = [SubSeq(frames, 1, i) EXCEPT ![i] = @ + 1]
                    /\ UNCHANGED ctl
    /\ UNCHANGED <<world, options, tasks, passed, blocked, polls, attempts,
                   history>>

\* Only an open pull request is found.  Arming the merge is a merge call for a
\* "fixable" pull request, which selects no action.
ResolvePrForRun ==
    /\ At("resolvePr")
    /\ IF pr[ctl.ticket] = "open"
       THEN Goto("state") /\ UNCHANGED blocked ELSE BlockNode(ctl.ticket)
    /\ UNCHANGED <<world, options, tasks, passed, budget, history>>

\* A check is [required, conclusion]; a commit status of state "error" reads as one.
ConclusionClass(c) ==
    CASE c \in {"failure", "action_required"} -> "fixable"
      [] c \in {"cancelled", "timed_out", "error"} -> "infra-down"
      [] OTHER -> "none"

OutageBeforeFailure(list) ==
    LET signals == {ConclusionClass(c.conclusion) : c \in {d \in list : d.required}}
    IN  IF "infra-down" \in signals THEN "infra-down"
        ELSE IF "fixable" \in signals THEN "fixable"
        ELSE "indeterminate"

ClassifyRequiredChecks(list) ==
    LET signals == {ConclusionClass(c.conclusion) : c \in {d \in list : d.required}}
    IN  IF "fixable" \in signals THEN "fixable"
        ELSE IF "infra-down" \in signals THEN "infra-down"
        ELSE "indeterminate"

ClassifyMergeSignal ==
    /\ At("state")
    /\ IF pr[ctl.ticket] = "merged" THEN PassNode(ctl.ticket) ELSE Goto("checks")
    /\ UNCHANGED <<world, options, tasks, passed, blocked, budget, history>>

\* CI, and the push of a remediation run, may change the list between any two reads.
ReadChecks(signal) ==
    /\ At("checks")
    /\ \E list \in CheckLists :
        /\ ClassifyRequiredChecks(list) = signal
        /\ read' = IF signal = "infra-down" THEN list ELSE {}

\* The remediation run is not waited for.
RemediateNode ==
    /\ ReadChecks("fixable")
    /\ IF attempts >= MaxRemediationAttempts
       THEN BlockNode(ctl.ticket) /\ UNCHANGED <<attempts, remediated>>
       ELSE /\ attempts' = attempts + 1
            /\ remediated' = [remediated EXCEPT ![ctl.ticket] = @ + 1]
            /\ Goto("state") /\ UNCHANGED blocked
    /\ UNCHANGED <<main, wf, pr, disturbances, options, tasks, passed,
                   frames, polls, launched>>

WaitsUncounted ==
    /\ ReadChecks("indeterminate")
    /\ Goto("state")
    /\ UNCHANGED <<world, options, tasks, passed, blocked, budget, launched, remediated>>

WaitNode ==
    /\ ReadChecks("indeterminate")
    /\ IF polls >= MaxMergePolls
       THEN BlockNode(ctl.ticket) /\ UNCHANGED polls
       ELSE polls' = polls + 1 /\ Goto("state") /\ UNCHANGED blocked
    /\ UNCHANGED <<world, options, tasks, passed, frames, attempts,
                   launched, remediated>>

SelectMergeAction ==
    /\ ReadChecks("infra-down")
    /\ Goto("admin")
    /\ UNCHANGED <<world, options, tasks, passed, blocked, budget, launched,
                   remediated>>

\* A merge of t lands its branch; whether the run had set the ticket Done there or not.
Land(t) ==
    /\ pr' = [pr EXCEPT ![t] = "merged"]
    /\ \E s \in {main.st[t], "Done"} : main' = [main EXCEPT !.st[t] = s]

\* Without the token, on a conflict, or for a pull request that is gone: blocked.
AdminMerge(t) ==
    {"blocked"} \cup IF TokenMounted /\ pr[t] \in {"open", "merged"} THEN {"merged"} ELSE {}

AdminMergeNode ==
    /\ At("admin")
    /\ \E outcome \in AdminMerge(ctl.ticket) :
        IF outcome = "merged"
        THEN /\ IF pr[ctl.ticket] = "open" THEN Land(ctl.ticket) ELSE UNCHANGED <<pr, main>>
             /\ PassNode(ctl.ticket) /\ UNCHANGED blocked
        ELSE BlockNode(ctl.ticket) /\ UNCHANGED <<pr, main>>
    /\ UNCHANGED <<wf, disturbances, options, tasks, passed, budget, history>>

RefreshBacklog ==
    /\ At("refresh")
    /\ tasks' = main
    /\ passed' = passed \cup {ctl.ticket}
    /\ ctl' = [pc |-> "select", ticket |-> NoTicket]
    /\ UNCHANGED <<world, options, blocked, budget, history>>

LoopFinish ==
    /\ At("finish")
    /\ Goto("finished")
    /\ UNCHANGED <<world, options, tasks, passed, blocked, budget, history>>

\* Any seam but the workflow read: gh, submit, git or an event post that fails ends the
\* controller, the post as a defect.
SeamFails ==
    /\ ctl.pc \in Active \ {"poll"}
    /\ Goto("failed")
    /\ UNCHANGED <<world, options, tasks, passed, blocked, budget, history>>

\* Nothing of the controller survives its pod.
PodRestarts ==
    /\ ctl.pc \in {"failed", PollGaveUp}
    /\ disturbances < MaxDisturbances /\ disturbances' = disturbances + 1
    /\ wf' = "none"
    /\ ctl' = [pc |-> "start", ticket |-> NoTicket]
    /\ passed' = {} /\ blocked' = {}
    /\ frames' = <<>> /\ polls' = 0 /\ attempts' = 0
    /\ launched' = NoRuns /\ remediated' = NoRuns /\ read' = {}
    /\ UNCHANGED <<main, pr, options, tasks>>

----------------------------------------------------------------------------
(* The world *)

private == <<options, ctl, tasks, passed, blocked, budget, history>>

\* The workflow ends; a successful one normally leaves an open pull request.
WorkflowEnds ==
    /\ wf = "Running"
    /\ wf' \in {"Succeeded", "Failed", "Error"}
    /\ \E s \in IF wf' = "Succeeded" THEN {"none", "open"} ELSE {"none"} :
            pr' = [pr EXCEPT ![ctl.ticket] = s]
    /\ UNCHANGED <<main, disturbances, private>>

SomeoneMerges(t) ==
    /\ pr[t] = "open" /\ Land(t)
    /\ UNCHANGED <<wf, disturbances, private>>

SomeoneCloses ==
    /\ ctl.ticket # NoTicket /\ pr[ctl.ticket] = "open"
    /\ pr' = [pr EXCEPT ![ctl.ticket] = "closed"]
    /\ UNCHANGED <<main, wf, disturbances, private>>

SomeoneEdits ==
    /\ disturbances < MaxDisturbances /\ disturbances' = disturbances + 1
    /\ \/ \E t \in Ticket, s \in Statuses : main' = [main EXCEPT !.st[t] = s]
       \/ \E b \in Backlogs : main' = [main EXCEPT !.backlog = b]
    /\ UNCHANGED <<wf, pr, private>>

Controller ==
    \/ RunLoopController \/ DrainStep \/ SubmitRun \/ PollLoopRead
    \/ ResolvePrForRun \/ ClassifyMergeSignal \/ RemediateNode \/ WaitNode
    \/ SelectMergeAction \/ AdminMergeNode \/ RefreshBacklog \/ LoopFinish

World ==
    \/ WorkflowEnds \/ SomeoneCloses \/ SomeoneEdits
    \/ \E t \in Ticket : SomeoneMerges(t)

Next == Controller \/ HandlePollError \/ SeamFails \/ PodRestarts \/ World

Spec == Init /\ [][Next]_vars

\* The controller is one fiber that never parks for good; workflows have a deadline.
FairSpec ==
    /\ Spec
    /\ WF_vars(Controller)
    /\ WF_vars(WorkflowEnds)

----------------------------------------------------------------------------
(* Properties *)

\* A ticket is launched only when everything it depends on is Done in the backlog the
\* loop read last or was landed by this loop: skipping a blocked candidate
\* (selectReadyChain) never unblocks its dependents.
LaunchedAfterDependencies ==
    [][\A t \in Ticket : launched'[t] = launched[t] + 1 =>
            \A d \in DependencyPredecessorIds(TicketGraph(tasks.backlog), t) :
                tasks.st[d] = "Done" \/ (d \in passed /\ pr[d] = "merged")]_vars

\* One controller launches a ticket at most once, however stale the refreshed backlog
\* (passed overlay, blocked set), and remediates it within its budget.
LaunchedOnce ==
    \A t \in Ticket : launched[t] <= 1 /\ remediated[t] <= MaxRemediationAttempts

\* A ticket counts as passed only when its pull request is merged, and the loop itself
\* merges only what it read to be an outage: no required check failed and one was
\* cancelled, timed out or in error (adminMergeNode, POLL_ACTION).
PassedMeansMerged ==
    /\ \A t \in passed : pr[t] = "merged"
    /\ At("admin") =>
        LET required == {c.conclusion : c \in {d \in read : d.required}}
        IN  /\ required \cap {"failure", "action_required"} = {}
            /\ required \cap {"cancelled", "timed_out", "error"} # {}

\* The controller ends: every wait is bounded by a budget or by a workflow that ends.
LoopEnds == <>[](ctl.pc \in {"finished", "failed", PollGaveUp})
=============================================================================
