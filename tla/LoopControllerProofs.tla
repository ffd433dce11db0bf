----------------------- MODULE LoopControllerProofs -----------------------
(***************************************************************************)
(* Proofs about the ticket loop (LoopController, src/loop), for every backlog *)
(* and every budget.  The inductive invariant LoopInv relates the step the    *)
(* controller is at, the ticket it is on, the sets it has resolved and the    *)
(* pull requests, in four parts: TicketFits, SelectionFits, MergeFits and      *)
(* BudgetFits.  What the selection promises is one lemma about the operators   *)
(* of Tickets (SelectedIsFresh); how it orders the ready tickets does not       *)
(* matter to these results.                                                  *)
(***************************************************************************)
EXTENDS LoopController, SequenceTheorems, WellFoundedInduction, TLAPS

OnTicket == {"submit", "poll", "resolvePr", "state", "checks", "admin", "refresh",
             PollGaveUp}
Resolved == passed \cup blocked

\* The controller is on a ticket it has not resolved, and on none between tickets; a
\* workflow that runs is the one of that ticket.
TicketFits ==
    /\ ctl.pc \in OnTicket => ctl.ticket \in Ticket \ Resolved
    /\ ctl.pc \in {"start", "select", "finish", "finished"} => ctl.ticket = NoTicket
    /\ wf = "Running" => ctl.pc \in {"poll", PollGaveUp}

\* What is about to be submitted waits for nothing.
SelectionFits ==
    At("submit") =>
        \A d \in DependencyPredecessorIds(TicketGraph(tasks.backlog), ctl.ticket) :
            OverlayGraph[d] = "Done"

\* A ticket passes with its pull request merged, by force only over an outage.
MergeFits ==
    /\ \A t \in passed : pr[t] = "merged"
    /\ At("refresh") => pr[ctl.ticket] = "merged"
    /\ At("admin") => ClassifyRequiredChecks(read) = "infra-down"

\* Only tickets that are resolved or in work were launched, once; the one in work has
\* been remediated as often as its budget says.
BudgetFits ==
    /\ \A t \in Ticket : launched[t] > 0 => t \in Resolved \cup {ctl.ticket}
    /\ \A t \in Ticket : launched[t] = 0 => remediated[t] = 0
    /\ \A t \in Ticket : launched[t] <= 1 /\ remediated[t] <= MaxRemediationAttempts
    /\ At("submit") => launched[ctl.ticket] = 0 /\ attempts = 0
    /\ ctl.pc \in OnTicket => remediated[ctl.ticket] = attempts
    /\ ctl.pc \in OnTicket \ {"submit"} => launched[ctl.ticket] = 1

LoopInv == TypeOK /\ TicketFits /\ SelectionFits /\ MergeFits /\ BudgetFits

----------------------------------------------------------------------------
(* The data of the model. *)

\* A predecessor is a ticket of the graph (dependencyPredecessorIds).
LEMMA PredecessorsAreTickets ==
    ASSUME NEW b \in Backlogs, NEW t
    PROVE  DependencyPredecessorIds(TicketGraph(b), t) \subseteq Ticket
  BY BacklogsTyped DEF DependencyPredecessorIds, TicketGraph

\* What selection returns is ready: all its predecessors are Done (isReadyTicket).
LEMMA SelectedIsReady ==
    ASSUME NEW b, NEW st, NEW view, NEW o,
           NEW t \in SelectNextTicket(b, st, view, o), t # NoTicket
    PROVE  \A d \in DependencyPredecessorIds(TicketGraph(b), t) : st[d] = "Done"
<1>1. t \in SelectReadyTickets(b, st, view, o)
  BY DEF SelectNextTicket
<1>2. IsReadyTicket(b, st, view, o.includeParents, t)
  BY <1>1 DEF SelectReadyTickets
<1> QED
  BY <1>2 DEF IsReadyTicket

\* What the chain of selections returns is no ticket, or one that is neither passed nor
\* blocked and whose predecessors are Done or passed (selectReadyChain).
LEMMA SelectedIsFresh ==
    ASSUME NEW t \in SelectReadyChain, t # NoTicket
    PROVE  /\ t \in Ticket \ Resolved
           /\ \A d \in DependencyPredecessorIds(TicketGraph(tasks.backlog), t) :
                OverlayGraph[d] = "Done"
<1>1. t \in Ticket \ Resolved
  BY DEF SelectReadyChain, SelectUnresolved, Resolved
<1>2. PICK n, drop : t \in SelectAfterSkips(OverlayGraph, drop, n)
  BY DEF SelectReadyChain, SelectUnresolved
<1> QED
  BY <1>1, <1>2, SelectedIsReady DEF SelectAfterSkips

\* A list read as an outage shows one, and no failure (classifyRequiredChecks).
LEMMA OutageHasNoFailure ==
    ASSUME NEW list, ClassifyRequiredChecks(list) = "infra-down"
    PROVE  LET required == {c.conclusion : c \in {d \in list : d.required}}
           IN  /\ required \cap {"failure", "action_required"} = {}
               /\ required \cap {"cancelled", "timed_out", "error"} # {}
<1> DEFINE required == {c.conclusion : c \in {d \in list : d.required}}
           signals == {ConclusionClass(c.conclusion) : c \in {d \in list : d.required}}
<1>1. "fixable" \notin signals /\ "infra-down" \in signals
  BY DEF ClassifyRequiredChecks
<1>2. \A k \in required : ConclusionClass(k) \in signals
  OBVIOUS
<1>3. \A k \in {"failure", "action_required"} : ConclusionClass(k) = "fixable"
  BY DEF ConclusionClass
<1>4. PICK c \in {d \in list : d.required} : ConclusionClass(c.conclusion) = "infra-down"
  BY <1>1
<1>5. c.conclusion \in required
  BY <1>4
<1>6. c.conclusion \in {"cancelled", "timed_out", "error"}
  BY <1>4 DEF ConclusionClass
<1> HIDE DEF required, signals
<1>7. required \cap {"failure", "action_required"} = {}
  BY <1>1, <1>2, <1>3
<1>8. required \cap {"cancelled", "timed_out", "error"} # {}
  BY <1>5, <1>6
<1> QED
  BY <1>7, <1>8 DEF required

\* A non-empty set of indices has a last one.
LEMMA LastIndex ==
    ASSUME NEW n \in Nat, NEW S, S \subseteq 1 .. n, S # {}
    PROVE  \E j \in S : \A k \in S : k <= j
<1> DEFINE R == {ss \in Nat \X Nat : ss[1] < ss[2]}
           T == {n - k : k \in S}
<1>1. IsWellFoundedOn(R, Nat)
  BY NatLessThanWellFounded DEF OpToRel
<1> HIDE DEF R
<1>2. T \subseteq Nat /\ T # {}
  <2>1. \A k \in S : n - k \in Nat
    OBVIOUS
  <2> QED
    BY <2>1
<1>3. PICK x \in T : \A y \in T : <<y, x>> \notin R
  BY <1>1, <1>2, WFMin
<1>4. PICK j \in S : x = n - j
  BY <1>3
<1>5. ASSUME NEW k \in S PROVE k <= j
  <2>1. n - k \in T /\ n - k \in Nat /\ n - j \in Nat /\ k \in Int /\ j \in Int
    BY <1>2, <1>4
  <2>2. ~(n - k < n - j)
    BY <1>3, <1>4, <2>1 DEF R
  <2> QED
    BY <2>1, <2>2
<1> QED
  BY <1>5

\* A read that failed leaves error counts within the budget (handlePollError).
LEMMA RetriedFramesTyped ==
    ASSUME NEW s \in Seq(0 .. MaxRetries), NEW i \in DOMAIN s, s[i] < MaxRetries
    PROVE  [SubSeq(s, 1, i) EXCEPT ![i] = @ + 1] \in Seq(0 .. MaxRetries)
<1>1. i \in 1 .. Len(s)
  BY LenProperties
<1>2. SubSeq(s, 1, i) \in Seq(0 .. MaxRetries) /\ Len(SubSeq(s, 1, i)) = i
      /\ SubSeq(s, 1, i)[i] = s[i]
  <2>1. i \in Int /\ 1 \in Int /\ 1 <= i /\ \A k \in 1 .. i : k \in 1 .. Len(s)
    BY <1>1
  <2>2. \A k \in 1 .. i : s[k] \in 0 .. MaxRetries
    BY <2>1, ElementOfSeq
  <2>3. /\ SubSeq(s, 1, i) \in Seq(0 .. MaxRetries)
        /\ Len(SubSeq(s, 1, i)) = IF 1 <= i THEN i - 1 + 1 ELSE 0
        /\ \A k \in 1 .. i - 1 + 1 : SubSeq(s, 1, i)[k] = s[1 + k - 1]
    BY <2>1, <2>2, SubSeqProperties
  <2>4. i - 1 + 1 = i /\ 1 + i - 1 = i /\ i \in 1 .. i
    BY <2>1
  <2> QED
    BY <2>1, <2>3, <2>4
<1>3. s[i] + 1 \in 0 .. MaxRetries
  <2>1. s[i] \in 0 .. MaxRetries
    BY <1>1, ElementOfSeq
  <2> QED
    BY <2>1, BudgetsTyped
<1> QED
  BY <1>1, <1>2, <1>3, ExceptSeq

Pcs == Active \cup {"finished", "failed", PollGaveUp}
Control == [pc : Pcs, ticket : Ticket \cup {NoTicket}]
Snapshots == [backlog : Backlogs, st : [Ticket -> Statuses]]

\* Going to another step keeps the ticket.
LEMMA GotoKeepsTicket ==
    ASSUME ctl \in Control, NEW pc \in Pcs, Goto(pc)
    PROVE  ctl' \in Control /\ ctl'.pc = pc /\ ctl'.ticket = ctl.ticket
  BY DEF Goto, Control

LEMMA LeavingATicket ==
    ASSUME NEW pc \in Pcs, NEW t \in Ticket \cup {NoTicket}, ctl' = [pc |-> pc, ticket |-> t]
    PROVE  ctl' \in Control /\ ctl'.pc = pc /\ ctl'.ticket = t
  BY DEF Control

LEMMA BlockingATicket ==
    ASSUME NEW t \in Ticket, blocked \subseteq Ticket, BlockNode(t)
    PROVE  /\ ctl' \in Control /\ ctl'.pc = "select" /\ ctl'.ticket = NoTicket
           /\ blocked' = blocked \cup {t} /\ blocked' \subseteq Ticket
  BY LeavingATicket DEF BlockNode, Pcs, Active

\* Landing a branch merges its pull request; the backlog stays one.
LEMMA LandingTyped ==
    ASSUME main \in Snapshots, NEW t \in Ticket, Land(t)
    PROVE  main' \in Snapshots /\ pr' = [pr EXCEPT ![t] = "merged"]
<1>1. PICK s \in {main.st[t], "Done"} : main' = [main EXCEPT !.st[t] = s]
  BY DEF Land
<1>2. s \in Statuses
  BY DEF Snapshots, Statuses
<1> QED
  BY <1>1, <1>2 DEF Land, Snapshots

LEMMA InitLoop == Init => LoopInv
<1> SUFFICES ASSUME Init PROVE LoopInv
  OBVIOUS
<1>1. NoRuns \in [Ticket -> Nat] /\ \A t \in Ticket : NoRuns[t] = 0
  BY DEF NoRuns
<1>6. /\ ctl = [pc |-> "start", ticket |-> NoTicket]
      /\ wf = "none" /\ passed = {} /\ blocked = {} /\ read = {} /\ tasks = main
      /\ disturbances = 0 /\ polls = 0 /\ attempts = 0 /\ frames = <<>>
      /\ launched = NoRuns /\ remediated = NoRuns /\ options \in Options
  BY DEF Init
<1>5. ctl.pc = "start" /\ ctl.ticket = NoTicket /\ ctl \in Control
  BY <1>6 DEF Control, Pcs, Active
<1>2. TypeOK
  <2>1. main \in [backlog : Backlogs, st : [Ticket -> Statuses]]
    BY DEF Init, Statuses
  <2>2. frames \in Seq(0 .. MaxRetries)
    BY <1>6, EmptySeq
  <2>3. read \in CheckLists \cup {{}}
    BY <1>6
  <2>4. disturbances \in 0 .. MaxDisturbances /\ polls \in 0 .. MaxMergePolls
        /\ attempts \in 0 .. MaxRemediationAttempts
    <3>1. 0 \in 0 .. MaxDisturbances /\ 0 \in 0 .. MaxMergePolls
          /\ 0 \in 0 .. MaxRemediationAttempts
      BY BudgetsTyped
    <3> QED
      BY <1>6, <3>1
  <2>5. wf \in Phases /\ pr \in [Ticket -> {"none", "open", "merged", "closed"}]
    BY DEF Phases, Init
  <2> QED
    BY <1>1, <1>5, <1>6, <2>1, <2>2, <2>3, <2>4, <2>5 DEF TypeOK, Control, Pcs
<1>3. TicketFits /\ SelectionFits
  BY <1>5, <1>6 DEF TicketFits, SelectionFits, OnTicket, At, PollGaveUp
<1>4. MergeFits /\ BudgetFits
  <2>1. 0 <= 1 /\ 0 <= MaxRemediationAttempts /\ ~(0 > 0)
    BY BudgetsTyped
  <2> QED
    BY <1>1, <1>5, <1>6, <2>1 DEF MergeFits, BudgetFits, OnTicket, At, PollGaveUp
<1> QED
  BY <1>2, <1>3, <1>4 DEF LoopInv

----------------------------------------------------------------------------
(* Three shapes of a step of the controller: it goes on with its ticket, it blocks   *)
(* it, or it stops.                                                                *)

\* Going on with a ticket that is launched.
LEMMA StaysOnTicket ==
    ASSUME LoopInv, ctl.pc \in OnTicket \ {"submit"},
           ctl'.ticket = ctl.ticket, ctl'.pc \in OnTicket \ {"submit"},
           wf' = "Running" => ctl'.pc \in {"poll", PollGaveUp},
           UNCHANGED <<passed, blocked, attempts, launched, remediated>>
    PROVE  TicketFits' /\ SelectionFits' /\ BudgetFits'
<1> USE DEF LoopInv, OnTicket, At, PollGaveUp, Resolved
<1>1. TicketFits'
  BY DEF TicketFits
<1>2. SelectionFits'
  BY DEF SelectionFits
<1>3. BudgetFits'
  BY DEF BudgetFits
<1> QED
  BY <1>1, <1>2, <1>3

\* Blocking the ticket in work.
LEMMA LeavesTicketBlocked ==
    ASSUME LoopInv, ctl.pc \in OnTicket, BlockNode(ctl.ticket), wf' # "Running",
           UNCHANGED <<passed, launched, remediated>>
    PROVE  /\ TicketFits' /\ SelectionFits' /\ BudgetFits'
           /\ ctl' \in Control /\ ctl'.pc = "select" /\ blocked' \subseteq Ticket
<1>1. ctl.ticket \in Ticket /\ blocked \subseteq Ticket
  BY DEF LoopInv, TypeOK, TicketFits
<1>2. /\ ctl' \in Control /\ ctl'.pc = "select" /\ ctl'.ticket = NoTicket
      /\ blocked' = blocked \cup {ctl.ticket} /\ blocked' \subseteq Ticket
  BY <1>1, BlockingATicket
<1> USE DEF LoopInv, OnTicket, At, PollGaveUp, Resolved
<1>3. TicketFits' /\ SelectionFits'
  BY <1>2 DEF TicketFits, SelectionFits
<1>4. BudgetFits'
  BY <1>2 DEF BudgetFits
<1> QED
  BY <1>2, <1>3, <1>4

\* Stopping, or going between tickets, where no workflow is followed.
LEMMA LeavesTicketOpen ==
    ASSUME LoopInv, ctl'.ticket = ctl.ticket, wf' # "Running",
           \/ ctl'.pc = "failed"
           \/ /\ ctl'.pc \in {"select", "finish", "finished", "failed"}
              /\ ctl.pc \in {"start", "select", "finish"},
           UNCHANGED <<passed, blocked, launched, remediated>>
    PROVE  TicketFits' /\ SelectionFits' /\ BudgetFits'
<1> USE DEF LoopInv, OnTicket, At, PollGaveUp, Resolved
<1>1. TicketFits'
  BY DEF TicketFits
<1>2. SelectionFits'
  BY DEF SelectionFits
<1>3. BudgetFits'
  BY DEF BudgetFits
<1> QED
  BY <1>1, <1>2, <1>3

\* Between the steps that look at a pull request, merges last.
LEMMA MergesStand ==
    ASSUME MergeFits, \A t \in passed : pr'[t] = pr[t], UNCHANGED passed,
           ctl'.pc \notin {"refresh", "admin"}
    PROVE  MergeFits'
  BY DEF MergeFits, At

----------------------------------------------------------------------------
(* The steps of the controller. *)

LEMMA StartKeeps == ASSUME LoopInv, RunLoopController PROVE LoopInv'
<1>1. ctl.pc = "start" /\ ctl \in Control /\ main \in Snapshots
  BY DEF RunLoopController, At, LoopInv, TypeOK, Control, Snapshots, Pcs
<1>2. ctl' \in Control /\ ctl'.pc \in {"select", "failed"} /\ ctl'.ticket = ctl.ticket
  <2>1. Goto("select") \/ Goto("failed")
    BY DEF RunLoopController
  <2> QED
    BY <1>1, <2>1, GotoKeepsTicket DEF Pcs, Active
<1>3. wf' # "Running"
  BY <1>1 DEF RunLoopController, LoopInv, TicketFits, world, PollGaveUp
<1> USE DEF RunLoopController, world, budget, history
<1>4. TypeOK'
  BY <1>1, <1>2 DEF LoopInv, TypeOK, Control, Pcs, Snapshots
<1>5. TicketFits' /\ SelectionFits' /\ BudgetFits'
  BY <1>1, <1>2, <1>3, LeavesTicketOpen
<1>6. MergeFits'
  BY <1>2, MergesStand DEF LoopInv
<1> QED
  BY <1>4, <1>5, <1>6 DEF LoopInv

\* The loop goes on with a ticket that is fresh and waits for nothing, ends, or fails.
LEMMA DrainStepKeeps == ASSUME LoopInv, DrainStep PROVE LoopInv'
<1>1. ctl.pc = "select" /\ ctl.ticket = NoTicket /\ ctl \in Control
  BY DEF DrainStep, At, LoopInv, TypeOK, TicketFits, Control, Pcs
<1>2. \/ Goto("failed") \/ Goto("finish")
      \/ \E t \in SelectReadyChain :
            t # NoTicket /\ ctl' = [pc |-> "submit", ticket |-> t]
  BY DEF DrainStep
<1>3. /\ wf' = "none" /\ polls' = 0 /\ attempts' = 0 /\ read' = {}
      /\ UNCHANGED <<main, pr, disturbances, options, tasks, passed, blocked, frames,
                     launched, remediated>>
  BY DEF DrainStep
<1>4. 0 \in 0 .. MaxMergePolls /\ 0 \in 0 .. MaxRemediationAttempts
  BY BudgetsTyped
<1>5. ASSUME ctl' \in Control PROVE TypeOK'
  BY <1>3, <1>4, <1>5 DEF LoopInv, TypeOK, Control, Pcs, Phases
<1>6. CASE Goto("failed") \/ Goto("finish")
  <2>1. ctl' \in Control /\ ctl'.pc \in {"failed", "finish"} /\ ctl'.ticket = ctl.ticket
    BY <1>1, <1>6, GotoKeepsTicket DEF Pcs, Active
  <2>2. TicketFits' /\ SelectionFits' /\ BudgetFits'
    BY <1>1, <1>3, <2>1, LeavesTicketOpen
  <2>3. MergeFits'
    BY <1>3, <2>1, MergesStand DEF LoopInv
  <2> QED
    BY <1>5, <2>1, <2>2, <2>3 DEF LoopInv
<1>7. CASE \E t \in SelectReadyChain :
             t # NoTicket /\ ctl' = [pc |-> "submit", ticket |-> t]
  <2>1. PICK t \in SelectReadyChain :
          t # NoTicket /\ ctl' = [pc |-> "submit", ticket |-> t]
    BY <1>7
  <2>2. /\ t \in Ticket \ Resolved
        /\ \A d \in DependencyPredecessorIds(TicketGraph(tasks.backlog), t) :
                OverlayGraph[d] = "Done"
    BY <2>1, SelectedIsFresh
  <2>3. ctl' \in Control /\ ctl'.pc = "submit" /\ ctl'.ticket = t
    BY <2>1, <2>2, LeavingATicket DEF Pcs, Active
  <2>4. Resolved' = Resolved /\ OverlayGraph' = OverlayGraph
    BY <1>3 DEF Resolved, OverlayGraph
  <2>5. TicketFits'
    BY <1>3, <2>2, <2>3, <2>4 DEF TicketFits, PollGaveUp
  <2>6. SelectionFits'
    BY <1>3, <2>2, <2>3, <2>4 DEF SelectionFits
  <2>7. BudgetFits'
    <3>1. launched[t] = 0
      <4>1. launched[t] \in Nat /\ ~(launched[t] > 0)
        BY <1>1, <2>1, <2>2 DEF LoopInv, TypeOK, BudgetFits
      <4> QED
        BY <4>1
    <3>2. remediated[t] = 0
      BY <2>2, <3>1 DEF LoopInv, BudgetFits
    <3>3. \A u \in Ticket : launched[u] > 0 => u \in Resolved
      BY <1>1, TicketsAreIds DEF LoopInv, BudgetFits
    <3>4. ~(ctl'.pc \in OnTicket \ {"submit"}) /\ attempts' = 0
      BY <1>3, <2>3
    <3> QED
      BY <1>3, <2>3, <2>4, <3>1, <3>2, <3>3, <3>4 DEF LoopInv, BudgetFits
  <2>8. MergeFits'
    BY <1>3, <2>3, MergesStand DEF LoopInv
  <2> QED
    BY <1>5, <2>3, <2>5, <2>6, <2>7, <2>8 DEF LoopInv
<1> QED
  BY <1>2, <1>6, <1>7

\* The run of a ticket that is not resolved: no merged pull request is forgotten.
LEMMA SubmitRunKeeps == ASSUME LoopInv, SubmitRun PROVE LoopInv'
<1> DEFINE t == ctl.ticket
<1>1. /\ ctl.pc = "submit" /\ ctl \in Control /\ t \in Ticket \ Resolved
      /\ launched[t] = 0 /\ attempts = 0 /\ remediated[t] = 0 /\ ctl.ticket = t
  BY DEF SubmitRun, At, LoopInv, TypeOK, TicketFits, BudgetFits, OnTicket, Control, Pcs
<1>2. ctl' \in Control /\ ctl'.pc = "poll" /\ ctl'.ticket = t
  BY <1>1, GotoKeepsTicket DEF SubmitRun, Pcs, Active
<1>3. /\ wf' = "Running" /\ pr' = [pr EXCEPT ![t] = "none"]
      /\ launched' = [launched EXCEPT ![t] = @ + 1] /\ frames' = <<0>>
      /\ UNCHANGED <<main, disturbances, options, tasks, passed, blocked, polls,
                     attempts, remediated, read>>
  BY DEF SubmitRun
<1> HIDE DEF t
<1>4. launched' = [launched EXCEPT ![t] = 1]
  BY <1>1, <1>3
<1>5. TypeOK'
  <2>1. <<0>> \in Seq(0 .. MaxRetries)
    BY BudgetsTyped
  <2>2. launched' \in [Ticket -> Nat] /\ pr' \in [Ticket -> {"none", "open", "merged", "closed"}]
    <3>1. pr' = [pr EXCEPT ![t] = "none"]
      BY <1>3
    <3> QED
      BY <1>4, <3>1 DEF LoopInv, TypeOK
  <2> QED
    BY <1>2, <1>3, <2>1, <2>2 DEF LoopInv, TypeOK, Control, Pcs, Phases
<1>6. \A u \in Ticket : launched'[u] = IF u = t THEN 1 ELSE launched[u]
  BY <1>1, <1>4 DEF LoopInv, TypeOK
<1>7. Resolved' = Resolved
  BY <1>3 DEF Resolved
<1>8. TicketFits' /\ SelectionFits'
  BY <1>1, <1>2, <1>7 DEF TicketFits, SelectionFits, OnTicket, At
<1>9. BudgetFits'
  <2>1. \A u \in Ticket : launched'[u] > 0 => u \in Resolved' \cup {ctl'.ticket}
    BY <1>1, <1>2, <1>6, <1>7 DEF LoopInv, BudgetFits
  <2>2. \A u \in Ticket : launched'[u] = 0 => remediated'[u] = 0
    BY <1>3, <1>6 DEF LoopInv, BudgetFits
  <2>3. \A u \in Ticket : launched'[u] <= 1 /\ remediated'[u] <= MaxRemediationAttempts
    BY <1>3, <1>6 DEF LoopInv, BudgetFits
  <2>4. remediated'[t] = attempts' /\ launched'[t] = 1
    BY <1>1, <1>3, <1>6
  <2> QED
    BY <1>2, <2>1, <2>2, <2>3, <2>4 DEF BudgetFits, At
<1>10. MergeFits'
  <2>1. \A u \in passed : u \in Ticket /\ u # t
    BY <1>1 DEF Resolved, LoopInv, TypeOK
  <2>2. \A u \in passed : pr'[u] = pr[u]
    BY <1>3, <2>1 DEF LoopInv, TypeOK
  <2> QED
    BY <1>2, <1>3, <2>2, MergesStand DEF LoopInv
<1> QED
  BY <1>5, <1>8, <1>9, <1>10 DEF LoopInv

\* A read of the workflow: wait on, find the pull request, or block the ticket.
LEMMA PollLoopReadKeeps == ASSUME LoopInv, PollLoopRead PROVE LoopInv'
<1>1. ctl.pc = "poll" /\ ctl \in Control /\ ctl.ticket \in Ticket /\ MergeFits
  BY DEF PollLoopRead, At, LoopInv, TypeOK, TicketFits, OnTicket, Control, Pcs
<1>2. UNCHANGED <<main, wf, pr, disturbances, options, tasks, passed, polls, attempts,
                  launched, remediated, read>>
  BY DEF PollLoopRead, world, history
<1>3. \/ wf = "Running" /\ frames' = Append(frames, 0) /\ UNCHANGED <<ctl, blocked>>
      \/ wf = "Succeeded" /\ Goto("resolvePr") /\ frames' = <<>> /\ UNCHANGED blocked
      \/ wf \in {"Failed", "Error"} /\ BlockNode(ctl.ticket) /\ frames' = <<>>
  BY DEF PollLoopRead
<1>4. Append(frames, 0) \in Seq(0 .. MaxRetries) /\ << >> \in Seq(0 .. MaxRetries)
  <2>1. 0 \in 0 .. MaxRetries /\ frames \in Seq(0 .. MaxRetries)
    BY BudgetsTyped DEF LoopInv, TypeOK
  <2> QED
    BY <2>1, AppendProperties, EmptySeq
<1>5. ASSUME ctl' \in Control, blocked' \subseteq Ticket PROVE TypeOK'
  <2>1. frames' \in Seq(0 .. MaxRetries)
    BY <1>3, <1>4
  <2> QED
    BY <1>2, <1>5, <2>1 DEF LoopInv, TypeOK, Control, Pcs
<1>6. CASE wf = "Running" /\ UNCHANGED <<ctl, blocked>>
  <2>1. TicketFits' /\ SelectionFits' /\ BudgetFits'
    BY <1>1, <1>2, <1>6, StaysOnTicket DEF OnTicket
  <2>2. MergeFits' /\ TypeOK'
    BY <1>1, <1>2, <1>5, <1>6, MergesStand DEF LoopInv, TypeOK
  <2> QED
    BY <2>1, <2>2 DEF LoopInv
<1>7. CASE wf = "Succeeded" /\ Goto("resolvePr") /\ UNCHANGED blocked
  <2>1. ctl' \in Control /\ ctl'.pc = "resolvePr" /\ ctl'.ticket = ctl.ticket
    BY <1>1, <1>7, GotoKeepsTicket DEF Pcs, Active
  <2>2. TicketFits' /\ SelectionFits' /\ BudgetFits'
    BY <1>1, <1>2, <1>7, <2>1, StaysOnTicket DEF OnTicket
  <2>3. MergeFits' /\ TypeOK'
    BY <1>1, <1>2, <1>5, <1>7, <2>1, MergesStand DEF LoopInv, TypeOK
  <2> QED
    BY <2>2, <2>3 DEF LoopInv
<1>8. CASE wf \in {"Failed", "Error"} /\ BlockNode(ctl.ticket)
  <2>1. /\ TicketFits' /\ SelectionFits' /\ BudgetFits'
        /\ ctl' \in Control /\ ctl'.pc = "select" /\ blocked' \subseteq Ticket
    BY <1>1, <1>2, <1>8, LeavesTicketBlocked DEF OnTicket
  <2>2. MergeFits' /\ TypeOK'
    BY <1>1, <1>2, <1>5, <2>1, MergesStand
  <2> QED
    BY <2>1, <2>2 DEF LoopInv
<1> QED
  BY <1>3, <1>6, <1>7, <1>8

\* A read that fails: retried in an open call, or the last of them.
LEMMA HandlePollErrorKeeps == ASSUME LoopInv, HandlePollError PROVE LoopInv'
<1>1. ctl.pc = "poll" /\ ctl \in Control /\ ctl.ticket \in Ticket /\ MergeFits
  BY DEF HandlePollError, At, LoopInv, TypeOK, TicketFits, OnTicket, Control, Pcs
<1>2. UNCHANGED <<main, wf, pr, disturbances, options, tasks, passed, blocked, polls,
                  attempts, launched, remediated, read>>
  BY DEF HandlePollError, world, history
<1>3. /\ frames' \in Seq(0 .. MaxRetries)
      /\ Goto(PollGaveUp) \/ UNCHANGED ctl
  <2> DEFINE open == {i \in DOMAIN frames : frames[i] < MaxRetries}
             first == CHOOSE j \in open : \A k \in open : k <= j
  <2>1. frames \in Seq(0 .. MaxRetries)
    BY DEF LoopInv, TypeOK
  <2>2. CASE open = {}
    BY <2>2, EmptySeq DEF HandlePollError
  <2>3. CASE open # {}
    <3>1. \A i \in open : i \in 1 .. Len(frames)
      BY <2>1, LenProperties
    <3>2. \E j \in open : \A k \in open : k <= j
      BY <2>3, <3>1, LastIndex, <2>1, LenProperties
    <3>3. first \in open
      BY <3>2
    <3>4. frames' = [SubSeq(frames, 1, first) EXCEPT ![first] = @ + 1] /\ UNCHANGED ctl
      BY <2>3 DEF HandlePollError
    <3> HIDE DEF first
    <3>5. first \in DOMAIN frames /\ frames[first] < MaxRetries
      BY <3>3
    <3> QED
      BY <2>1, <3>4, <3>5, RetriedFramesTyped
  <2> QED
    BY <2>2, <2>3
<1>4. /\ ctl' \in Control /\ ctl'.pc \in {"poll", PollGaveUp} /\ ctl'.ticket = ctl.ticket
  BY <1>1, <1>3, GotoKeepsTicket DEF Pcs
<1>5. TicketFits' /\ SelectionFits' /\ BudgetFits'
  BY <1>1, <1>2, <1>4, StaysOnTicket DEF OnTicket, PollGaveUp
<1>6. MergeFits'
  BY <1>1, <1>2, <1>4, MergesStand DEF PollGaveUp
<1>7. TypeOK'
  BY <1>2, <1>3, <1>4 DEF LoopInv, TypeOK, Control, Pcs
<1> QED
  BY <1>5, <1>6, <1>7 DEF LoopInv

LEMMA ResolvePrKeeps == ASSUME LoopInv, ResolvePrForRun PROVE LoopInv'
<1>1. ctl.pc = "resolvePr" /\ ctl \in Control /\ MergeFits
  BY DEF ResolvePrForRun, At, LoopInv, TypeOK, Control, Pcs
<1>2. UNCHANGED <<main, wf, pr, disturbances, options, tasks, passed, frames, polls,
                  attempts, launched, remediated, read>>
  BY DEF ResolvePrForRun, world, budget, history
<1>3. wf' # "Running"
  BY <1>1, <1>2 DEF LoopInv, TicketFits, PollGaveUp
<1>4. /\ TicketFits' /\ SelectionFits' /\ BudgetFits'
      /\ ctl' \in Control /\ ctl'.pc \in {"state", "select"} /\ blocked' \subseteq Ticket
  <2>1. CASE Goto("state") /\ UNCHANGED blocked
    <3>1. ctl' \in Control /\ ctl'.pc = "state" /\ ctl'.ticket = ctl.ticket
      BY <1>1, <2>1, GotoKeepsTicket DEF Pcs, Active
    <3>2. TicketFits' /\ SelectionFits' /\ BudgetFits'
      BY <1>1, <1>2, <1>3, <2>1, <3>1, StaysOnTicket DEF OnTicket
    <3> QED
      BY <2>1, <3>1, <3>2 DEF LoopInv, TypeOK
  <2>2. CASE BlockNode(ctl.ticket)
    BY <1>1, <1>2, <1>3, <2>2, LeavesTicketBlocked DEF OnTicket
  <2> QED
    BY <2>1, <2>2 DEF ResolvePrForRun
<1>5. MergeFits' /\ TypeOK'
  BY <1>1, <1>2, <1>4, MergesStand DEF LoopInv, TypeOK, Control, Pcs
<1> QED
  BY <1>4, <1>5 DEF LoopInv

LEMMA ClassifyMergeSignalKeeps == ASSUME LoopInv, ClassifyMergeSignal PROVE LoopInv'
<1>1. ctl.pc = "state" /\ ctl \in Control
  BY DEF ClassifyMergeSignal, At, LoopInv, TypeOK, Control, Pcs
<1>2. UNCHANGED <<main, wf, pr, disturbances, options, tasks, passed, blocked, frames,
                  polls, attempts, launched, remediated, read>>
  BY DEF ClassifyMergeSignal, world, budget, history
<1>3. \/ pr[ctl.ticket] = "merged" /\ Goto("refresh")
      \/ Goto("checks")
  BY DEF ClassifyMergeSignal, PassNode
<1>4. wf' # "Running"
  BY <1>1, <1>2 DEF LoopInv, TicketFits, PollGaveUp
<1>5. /\ ctl' \in Control /\ ctl'.ticket = ctl.ticket
      /\ \/ ctl'.pc = "checks"
         \/ ctl'.pc = "refresh" /\ pr[ctl.ticket] = "merged"
  BY <1>1, <1>3, GotoKeepsTicket DEF Pcs, Active
<1>6. TicketFits' /\ SelectionFits' /\ BudgetFits'
  BY <1>1, <1>2, <1>4, <1>5, StaysOnTicket DEF OnTicket
<1>7. MergeFits' /\ TypeOK'
  BY <1>2, <1>5 DEF LoopInv, MergeFits, TypeOK, Control, Pcs, At
<1> QED
  BY <1>6, <1>7 DEF LoopInv

\* Every action that reads the checks starts from "checks" and notes what it read.
LEMMA ReadChecksReads ==
    ASSUME LoopInv, NEW signal, ReadChecks(signal)
    PROVE  /\ ctl.pc = "checks" /\ ctl \in Control /\ ctl.ticket \in Ticket
           /\ wf # "Running" /\ MergeFits
           /\ read' \in CheckLists \cup {{}}
           /\ signal = "infra-down" => ClassifyRequiredChecks(read') = "infra-down"
<1>1. ctl.pc = "checks" /\ ctl \in Control /\ ctl.ticket \in Ticket
  BY DEF ReadChecks, At, LoopInv, TypeOK, TicketFits, OnTicket, Control, Pcs
<1>2. PICK list \in CheckLists :
        /\ ClassifyRequiredChecks(list) = signal
        /\ read' = IF signal = "infra-down" THEN list ELSE {}
  BY DEF ReadChecks
<1>3. wf # "Running"
  BY <1>1 DEF LoopInv, TicketFits, PollGaveUp
<1> QED
  BY <1>1, <1>2, <1>3 DEF LoopInv

\* Remediation within the budget, and a blocked ticket beyond it.
LEMMA RemediateNodeKeeps == ASSUME LoopInv, RemediateNode PROVE LoopInv'
<1>1. /\ ctl.pc = "checks" /\ ctl \in Control /\ ctl.ticket \in Ticket
      /\ wf # "Running" /\ MergeFits /\ read' \in CheckLists \cup {{}}
  BY ReadChecksReads DEF RemediateNode
<1>2. UNCHANGED <<main, wf, pr, disturbances, options, tasks, passed, frames, polls,
                  launched>>
  BY DEF RemediateNode
<1>3. CASE attempts >= MaxRemediationAttempts
  <2>1. BlockNode(ctl.ticket) /\ UNCHANGED <<attempts, remediated>>
    BY <1>3 DEF RemediateNode
  <2>2. /\ TicketFits' /\ SelectionFits' /\ BudgetFits'
        /\ ctl' \in Control /\ ctl'.pc = "select" /\ blocked' \subseteq Ticket
    BY <1>1, <1>2, <2>1, LeavesTicketBlocked DEF OnTicket
  <2>3. MergeFits' /\ TypeOK'
    BY <1>1, <1>2, <2>1, <2>2, MergesStand DEF LoopInv, TypeOK, Control, Pcs
  <2> QED
    BY <2>2, <2>3 DEF LoopInv
<1>4. CASE ~(attempts >= MaxRemediationAttempts)
  <2> DEFINE t == ctl.ticket
  <2>1. /\ attempts' = attempts + 1
        /\ remediated' = [remediated EXCEPT ![ctl.ticket] = @ + 1]
        /\ Goto("state") /\ UNCHANGED blocked
    BY <1>4 DEF RemediateNode
  <2>2. ctl' \in Control /\ ctl'.pc = "state" /\ ctl'.ticket = ctl.ticket
    BY <1>1, <2>1, GotoKeepsTicket DEF Pcs, Active
  <2>3. remediated[ctl.ticket] = attempts /\ launched[ctl.ticket] = 1
    BY <1>1 DEF LoopInv, BudgetFits, OnTicket
  <2>4. attempts' \in 0 .. MaxRemediationAttempts
    <3>1. attempts \in 0 .. MaxRemediationAttempts
      BY DEF LoopInv, TypeOK
    <3> QED
      BY <1>4, <2>1, <3>1, BudgetsTyped
  <2>5. remediated' = [remediated EXCEPT ![ctl.ticket] = attempts']
    BY <2>1, <2>3
  <2>6. attempts' \in Nat /\ attempts' <= MaxRemediationAttempts
    BY <2>4, BudgetsTyped
  <2>7. remediated' \in [Ticket -> Nat]
        /\ \A u \in Ticket :
                remediated'[u] = IF u = ctl.ticket THEN attempts' ELSE remediated[u]
    BY <1>1, <2>5, <2>6 DEF LoopInv, TypeOK
  <2>8. TicketFits' /\ SelectionFits'
    BY <1>1, <1>2, <2>1, <2>2
       DEF LoopInv, TicketFits, SelectionFits, OnTicket, At, Resolved, PollGaveUp
  <2>9. BudgetFits'
    <3>1. Resolved' = Resolved
      BY <1>2, <2>1 DEF Resolved
    <3>2. \A u \in Ticket : launched'[u] > 0 => u \in Resolved' \cup {ctl'.ticket}
      BY <1>2, <2>2, <3>1 DEF LoopInv, BudgetFits
    <3>3. \A u \in Ticket : launched'[u] = 0 => remediated'[u] = 0
      BY <1>2, <2>3, <2>7 DEF LoopInv, BudgetFits
    <3>4. \A u \in Ticket : launched'[u] <= 1 /\ remediated'[u] <= MaxRemediationAttempts
      BY <1>2, <2>6, <2>7 DEF LoopInv, BudgetFits
    <3> QED
      BY <1>1, <1>2, <2>2, <2>3, <2>7, <3>2, <3>3, <3>4 DEF BudgetFits, At
  <2>10. MergeFits' /\ TypeOK'
    BY <1>1, <1>2, <2>1, <2>2, <2>4, <2>7, MergesStand DEF LoopInv, TypeOK, Control, Pcs
  <2> QED
    BY <2>8, <2>9, <2>10 DEF LoopInv
<1> QED
  BY <1>3, <1>4

LEMMA WaitNodeKeeps == ASSUME LoopInv, WaitNode PROVE LoopInv'
<1>1. /\ ctl.pc = "checks" /\ ctl \in Control /\ ctl.ticket \in Ticket
      /\ wf # "Running" /\ MergeFits /\ read' \in CheckLists \cup {{}}
  BY ReadChecksReads DEF WaitNode
<1>2. UNCHANGED <<main, wf, pr, disturbances, options, tasks, passed, frames, attempts,
                  launched, remediated>>
  BY DEF WaitNode, world
<1>3. CASE polls >= MaxMergePolls
  <2>1. BlockNode(ctl.ticket) /\ UNCHANGED polls
    BY <1>3 DEF WaitNode
  <2>2. /\ TicketFits' /\ SelectionFits' /\ BudgetFits'
        /\ ctl' \in Control /\ ctl'.pc = "select" /\ blocked' \subseteq Ticket
    BY <1>1, <1>2, <2>1, LeavesTicketBlocked DEF OnTicket
  <2>3. MergeFits' /\ TypeOK'
    BY <1>1, <1>2, <2>1, <2>2, MergesStand DEF LoopInv, TypeOK, Control, Pcs
  <2> QED
    BY <2>2, <2>3 DEF LoopInv
<1>4. CASE ~(polls >= MaxMergePolls)
  <2>1. polls' = polls + 1 /\ Goto("state") /\ UNCHANGED blocked
    BY <1>4 DEF WaitNode
  <2>2. polls' \in 0 .. MaxMergePolls
    <3>1. polls \in 0 .. MaxMergePolls
      BY DEF LoopInv, TypeOK
    <3> QED
      BY <1>4, <2>1, <3>1, BudgetsTyped
  <2>3. ctl' \in Control /\ ctl'.pc = "state" /\ ctl'.ticket = ctl.ticket
    BY <1>1, <2>1, GotoKeepsTicket DEF Pcs, Active
  <2>4. TicketFits' /\ SelectionFits' /\ BudgetFits'
    BY <1>1, <1>2, <2>1, <2>3, StaysOnTicket DEF OnTicket, PollGaveUp
  <2>5. MergeFits' /\ TypeOK'
    BY <1>1, <1>2, <2>1, <2>2, <2>3, MergesStand DEF LoopInv, TypeOK, Control, Pcs
  <2> QED
    BY <2>4, <2>5 DEF LoopInv
<1> QED
  BY <1>3, <1>4

\* A forced merge is decided on a list that shows an outage.
LEMMA SelectMergeActionKeeps == ASSUME LoopInv, SelectMergeAction PROVE LoopInv'
<1>1. /\ ctl.pc = "checks" /\ ctl \in Control /\ wf # "Running" /\ MergeFits
      /\ read' \in CheckLists \cup {{}}
      /\ ClassifyRequiredChecks(read') = "infra-down"
  BY ReadChecksReads DEF SelectMergeAction
<1>2. UNCHANGED <<main, wf, pr, disturbances, options, tasks, passed, blocked, frames,
                  polls, attempts, launched, remediated>>
  BY DEF SelectMergeAction, world, budget
<1>3. ctl' \in Control /\ ctl'.pc = "admin" /\ ctl'.ticket = ctl.ticket
  BY <1>1, GotoKeepsTicket DEF SelectMergeAction, Pcs, Active
<1>4. TicketFits' /\ SelectionFits' /\ BudgetFits'
  BY <1>1, <1>2, <1>3, StaysOnTicket DEF OnTicket, PollGaveUp
<1>5. ClassifyRequiredChecks(read)' = "infra-down"
  BY <1>1 DEF ClassifyRequiredChecks
<1>6. MergeFits'
  BY <1>1, <1>2, <1>3, <1>5 DEF MergeFits, At
<1>7. TypeOK'
  BY <1>1, <1>2, <1>3 DEF LoopInv, TypeOK, Control, Pcs
<1> QED
  BY <1>4, <1>6, <1>7 DEF LoopInv

\* Merging t changes no other pull request, and unmerges none.
LEMMA LandingMerges ==
    ASSUME TypeOK, NEW t \in Ticket, Land(t)
    PROVE  /\ main' \in Snapshots /\ pr' \in [Ticket -> {"none", "open", "merged", "closed"}]
           /\ pr'[t] = "merged"
           /\ \A u \in Ticket : pr[u] = "merged" => pr'[u] = "merged"
<1>1. main' \in Snapshots /\ pr' = [pr EXCEPT ![t] = "merged"]
  BY LandingTyped DEF TypeOK, Snapshots
<1> QED
  BY <1>1 DEF TypeOK

LEMMA AdminMergeNodeKeeps == ASSUME LoopInv, AdminMergeNode PROVE LoopInv'
<1>1. ctl.pc = "admin" /\ ctl \in Control /\ ctl.ticket \in Ticket /\ MergeFits /\ TypeOK
  BY DEF AdminMergeNode, At, LoopInv, TypeOK, TicketFits, OnTicket, Control, Pcs
<1>2. UNCHANGED <<wf, disturbances, options, tasks, passed, frames, polls, attempts,
                  launched, remediated, read>>
  BY DEF AdminMergeNode, budget, history
<1>3. wf' # "Running"
  BY <1>1, <1>2 DEF LoopInv, TicketFits, PollGaveUp
<1>4. \/ /\ IF pr[ctl.ticket] = "open" THEN Land(ctl.ticket) ELSE UNCHANGED <<pr, main>>
         /\ pr[ctl.ticket] \in {"open", "merged"}
         /\ Goto("refresh") /\ UNCHANGED blocked
      \/ BlockNode(ctl.ticket) /\ UNCHANGED <<pr, main>>
  BY DEF AdminMergeNode, AdminMerge, PassNode
<1>5. CASE BlockNode(ctl.ticket) /\ UNCHANGED <<pr, main>>
  <2>1. /\ TicketFits' /\ SelectionFits' /\ BudgetFits'
        /\ ctl' \in Control /\ ctl'.pc = "select" /\ blocked' \subseteq Ticket
    BY <1>1, <1>2, <1>3, <1>5, LeavesTicketBlocked DEF OnTicket
  <2>2. MergeFits' /\ TypeOK'
    BY <1>1, <1>2, <1>5, <2>1, MergesStand DEF TypeOK, Control, Pcs
  <2> QED
    BY <2>1, <2>2 DEF LoopInv
<1>6. CASE /\ IF pr[ctl.ticket] = "open" THEN Land(ctl.ticket) ELSE UNCHANGED <<pr, main>>
           /\ pr[ctl.ticket] \in {"open", "merged"}
           /\ Goto("refresh") /\ UNCHANGED blocked
  <2>1. ctl' \in Control /\ ctl'.pc = "refresh" /\ ctl'.ticket = ctl.ticket
    BY <1>1, <1>6, GotoKeepsTicket DEF Pcs, Active
  <2>2. /\ main' \in Snapshots /\ pr' \in [Ticket -> {"none", "open", "merged", "closed"}]
        /\ pr'[ctl.ticket] = "merged"
        /\ \A u \in Ticket : pr[u] = "merged" => pr'[u] = "merged"
    <3>1. CASE pr[ctl.ticket] = "open"
      BY <1>1, <1>6, <3>1, LandingMerges
    <3>2. CASE pr[ctl.ticket] = "merged"
      BY <1>1, <1>6, <3>2 DEF TypeOK, Snapshots
    <3> QED
      BY <1>6, <3>1, <3>2
  <2>3. TicketFits' /\ SelectionFits' /\ BudgetFits'
    BY <1>1, <1>2, <1>3, <1>6, <2>1, StaysOnTicket DEF OnTicket, PollGaveUp
  <2>4. MergeFits'
    BY <1>1, <1>2, <2>1, <2>2 DEF MergeFits, TypeOK, At
  <2>5. TypeOK'
    BY <1>1, <1>2, <1>6, <2>1, <2>2 DEF TypeOK, Control, Pcs, Snapshots
  <2> QED
    BY <2>3, <2>4, <2>5 DEF LoopInv
<1> QED
  BY <1>4, <1>5, <1>6

\* A ticket passes: its pull request is merged.
LEMMA RefreshBacklogKeeps == ASSUME LoopInv, RefreshBacklog PROVE LoopInv'
<1>1. /\ ctl.pc = "refresh" /\ ctl \in Control /\ ctl.ticket \in Ticket
      /\ pr[ctl.ticket] = "merged"
  BY DEF RefreshBacklog, At, LoopInv, TypeOK, TicketFits, MergeFits, OnTicket, Control, Pcs
<1>2. /\ tasks' = main /\ passed' = passed \cup {ctl.ticket}
      /\ ctl' = [pc |-> "select", ticket |-> NoTicket]
      /\ UNCHANGED <<main, wf, pr, disturbances, options, blocked, frames, polls, attempts,
                     launched, remediated, read>>
  BY DEF RefreshBacklog, world, budget, history
<1>3. ctl' \in Control /\ ctl'.pc = "select" /\ ctl'.ticket = NoTicket
  BY <1>2, LeavingATicket DEF Pcs, Active
<1>4. wf' # "Running"
  BY <1>1, <1>2 DEF LoopInv, TicketFits, PollGaveUp
<1>5. Resolved' = Resolved \cup {ctl.ticket}
  BY <1>2 DEF Resolved
<1>6. TicketFits' /\ SelectionFits'
  BY <1>3, <1>4 DEF TicketFits, SelectionFits, OnTicket, At, PollGaveUp
<1>7. BudgetFits'
  BY <1>2, <1>3, <1>5 DEF LoopInv, BudgetFits, OnTicket, At, PollGaveUp
<1>8. MergeFits'
  BY <1>1, <1>2, <1>3 DEF LoopInv, MergeFits, At
<1>9. TypeOK'
  BY <1>1, <1>2, <1>3 DEF LoopInv, TypeOK, Control, Pcs
<1> QED
  BY <1>6, <1>7, <1>8, <1>9 DEF LoopInv

LEMMA EndingKeeps ==
    ASSUME LoopInv, LoopFinish \/ SeamFails
    PROVE  LoopInv'
<1>1. /\ ctl \in Control /\ ctl.pc \notin {"poll", PollGaveUp}
      /\ (Goto("finished") /\ ctl.pc = "finish") \/ Goto("failed")
  BY DEF LoopFinish, SeamFails, At, LoopInv, TypeOK, Control, Pcs, Active, PollGaveUp
<1>2. UNCHANGED <<main, wf, pr, disturbances, options, tasks, passed, blocked, frames,
                  polls, attempts, launched, remediated, read>>
  BY DEF LoopFinish, SeamFails, world, budget, history
<1>3. /\ ctl' \in Control /\ ctl'.ticket = ctl.ticket
      /\ (ctl'.pc = "finished" /\ ctl.pc = "finish") \/ ctl'.pc = "failed"
  BY <1>1, GotoKeepsTicket DEF Pcs
<1>4. wf' # "Running"
  BY <1>1, <1>2 DEF LoopInv, TicketFits
<1>5. TicketFits' /\ SelectionFits' /\ BudgetFits'
  BY <1>2, <1>3, <1>4, LeavesTicketOpen
<1>6. MergeFits'
  BY <1>2, <1>3, MergesStand DEF LoopInv
<1>7. TypeOK'
  BY <1>2, <1>3 DEF LoopInv, TypeOK, Control, Pcs
<1> QED
  BY <1>5, <1>6, <1>7 DEF LoopInv

\* A new pod knows nothing of what the one before resolved or launched.
LEMMA PodRestartsKeeps == ASSUME LoopInv, PodRestarts PROVE LoopInv'
<1>1. /\ disturbances' \in 0 .. MaxDisturbances
      /\ 0 \in 0 .. MaxMergePolls /\ 0 \in 0 .. MaxRemediationAttempts
  <2>1. disturbances \in 0 .. MaxDisturbances
    BY DEF LoopInv, TypeOK
  <2>2. disturbances < MaxDisturbances /\ disturbances' = disturbances + 1
    BY DEF PodRestarts
  <2> QED
    BY <2>1, <2>2, BudgetsTyped
<1>2. /\ wf' = "none" /\ ctl' = [pc |-> "start", ticket |-> NoTicket]
      /\ passed' = {} /\ blocked' = {} /\ frames' = << >> /\ polls' = 0 /\ attempts' = 0
      /\ launched' = NoRuns /\ remediated' = NoRuns /\ read' = {}
      /\ UNCHANGED <<main, pr, options, tasks>>
  BY DEF PodRestarts
<1>3. ctl' \in Control /\ ctl'.pc = "start" /\ ctl'.ticket = NoTicket
  BY <1>2, LeavingATicket DEF Pcs, Active
<1>4. NoRuns \in [Ticket -> Nat] /\ \A t \in Ticket : NoRuns[t] = 0
  BY DEF NoRuns
<1>5. TypeOK'
  <2>1. frames' \in Seq(0 .. MaxRetries)
    BY <1>2, EmptySeq
  <2> QED
    BY <1>1, <1>2, <1>3, <1>4, <2>1 DEF LoopInv, TypeOK, Control, Pcs, Phases
<1>6. TicketFits' /\ SelectionFits' /\ MergeFits'
  BY <1>2, <1>3 DEF TicketFits, SelectionFits, MergeFits, OnTicket, At, PollGaveUp
<1>7. BudgetFits'
  <2>1. ~(0 > 0) /\ 0 <= 1 /\ 0 <= MaxRemediationAttempts
    BY BudgetsTyped
  <2> QED
    BY <1>2, <1>3, <1>4, <2>1 DEF BudgetFits, OnTicket, At, PollGaveUp
<1> QED
  BY <1>5, <1>6, <1>7 DEF LoopInv

----------------------------------------------------------------------------
(* The world, which moves while the controller waits or works. *)

LEMMA WorkflowEndsKeeps == ASSUME LoopInv, WorkflowEnds PROVE LoopInv'
<1>1. /\ ctl.pc \in {"poll", PollGaveUp} /\ ctl.ticket \in Ticket \ Resolved
  BY DEF WorkflowEnds, LoopInv, TicketFits, OnTicket
<1>2. /\ wf' \in {"Succeeded", "Failed", "Error"}
      /\ UNCHANGED <<main, disturbances, options, ctl, tasks, passed, blocked, frames, polls,
                     attempts, launched, remediated, read>>
  BY DEF WorkflowEnds, private, budget, history
<1>3. PICK s \in {"none", "open"} : pr' = [pr EXCEPT ![ctl.ticket] = s]
  BY DEF WorkflowEnds
<1>4. TypeOK'
  BY <1>2, <1>3 DEF LoopInv, TypeOK, Phases
<1>5. TicketFits' /\ SelectionFits' /\ BudgetFits'
  BY <1>1, <1>2, StaysOnTicket DEF OnTicket, PollGaveUp
<1>6. \A u \in passed : pr'[u] = pr[u]
  <2>1. \A u \in passed : u \in Ticket /\ u # ctl.ticket
    BY <1>1 DEF Resolved, LoopInv, TypeOK
  <2> QED
    BY <1>3, <2>1 DEF LoopInv, TypeOK
<1>7. MergeFits'
  BY <1>1, <1>2, <1>6, MergesStand DEF LoopInv, PollGaveUp
<1> QED
  BY <1>4, <1>5, <1>7 DEF LoopInv

\* The steps of people keep what the controller holds, and unmerge nothing.
LEMMA PeopleKeep ==
    ASSUME LoopInv, main' \in Snapshots, disturbances' \in 0 .. MaxDisturbances,
           pr' \in [Ticket -> {"none", "open", "merged", "closed"}],
           \A u \in Ticket : pr[u] = "merged" => pr'[u] = "merged",
           UNCHANGED wf, UNCHANGED private
    PROVE  LoopInv'
<1>1. UNCHANGED <<wf, options, ctl, tasks, passed, blocked, frames, polls, attempts,
                  launched, remediated, read>>
  BY DEF private, budget, history
<1>2. TypeOK'
  BY <1>1 DEF LoopInv, TypeOK, Snapshots
<1>3. TicketFits' /\ SelectionFits' /\ BudgetFits'
  BY <1>1 DEF LoopInv, TicketFits, SelectionFits, BudgetFits, Resolved, OverlayGraph, At
<1>4. MergeFits'
  <2>1. At("refresh") => ctl.ticket \in Ticket
    BY DEF LoopInv, TicketFits, OnTicket, At
  <2> QED
    BY <1>1, <2>1 DEF LoopInv, TypeOK, MergeFits, At
<1> QED
  BY <1>2, <1>3, <1>4 DEF LoopInv

LEMMA WorldKeeps == ASSUME LoopInv, World PROVE LoopInv'
<1>1. TypeOK /\ main \in Snapshots
  BY DEF LoopInv, TypeOK, Snapshots
<1>2. CASE WorkflowEnds
  BY <1>2, WorkflowEndsKeeps
<1>3. CASE SomeoneCloses
  <2>1. /\ pr[ctl.ticket] = "open" /\ pr' = [pr EXCEPT ![ctl.ticket] = "closed"]
        /\ UNCHANGED <<main, wf, disturbances>> /\ UNCHANGED private
    BY <1>3 DEF SomeoneCloses
  <2>2. \A u \in Ticket : pr[u] = "merged" => pr'[u] = "merged"
    BY <1>1, <2>1 DEF TypeOK
  <2>3. pr' \in [Ticket -> {"none", "open", "merged", "closed"}]
    BY <1>1, <2>1 DEF TypeOK
  <2>4. main' \in Snapshots /\ disturbances' \in 0 .. MaxDisturbances
    BY <1>1, <2>1 DEF TypeOK
  <2> QED
    BY <2>1, <2>2, <2>3, <2>4, PeopleKeep
<1>4. CASE SomeoneEdits
  <2>1. disturbances' \in 0 .. MaxDisturbances
    <3>1. disturbances \in 0 .. MaxDisturbances
      BY <1>1 DEF TypeOK
    <3>2. disturbances < MaxDisturbances /\ disturbances' = disturbances + 1
      BY <1>4 DEF SomeoneEdits
    <3> QED
      BY <3>1, <3>2, BudgetsTyped
  <2>2. UNCHANGED <<wf, pr>> /\ UNCHANGED private
    BY <1>4 DEF SomeoneEdits
  <2>3. CASE \E t \in Ticket, s \in Statuses : main' = [main EXCEPT !.st[t] = s]
    <3>1. PICK t \in Ticket, s \in Statuses : main' = [main EXCEPT !.st[t] = s]
      BY <2>3
    <3>2. main' \in Snapshots
      BY <1>1, <3>1 DEF Snapshots
    <3> QED
      BY <1>1, <2>1, <2>2, <3>2, PeopleKeep DEF TypeOK
  <2>4. CASE \E b \in Backlogs : main' = [main EXCEPT !.backlog = b]
    <3>1. PICK b \in Backlogs : main' = [main EXCEPT !.backlog = b]
      BY <2>4
    <3>2. main' \in Snapshots
      BY <1>1, <3>1 DEF Snapshots
    <3> QED
      BY <1>1, <2>1, <2>2, <3>2, PeopleKeep DEF TypeOK
  <2> QED
    BY <1>4, <2>3, <2>4 DEF SomeoneEdits
<1>5. ASSUME NEW t \in Ticket, SomeoneMerges(t) PROVE LoopInv'
  <2>1. Land(t) /\ UNCHANGED <<wf, disturbances>> /\ UNCHANGED private
    BY <1>5 DEF SomeoneMerges
  <2>2. /\ main' \in Snapshots /\ pr' \in [Ticket -> {"none", "open", "merged", "closed"}]
        /\ \A u \in Ticket : pr[u] = "merged" => pr'[u] = "merged"
    BY <1>1, <2>1, LandingMerges
  <2>3. disturbances' \in 0 .. MaxDisturbances
    BY <1>1, <2>1 DEF TypeOK
  <2> QED
    BY <2>1, <2>2, <2>3, PeopleKeep
<1> QED
  BY <1>2, <1>3, <1>4, <1>5 DEF World

LEMMA LoopStepKeeps == LoopInv /\ [Next]_vars => LoopInv'
<1> SUFFICES ASSUME LoopInv, [Next]_vars PROVE LoopInv'
  OBVIOUS
<1>1. CASE UNCHANGED vars
  BY <1>1 DEF vars, world, budget, history, LoopInv, TypeOK, TicketFits, SelectionFits,
              MergeFits, BudgetFits, Resolved, OverlayGraph, At
<1>2. CASE Controller
  BY <1>2, StartKeeps, DrainStepKeeps, SubmitRunKeeps, PollLoopReadKeeps, ResolvePrKeeps,
     ClassifyMergeSignalKeeps, RemediateNodeKeeps, WaitNodeKeeps, SelectMergeActionKeeps,
     AdminMergeNodeKeeps, RefreshBacklogKeeps, EndingKeeps DEF Controller
<1>3. CASE HandlePollError \/ SeamFails \/ PodRestarts
  BY <1>3, HandlePollErrorKeeps, EndingKeeps, PodRestartsKeeps
<1>4. CASE World
  BY <1>4, WorldKeeps
<1> QED
  BY <1>1, <1>2, <1>3, <1>4 DEF Next

----------------------------------------------------------------------------
(* Theorems. *)

\* The step of the controller, its ticket, what it resolved, launched and merged agree
\* in every state (drainStep, resolveTicket, resolveMerge).
THEOREM LoopInvariant == Spec => []LoopInv
<1>1. Init => LoopInv
  BY InitLoop
<1>2. LoopInv /\ [Next]_vars => LoopInv'
  BY LoopStepKeeps
<1> QED
  BY <1>1, <1>2, PTL DEF Spec

\* Types are kept (src/loop and the world around it).
THEOREM LoopTyped == Spec => []TypeOK
<1>1. LoopInv => TypeOK
  BY DEF LoopInv
<1> QED
  BY <1>1, LoopInvariant, PTL

\* However stale the backlog it reads again, one controller launches a ticket at most
\* once, and remediates it within its budget (selectReadyChain, remediateNode).
THEOREM TicketsLaunchOnce == Spec => []LaunchedOnce
<1>1. LoopInv => LaunchedOnce
  BY DEF LoopInv, BudgetFits, LaunchedOnce
<1> QED
  BY <1>1, LoopInvariant, PTL

\* A ticket passes only with its pull request merged, and is merged by force only over
\* an outage (resolveMerge, adminMergeNode).
THEOREM PassedTicketsAreMerged == Spec => []PassedMeansMerged
<1>1. LoopInv => PassedMeansMerged
  BY OutageHasNoFailure DEF LoopInv, MergeFits, PassedMeansMerged
<1> QED
  BY <1>1, LoopInvariant, PTL

\* A ticket is launched only when what it depends on is Done in the backlog the loop
\* holds, or was landed by the loop (selectReadyChain, overlayGraph).
THEOREM DependenciesLandFirst == Spec => LaunchedAfterDependencies
<1> DEFINE Sound ==
        \A t \in Ticket : launched'[t] = launched[t] + 1 =>
            \A d \in DependencyPredecessorIds(TicketGraph(tasks.backlog), t) :
                tasks.st[d] = "Done" \/ (d \in passed /\ pr[d] = "merged")
<1>1. LoopInv /\ [Next]_vars => [Sound]_vars
  <2> SUFFICES ASSUME LoopInv, Next,
                      NEW t \in Ticket, launched'[t] = launched[t] + 1
               PROVE  \A d \in DependencyPredecessorIds(TicketGraph(tasks.backlog), t) :
                        tasks.st[d] = "Done" \/ (d \in passed /\ pr[d] = "merged")
    OBVIOUS
  <2>1. launched[t] \in Nat /\ launched \in [Ticket -> Nat]
    BY DEF LoopInv, TypeOK
  <2>2. launched' # launched
    BY <2>1
  <2>3. ~PodRestarts
    BY <2>1 DEF PodRestarts, NoRuns
  <2>4. SubmitRun
    BY <2>2, <2>3
       DEF Next, Controller, World, RunLoopController, DrainStep, PollLoopRead,
           ResolvePrForRun, ClassifyMergeSignal, RemediateNode, WaitNode, SelectMergeAction,
           AdminMergeNode, RefreshBacklog, LoopFinish, HandlePollError, SeamFails,
           WorkflowEnds, SomeoneCloses, SomeoneEdits, SomeoneMerges, private, history
  <2>5. ctl.pc = "submit" /\ launched' = [launched EXCEPT ![ctl.ticket] = @ + 1]
    BY <2>4 DEF SubmitRun, At
  <2>6. t = ctl.ticket
    BY <2>1, <2>5
  <2>7. tasks.backlog \in Backlogs
    BY DEF LoopInv, TypeOK
  <2>8. TAKE d \in DependencyPredecessorIds(TicketGraph(tasks.backlog), t)
  <2>9. d \in Ticket
    BY <2>7, PredecessorsAreTickets
  <2>10. OverlayGraph[d] = "Done"
    BY <2>5, <2>6 DEF LoopInv, SelectionFits, At
  <2>11. d \in passed \/ tasks.st[d] = "Done"
    BY <2>9, <2>10 DEF OverlayGraph
  <2> QED
    BY <2>11 DEF LoopInv, MergeFits
<1> QED
  BY <1>1, LoopInvariant, PTL DEF Spec, LaunchedAfterDependencies
=============================================================================
