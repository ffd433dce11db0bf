--------------------------- MODULE RunControlProofs ---------------------------
(***************************************************************************)
(* Theorems about RunControl, for any nodes, hooks and lengths of the two      *)
(* queues: what the record of a detached run says when its command has ended,  *)
(* when it was killed, and of a node that stalled.                            *)
(***************************************************************************)
EXTENDS RunControl, SequenceTheorems, TLAPS

----------------------------------------------------------------------------
(* The inductive invariant. *)

\* Where the processes are.
PhaseFits ==
    /\ controller # "none" => launcher \in {"spawned", "recorded"}
    /\ controller \in {"none", "booting"} =>
          /\ bridgeQ = << >> /\ controlQ = << >> /\ outcome = "none"
          /\ \A n \in Nodes : act[n] = "none"
    /\ launcher # "start" => runStatus # "none"
    /\ controller = "killed" => stopper \in {"killed", "run", "done"}
    /\ wire # {} => controller = "killed"

\* The outcome is the last status of the run that was emitted; until it is
\* written it waits in the reporter's queue, where the stop waits for it.
VerdictFits ==
    Undisturbed /\ outcome # "none" =>
        \/ /\ runStatus = outcome
           /\ \A i \in 1..Len(bridgeQ) : bridgeQ[i].of # "run"
        \/ \E i \in 1..Len(bridgeQ) :
              /\ bridgeQ[i] = [of |-> "run", status |-> outcome]
              /\ \A j \in 1..Len(bridgeQ) : j > i => bridgeQ[j].of # "run"
              /\ controller = "active" \/ (controller = "stopping" /\ i <= draining)

\* Without an outcome nothing but the start of the run was written of it, or will be.
UndecidedFits ==
    Undisturbed /\ outcome = "none" =>
        /\ runStatus \in {"none", "queued", "starting"}
        /\ \A i \in 1..Len(bridgeQ) :
               bridgeQ[i].of = "run" => bridgeQ[i] = [of |-> "run", status |-> "starting"]

\* A stall mark is the last control write of its node, and what the reporter
\* still has to write of the node comes first; or it is in the record, with
\* nothing of the node to come.
StallFits(n) ==
    RunActive /\ Undisturbed /\ ~controlErr /\ act[n] = "stalled" =>
        \/ \E k \in 1..Len(controlQ) :
              /\ controlQ[k] = [of |-> n, status |-> "stalled"]
              /\ \A j \in 1..Len(controlQ) : j > k => controlQ[j].of # n
              /\ \A i \in 1..Len(bridgeQ) : bridgeQ[i].of = n => k > 1 \/ i <= waiting
        \/ /\ nodeStatus[n] = "stalled"
           /\ \A j \in 1..Len(controlQ) : controlQ[j].of # n
           /\ \A i \in 1..Len(bridgeQ) : bridgeQ[i].of # n

ControlInv ==
    /\ TypeOK
    /\ PhaseFits
    /\ VerdictFits
    /\ UndecidedFits
    /\ \A n \in Nodes : StallFits(n)
    /\ KilledRunStaysAborted

----------------------------------------------------------------------------
(* Queues. *)

LEMMA AppendIs ==
    ASSUME NEW S, NEW q \in Seq(S), NEW w \in S
    PROVE  /\ Append(q, w) \in Seq(S) /\ Append(q, w) # << >>
           /\ Len(Append(q, w)) = Len(q) + 1 /\ Len(q) \in Nat
           /\ \A i \in 1..Len(q) : Append(q, w)[i] = q[i]
           /\ Append(q, w)[Len(q) + 1] = w
  BY AppendProperties, LenProperties

LEMMA TailIs ==
    ASSUME NEW S, NEW q \in Seq(S), q # << >>
    PROVE  /\ Tail(q) \in Seq(S) /\ Head(q) \in S /\ Head(q) = q[1]
           /\ Len(q) \in Nat \ {0} /\ Len(Tail(q)) = Len(q) - 1
           /\ \A i \in 1..Len(Tail(q)) : Tail(q)[i] = q[i + 1]
           /\ Tail(q) = << >> <=> Len(q) = 1
<1>1. /\ Tail(q) \in Seq(S) /\ Head(q) \in S /\ Head(q) = q[1]
      /\ Len(Tail(q)) = Len(q) - 1
      /\ \A i \in 1..Len(Tail(q)) : Tail(q)[i] = q[i + 1]
  BY HeadTailProperties, ElementOfSeq, LenProperties, EmptySeq
<1>2. /\ Len(q) \in Nat \ {0}
      /\ Tail(q) = << >> <=> Len(Tail(q)) = 0
  BY <1>1, LenProperties, EmptySeq
<1> QED
  BY <1>1, <1>2

LEMMA LenIs ==
    ASSUME NEW S, NEW q \in Seq(S)
    PROVE  /\ Len(q) \in Nat /\ (q = << >> <=> Len(q) = 0)
           /\ \A i \in 1..Len(q) : q[i] \in S
  BY LenProperties, EmptySeq, ElementOfSeq

\* The writes a queue may hold.
LEMMA WritesAre ==
    /\ \A w \in NodeWrite : w.of \in Nodes /\ w.of # "run" /\ w.status \in NodeStatuses
    /\ \A w \in RunWrite : w.of = "run" /\ w.status \in {"starting", "passed", "failed"}
    /\ Heartbeat.of = "run" /\ Heartbeat.status = "heartbeat"
    /\ "heartbeat" \notin NodeStatuses
    /\ \A n \in Nodes, s \in NodeStatuses : [of |-> n, status |-> s] \in NodeWrite
    /\ \A s \in {"starting", "passed", "failed"} : [of |-> "run", status |-> s] \in RunWrite
  BY RunIsNoNode DEF NodeWrite, RunWrite, Heartbeat, NodeStatuses, RunOutcomes

\* What a write does to the record.
LEMMA ApplyIs ==
    ASSUME TypeOK, NEW w \in Write, Apply(w)
    PROVE  /\ runStatus' \in {"none", "queued", "starting", "aborted"} \cup RunOutcomes
           /\ nodeStatus' \in [Nodes -> NodeStatuses \cup {"none"}]
           /\ w.of # "run" \/ w.status = "heartbeat" => UNCHANGED runStatus
           /\ w \in RunWrite => runStatus' = w.status
           /\ \A n \in Nodes : nodeStatus'[n] = IF w.of = n THEN w.status ELSE nodeStatus[n]
<1>1. CASE w \in NodeWrite
  <2>1. UNCHANGED runStatus /\ nodeStatus' = [nodeStatus EXCEPT ![w.of] = w.status]
    BY <1>1, WritesAre DEF Apply
  <2>2. w.of \in Nodes /\ w.of # "run" /\ w.status \in NodeStatuses /\ w \notin RunWrite
    BY <1>1, WritesAre
  <2> QED
    BY <2>1, <2>2 DEF TypeOK
<1>2. CASE w \in RunWrite
  <2>1. runStatus' = w.status /\ UNCHANGED nodeStatus
    BY <1>2, WritesAre DEF Apply
  <2>2. w.of = "run" /\ w.status \in {"starting", "passed", "failed"}
    BY <1>2, WritesAre
  <2> QED
    BY <2>1, <2>2, RunIsNoNode DEF TypeOK, RunOutcomes
<1>3. CASE w = Heartbeat
  <2>1. UNCHANGED <<runStatus, nodeStatus>> /\ w.of = "run" /\ w.status = "heartbeat"
    BY <1>3, WritesAre DEF Apply
  <2>2. w \notin RunWrite
    BY <2>1, WritesAre
  <2> QED
    BY <2>1, <2>2, RunIsNoNode DEF TypeOK
<1> QED
  BY <1>1, <1>2, <1>3 DEF Write

----------------------------------------------------------------------------
(* Initial states, and the steps of the launcher. *)

LEMMA ControlStart == Init => ControlInv
<1> SUFFICES ASSUME Init
             PROVE  ControlInv
  OBVIOUS
<1>1. TypeOK
  <2>1. /\ bridgeQ \in Seq(NodeWrite \cup RunWrite)
        /\ controlQ \in Seq(NodeWrite \cup {Heartbeat})
    BY EmptySeq DEF Init
  <2>2. snapshot \in [pid : BOOLEAN, nodes : SUBSET Nodes]
    BY DEF Init
  <2> QED
    BY <2>1, <2>2 DEF Init, TypeOK
<1>2. PhaseFits /\ VerdictFits /\ KilledRunStaysAborted
  BY DEF Init, PhaseFits, VerdictFits, KilledRunStaysAborted
<1>4. UndecidedFits
  BY EmptySeq DEF Init, UndecidedFits
<1>3. \A n \in Nodes : StallFits(n)
  BY DEF Init, StallFits, RunActive
<1> QED
  BY <1>1, <1>2, <1>3, <1>4 DEF ControlInv

LEMMA LauncherKeeps ==
    ASSUME ControlInv, Launcher
    PROVE  ControlInv'
<1>1. CASE CreateRun
  <2>1. controller = "none"
    BY <1>1 DEF CreateRun, ControlInv, PhaseFits
  <2>2. TypeOK'
    BY <1>1 DEF CreateRun, ControlInv, TypeOK, NodeStatuses, schedVars, queueVars,
                stopVars, ghosts
  <2>3. PhaseFits' /\ VerdictFits' /\ UndecidedFits' /\ KilledRunStaysAborted'
    BY <1>1, <2>1 DEF CreateRun, ControlInv, PhaseFits, VerdictFits, UndecidedFits,
                      Undisturbed, KilledRunStaysAborted, schedVars, queueVars
  <2>4. \A n \in Nodes : StallFits(n)'
    BY <1>1, <2>1 DEF CreateRun, StallFits, RunActive
  <2> QED
    BY <2>2, <2>3, <2>4 DEF ControlInv
<1>2. CASE StartDetachedRunController
  <2>1. controller = "none"
    BY <1>2 DEF StartDetachedRunController, ControlInv, PhaseFits
  <2>2. TypeOK'
    BY <1>2 DEF StartDetachedRunController, ControlInv, TypeOK, Alive, schedVars,
                queueVars, dbVars, stopVars, ghosts
  <2>3. PhaseFits' /\ VerdictFits' /\ UndecidedFits' /\ KilledRunStaysAborted'
    BY <1>2, <2>1 DEF StartDetachedRunController, ControlInv, PhaseFits, VerdictFits,
                      UndecidedFits, Undisturbed, KilledRunStaysAborted, schedVars, queueVars,
                      dbVars, stopVars, ghosts
  <2>4. \A n \in Nodes : StallFits(n)'
    BY <1>2, <2>1 DEF StartDetachedRunController, StallFits, RunActive
  <2> QED
    BY <2>2, <2>3, <2>4 DEF ControlInv
<1>3. CASE UpdateRunController
  <2>1. TypeOK'
    BY <1>3 DEF UpdateRunController, ControlInv, TypeOK, schedVars, queueVars,
                stopVars, ghosts
  <2>2. PhaseFits' /\ VerdictFits' /\ UndecidedFits' /\ KilledRunStaysAborted'
    BY <1>3 DEF UpdateRunController, ControlInv, PhaseFits, VerdictFits, UndecidedFits,
                Undisturbed,
                KilledRunStaysAborted, schedVars, queueVars, stopVars, ghosts
  <2>3. \A n \in Nodes : StallFits(n)'
    BY <1>3 DEF UpdateRunController, ControlInv, StallFits, RunActive, Undisturbed,
                schedVars, queueVars, stopVars, ghosts
  <2> QED
    BY <2>1, <2>2, <2>3 DEF ControlInv
<1> QED
  BY <1>1, <1>2, <1>3 DEF Launcher

LEMMA WorkflowStartKeeps ==
    ASSUME ControlInv, WorkflowStart
    PROVE  ControlInv'
<1>1. /\ controlQ = << >> /\ outcome = "none" /\ controller' = "active"
      /\ \A n \in Nodes : act[n] = "none"
  BY DEF WorkflowStart, ControlInv, PhaseFits
<1>2. bridgeQ' \in Seq(NodeWrite \cup RunWrite)
  <2>1. [of |-> "run", status |-> "starting"] \in NodeWrite \cup RunWrite
    BY WritesAre
  <2> QED
    BY <2>1 DEF WorkflowStart
<1>3. TypeOK'
  BY <1>2 DEF WorkflowStart, ControlInv, TypeOK, Alive, schedVars, dbVars,
              stopVars, ghosts
<1>4. PhaseFits' /\ VerdictFits' /\ KilledRunStaysAborted'
  BY <1>1 DEF WorkflowStart, ControlInv, PhaseFits, VerdictFits, KilledRunStaysAborted,
              schedVars, dbVars, stopVars, ghosts
<1>5. \A n \in Nodes : StallFits(n)'
  BY <1>1 DEF WorkflowStart, StallFits
<1>6. UndecidedFits'
  BY DEF WorkflowStart, ControlInv, UndecidedFits, Undisturbed, schedVars, dbVars, stopVars,
         ghosts
<1> QED
  BY <1>3, <1>4, <1>5, <1>6 DEF ControlInv

----------------------------------------------------------------------------
(* Events and timers. *)

\* A control write that is queued starts at once, or waits for its turn.
LEMMA EnqueueIs ==
    ASSUME TypeOK, NEW w \in NodeWrite \cup {Heartbeat}, EnqueueControlWrite(w),
           bridgeQ' \in Seq(NodeWrite \cup RunWrite)
    PROVE  /\ controlQ' \in Seq(NodeWrite \cup {Heartbeat}) /\ waiting' \in Nat
           /\ Len(controlQ') = Len(controlQ) + 1 /\ controlQ'[Len(controlQ) + 1] = w
           /\ \A j \in 1..Len(controlQ) : controlQ'[j] = controlQ[j]
           /\ Len(controlQ) = 0 => waiting' = Len(bridgeQ')
           /\ Len(controlQ) # 0 => waiting' = waiting
  BY AppendIs, LenIs DEF EnqueueControlWrite, FlushEffect, TypeOK

\* A write of another node leaves the stall mark of n where it is.
LEMMA StallFitsEnqueue ==
    ASSUME TypeOK, NEW n \in Nodes, StallFits(n),
           NEW w \in NodeWrite \cup {Heartbeat}, w.of # n, EnqueueControlWrite(w),
           bridgeQ' \in Seq(NodeWrite \cup RunWrite),
           Len(bridgeQ') \in Nat,
           \A i \in 1..Len(bridgeQ') : bridgeQ'[i].of = n =>
               i \in 1..Len(bridgeQ) /\ bridgeQ'[i] = bridgeQ[i],
           act'[n] = act[n],
           RunActive' => RunActive,
           UNCHANGED <<stopper, lost, controlErr, nodeStatus>>
    PROVE  StallFits(n)'
<1> SUFFICES ASSUME RunActive', Undisturbed', ~controlErr', act'[n] = "stalled"
             PROVE  StallFits(n)'
  BY DEF StallFits
<1>1. /\ RunActive /\ Undisturbed /\ ~controlErr /\ act[n] = "stalled"
  BY DEF Undisturbed
<1>2. /\ Len(controlQ) \in Nat /\ Len(controlQ') = Len(controlQ) + 1
      /\ controlQ'[Len(controlQ) + 1] = w
      /\ \A j \in 1..Len(controlQ) : controlQ'[j] = controlQ[j]
      /\ Len(controlQ) # 0 => waiting' = waiting
  BY EnqueueIs, LenIs DEF TypeOK
<1>3. CASE \E k \in 1..Len(controlQ) :
              /\ controlQ[k] = [of |-> n, status |-> "stalled"]
              /\ \A j \in 1..Len(controlQ) : j > k => controlQ[j].of # n
              /\ \A i \in 1..Len(bridgeQ) : bridgeQ[i].of = n => k > 1 \/ i <= waiting
  <2>1. PICK k \in 1..Len(controlQ) :
              /\ controlQ[k] = [of |-> n, status |-> "stalled"]
              /\ \A j \in 1..Len(controlQ) : j > k => controlQ[j].of # n
              /\ \A i \in 1..Len(bridgeQ) : bridgeQ[i].of = n => k > 1 \/ i <= waiting
    BY <1>3
  <2>2. /\ k \in 1..Len(controlQ') /\ controlQ'[k] = [of |-> n, status |-> "stalled"]
        /\ \A j \in 1..Len(controlQ') : j > k => controlQ'[j].of # n
    <3>1. \A j \in 1..Len(controlQ') :
              j = Len(controlQ) + 1 \/ (j \in 1..Len(controlQ) /\ controlQ'[j] = controlQ[j])
      BY <1>2
    <3> QED
      BY <1>2, <2>1, <3>1
  <2>3. \A i \in 1..Len(bridgeQ') : bridgeQ'[i].of = n => k > 1 \/ i <= waiting'
    BY <1>2, <2>1
  <2> QED
    BY <2>2, <2>3 DEF StallFits
<1>4. CASE /\ nodeStatus[n] = "stalled"
           /\ \A j \in 1..Len(controlQ) : controlQ[j].of # n
           /\ \A i \in 1..Len(bridgeQ) : bridgeQ[i].of # n
  <2>1. /\ nodeStatus'[n] = "stalled"
        /\ \A j \in 1..Len(controlQ') : controlQ'[j].of # n
        /\ \A i \in 1..Len(bridgeQ') : bridgeQ'[i].of # n
    BY <1>2, <1>4
  <2> QED
    BY <2>1 DEF StallFits
<1> QED
  BY <1>1, <1>3, <1>4 DEF StallFits

\* The same, when nothing is queued.
LEMMA StallFitsEmit ==
    ASSUME TypeOK, NEW n \in Nodes, StallFits(n), UNCHANGED <<controlQ, waiting>>,
           Len(bridgeQ') \in Nat,
           \A i \in 1..Len(bridgeQ') : bridgeQ'[i].of = n =>
               i \in 1..Len(bridgeQ) /\ bridgeQ'[i] = bridgeQ[i],
           act'[n] = act[n],
           RunActive' => RunActive,
           UNCHANGED <<stopper, lost, controlErr, nodeStatus>>
    PROVE  StallFits(n)'
<1> SUFFICES ASSUME RunActive', Undisturbed', ~controlErr', act'[n] = "stalled"
             PROVE  StallFits(n)'
  BY DEF StallFits
<1>1. /\ RunActive /\ Undisturbed /\ ~controlErr /\ act[n] = "stalled"
  BY DEF Undisturbed
<1> QED
  BY <1>1 DEF StallFits

\* An event appended to the reporter's queue leaves the verdict where it is.
LEMMA VerdictFitsEmit ==
    ASSUME TypeOK, VerdictFits,
           \/ UNCHANGED bridgeQ
           \/ \E w \in NodeWrite : bridgeQ' = Append(bridgeQ, w),
           UNCHANGED <<controller, outcome, draining, runStatus, stopper, lost>>
    PROVE  VerdictFits'
<1> SUFFICES ASSUME Undisturbed', outcome' # "none"
             PROVE  VerdictFits'
  BY DEF VerdictFits
<1>1. /\ Len(bridgeQ) \in Nat
      /\ Len(bridgeQ') \in Nat /\ Len(bridgeQ) <= Len(bridgeQ')
      /\ \A i \in 1..Len(bridgeQ) : bridgeQ'[i] = bridgeQ[i]
      /\ \A i \in 1..Len(bridgeQ') : i > Len(bridgeQ) => bridgeQ'[i].of # "run"
  <2>1. CASE UNCHANGED bridgeQ
    BY <2>1, LenIs DEF TypeOK
  <2>2. CASE \E w \in NodeWrite : bridgeQ' = Append(bridgeQ, w)
    BY <2>2, AppendIs, WritesAre DEF TypeOK
  <2> QED
    BY <2>1, <2>2
<1>2. CASE /\ runStatus = outcome
           /\ \A i \in 1..Len(bridgeQ) : bridgeQ[i].of # "run"
  <2>1. \A i \in 1..Len(bridgeQ') : bridgeQ'[i].of # "run"
    BY <1>1, <1>2
  <2> QED
    BY <1>2, <2>1 DEF VerdictFits
<1>3. CASE \E i \in 1..Len(bridgeQ) :
              /\ bridgeQ[i] = [of |-> "run", status |-> outcome]
              /\ \A j \in 1..Len(bridgeQ) : j > i => bridgeQ[j].of # "run"
              /\ controller = "active" \/ (controller = "stopping" /\ i <= draining)
  <2>1. PICK i \in 1..Len(bridgeQ) :
              /\ bridgeQ[i] = [of |-> "run", status |-> outcome]
              /\ \A j \in 1..Len(bridgeQ) : j > i => bridgeQ[j].of # "run"
              /\ controller = "active" \/ (controller = "stopping" /\ i <= draining)
    BY <1>3
  <2>2. /\ i \in 1..Len(bridgeQ') /\ bridgeQ'[i] = [of |-> "run", status |-> outcome]
        /\ \A j \in 1..Len(bridgeQ') : j > i => bridgeQ'[j].of # "run"
    BY <1>1, <2>1
  <2> QED
    BY <2>1, <2>2 DEF VerdictFits
<1> QED
  BY <1>2, <1>3 DEF VerdictFits, Undisturbed

\* Nor is anything of the run queued by it.
LEMMA UndecidedFitsEmit ==
    ASSUME TypeOK, UndecidedFits,
           \/ UNCHANGED bridgeQ
           \/ \E w \in NodeWrite : bridgeQ' = Append(bridgeQ, w),
           UNCHANGED <<outcome, runStatus, stopper, lost>>
    PROVE  UndecidedFits'
<1>1. /\ Len(bridgeQ) \in Nat
      /\ \A i \in 1..Len(bridgeQ') : bridgeQ'[i].of = "run" =>
             i \in 1..Len(bridgeQ) /\ bridgeQ'[i] = bridgeQ[i]
  <2>1. CASE UNCHANGED bridgeQ
    BY <2>1, LenIs DEF TypeOK
  <2>2. ASSUME NEW w \in NodeWrite, bridgeQ' = Append(bridgeQ, w)
        PROVE  \A i \in 1..Len(bridgeQ') : bridgeQ'[i].of = "run" =>
                   i \in 1..Len(bridgeQ) /\ bridgeQ'[i] = bridgeQ[i]
    BY <2>2, AppendIs, WritesAre DEF TypeOK
  <2> QED
    BY <2>1, <2>2, LenIs DEF TypeOK
<1> QED
  BY <1>1 DEF UndecidedFits, Undisturbed

\* What an event of n does, but for where n is in its execution.
LEMMA EventKeeps ==
    ASSUME ControlInv, NEW n \in Nodes, Emitting, EventFrame,
           (\E s \in NodeStatuses : NodeEvent(n, s)) \/ Quiet,
           MarkNodeRunning(n) \/ ClearNode(n),
           at' \in [Nodes -> {"todo", "busy", "finished", "hook", "done"}],
           verdict' \in [Nodes -> {"none", "passed", "failed"}],
           hookPrev' \in NodeStatuses \cup {"none"}
    PROVE  ControlInv'
<1> USE DEF ControlInv
<1>1. /\ controller \in {"active", "stopping", "closing"}
      /\ UNCHANGED <<launcher, controller, outcome, even, draining, runStatus, nodeStatus,
                     pid, wire, stopper, snapshot, lost, landed, controlErr>>
      /\ RunActive' <=> RunActive
  BY DEF Emitting, EventFrame, dbVars, stopVars, ghosts, RunActive
<1>2. \/ UNCHANGED bridgeQ
      \/ \E w \in NodeWrite : w.of = n /\ bridgeQ' = Append(bridgeQ, w)
  BY WritesAre DEF NodeEvent, Quiet
<1>3. /\ bridgeQ' \in Seq(NodeWrite \cup RunWrite)
      /\ \A m \in Nodes \ {n}, i \in 1..Len(bridgeQ') : bridgeQ'[i].of = m =>
             i \in 1..Len(bridgeQ) /\ bridgeQ'[i] = bridgeQ[i]
  <2>1. CASE UNCHANGED bridgeQ
    BY <2>1 DEF TypeOK
  <2>2. CASE \E w \in NodeWrite : w.of = n /\ bridgeQ' = Append(bridgeQ, w)
    BY <2>2, AppendIs DEF TypeOK
  <2> QED
    BY <1>2, <2>1, <2>2
<1>4. \/ UNCHANGED <<act, controlQ, waiting>> /\ ~RunActive
      \/ /\ act' = [act EXCEPT ![n] = act'[n]] /\ act'[n] \in {"none", "running"}
         /\ \/ UNCHANGED <<controlQ, waiting>>
            \/ EnqueueControlWrite([of |-> n, status |-> "running"])
  BY DEF MarkNodeRunning, ClearNode, TypeOK
<1>5. [of |-> n, status |-> "running"] \in NodeWrite
  BY WritesAre DEF NodeStatuses
<1>6. /\ act' \in [Nodes -> {"none", "running", "stalled"}]
      /\ \A m \in Nodes \ {n} : act'[m] = act[m]
      /\ RunActive => act'[n] # "stalled"
  BY <1>4 DEF TypeOK
<1>7. controlQ' \in Seq(NodeWrite \cup {Heartbeat}) /\ waiting' \in Nat
  <2>1. CASE UNCHANGED <<controlQ, waiting>>
    BY <2>1 DEF TypeOK
  <2>2. CASE EnqueueControlWrite([of |-> n, status |-> "running"])
    BY <1>3, <1>5, <2>2, EnqueueIs DEF TypeOK
  <2> QED
    BY <1>4, <2>1, <2>2
<1>8. TypeOK'
  BY <1>1, <1>3, <1>6, <1>7 DEF TypeOK
<1>9. PhaseFits' /\ KilledRunStaysAborted'
  BY <1>1 DEF PhaseFits, KilledRunStaysAborted
<1>10. VerdictFits' /\ UndecidedFits'
  BY <1>1, <1>2, VerdictFitsEmit, UndecidedFitsEmit
<1>11. ASSUME NEW m \in Nodes
       PROVE  StallFits(m)'
  <2>1. CASE m = n
    BY <1>1, <1>6, <2>1 DEF StallFits
  <2>2. CASE m # n /\ UNCHANGED <<controlQ, waiting>>
    BY <1>1, <1>3, <1>6, <2>2, StallFitsEmit, LenIs
  <2>3. CASE m # n /\ EnqueueControlWrite([of |-> n, status |-> "running"])
    BY <1>1, <1>3, <1>5, <1>6, <2>3, StallFitsEnqueue, LenIs
  <2> QED
    BY <1>4, <2>1, <2>2, <2>3
<1> QED
  BY <1>8, <1>9, <1>10, <1>11

LEMMA NodeEventsKeep ==
    ASSUME ControlInv, NEW n \in Nodes, NodeEvents(n)
    PROVE  ControlInv'
<1> USE DEF ControlInv
<1>1. {"running", "blocked", "passed", "failed"} \subseteq NodeStatuses
  BY DEF NodeStatuses
<1>2. CASE NodeStart(n)
  BY <1>1, <1>2, EventKeeps DEF NodeStart, TypeOK
<1>3. CASE Progress(n)
  BY <1>1, <1>3, EventKeeps DEF Progress, TypeOK
<1>4. CASE Trouble(n)
  BY <1>1, <1>4, EventKeeps DEF Trouble, TypeOK
<1>5. CASE NodeFinish(n)
  <2>1. at' \in [Nodes -> {"todo", "busy", "finished", "hook", "done"}]
    BY <1>5 DEF NodeFinish, TypeOK
  <2>2. /\ verdict' \in [Nodes -> {"none", "passed", "failed"}]
        /\ \E s \in NodeStatuses : NodeEvent(n, s)
    BY <1>1, <1>5 DEF NodeFinish, TypeOK
  <2> QED
    BY <1>5, <2>1, <2>2, EventKeeps DEF NodeFinish, TypeOK
<1>6. CASE HookStart(n)
  <2>1. verdict[n] \in NodeStatuses \cup {"none"}
    BY <1>1 DEF TypeOK
  <2> QED
    BY <1>1, <1>6, <2>1, EventKeeps DEF HookStart, TypeOK
<1>7. CASE HookFinish(n)
  <2>1. (IF hookPrev = "none" THEN "running" ELSE hookPrev) \in NodeStatuses
    BY <1>1 DEF TypeOK
  <2>2. /\ (\E s \in NodeStatuses : NodeEvent(n, s))
        /\ MarkNodeRunning(n) \/ ClearNode(n)
    BY <1>1, <1>7, <2>1 DEF HookFinish
  <2> QED
    BY <1>7, <2>2, EventKeeps DEF HookFinish, TypeOK
<1> QED
  BY <1>2, <1>3, <1>4, <1>5, <1>6, <1>7 DEF NodeEvents

LEMMA WorkflowFinishKeeps ==
    ASSUME ControlInv, WorkflowFinish
    PROVE  ControlInv'
<1> USE DEF ControlInv
<1> DEFINE w == [of |-> "run", status |-> outcome']
<1>1. /\ outcome' \in RunOutcomes /\ bridgeQ' = Append(bridgeQ, w)
      /\ w \in NodeWrite \cup RunWrite
      /\ controller = "active" /\ act' = [n \in Nodes |-> "none"]
      /\ UNCHANGED <<launcher, controller, at, verdict, hookPrev,
                     controlQ, waiting, even, draining, runStatus, nodeStatus, pid, wire,
                     stopper, snapshot, lost, landed, controlErr>>
  BY WritesAre DEF WorkflowFinish, RunOutcomes, dbVars, stopVars, ghosts
<1> HIDE DEF w
<1>2. /\ bridgeQ' \in Seq(NodeWrite \cup RunWrite)
      /\ Len(bridgeQ) \in Nat /\ Len(bridgeQ') = Len(bridgeQ) + 1
      /\ bridgeQ'[Len(bridgeQ) + 1] = w
  BY <1>1, AppendIs DEF TypeOK
<1>3. TypeOK'
  BY <1>1, <1>2 DEF TypeOK
<1>4. PhaseFits' /\ KilledRunStaysAborted'
  BY <1>1 DEF PhaseFits, KilledRunStaysAborted, RunOutcomes
<1>5. VerdictFits' /\ UndecidedFits'
  BY <1>1, <1>2 DEF VerdictFits, UndecidedFits, RunOutcomes, w
<1>6. \A n \in Nodes : StallFits(n)'
  BY <1>1 DEF StallFits
<1> QED
  BY <1>3, <1>4, <1>5, <1>6

LEMMA TimersKeep ==
    ASSUME ControlInv, Timers
    PROVE  ControlInv'
<1> USE DEF ControlInv
<1>1. ASSUME NEW w \in NodeWrite \cup {Heartbeat}, EnqueueControlWrite(w), RunActive,
             act' \in [Nodes -> {"none", "running", "stalled"}],
             \A n \in Nodes : StallFits(n)',
             UNCHANGED <<launcher, controller, at, verdict, outcome,
                         hookPrev, bridgeQ, even, draining, runStatus, nodeStatus, pid,
                         wire, stopper, snapshot, lost, landed, controlErr>>
      PROVE  ControlInv'
  <2>1. TypeOK'
    BY <1>1, EnqueueIs DEF TypeOK
  <2>2. PhaseFits' /\ KilledRunStaysAborted'
    BY <1>1 DEF PhaseFits, KilledRunStaysAborted, RunActive
  <2>3. VerdictFits' /\ UndecidedFits'
    BY <1>1, VerdictFitsEmit, UndecidedFitsEmit
  <2> QED
    BY <1>1, <2>1, <2>2, <2>3
<1>2. ASSUME NEW n \in Nodes, MarkNodeStalled(n)
      PROVE  ControlInv'
  <2> DEFINE w == [of |-> n, status |-> "stalled"]
  <2>1. /\ w \in NodeWrite /\ w.of = n /\ EnqueueControlWrite(w) /\ RunActive
        /\ act' = [act EXCEPT ![n] = "stalled"]
        /\ UNCHANGED <<launcher, controller, at, verdict, outcome,
                       hookPrev, bridgeQ, even, draining, runStatus, nodeStatus, pid,
                       wire, stopper, snapshot, lost, landed, controlErr>>
    BY <1>2, WritesAre
    DEF MarkNodeStalled, NodeStatuses, schedVars, dbVars, stopVars, ghosts
  <2>2. /\ act' \in [Nodes -> {"none", "running", "stalled"}]
        /\ \A m \in Nodes \ {n} : act'[m] = act[m]
    BY <2>1 DEF TypeOK
  <2>3. /\ Len(controlQ) \in Nat /\ Len(controlQ') = Len(controlQ) + 1
        /\ controlQ'[Len(controlQ) + 1] = w
        /\ Len(controlQ) = 0 => waiting' = Len(bridgeQ)
        /\ Len(bridgeQ) \in Nat /\ bridgeQ' = bridgeQ
    BY <2>1, EnqueueIs, LenIs DEF TypeOK
  <2>4. StallFits(n)'
    <3>1. /\ Len(controlQ) + 1 \in 1..Len(controlQ')
          /\ \A j \in 1..Len(controlQ') : j > Len(controlQ) + 1 => controlQ'[j].of # n
          /\ \A i \in 1..Len(bridgeQ') :
                 bridgeQ'[i].of = n => Len(controlQ) + 1 > 1 \/ i <= waiting'
      BY <2>3
    <3> QED
      BY <2>3, <3>1 DEF StallFits, w
  <2>5. ASSUME NEW m \in Nodes \ {n}
        PROVE  StallFits(m)'
    <3>1. RunActive' => RunActive
      BY <2>1
    <3> HIDE DEF w
    <3> QED
      BY <2>1, <2>2, <2>3, <3>1, StallFitsEnqueue DEF TypeOK
  <2> QED
    BY <1>1, <2>1, <2>2, <2>4, <2>5
<1>3. CASE EnqueueHeartbeat
  <2>1. /\ EnqueueControlWrite(Heartbeat) /\ RunActive
        /\ UNCHANGED <<launcher, controller, at, verdict, outcome,
                       hookPrev, bridgeQ, even, draining, runStatus, nodeStatus, pid, act,
                       wire, stopper, snapshot, lost, landed, controlErr>>
    BY <1>3 DEF EnqueueHeartbeat, schedVars, dbVars, stopVars, ghosts
  <2>2. ASSUME NEW m \in Nodes
        PROVE  StallFits(m)'
    <3>1. Heartbeat.of # m /\ Len(bridgeQ) \in Nat
      BY WritesAre, RunIsNoNode, LenIs DEF TypeOK
    <3> QED
      BY <2>1, <3>1, StallFitsEnqueue DEF TypeOK
  <2> QED
    BY <1>1, <2>1, <2>2 DEF TypeOK
<1> QED
  BY <1>2, <1>3 DEF Timers

----------------------------------------------------------------------------
(* The two queues. *)

LEMMA PersistKeeps ==
    ASSUME ControlInv, Persist
    PROVE  ControlInv'
<1> USE DEF ControlInv
<1> DEFINE w == Head(bridgeQ)
<1>1. /\ w \in NodeWrite \cup RunWrite /\ w \in Write /\ w = bridgeQ[1]
      /\ bridgeQ' = Tail(bridgeQ) /\ bridgeQ' \in Seq(NodeWrite \cup RunWrite)
      /\ Len(bridgeQ) \in Nat \ {0} /\ Len(bridgeQ') = Len(bridgeQ) - 1
      /\ \A i \in 1..Len(bridgeQ') : bridgeQ'[i] = bridgeQ[i + 1]
  BY TailIs DEF Persist, TypeOK, Write
<1>2. /\ controller \in Alive /\ waiting' = Less(waiting) /\ draining' = Less(draining)
      /\ even' \in BOOLEAN
      /\ UNCHANGED <<launcher, controller, at, verdict, outcome,
                     hookPrev, act, controlQ, pid, wire, stopper, snapshot, landed,
                     controlErr>>
  BY DEF Persist, schedVars, stopVars
<1>3. /\ waiting' \in Nat /\ \A i \in Nat : i + 1 <= waiting => i <= waiting'
      /\ draining' \in Nat /\ \A i \in Nat : i + 1 <= draining => i <= draining'
  BY <1>2 DEF Less, TypeOK
<1>4. \/ Apply(w) /\ UNCHANGED lost
      \/ lost' /\ UNCHANGED <<runStatus, nodeStatus>>
  BY DEF Persist
<1> HIDE DEF w
<1>5. /\ runStatus' \in {"none", "queued", "starting", "aborted"} \cup RunOutcomes
      /\ nodeStatus' \in [Nodes -> NodeStatuses \cup {"none"}]
      /\ lost' \in BOOLEAN /\ (runStatus # "none" => runStatus' # "none")
      /\ ~lost' => /\ ~lost
                   /\ w.of # "run" => UNCHANGED runStatus
                   /\ w \in RunWrite => runStatus' = w.status
                   /\ \A n \in Nodes : w.of # n => nodeStatus'[n] = nodeStatus[n]
  <2>1. CASE Apply(w) /\ UNCHANGED lost
    <3>1. /\ runStatus' \in {"none", "queued", "starting", "aborted"} \cup RunOutcomes
          /\ nodeStatus' \in [Nodes -> NodeStatuses \cup {"none"}]
          /\ w.of # "run" => UNCHANGED runStatus
          /\ w \in RunWrite => runStatus' = w.status
          /\ \A n \in Nodes : w.of # n => nodeStatus'[n] = nodeStatus[n]
      BY <1>1, <2>1, ApplyIs
    <3>2. runStatus # "none" => runStatus' # "none"
      BY <1>1, <3>1, WritesAre
    <3> QED
      BY <2>1, <3>1, <3>2 DEF TypeOK
  <2>2. CASE lost' /\ UNCHANGED <<runStatus, nodeStatus>>
    <3>1. lost' \in BOOLEAN /\ ~lost' = FALSE
      BY <2>2, Zenon
    <3>2. runStatus' = runStatus /\ nodeStatus' = nodeStatus
      BY <2>2, Zenon
    <3> QED
      BY <3>1, <3>2, Zenon DEF TypeOK
  <2> QED
    BY <1>4, <2>1, <2>2
<1>6. TypeOK'
  BY <1>1, <1>2, <1>3, <1>5 DEF TypeOK
<1>7. PhaseFits' /\ KilledRunStaysAborted'
  BY <1>1, <1>2, <1>5 DEF PhaseFits, KilledRunStaysAborted, Alive
<1>8. VerdictFits'
  <2> SUFFICES ASSUME Undisturbed', outcome' # "none"
               PROVE  VerdictFits'
    BY DEF VerdictFits
  <2>1. Undisturbed /\ outcome # "none" /\ ~lost'
    BY <1>2, <1>5 DEF Undisturbed
  <2>2. CASE /\ runStatus = outcome
             /\ \A i \in 1..Len(bridgeQ) : bridgeQ[i].of # "run"
    BY <1>1, <1>2, <1>5, <2>1, <2>2 DEF VerdictFits
  <2>3. CASE \E i \in 1..Len(bridgeQ) :
              /\ bridgeQ[i] = [of |-> "run", status |-> outcome]
              /\ \A j \in 1..Len(bridgeQ) : j > i => bridgeQ[j].of # "run"
              /\ controller = "active" \/ (controller = "stopping" /\ i <= draining)
    <3>1. PICK i \in 1..Len(bridgeQ) :
              /\ bridgeQ[i] = [of |-> "run", status |-> outcome]
              /\ \A j \in 1..Len(bridgeQ) : j > i => bridgeQ[j].of # "run"
              /\ controller = "active" \/ (controller = "stopping" /\ i <= draining)
      BY <2>3
    <3>2. CASE i = 1
      <4>1. w = [of |-> "run", status |-> outcome]
        BY <1>1, <3>1, <3>2
      <4>2. w \in RunWrite /\ w.status = outcome
        BY <1>1, <4>1, WritesAre
      <4>3. \A j \in 1..Len(bridgeQ') : bridgeQ'[j].of # "run"
        BY <1>1, <3>1, <3>2
      <4> QED
        BY <1>2, <1>5, <2>1, <4>2, <4>3 DEF VerdictFits
    <3>3. CASE i # 1
      <4>1. i - 1 \in 1..Len(bridgeQ') /\ bridgeQ'[i - 1] = bridgeQ[i]
        BY <1>1, <3>1, <3>3
      <4>2. ASSUME NEW j \in 1..Len(bridgeQ'), j > i - 1
            PROVE  bridgeQ'[j].of # "run"
        <5>1. j + 1 \in 1..Len(bridgeQ) /\ j + 1 > i /\ bridgeQ'[j] = bridgeQ[j + 1]
          BY <1>1, <3>1, <4>2
        <5> QED
          BY <3>1, <5>1
      <4>3. i <= draining => i - 1 <= draining'
        <5>1. i - 1 \in Nat /\ (i - 1) + 1 = i
          BY <1>1, <3>1
        <5> QED
          BY <1>3, <5>1
      <4> QED
        BY <1>2, <3>1, <4>1, <4>2, <4>3 DEF VerdictFits
    <3> QED
      BY <3>2, <3>3
  <2> QED
    BY <2>1, <2>2, <2>3 DEF VerdictFits
<1>9. ASSUME NEW n \in Nodes
      PROVE  StallFits(n)'
  <2> SUFFICES ASSUME RunActive', Undisturbed', ~controlErr', act'[n] = "stalled"
               PROVE  StallFits(n)'
    BY DEF StallFits
  <2>1. RunActive /\ Undisturbed /\ ~controlErr /\ act[n] = "stalled" /\ ~lost'
    BY <1>2, <1>5 DEF Undisturbed, RunActive
  <2>2. CASE \E k \in 1..Len(controlQ) :
              /\ controlQ[k] = [of |-> n, status |-> "stalled"]
              /\ \A j \in 1..Len(controlQ) : j > k => controlQ[j].of # n
              /\ \A i \in 1..Len(bridgeQ) : bridgeQ[i].of = n => k > 1 \/ i <= waiting
    <3>1. PICK k \in 1..Len(controlQ) :
              /\ controlQ[k] = [of |-> n, status |-> "stalled"]
              /\ \A j \in 1..Len(controlQ) : j > k => controlQ[j].of # n
              /\ \A i \in 1..Len(bridgeQ) : bridgeQ[i].of = n => k > 1 \/ i <= waiting
      BY <2>2
    <3>2. \A i \in 1..Len(bridgeQ') : bridgeQ'[i].of = n => k > 1 \/ i <= waiting'
      BY <1>1, <1>3, <3>1
    <3> QED
      BY <1>2, <3>1, <3>2 DEF StallFits
  <2>3. CASE /\ nodeStatus[n] = "stalled"
             /\ \A j \in 1..Len(controlQ) : controlQ[j].of # n
             /\ \A i \in 1..Len(bridgeQ) : bridgeQ[i].of # n
    BY <1>1, <1>2, <1>5, <2>1, <2>3 DEF StallFits
  <2> QED
    BY <2>1, <2>2, <2>3 DEF StallFits
<1>10. UndecidedFits'
  <2> SUFFICES ASSUME Undisturbed', outcome' = "none"
               PROVE  UndecidedFits'
    BY DEF UndecidedFits
  <2>1. Undisturbed /\ outcome = "none" /\ ~lost'
    BY <1>2, <1>5 DEF Undisturbed
  <2>2. \A i \in 1..Len(bridgeQ') :
            bridgeQ'[i].of = "run" => bridgeQ'[i] = [of |-> "run", status |-> "starting"]
    BY <1>1, <2>1 DEF UndecidedFits
  <2>3. runStatus' \in {"none", "queued", "starting"}
    <3>1. CASE w.of = "run"
      <4>1. w = [of |-> "run", status |-> "starting"]
        BY <1>1, <2>1, <3>1 DEF UndecidedFits
      <4> QED
        BY <1>5, <2>1, <4>1, WritesAre
    <3>2. CASE w.of # "run"
      BY <1>5, <2>1, <3>2 DEF UndecidedFits
    <3> QED
      BY <3>1, <3>2
  <2> QED
    BY <2>2, <2>3 DEF UndecidedFits
<1> QED
  BY <1>6, <1>7, <1>8, <1>9, <1>10

LEMMA EndControlWriteKeeps ==
    ASSUME ControlInv, EndControlWrite
    PROVE  ControlInv'
<1> USE DEF ControlInv
<1> DEFINE w == Head(controlQ)
<1>1. /\ w \in NodeWrite \cup {Heartbeat} /\ w \in Write /\ w = controlQ[1]
      /\ controlQ' = Tail(controlQ) /\ controlQ' \in Seq(NodeWrite \cup {Heartbeat})
      /\ Len(controlQ) \in Nat \ {0} /\ Len(controlQ') = Len(controlQ) - 1
      /\ \A i \in 1..Len(controlQ') : controlQ'[i] = controlQ[i + 1]
      /\ Tail(controlQ) = << >> <=> Len(controlQ) = 1
  BY TailIs DEF EndControlWrite, TypeOK, Write
<1>2. /\ controller \in Alive /\ waiting = 0 /\ even' = FALSE
      /\ UNCHANGED <<launcher, controller, at, verdict, outcome,
                     hookPrev, act, bridgeQ, draining, pid, wire, stopper, snapshot,
                     lost, landed>>
  BY DEF EndControlWrite, schedVars, stopVars, ghosts
<1>3. /\ Len(bridgeQ) \in Nat /\ waiting' \in Nat
      /\ Len(controlQ) > 1 => waiting' = Len(bridgeQ)
  BY <1>1, LenIs DEF EndControlWrite, FlushEffect, TypeOK
<1>4. \/ Apply(w) /\ UNCHANGED controlErr
      \/ controlErr' /\ UNCHANGED <<runStatus, nodeStatus>>
  BY DEF EndControlWrite
<1> HIDE DEF w
<1>5. w.of # "run" \/ w.status = "heartbeat"
  BY <1>1, WritesAre
<1>6. /\ UNCHANGED runStatus /\ controlErr' \in BOOLEAN
      /\ nodeStatus' \in [Nodes -> NodeStatuses \cup {"none"}]
      /\ ~controlErr' => /\ ~controlErr
                         /\ \A n \in Nodes : nodeStatus'[n] = IF w.of = n THEN w.status
                                                              ELSE nodeStatus[n]
  <2>1. CASE Apply(w) /\ UNCHANGED controlErr
    BY <1>1, <1>5, <2>1, ApplyIs DEF TypeOK
  <2>2. CASE controlErr' /\ UNCHANGED <<runStatus, nodeStatus>>
    BY <2>2, Zenon DEF TypeOK
  <2> QED
    BY <1>4, <2>1, <2>2
<1>7. TypeOK'
  <2>1. /\ controlQ' \in Seq(NodeWrite \cup {Heartbeat})
        /\ waiting' \in Nat /\ even' \in BOOLEAN /\ controlErr' \in BOOLEAN
        /\ UNCHANGED runStatus /\ nodeStatus' \in [Nodes -> NodeStatuses \cup {"none"}]
    BY <1>1, <1>2, <1>3, <1>6
  <2> QED
    BY <1>2, <2>1 DEF TypeOK
<1>8. PhaseFits' /\ KilledRunStaysAborted' /\ VerdictFits' /\ UndecidedFits'
  <2>1. controller \in {"active", "stopping", "closing"}
    BY <1>2 DEF EndControlWrite, PhaseFits, Alive
  <2>2. PhaseFits' /\ KilledRunStaysAborted'
    BY <1>2, <1>6, <2>1 DEF PhaseFits, KilledRunStaysAborted
  <2>3. VerdictFits' /\ UndecidedFits'
    BY <1>2, <1>6 DEF VerdictFits, UndecidedFits, Undisturbed
  <2> QED
    BY <2>2, <2>3
<1>9. ASSUME NEW n \in Nodes
      PROVE  StallFits(n)'
  <2> SUFFICES ASSUME RunActive', Undisturbed', ~controlErr', act'[n] = "stalled"
               PROVE  StallFits(n)'
    BY DEF StallFits
  <2>1. RunActive /\ Undisturbed /\ ~controlErr /\ act[n] = "stalled"
    BY <1>2, <1>6 DEF Undisturbed, RunActive
  <2>2. CASE \E k \in 1..Len(controlQ) :
              /\ controlQ[k] = [of |-> n, status |-> "stalled"]
              /\ \A j \in 1..Len(controlQ) : j > k => controlQ[j].of # n
              /\ \A i \in 1..Len(bridgeQ) : bridgeQ[i].of = n => k > 1 \/ i <= waiting
    <3>1. PICK k \in 1..Len(controlQ) :
              /\ controlQ[k] = [of |-> n, status |-> "stalled"]
              /\ \A j \in 1..Len(controlQ) : j > k => controlQ[j].of # n
              /\ \A i \in 1..Len(bridgeQ) : bridgeQ[i].of = n => k > 1 \/ i <= waiting
      BY <2>2
    <3>2. CASE k = 1
      <4>1. w.of = n /\ w.status = "stalled"
        BY <1>1, <3>1, <3>2
      <4>2. nodeStatus'[n] = "stalled"
        BY <1>6, <4>1
      <4>3. \A j \in 1..Len(controlQ') : controlQ'[j].of # n
        BY <1>1, <3>1, <3>2
      <4>4. \A i \in 1..Len(bridgeQ') : bridgeQ'[i].of # n
        BY <1>2, <3>1, <3>2
      <4> QED
        BY <4>2, <4>3, <4>4 DEF StallFits
    <3>3. CASE k > 1
      <4>1. /\ k - 1 \in 1..Len(controlQ') /\ controlQ'[k - 1] = controlQ[k]
            /\ \A j \in 1..Len(controlQ') : j > k - 1 => controlQ'[j].of # n
        BY <1>1, <3>1, <3>3
      <4>2. \A i \in 1..Len(bridgeQ') : i <= waiting'
        BY <1>1, <1>2, <1>3, <3>3
      <4> QED
        BY <3>1, <4>1, <4>2 DEF StallFits
    <3> QED
      BY <3>2, <3>3
  <2>3. CASE /\ nodeStatus[n] = "stalled"
             /\ \A j \in 1..Len(controlQ) : controlQ[j].of # n
             /\ \A i \in 1..Len(bridgeQ) : bridgeQ[i].of # n
    BY <1>1, <1>2, <1>6, <2>1, <2>3 DEF StallFits
  <2> QED
    BY <2>1, <2>2, <2>3 DEF StallFits
<1> QED
  BY <1>7, <1>8, <1>9

LEMMA EndingKeeps ==
    ASSUME ControlInv, Ending
    PROVE  ControlInv'
<1> USE DEF ControlInv
<1>1. /\ controller' \in {"stopping", "closing", "ended"}
      /\ controller \in {"booting", "active", "stopping", "closing"}
      /\ draining' \in Nat /\ act' \in [Nodes -> {"none", "running", "stalled"}]
      /\ UNCHANGED <<launcher, at, verdict, outcome, hookPrev, bridgeQ, controlQ, waiting,
                     even, runStatus, nodeStatus, pid, wire, stopper, snapshot, lost,
                     landed, controlErr>>
  BY LenIs
  DEF Ending, StopSupervisor, BridgeFlushed, ControlFlushed, TypeOK,
      schedVars, queueVars, dbVars, stopVars, ghosts
<1>2. TypeOK'
  BY <1>1 DEF TypeOK, Alive
<1>3. PhaseFits' /\ KilledRunStaysAborted'
  BY <1>1 DEF PhaseFits, KilledRunStaysAborted
<1>4. VerdictFits'
  <2>1. CASE StopSupervisor
    BY <1>1, <2>1, LenIs DEF StopSupervisor, TypeOK, PhaseFits, VerdictFits, Undisturbed
  <2>2. CASE BridgeFlushed
    BY <1>1, <2>2 DEF BridgeFlushed, VerdictFits, Undisturbed
  <2>3. CASE ControlFlushed
    BY <1>1, <2>3 DEF ControlFlushed, VerdictFits, Undisturbed
  <2> QED
    BY <2>1, <2>2, <2>3 DEF Ending
<1>5. UndecidedFits'
  BY <1>1 DEF UndecidedFits, Undisturbed
<1>6. \A n \in Nodes : StallFits(n)'
  BY <1>1 DEF StallFits, RunActive
<1> QED
  BY <1>2, <1>3, <1>4, <1>5, <1>6

----------------------------------------------------------------------------
(* `moka stop`. *)

LEMMA StopControllerKeeps ==
    ASSUME ControlInv, StopControllerProcess
    PROVE  ControlInv'
<1> USE DEF ControlInv
<1>1. stopper' = "killed"
  BY DEF StopControllerProcess
<1>2. CASE snapshot.pid /\ controller \in Alive
  <2>1. /\ controller' = "killed" /\ MemoryGone /\ wire' \in SUBSET Write
        /\ lost' = FALSE
        /\ UNCHANGED <<launcher, runStatus, nodeStatus, pid, snapshot, landed>>
    BY <1>2 DEF StopControllerProcess, InFlight
  <2>2. /\ bridgeQ' \in Seq(NodeWrite \cup RunWrite)
        /\ controlQ' \in Seq(NodeWrite \cup {Heartbeat})
    BY <2>1, EmptySeq DEF MemoryGone
  <2>3. TypeOK'
    BY <1>1, <2>1, <2>2 DEF MemoryGone, TypeOK
  <2>4. launcher \in {"spawned", "recorded"} /\ runStatus # "none"
    BY <1>2 DEF PhaseFits, Alive
  <2>5. PhaseFits' /\ KilledRunStaysAborted'
    BY <1>1, <2>1, <2>4 DEF PhaseFits, KilledRunStaysAborted
  <2>6. VerdictFits' /\ UndecidedFits' /\ \A n \in Nodes : StallFits(n)'
    BY <1>1 DEF VerdictFits, UndecidedFits, StallFits, Undisturbed
  <2> QED
    BY <2>3, <2>5, <2>6
<1>3. CASE ~(snapshot.pid /\ controller \in Alive)
  <2>1. UNCHANGED <<launcher, controller, at, verdict, outcome, hookPrev,
                    act, bridgeQ, controlQ, waiting, even, draining, runStatus, nodeStatus,
                    pid, wire, snapshot, lost, landed, controlErr>>
    BY <1>3 DEF StopControllerProcess, schedVars, queueVars, ghosts
  <2>2. TypeOK'
    BY <1>1, <2>1 DEF TypeOK
  <2> QED
    BY <1>1, <2>1, <2>2
    DEF PhaseFits, KilledRunStaysAborted, VerdictFits, UndecidedFits, StallFits, Undisturbed
<1> QED
  BY <1>2, <1>3

\* The others leave the controller alone; the stopper is not idle after them.
LEMMA StopKeeps ==
    ASSUME ControlInv, Stop
    PROVE  ControlInv'
<1> USE DEF ControlInv
<1>1. ASSUME UNCHANGED <<launcher, controller, at, verdict, outcome,
                         hookPrev, act, bridgeQ, controlQ, waiting, even, draining, pid,
                         lost, controlErr>>,
             stopper' # "idle" \/ UNCHANGED <<runStatus, nodeStatus>>,
             stopper' # "idle",
             stopper \in {"killed", "run", "done"} => stopper' \in {"killed", "run", "done"},
             runStatus # "none" => runStatus' # "none", wire' \subseteq wire,
             TypeOK', KilledRunStaysAborted'
      PROVE  ControlInv'
  BY <1>1 DEF PhaseFits, VerdictFits, UndecidedFits, StallFits, Undisturbed
<1> USE DEF schedVars, queueVars, dbVars, stopVars, ghosts
<1>2. CASE StopReads
  <2>1. snapshot' \in [pid : BOOLEAN, nodes : SUBSET Nodes]
    BY <1>2 DEF StopReads, TypeOK
  <2>2. TypeOK'
    BY <1>2, <2>1 DEF StopReads, TypeOK
  <2> QED
    BY <1>1, <1>2, <2>2 DEF StopReads, KilledRunStaysAborted
<1>3. CASE WireLands
  <2>1. PICK w \in wire : /\ Apply(w) /\ wire' = wire \ {w}
                       /\ landed' = (landed \/ w \in RunWrite)
    BY <1>3 DEF WireLands
  <2>2. w \in Write
    BY <2>1 DEF TypeOK
  <2>3. /\ runStatus' \in {"none", "queued", "starting", "aborted"} \cup RunOutcomes
        /\ nodeStatus' \in [Nodes -> NodeStatuses \cup {"none"}]
        /\ w \notin RunWrite => UNCHANGED runStatus
        /\ runStatus # "none" => runStatus' # "none"
    BY <2>1, <2>2, ApplyIs, WritesAre DEF Write
  <2>4. TypeOK'
    BY <1>3, <2>1, <2>2, <2>3 DEF WireLands, TypeOK
  <2>5. stopper \in {"killed", "run", "done"}
    BY <2>1 DEF PhaseFits
  <2> QED
    BY <1>1, <1>3, <2>1, <2>3, <2>4, <2>5 DEF WireLands, KilledRunStaysAborted
<1>4. CASE StopRunStatus
  <2>1. TypeOK'
    BY <1>4 DEF StopRunStatus, TypeOK
  <2> QED
    BY <1>1, <1>4, <2>1 DEF StopRunStatus, KilledRunStaysAborted
<1>5. CASE StopNodeStatus
  <2>1. PICK n \in snapshot.nodes :
            /\ nodeStatus' = [nodeStatus EXCEPT ![n] = "aborted"]
            /\ snapshot' = [snapshot EXCEPT !.nodes = @ \ {n}]
    BY <1>5 DEF StopNodeStatus
  <2>2. /\ nodeStatus' \in [Nodes -> NodeStatuses \cup {"none"}]
        /\ snapshot' \in [pid : BOOLEAN, nodes : SUBSET Nodes]
    BY <2>1 DEF TypeOK, NodeStatuses
  <2>3. TypeOK'
    BY <1>5, <2>2 DEF StopNodeStatus, TypeOK
  <2> QED
    BY <1>1, <1>5, <2>3 DEF StopNodeStatus, KilledRunStaysAborted
<1>6. CASE StopEnds
  <2>1. TypeOK'
    BY <1>6 DEF StopEnds, TypeOK
  <2> QED
    BY <1>1, <1>6, <2>1 DEF StopEnds, KilledRunStaysAborted
<1>7. ASSUME NEW n \in Nodes, StopNode(n)
      PROVE  ControlInv'
  <2>1. nodeStatus' \in [Nodes -> NodeStatuses \cup {"none"}]
    BY <1>7 DEF StopNode, TypeOK, NodeStatuses
  <2>2. TypeOK'
    BY <1>7, <2>1 DEF StopNode, TypeOK
  <2>3. controller # "killed"
    BY <1>7 DEF StopNode, PhaseFits
  <2> QED
    BY <1>1, <1>7, <2>2, <2>3 DEF StopNode, KilledRunStaysAborted
<1> QED
  BY <1>2, <1>3, <1>4, <1>5, <1>6, <1>7, StopControllerKeeps DEF Stop

LEMMA ControlStepKeeps ==
    ASSUME ControlInv, [Next]_vars
    PROVE  ControlInv'
<1>1. CASE UNCHANGED vars
  BY <1>1
  DEF vars, schedVars, queueVars, dbVars, stopVars, ghosts, ControlInv, TypeOK,
      PhaseFits, VerdictFits, UndecidedFits, StallFits, KilledRunStaysAborted, RunActive,
      Undisturbed
<1> QED
  BY <1>1, LauncherKeeps, WorkflowStartKeeps, WorkflowFinishKeeps, NodeEventsKeep, TimersKeep,
     PersistKeeps, EndControlWriteKeeps, EndingKeeps, StopKeeps
  DEF Next

----------------------------------------------------------------------------
(* Theorems. *)

\* The reporter's and the supervisor's queue, the record and the processes agree
\* in every state (runtime-reporter.ts, supervisor.ts, stop.ts).
THEOREM ControlInvariant == Spec => []ControlInv
<1>1. Init => ControlInv
  BY ControlStart
<1>2. ControlInv /\ [Next]_vars => ControlInv'
  BY ControlStepKeeps
<1> QED
  BY <1>1, <1>2, PTL DEF Spec

\* Types are kept (src/run-control and the reporter in front of it).
THEOREM ControlTyped == Spec => []TypeOK
<1>1. ControlInv => TypeOK
  BY DEF ControlInv
<1> QED
  BY <1>1, ControlInvariant, PTL

\* When the command of a run has ended, the record has the status of its
\* workflow.finish event, or no verdict when there was none, unless a write failed or
\* somebody stopped the run (run-service.ts:101-110).
THEOREM VerdictIsRecorded == Spec => []RunVerdictStands
<1>1. ControlInv => RunVerdictStands
  <2> SUFFICES ASSUME ControlInv, controller = "ended", Undisturbed
               PROVE  IF outcome = "none" THEN runStatus \in {"queued", "starting"}
                      ELSE runStatus = outcome
    BY DEF RunVerdictStands
  <2>1. CASE outcome = "none"
    BY <2>1 DEF ControlInv, PhaseFits, UndecidedFits
  <2>2. CASE outcome # "none"
    BY <2>2 DEF ControlInv, VerdictFits
  <2> QED
    BY <2>1, <2>2
<1> QED
  BY <1>1, ControlInvariant, PTL

\* Nothing the controller had queued is written after the "aborted" of a stop
\* that killed it, but for a run status on the wire.
THEOREM StopHasTheLastWord == Spec => []KilledRunStaysAborted
<1>1. ControlInv => KilledRunStaysAborted
  BY DEF ControlInv
<1> QED
  BY <1>1, ControlInvariant, PTL

\* A stall mark is never overwritten by an event that is older than it.
THEOREM StallsAreRecorded == Spec => []StallIsRecorded
<1>1. ControlInv => StallIsRecorded
  <2> SUFFICES ASSUME ControlInv, RunActive, bridgeQ = << >>, controlQ = << >>,
                      Undisturbed, ~controlErr, NEW n \in Nodes, act[n] = "stalled"
               PROVE  nodeStatus[n] = "stalled"
    BY DEF StallIsRecorded
  <2>1. Len(controlQ) = 0
    BY EmptySeq
  <2> QED
    BY <2>1 DEF ControlInv, StallFits
<1> QED
  BY <1>1, ControlInvariant, PTL
=============================================================================
