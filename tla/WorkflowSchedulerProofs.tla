----------------------- MODULE WorkflowSchedulerProofs -----------------------
(***************************************************************************)
(* Proofs about WorkflowScheduler for every plan, cap and restart bound:    *)
(* what a launch and a re-launch need, what a reported verdict stands for   *)
(* (a PASS is complete, an outcome is durable), and what a failure stops:   *)
(* everything under fail-fast, otherwise only what is downstream of it.     *)
(***************************************************************************)
EXTENDS WorkflowScheduler, SequenceTheorems, FiniteSetTheorems, WellFoundedInduction,
        TLAPS

\* What the two queues hold, head, tail and appended element included.
LEMMA QueueTypes ==
    /\ << >> \in Seq(NodeOutcome) /\ << >> \in Seq(JournalWrite)
    /\ \A q \in Seq(NodeOutcome) : q # << >> =>
          /\ Head(q).node \in Nodes /\ Head(q).kind \in Results \cup {"error"}
          /\ Tail(q) \in Seq(NodeOutcome)
    /\ \A q \in Seq(JournalWrite) : q # << >> =>
          /\ Head(q).node \in Nodes /\ Head(q).kind \in Results
          /\ Tail(q) \in Seq(JournalWrite)
    /\ \A q \in Seq(NodeOutcome), n \in Nodes, k \in Results \cup {"error"} :
          Append(q, [node |-> n, kind |-> k]) \in Seq(NodeOutcome)
    /\ \A q \in Seq(JournalWrite), n \in Nodes, k \in Results :
          Append(q, [node |-> n, kind |-> k]) \in Seq(JournalWrite)
<1>1. << >> \in Seq(NodeOutcome) /\ << >> \in Seq(JournalWrite)
  BY EmptySeq
<1>2. ASSUME NEW q \in Seq(NodeOutcome), q # << >>
      PROVE  Head(q) \in NodeOutcome /\ Tail(q) \in Seq(NodeOutcome)
  BY <1>2, HeadTailProperties
<1>3. ASSUME NEW q \in Seq(JournalWrite), q # << >>
      PROVE  Head(q) \in JournalWrite /\ Tail(q) \in Seq(JournalWrite)
  BY <1>3, HeadTailProperties
<1>4. \A n \in Nodes, k \in Results \cup {"error"} : [node |-> n, kind |-> k] \in NodeOutcome
  BY DEF NodeOutcome
<1>5. \A n \in Nodes, k \in Results : [node |-> n, kind |-> k] \in JournalWrite
  BY DEF JournalWrite
<1>6. \A q \in Seq(NodeOutcome), e \in NodeOutcome : Append(q, e) \in Seq(NodeOutcome)
  BY AppendProperties
<1>7. \A q \in Seq(JournalWrite), e \in JournalWrite : Append(q, e) \in Seq(JournalWrite)
  BY AppendProperties
<1>8. \A e \in NodeOutcome : e.node \in Nodes /\ e.kind \in Results \cup {"error"}
  BY DEF NodeOutcome
<1>9. \A e \in JournalWrite : e.node \in Nodes /\ e.kind \in Results
  BY DEF JournalWrite
<1> QED BY <1>1, <1>2, <1>3, <1>4, <1>5, <1>6, <1>7, <1>8, <1>9

\* However a node's promise settles, it is a Settle with some outcome.
LEMMA SettleForm ==
    ASSUME NEW n \in Nodes, TypeOK, NodeSettles(n)
    PROVE  \E k \in Results \cup {"error"}, s \in Statuses, o \in BOOLEAN :
               Settle(n, k, s, o)
<1> USE DEF Results, Passing, Statuses
<1>1. status[n] \in Statuses
  BY DEF TypeOK
<1>2. CASE NodePasses(n)
  BY <1>2 DEF NodePasses
<1>3. ASSUME NEW o \in BOOLEAN PROVE FailedOrPartial(n, o) \subseteq Results
  BY DEF FailedOrPartial
<1>4. CASE NodeFails(n)
  BY <1>3, <1>4 DEF NodeFails
<1>5. CASE NodeCancelled(n)
  BY <1>3, <1>5 DEF NodeCancelled
<1>6. CASE NodeAborted(n)
  BY <1>1, <1>3, <1>6 DEF NodeAborted
<1>7. CASE NodeRejects(n)
  BY <1>1, <1>7 DEF NodeRejects
<1> QED BY <1>2, <1>4, <1>5, <1>6, <1>7 DEF NodeSettles

\* Every step keeps every variable in its type.
LEMMA TypeStep == TypeOK /\ [Next]_vars => TypeOK'
<1> SUFFICES ASSUME TypeOK, [Next]_vars PROVE TypeOK'
  OBVIOUS
<1> USE DEF TypeOK, Phases, Live, Outcomes, Statuses, Entries, Results, Passing
<1>1. CASE StartHookPasses
  BY <1>1 DEF StartHookPasses, Finish, PassedRows, nodeVars, storeVars
<1>2. CASE StartHookFails
  BY <1>2 DEF StartHookFails, Finish, schedVars, nodeVars, storeVars
<1>3. CASE TickCancelled
  BY <1>3, QueueTypes DEF TickCancelled, Finish, nodeVars, storeVars
<1>4. CASE TickLaunch
  BY <1>4 DEF TickLaunch, Finish, LegalPrefix, ComputeReady, Unstarted, storeVars
<1>5. CASE TickTerminal
  BY <1>5 DEF TickTerminal, schedVars, nodeVars, storeVars
<1>6. CASE TakeResult
  <2> DEFINE n == Head(queue).node
             k == Head(queue).kind
  <2>1. n \in Nodes /\ k \in Results /\ queue' \in Seq(NodeOutcome)
    BY <1>6, QueueTypes DEF TakeResult
  <2>2. completed' \in [Nodes -> Entries] /\ writeQ' \in Seq(JournalWrite)
    BY <1>6, <2>1, QueueTypes DEF TakeResult
  <2>3. CASE IsBlockingFailure(n, k)
    <3>1. /\ ApplyFailure(n)
          /\ UNCHANGED <<failFast, cancelled, executing, hookFailed, reported,
                         outputs, writeErr, db, restarts>>
      BY <1>6, <2>3 DEF TakeResult
    <3>2. /\ failure' \in Nodes \cup {NoFailure} /\ blocked' \in SUBSET Nodes
          /\ status' \in [Nodes -> Statuses]
      BY <3>1, <2>1 DEF ApplyFailure, BlockedBy, Unstarted
    <3>3. running' \in SUBSET Nodes /\ phase' \in Phases
          /\ outcome' \in Outcomes \cup {"none", "REJECTED"}
      BY <3>1 DEF ApplyFailure, Finish
    <3> QED BY <2>1, <2>2, <3>1, <3>2, <3>3
  <2>4. CASE ~IsBlockingFailure(n, k)
    BY <1>6, <2>1, <2>2, <2>4 DEF TakeResult
  <2> QED BY <2>3, <2>4
<1>7. CASE TakeError
  BY <1>7, QueueTypes DEF TakeError, nodeVars, storeVars
<1>8. CASE PersistWrite
  BY <1>8, QueueTypes DEF PersistWrite, schedVars, nodeVars
<1>9. CASE WriteFails
  BY <1>9, QueueTypes DEF WriteFails, schedVars, nodeVars
<1>10. CASE CloseJournal
  BY <1>10 DEF CloseJournal, schedVars, nodeVars, storeVars
<1>11. CASE Finalise
  BY <1>11 DEF Finalise, SuccessHook, PassCompleteHook, FailureHook, FailCompleteHook,
     Finish, schedVars, nodeVars, storeVars
<1>12. ASSUME NEW n \in Nodes, NodeSettles(n) PROVE TypeOK'
  <2>1. PICK kk \in Results \cup {"error"}, ss \in Statuses, oo \in BOOLEAN :
           Settle(n, kk, ss, oo)
    BY <1>12, SettleForm
  <2>2. queue' \in Seq(NodeOutcome)
    BY <2>1, QueueTypes DEF Settle
  <2>3. outputs' \in SUBSET Nodes
    BY <2>1 DEF Settle
  <2> QED BY <2>1, <2>2, <2>3 DEF Settle, storeVars
<1>13. CASE Cancel
  BY <1>13 DEF Cancel, schedVars, nodeVars, storeVars
<1>14. CASE Crash
  BY <1>14, QueueTypes DEF Crash, FreshProcess
<1>15. CASE Resume
  <2>1. restarts' \in 0..MaxRestarts
    BY <1>15, MaxRestartsTyped DEF Resume
  <2> QED BY <1>15, <2>1, QueueTypes DEF Resume, FreshProcess
<1>16. CASE UNCHANGED vars
  BY <1>16 DEF vars, schedVars, nodeVars, storeVars
<1> QED
  BY <1>1, <1>2, <1>3, <1>4, <1>5, <1>6, <1>7, <1>8, <1>9, <1>10, <1>11, <1>12,
     <1>13, <1>14, <1>15, <1>16
     DEF Next, Scheduler, Tick, Store, Terminated

\* The variables of a run always have their types.
THEOREM TypeCorrect == Spec => []TypeOK
<1>1. Init => TypeOK
  <2> SUFFICES ASSUME Init PROVE TypeOK
    OBVIOUS
  <2>1. restarts \in 0..MaxRestarts
    BY MaxRestartsTyped DEF Init
  <2> QED
    BY <2>1, QueueTypes
       DEF Init, TypeOK, Phases, Outcomes, Statuses, Entries, Results, Passing
<1> QED BY <1>1, TypeStep, PTL DEF Spec

----------------------------------------------------------------------------
(* The two queues as sets of nodes. *)

\* What appending and removing an entry does to the nodes a queue mentions.
LEMMA QueueNodes ==
    ASSUME NEW S, NEW q \in Seq(S)
    PROVE  /\ \A e \in S :
                 /\ NodesIn(Append(q, e)) = NodesIn(q) \cup {e.node}
                 /\ e.node \notin NodesIn(q) /\ OncePerNode(q) => OncePerNode(Append(q, e))
           /\ q # << >> =>
                 /\ NodesIn(q) = NodesIn(Tail(q)) \cup {Head(q).node}
                 /\ OncePerNode(q) => /\ OncePerNode(Tail(q))
                                      /\ Head(q).node \notin NodesIn(Tail(q))
<1>1. ASSUME NEW e \in S
      PROVE  /\ Len(Append(q, e)) = Len(q) + 1
             /\ \A i \in 1..Len(q) : Append(q, e)[i] = q[i]
             /\ Append(q, e)[Len(q) + 1] = e
  BY AppendProperties
<1>2. Len(q) \in Nat
  BY LenProperties
<1>3. ASSUME NEW e \in S
      PROVE  /\ NodesIn(Append(q, e)) = NodesIn(q) \cup {e.node}
             /\ e.node \notin NodesIn(q) /\ OncePerNode(q) => OncePerNode(Append(q, e))
  BY <1>1, <1>2 DEF NodesIn, OncePerNode
<1>4. ASSUME q # << >>
      PROVE  /\ Len(q) > 0 /\ Head(q) = q[1] /\ Len(Tail(q)) = Len(q) - 1
             /\ \A i \in 1..(Len(q) - 1) : Tail(q)[i] = q[i + 1]
  BY <1>4, <1>2, HeadTailProperties, EmptySeq
<1>5. ASSUME q # << >>
      PROVE  NodesIn(q) = NodesIn(Tail(q)) \cup {Head(q).node}
  <2>1. ASSUME NEW i \in 1..Len(q) PROVE q[i].node \in NodesIn(Tail(q)) \cup {Head(q).node}
    <3>1. CASE i = 1
      BY <1>4, <1>5, <3>1
    <3>2. CASE i # 1
      <4>1. i - 1 \in 1..Len(Tail(q)) /\ Tail(q)[i - 1] = q[i]
        BY <1>2, <1>4, <1>5, <3>2
      <4> QED BY <4>1 DEF NodesIn
    <3> QED BY <3>1, <3>2
  <2>2. ASSUME NEW i \in 1..Len(Tail(q)) PROVE Tail(q)[i].node \in NodesIn(q)
    <3>1. i + 1 \in 1..Len(q) /\ Tail(q)[i] = q[i + 1]
      BY <1>2, <1>4, <1>5
    <3> QED BY <3>1 DEF NodesIn
  <2>3. Head(q).node \in NodesIn(q)
    BY <1>2, <1>4, <1>5 DEF NodesIn
  <2> QED BY <2>1, <2>2, <2>3 DEF NodesIn
<1>6. ASSUME q # << >>, OncePerNode(q)
      PROVE  OncePerNode(Tail(q)) /\ Head(q).node \notin NodesIn(Tail(q))
  <2>1. ASSUME NEW i \in 1..Len(Tail(q)), NEW j \in 1..Len(Tail(q)),
               Tail(q)[i].node = Tail(q)[j].node
        PROVE  i = j
    <3>1. /\ i \in 1..(Len(q) - 1) /\ j \in 1..(Len(q) - 1)
          /\ i + 1 \in 1..Len(q) /\ j + 1 \in 1..Len(q)
          /\ q[i + 1].node = q[j + 1].node
      BY <1>2, <1>4, <1>6, <2>1
    <3>2. i + 1 = j + 1
      BY <3>1, <1>6 DEF OncePerNode
    <3> QED BY <3>1, <3>2, <1>2
  <2>2. ASSUME NEW i \in 1..Len(Tail(q)), Tail(q)[i].node = Head(q).node PROVE FALSE
    <3>1. i \in 1..(Len(q) - 1) /\ i + 1 \in 1..Len(q) /\ 1 \in 1..Len(q)
          /\ q[i + 1].node = q[1].node
      BY <1>2, <1>4, <1>6, <2>2
    <3>2. i + 1 = 1
      BY <3>1, <1>6 DEF OncePerNode
    <3> QED BY <3>1, <3>2, <1>2
  <2> QED BY <2>1, <2>2 DEF OncePerNode, NodesIn
<1> QED BY <1>3, <1>5, <1>6

----------------------------------------------------------------------------
(* The fibers, the completion queue and the results. *)

\* An empty queue mentions no node.
LEMMA EmptyQueue == NodesIn(<< >>) = {} /\ OncePerNode(<< >>)
<1>1. Len(<< >>) = 0
  BY EmptySeq
<1> QED BY <1>1 DEF NodesIn, OncePerNode

\* Taking a result from the completion queue (applyCompletion).
LEMMA FibersTake == TypeOK /\ FibersInv /\ TakeResult => FibersInv'
<1> SUFFICES ASSUME TypeOK, FibersInv, TakeResult PROVE FibersInv'
  OBVIOUS
<1> DEFINE n == Head(queue).node
           k == Head(queue).kind
<1>1. n \in Nodes /\ queue \in Seq(NodeOutcome) /\ queue # << >> /\ queue' = Tail(queue)
  BY QueueTypes DEF TypeOK, TakeResult
<1>2. /\ NodesIn(queue) = NodesIn(Tail(queue)) \cup {n}
      /\ OncePerNode(Tail(queue)) /\ n \notin NodesIn(Tail(queue))
  BY <1>1, QueueNodes DEF FibersInv
<1>3. phase = "await" /\ executing' = executing /\ completed' = [completed EXCEPT ![n] = k]
  BY DEF TakeResult
<1>4. NodesIn(queue) \subseteq running \ executing
  BY <1>3 DEF FibersInv, Scheduling
<1>5. \/ running' = running \ {n} /\ phase' = "tick"
      \/ running' = {} /\ phase' = "close"
  BY DEF TakeResult, ApplyFailure, Finish
<1>6. \A m \in running' : completed'[m] = "none"
  BY <1>3, <1>5 DEF FibersInv, TypeOK
<1> QED BY <1>1, <1>2, <1>3, <1>4, <1>5, <1>6 DEF FibersInv, Scheduling

\* The fibers and the completion queue stay consistent through every step.
LEMMA FibersStep == TypeOK /\ FibersInv /\ [Next]_vars => FibersInv'
<1> SUFFICES ASSUME TypeOK, FibersInv, [Next]_vars PROVE FibersInv'
  OBVIOUS
<1> USE DEF FibersInv, Scheduling
<1>1. CASE StartHookPasses
  BY <1>1, EmptyQueue DEF StartHookPasses, Finish
<1>2. CASE StartHookFails
  BY <1>2 DEF StartHookFails, Finish, schedVars
<1>3. CASE TickCancelled
  BY <1>3, EmptyQueue DEF TickCancelled, Finish
<1>4. CASE TickLaunch
  <2>1. PICK S \in SUBSET ComputeReady :
          LET launched == LegalPrefix(S, {"pending"})
          IN  /\ executing' = executing \cup launched
              /\ \/ running' = running \cup S /\ phase' = "await"
                 \/ running' = {} /\ phase' = "close"
    BY <1>4 DEF TickLaunch, Finish
  <2>2. \A m \in S : completed[m] = "none" /\ m \notin running
    BY DEF ComputeReady, Unstarted
  <2>3. LegalPrefix(S, {"pending"}) \subseteq S
    BY DEF LegalPrefix
  <2>4. UNCHANGED <<queue, completed>> /\ phase = "tick"
    BY <1>4 DEF TickLaunch
  <2> QED BY <2>1, <2>2, <2>3, <2>4 DEF NodesIn, OncePerNode
<1>5. CASE TickTerminal
  BY <1>5 DEF TickTerminal, schedVars
<1>6. CASE TakeResult
  BY <1>6, FibersTake
<1>7. CASE TakeError
  BY <1>7, EmptyQueue DEF TakeError
<1>8. CASE Store
  BY <1>8 DEF Store, PersistWrite, WriteFails, CloseJournal, schedVars
<1>9. CASE Finalise
  BY <1>9 DEF Finalise, SuccessHook, PassCompleteHook, FailureHook, FailCompleteHook,
     Finish, schedVars
<1>10. ASSUME NEW n \in Nodes, NodeSettles(n) PROVE FibersInv'
  <2>1. PICK kk \in Results \cup {"error"}, ss \in Statuses, oo \in BOOLEAN :
           Settle(n, kk, ss, oo)
    BY <1>10, SettleForm
  <2>2. UNCHANGED <<phase, running, completed>> /\ n \in executing /\ executing' = executing \ {n}
    BY <2>1 DEF Settle
  <2>3. CASE n \notin running
    BY <2>1, <2>2, <2>3 DEF Settle
  <2>4. CASE n \in running
    <3> DEFINE e == [node |-> n, kind |-> kk]
    <3>1. queue' = Append(queue, e) /\ e \in NodeOutcome /\ e.node = n
      BY <2>1, <2>4 DEF Settle, NodeOutcome
    <3>2. queue \in Seq(NodeOutcome) /\ n \notin NodesIn(queue) /\ phase \in {"tick", "await"}
      BY <2>2, <2>4 DEF TypeOK
    <3>3. NodesIn(queue') = NodesIn(queue) \cup {n} /\ OncePerNode(queue')
      BY <3>1, <3>2, QueueNodes
    <3> QED BY <2>2, <2>4, <3>2, <3>3
  <2> QED BY <2>3, <2>4
<1>11. CASE Cancel
  BY <1>11 DEF Cancel, schedVars
<1>12. CASE Crash
  BY <1>12, EmptyQueue DEF Crash, FreshProcess
<1>13. CASE Resume
  BY <1>13, EmptyQueue DEF Resume, FreshProcess
<1>14. CASE UNCHANGED vars
  BY <1>14 DEF vars, schedVars
<1> QED
  BY <1>1, <1>2, <1>3, <1>4, <1>5, <1>6, <1>7, <1>8, <1>9, <1>10, <1>11, <1>12,
     <1>13, <1>14 DEF Next, Scheduler, Tick, Terminated

\* A node keeps the result it has for as long as its run lasts.
LEMMA ResultsStand ==
    TypeOK /\ FibersInv /\ Scheduling /\ [Next]_vars /\ phase' # "crashed" =>
        \A n \in Nodes : completed[n] # "none" => completed'[n] = completed[n]
<1> SUFFICES ASSUME TypeOK, FibersInv, Scheduling, [Next]_vars, phase' # "crashed",
                    NEW n \in Nodes, completed[n] # "none"
             PROVE  completed'[n] = completed[n]
  OBVIOUS
<1>1. CASE TakeResult
  <2>1. Head(queue).node \in NodesIn(queue)
    BY <1>1, QueueNodes DEF TakeResult, TypeOK
  <2>2. completed[Head(queue).node] = "none"
    BY <2>1 DEF FibersInv
  <2> QED BY <1>1, <2>2 DEF TakeResult, TypeOK
<1>2. CASE ~TakeResult
  <2>1. completed' = completed
    BY <1>2 DEF Scheduling, Next, Scheduler, Tick, Store, Finalise, StartHookPasses,
       StartHookFails, TickCancelled, TickLaunch, TickTerminal, TakeError, PersistWrite,
       WriteFails, CloseJournal, SuccessHook, PassCompleteHook, FailureHook,
       FailCompleteHook, NodeSettles, NodePasses, NodeFails, FailedOrPartial,
       NodeCancelled, NodeAborted, NodeRejects, Settle, Cancel, Crash, Resume,
       Terminated, vars, schedVars
  <2> QED BY <2>1
<1> QED BY <1>1, <1>2

\* The dependencies of whatever is in flight stay satisfied.
LEMMA NeedsStep == TypeOK /\ FibersInv /\ NeedsSatisfied /\ [Next]_vars => NeedsSatisfied'
<1> SUFFICES ASSUME TypeOK, FibersInv, NeedsSatisfied, [Next]_vars,
                    NEW n \in running', NEW m \in Needs[n]
             PROVE  NeedMet(m)'
  BY DEF NeedsSatisfied
<1>1. TypeOK' /\ FibersInv'
  BY TypeStep, FibersStep
<1>2. Scheduling' /\ n \in Nodes /\ m \in Nodes
  BY <1>1, NeedsAreNodes DEF FibersInv, TypeOK
<1>3. CASE ~Scheduling
  <2>1. running' = {}
    BY <1>3, <1>2 DEF FibersInv, Scheduling, Next, Scheduler, Tick, Store, Finalise,
       StartHookPasses, StartHookFails, TickCancelled, TickLaunch, TickTerminal, TakeResult,
       TakeError, PersistWrite, WriteFails, CloseJournal, SuccessHook, PassCompleteHook,
       FailureHook, FailCompleteHook, NodeSettles, NodePasses, NodeFails, FailedOrPartial,
       NodeCancelled, NodeAborted, NodeRejects, Settle, Cancel, Crash, Resume, FreshProcess,
       Terminated, vars, schedVars
  <2> QED BY <2>1
<1>4. CASE Scheduling
  <2>1. NeedMet(m)
    <3>1. CASE n \in running
      BY <3>1 DEF NeedsSatisfied
    <3>2. CASE n \notin running
      <4>1. TickLaunch
        BY <3>2 DEF Next, Scheduler, Tick, Store, Finalise, StartHookPasses, StartHookFails,
           TickCancelled, TickTerminal, TakeResult, ApplyFailure, TakeError, PersistWrite,
           WriteFails, CloseJournal, SuccessHook, PassCompleteHook, FailureHook,
           FailCompleteHook, NodeSettles, NodePasses, NodeFails, FailedOrPartial,
           NodeCancelled, NodeAborted, NodeRejects, Settle, Cancel, Crash, Resume,
           FreshProcess, Terminated, vars, schedVars
      <4>2. n \in ComputeReady
        BY <3>2, <4>1 DEF TickLaunch
      <4> QED BY <4>2 DEF ComputeReady
    <3> QED BY <3>1, <3>2
  <2>2. completed'[m] = completed[m]
    BY <1>2, <1>4, <2>1, ResultsStand DEF NeedMet, Scheduling
  <2> QED BY <2>1, <2>2 DEF NeedMet
<1> QED BY <1>3, <1>4

\* Whatever the plan and the caps: a node is in flight only with every need met.
THEOREM NeedsAlwaysSatisfied == Spec => []NeedsSatisfied
<1>1. Init => FibersInv /\ NeedsSatisfied
  BY EmptyQueue DEF Init, FibersInv, Scheduling, NeedsSatisfied
<1> QED BY <1>1, TypeCorrect, FibersStep, NeedsStep, PTL DEF Spec

----------------------------------------------------------------------------
(* The journal. *)

\* Appending a completed node's result keeps the write queue true to the results.
LEMMA JournalTake == TypeOK /\ FibersInv /\ JournalInv /\ TakeResult => JournalInv'
<1> SUFFICES ASSUME TypeOK, FibersInv, JournalInv, TakeResult PROVE JournalInv'
  OBVIOUS
<1> DEFINE n == Head(queue).node
           k == Head(queue).kind
           e == [node |-> n, kind |-> k]
<1>1. n \in Nodes /\ k \in Results /\ k # "none"
  BY QueueTypes DEF TypeOK, TakeResult, Results, Passing
<1>2. /\ completed' = [completed EXCEPT ![n] = k] /\ completed \in [Nodes -> Entries]
      /\ writeQ' = Append(writeQ, e) /\ writeQ \in Seq(JournalWrite) /\ e \in JournalWrite
      /\ db' = db /\ writeErr' = writeErr /\ phase = "await" /\ phase' # "start"
  BY <1>1 DEF TakeResult, TypeOK, ApplyFailure, Finish, JournalWrite
<1>3. completed[n] = "none"
  <2>1. n \in NodesIn(queue)
    BY QueueNodes DEF TakeResult, TypeOK
  <2> QED BY <1>2, <2>1 DEF FibersInv, Scheduling
<1>4. NodesIn(writeQ') = NodesIn(writeQ) \cup {n}
  BY <1>2, QueueNodes
<1>5. /\ Len(writeQ') = Len(writeQ) + 1 /\ Len(writeQ) \in Nat
      /\ \A i \in 1..Len(writeQ) : writeQ'[i] = writeQ[i] /\ writeQ[i] \in JournalWrite
      /\ writeQ'[Len(writeQ) + 1] = e
  BY <1>2, AppendProperties, LenProperties, ElementOfSeq
<1>6. ASSUME NEW i \in 1..Len(writeQ') PROVE completed'[writeQ'[i].node] = writeQ'[i].kind
  <2>1. CASE i = Len(writeQ) + 1
    BY <1>1, <1>2, <1>5, <2>1
  <2>2. CASE i \in 1..Len(writeQ)
    <3>1. /\ writeQ'[i] = writeQ[i] /\ writeQ[i].node \in Nodes /\ writeQ[i].kind \in Results
          /\ completed[writeQ[i].node] = writeQ[i].kind
      BY <1>5, <2>2 DEF JournalInv, JournalWrite
    <3>2. writeQ[i].node # n
      BY <1>3, <3>1 DEF Results, Passing
    <3> QED BY <1>2, <3>1, <3>2
  <2> QED BY <1>5, <2>1, <2>2
<1>7. \A m \in Nodes : db'[m] \in Passing => completed'[m] # "none"
  BY <1>1, <1>2 DEF JournalInv, Scheduling
<1>8. ~writeErr' => \A m \in Nodes :
          completed'[m] # "none" => db'[m] = completed'[m] \/ m \in NodesIn(writeQ')
  BY <1>2, <1>4 DEF JournalInv
<1> QED BY <1>2, <1>6, <1>7, <1>8 DEF JournalInv

\* Writing the head of the queue, or failing to.
LEMMA JournalWriteStep ==
    TypeOK /\ JournalInv /\ (PersistWrite \/ WriteFails) => JournalInv'
<1> SUFFICES ASSUME TypeOK, JournalInv, PersistWrite \/ WriteFails PROVE JournalInv'
  OBVIOUS
<1> DEFINE h == Head(writeQ)
<1>1. /\ writeQ \in Seq(JournalWrite) /\ writeQ # << >> /\ writeQ' = Tail(writeQ)
      /\ UNCHANGED <<phase, completed>> /\ phase # "start"
  BY DEF TypeOK, PersistWrite, WriteFails, schedVars, JournalInv
<1>2. /\ Len(writeQ) \in Nat /\ Len(writeQ) > 0 /\ Len(writeQ') = Len(writeQ) - 1
      /\ \A i \in 1..(Len(writeQ) - 1) : writeQ'[i] = writeQ[i + 1]
      /\ h = writeQ[1] /\ h \in JournalWrite
  BY <1>1, HeadTailProperties, LenProperties, EmptySeq
<1>3. completed[h.node] = h.kind /\ h.node \in Nodes /\ h.kind \in Results
  BY <1>2 DEF JournalInv, JournalWrite
<1>4. NodesIn(writeQ) = NodesIn(writeQ') \cup {h.node}
  BY <1>1, QueueNodes
<1>5. ASSUME NEW i \in 1..Len(writeQ') PROVE completed'[writeQ'[i].node] = writeQ'[i].kind
  <2>1. i \in 1..(Len(writeQ) - 1) /\ i + 1 \in 1..Len(writeQ)
    BY <1>2
  <2> QED BY <1>1, <1>2, <2>1 DEF JournalInv
<1>6. CASE PersistWrite
  <2>1. db' = [db EXCEPT ![h.node] = h.kind] /\ writeErr' = writeErr
    BY <1>6 DEF PersistWrite
  <2>2. \A m \in Nodes : db'[m] = IF m = h.node THEN completed[m] ELSE db[m]
    BY <1>3, <2>1 DEF TypeOK
  <2>3. Scheduling' => \A m \in Nodes : db'[m] \in Passing => completed'[m] # "none"
    BY <1>1, <1>3, <2>2 DEF JournalInv, Scheduling, Passing
  <2>4. ~writeErr' => \A m \in Nodes :
          completed'[m] # "none" => db'[m] = completed'[m] \/ m \in NodesIn(writeQ')
    BY <1>1, <1>4, <2>1, <2>2 DEF JournalInv
  <2> QED BY <1>1, <1>5, <2>3, <2>4 DEF JournalInv
<1>7. CASE WriteFails
  BY <1>1, <1>5, <1>7 DEF WriteFails, JournalInv, Scheduling
<1> QED BY <1>6, <1>7

\* The journal stays true to the results through every step.
LEMMA JournalStep == TypeOK /\ FibersInv /\ JournalInv /\ [Next]_vars => JournalInv'
<1> SUFFICES ASSUME TypeOK, FibersInv, JournalInv, [Next]_vars PROVE JournalInv'
  OBVIOUS
<1>0. Len(<< >>) = 0
  BY EmptySeq
<1>1. CASE StartHookPasses
  <2>1. CASE cancelled
    BY <1>1, <2>1 DEF StartHookPasses, Finish, storeVars, JournalInv, Scheduling
  <2>2. CASE ~cancelled
    <3>1. /\ completed' = PassedRows /\ writeQ' = << >> /\ db' = db /\ phase' = "tick"
      BY <1>1, <2>2 DEF StartHookPasses, storeVars, JournalInv
    <3>2. \A n \in Nodes : completed'[n] = IF db'[n] \in Passing THEN db'[n] ELSE "none"
      BY <3>1 DEF PassedRows
    <3> QED BY <1>0, <3>1, <3>2 DEF JournalInv, Passing
  <2> QED BY <2>1, <2>2
<1>2. CASE TakeResult
  BY <1>2, JournalTake
<1>3. CASE PersistWrite \/ WriteFails
  BY <1>3, JournalWriteStep
<1>4. CASE Crash \/ Resume
  BY <1>0, <1>4 DEF Crash, Resume, FreshProcess, JournalInv, Scheduling
<1>5. CASE ~(StartHookPasses \/ TakeResult \/ PersistWrite \/ WriteFails \/ Crash \/ Resume)
  <2>1. /\ UNCHANGED <<completed, storeVars>>
        /\ phase' = "start" => phase = "start"
        /\ Scheduling' => Scheduling
    BY <1>5 DEF Scheduling, Next, Scheduler, Tick, Store, Finalise,
       StartHookFails, TickCancelled, TickLaunch, TickTerminal, TakeError, CloseJournal,
       SuccessHook, PassCompleteHook, FailureHook, FailCompleteHook, Finish,
       NodeSettles, NodePasses, NodeFails, FailedOrPartial,
       NodeCancelled, NodeAborted, NodeRejects, Settle, Cancel,
       Terminated, vars, schedVars, storeVars
  <2> QED BY <2>1 DEF JournalInv, storeVars, NodesIn
<1> QED BY <1>1, <1>2, <1>3, <1>4, <1>5

\* A node with a durable passed result is never launched again, across any
\* number of crashes and resumes.
THEOREM DurablyPassedStaysDone == Spec => DurablyPassedNeverReRuns
<1>1. Init => FibersInv /\ JournalInv
  BY EmptyQueue, EmptySeq DEF Init, FibersInv, JournalInv, Scheduling
<1>2. TypeOK /\ FibersInv /\ JournalInv /\ [Next]_vars =>
        [\A n \in running' \ running : db[n] \notin Passing]_vars
  <2> SUFFICES ASSUME TypeOK, FibersInv, JournalInv, [Next]_vars,
                      NEW n \in running', n \notin running
               PROVE  db[n] \notin Passing
    OBVIOUS
  <2>1. TickLaunch
    BY DEF Next, Scheduler, Tick, Store, Finalise, StartHookPasses, StartHookFails,
       TickCancelled, TickTerminal, TakeResult, ApplyFailure, TakeError, PersistWrite,
       WriteFails, CloseJournal, SuccessHook, PassCompleteHook, FailureHook,
       FailCompleteHook, NodeSettles, NodePasses, NodeFails, FailedOrPartial,
       NodeCancelled, NodeAborted, NodeRejects, Settle, Cancel, Crash, Resume,
       FreshProcess, Terminated, vars, schedVars
  <2>2. n \in Nodes /\ completed[n] = "none" /\ phase = "tick"
    BY <2>1 DEF TickLaunch, ComputeReady, Unstarted
  <2> QED BY <2>2 DEF JournalInv, Scheduling
<1> QED BY <1>1, <1>2, TypeCorrect, FibersStep, JournalStep, PTL
        DEF Spec, DurablyPassedNeverReRuns

----------------------------------------------------------------------------
(* What a reported verdict stands for.                                      *)

\* With nothing running, capacity and category slots are free, so an empty
\* selection means that no node is ready.
LEMMA NothingReady ==
    ASSUME TypeOK, running = {}, IsSelection({})
    PROVE  ComputeReady = {}
<1> SUFFICES ASSUME NEW n \in ComputeReady PROVE FALSE
  OBVIOUS
<1>1. n \in Nodes /\ ~MayTake({}, n)
  BY DEF IsSelection, ComputeReady, Unstarted
<1>2. Cardinality({}) = 0
  BY FS_EmptySet
<1>3. Limit \in Nat \ {0}
  BY MaxParallelTyped DEF Limit
<1>4. Cardinality(running) = 0
  BY <1>2
<1>5. Capacity = Limit
  BY <1>3, <1>4 DEF Capacity
<1>6. Earlier({}, n) = {}
  BY DEF Earlier
<1>7. Cardinality(Earlier({}, n)) < Capacity
  BY <1>2, <1>3, <1>5, <1>6
<1>8. ASSUME Category[n] # NoCategory
      PROVE  Cardinality(InCategory(running \cup Earlier({}, n), Category[n]))
                 < CategoryCap[Category[n]]
  <2>1. InCategory(running \cup Earlier({}, n), Category[n]) = {}
    BY <1>6 DEF InCategory
  <2>2. CategoryCap[Category[n]] \in Nat \ {0}
    BY <1>1, <1>8, CategoriesTyped
  <2>3. Cardinality(InCategory(running \cup Earlier({}, n), Category[n])) = 0
    BY <1>2, <2>1
  <2> QED BY <2>2, <2>3
<1> QED BY <1>1, <1>7, <1>8 DEF MayTake

\* Every non-empty set of nodes has one with the least index.
LEMMA FirstNode ==
    ASSUME NEW S, S \subseteq Nodes, S # {}
    PROVE  \E n \in S : \A m \in S : ~(Index[m] < Index[n])
<1> DEFINE T == {Index[n] : n \in S}
           R == {ss \in Nat \X Nat : ss[1] < ss[2]}
<1>0. IsWellFoundedOn(R, Nat)
  BY NatLessThanWellFounded DEF OpToRel
<1> HIDE DEF R
<1>1. T \subseteq Nat /\ T # {}
  BY IndexIsTopological
<1>2. PICK x \in T : \A y \in T : <<y, x>> \notin R
  BY <1>0, <1>1, WFMin
<1>3. PICK n \in S : Index[n] = x
  BY <1>2
<1>4. ASSUME NEW m \in S PROVE ~(Index[m] < Index[n])
  <2>1. Index[m] \in Nat /\ Index[n] \in Nat /\ Index[m] \in T
    BY <1>1
  <2>2. <<Index[m], Index[n]>> \notin R
    BY <1>2, <1>3, <2>1
  <2> QED BY <2>1, <2>2 DEF R
<1> QED BY <1>4

\* A loop that drains without a failure has a continuing result for every node:
\* the first unfinished node in index order would have been ready.
LEMMA DrainedIsComplete ==
    ASSUME TypeOK, VerdictInv, TickTerminal, failure = NoFailure, NEW n \in Nodes
    PROVE  NeedMet(n)
<1> DEFINE U == {m \in Nodes : completed[m] = "none"}
<1>1. /\ blocked = {}
      /\ \A m \in Nodes : completed[m] # "none" => ShouldContinue(m, completed[m])
  BY DEF VerdictInv, TickTerminal, Scheduling
<1>2. U = {}
  <2> SUFFICES ASSUME U # {} PROVE FALSE
    OBVIOUS
  <2>1. PICK f \in U : \A m \in U : ~(Index[m] < Index[f])
    BY FirstNode
  <2>2. \A m \in Needs[f] : m \in Nodes /\ m \notin U
    BY <2>1, NeedsAreNodes, IndexIsTopological
  <2>3. \A m \in Needs[f] : NeedMet(m)
    BY <1>1, <2>2 DEF NeedMet
  <2>4. f \in ComputeReady
    BY <1>1, <2>1, <2>3 DEF ComputeReady, Unstarted, TickTerminal
  <2> QED BY <2>4, NothingReady DEF TickTerminal
<1> QED BY <1>1, <1>2 DEF NeedMet

\* A result that does not block lets the workflow continue; one that does puts
\* its node on record.
LEMMA VerdictTake == TypeOK /\ VerdictInv /\ TakeResult => VerdictInv'
<1> SUFFICES ASSUME TypeOK, VerdictInv, TakeResult PROVE VerdictInv'
  OBVIOUS
<1> DEFINE n == Head(queue).node
           k == Head(queue).kind
<1>1. n \in Nodes
  BY QueueTypes DEF TypeOK, TakeResult
<1>2. phase = "await" /\ reported' = reported /\ reported = "none" /\ outcome = "none"
  BY DEF TakeResult, VerdictInv
<1>3. completed' = [completed EXCEPT ![n] = k] /\ completed \in [Nodes -> Entries]
  BY DEF TakeResult, TypeOK
<1>4. CASE IsBlockingFailure(n, k)
  <2>1. failure' # NoFailure
    BY <1>1, <1>4, NodesFinite DEF TakeResult, ApplyFailure
  <2>2. \/ phase' = "tick" /\ outcome' = outcome
        \/ phase' = "close" /\ outcome' = "REJECTED"
    BY <1>4 DEF TakeResult, ApplyFailure, Finish
  <2> QED BY <1>2, <2>1, <2>2 DEF VerdictInv, Scheduling, Outcomes
<1>5. CASE ~IsBlockingFailure(n, k)
  <2>1. phase' = "tick" /\ UNCHANGED <<failure, blocked, outcome>>
    BY <1>5 DEF TakeResult
  <2>2. ASSUME failure' = NoFailure, NEW m \in Nodes, completed'[m] # "none"
        PROVE  ShouldContinue(m, completed'[m])
    <3>1. CASE m = n
      BY <1>1, <1>3, <1>5, <3>1 DEF IsBlockingFailure
    <3>2. CASE m # n
      BY <1>2, <1>3, <2>1, <2>2, <3>2 DEF VerdictInv, Scheduling
    <3> QED BY <3>1, <3>2
  <2>3. failure' = NoFailure => blocked' = {}
    BY <1>2, <2>1 DEF VerdictInv, Scheduling
  <2> QED BY <1>2, <2>1, <2>2, <2>3 DEF VerdictInv, Scheduling
<1> QED BY <1>4, <1>5

\* The verdict invariant holds through every step.
LEMMA VerdictStep == TypeOK /\ VerdictInv /\ [Next]_vars => VerdictInv'
<1> SUFFICES ASSUME TypeOK, VerdictInv, [Next]_vars PROVE VerdictInv'
  OBVIOUS
<1>1. CASE StartHookPasses
  <2>1. CASE cancelled
    BY <1>1, <2>1 DEF StartHookPasses, Finish, VerdictInv, Scheduling, storeVars
  <2>2. CASE ~cancelled
    <3>1. /\ completed' = PassedRows /\ phase' = "tick" /\ phase = "start"
          /\ UNCHANGED <<outcome, reported, failure, blocked>>
      BY <1>1, <2>2 DEF StartHookPasses
    <3>2. \A m \in Nodes : completed'[m] # "none" => ShouldContinue(m, completed'[m])
      BY <3>1 DEF PassedRows, ShouldContinue
    <3> QED BY <3>1, <3>2 DEF VerdictInv, Scheduling
  <2> QED BY <2>1, <2>2
<1>2. CASE TakeResult
  BY <1>2, VerdictTake
<1>3. CASE TickTerminal
  <2>1. UNCHANGED <<completed, failure, blocked, outcome, reported>> /\ phase = "tick"
    BY <1>3 DEF TickTerminal, schedVars
  <2>2. CASE failure = NoFailure
    <3>1. \A n \in Nodes : NeedMet(n)
      BY <1>3, <2>2, DrainedIsComplete
    <3>2. phase' = "successHook"
      BY <1>3, <2>2 DEF TickTerminal
    <3>3. \A n \in Nodes : NeedMet(n)'
      BY <2>1, <3>1 DEF NeedMet
    <3> QED BY <2>1, <3>2, <3>3 DEF VerdictInv, Scheduling
  <2>3. CASE failure # NoFailure
    BY <1>3, <2>1, <2>3 DEF TickTerminal, VerdictInv, Scheduling
  <2> QED BY <2>2, <2>3
<1>4. CASE TickLaunch
  <2>1. /\ phase = "tick" /\ UNCHANGED <<completed, failure, blocked, reported>>
        /\ \/ phase' = "await" /\ outcome' = outcome
           \/ phase' = "close" /\ outcome' = "REJECTED"
    BY <1>4 DEF TickLaunch, Finish
  <2> QED BY <2>1 DEF VerdictInv, Scheduling
<1>5. CASE CloseJournal
  <2>1. /\ phase = "close" /\ phase' = "done" /\ writeQ = << >>
        /\ UNCHANGED <<completed, failure, blocked, outcome, writeQ, writeErr>>
        /\ reported' = IF writeErr THEN "REJECTED" ELSE outcome
    BY <1>5 DEF CloseJournal, schedVars, storeVars
  <2>2. outcome = "PASS" => \A n \in Nodes : NeedMet(n)'
    BY <2>1 DEF VerdictInv, NeedMet
  <2> QED BY <2>1, <2>2 DEF VerdictInv, Scheduling, Outcomes
<1>6. CASE Crash \/ Resume
  BY <1>6 DEF Crash, Resume, FreshProcess, VerdictInv, Scheduling, Live, Phases, Outcomes
<1>7. CASE Finalise
  <2>1. /\ UNCHANGED <<completed, failure, blocked, reported>>
        /\ phase \notin {"start", "tick", "await", "close", "done"}
        /\ \/ phase' \in {"passCompleteHook", "failCompleteHook"} /\ outcome' = outcome
           \/ phase' = "close" /\ outcome' \in Outcomes
        /\ phase' = "passCompleteHook" => phase = "successHook"
        /\ outcome' = "PASS" => phase = "passCompleteHook" \/ outcome = "PASS"
    BY <1>7 DEF Finalise, SuccessHook, PassCompleteHook, FailureHook, FailCompleteHook,
       Finish, schedVars, Outcomes
  <2> QED BY <2>1 DEF VerdictInv, Scheduling, NeedMet
<1>8. CASE StartHookFails \/ TickCancelled \/ TakeError
  <2>1. /\ UNCHANGED <<completed, failure, blocked, reported>>
        /\ phase \in {"start", "tick", "await"}
        /\ \/ phase' = "failureHook" /\ outcome' = outcome
           \/ phase' = "close" /\ outcome' \in {"FAIL", "CANCELLED"}
    BY <1>8 DEF StartHookFails, TickCancelled, TakeError, Finish, schedVars
  <2> QED BY <2>1 DEF VerdictInv, Scheduling
<1>9. CASE PersistWrite \/ WriteFails
  <2>1. /\ UNCHANGED <<phase, completed, failure, blocked, outcome, reported>>
        /\ phase # "done"
    BY <1>9 DEF PersistWrite, WriteFails, schedVars, Live
  <2> QED BY <2>1 DEF VerdictInv, Scheduling, NeedMet
<1>10. CASE \/ Cancel \/ Terminated \/ UNCHANGED vars
            \/ \E n \in Nodes : NodeSettles(n)
  <2>1. UNCHANGED <<phase, completed, failure, blocked, outcome, reported, storeVars>>
    <3>1. ASSUME NEW n \in Nodes, NodeSettles(n)
          PROVE  UNCHANGED <<phase, completed, failure, blocked, outcome, reported, storeVars>>
      BY <3>1, SettleForm DEF Settle
    <3> QED BY <1>10, <3>1 DEF Cancel, Terminated, vars, schedVars
  <2> QED BY <2>1 DEF VerdictInv, Scheduling, NeedMet, storeVars
<1> QED BY <1>1, <1>2, <1>3, <1>4, <1>5, <1>6, <1>7, <1>8, <1>9, <1>10
        DEF Next, Scheduler, Tick, Store

LEMMA VerdictInit == Init => VerdictInv
BY DEF Init, VerdictInv, Scheduling, Outcomes

\* A run reported PASS has a continuing result for every node of the plan:
\* neither a cap, a blocked node nor a hook can make it pass early.
THEOREM PassAlwaysComplete == Spec => []PassIsComplete
<1>1. VerdictInv => PassIsComplete
  BY DEF VerdictInv, PassIsComplete
<1> QED BY <1>1, TypeCorrect, VerdictInit, VerdictStep, PTL DEF Spec

\* Once the caller has an outcome, every result of the run is in the table.
THEOREM OutcomeAlwaysDurable == Spec => []OutcomeIsDurable
<1>1. Init => FibersInv /\ JournalInv
  BY EmptyQueue, EmptySeq DEF Init, FibersInv, JournalInv, Scheduling
<1>2. JournalInv /\ VerdictInv => OutcomeIsDurable
  BY EmptyQueue DEF JournalInv, VerdictInv, OutcomeIsDurable
<1> QED BY <1>1, <1>2, TypeCorrect, FibersStep, JournalStep, VerdictInit, VerdictStep, PTL
        DEF Spec

----------------------------------------------------------------------------
(* What a blocking failure stops, and that nothing else is left undone.     *)

\* What is downstream of n leads to nodes downstream of n.
LEMMA DescendantsClosed ==
    ASSUME NEW n \in Nodes
    PROVE  /\ Dependents(n) \subseteq Descendants(n)
           /\ \A d \in Descendants(n) : Dependents(d) \subseteq Descendants(n)
<1>1. Dependents(n) \subseteq Descendants(n)
  BY DEF Dependents, Descendants
<1>2. ASSUME NEW d \in Descendants(n), NEW e \in Dependents(d)
      PROVE  e \in Descendants(n)
  <2> SUFFICES ASSUME NEW S \in SUBSET Nodes, Dependents(n) \subseteq S,
                      \A m \in S : Dependents(m) \subseteq S
               PROVE  e \in S
    BY <1>2 DEF Descendants, Dependents
  <2>1. d \in S
    BY DEF Descendants
  <2> QED BY <1>2, <2>1
<1> QED BY <1>1, <1>2

\* The mode of a run is fixed.
LEMMA ModeIsFixed == TypeOK /\ [Next]_vars => failFast' = failFast
<1> SUFFICES ASSUME TypeOK, [Next]_vars PROVE failFast' = failFast
  OBVIOUS
<1>1. CASE Scheduler
  BY <1>1 DEF Scheduler, StartHookPasses, StartHookFails, Tick, TickCancelled, TickLaunch,
     TickTerminal, TakeResult, TakeError
<1>2. CASE Store \/ Finalise \/ Cancel \/ Crash \/ Resume \/ Terminated
  BY <1>2 DEF Store, PersistWrite, WriteFails, CloseJournal, Finalise, SuccessHook,
     PassCompleteHook, FailureHook, FailCompleteHook, Cancel, Crash, Resume, Terminated, vars
<1>3. CASE UNCHANGED vars \/ \E n \in Nodes : NodeSettles(n)
  BY <1>3, SettleForm DEF Settle, vars
<1> QED BY <1>1, <1>2, <1>3 DEF Next

\* A node held back stays so while results stand.
LEMMA HeldBackStands ==
    ASSUME NEW n, HeldBack(n), failFast' = failFast,
           \A m \in Nodes : completed[m] # "none" => completed'[m] = completed[m]
    PROVE  HeldBack(n)'
<1>1. PICK m \in Nodes :
          /\ completed[m] # "none" /\ IsBlockingFailure(m, completed[m])
          /\ failFast \/ n \in Descendants(m)
  BY DEF HeldBack
<1>2. completed'[m] = completed[m]
  BY <1>1
<1> QED BY <1>1, <1>2 DEF HeldBack

\* After a failure a fail-fast run has nothing ready.
LEMMA FailFastReadiesNothing ==
    BlockedInv /\ Scheduling /\ failFast /\ failure # NoFailure => ComputeReady = {}
BY DEF BlockedInv, ComputeReady

\* A blocking failure holds back exactly the nodes it blocks; the node that
\* settles has a result and leaves the rest as they were.
LEMMA BlockedTake ==
    TypeOK /\ FibersInv /\ BlockedInv /\ TakeResult => BlockedInv'
<1> SUFFICES ASSUME TypeOK, FibersInv, BlockedInv, TakeResult, Scheduling'
             PROVE  BlockedInv'
  BY DEF BlockedInv
<1> DEFINE n == Head(queue).node
           k == Head(queue).kind
<1>1. n \in Nodes /\ k \in Results \cup {"error"} /\ phase = "await" /\ k # "error"
  BY QueueTypes DEF TypeOK, TakeResult
<1>2. completed' = [completed EXCEPT ![n] = k] /\ completed \in [Nodes -> Entries]
  BY DEF TakeResult, TypeOK
<1>3. completed'[n] = k /\ k # "none"
  BY <1>1, <1>2 DEF Results, Passing
<1>4. \A m \in Nodes : m # n => completed'[m] = completed[m]
  BY <1>2
<1>5. \A m \in Nodes : completed[m] # "none" => completed'[m] = completed[m]
  <2>1. phase' # "crashed" /\ [Next]_vars
    BY DEF Scheduling, Next, Scheduler
  <2> QED BY <1>1, <2>1, ResultsStand DEF Scheduling
<1>0. failFast' = failFast
  BY ModeIsFixed DEF Next, Scheduler
<1>6. running' = running \ {n}
  BY <1>1, Zenon DEF TakeResult, ApplyFailure, Finish, Scheduling
<1>7. Unstarted' \subseteq Unstarted \ {n}
  BY <1>3, <1>4, <1>6 DEF Unstarted
<1>8. \A b \in blocked : HeldBack(b)'
  BY <1>0, <1>1, <1>5, HeldBackStands DEF BlockedInv, Scheduling
<1>9. CASE IsBlockingFailure(n, k)
  <2>1. blocked' = blocked \cup BlockedBy(n)
    BY <1>9 DEF TakeResult, ApplyFailure
  <2>2. \A b \in BlockedBy(n) : failFast \/ b \in Descendants(n)
    BY DEF BlockedBy
  <2>3. \A b \in BlockedBy(n) : HeldBack(b)'
    BY <1>0, <1>1, <1>3, <1>9, <2>2 DEF HeldBack
  <2>4. failFast => Unstarted \ {n} \subseteq BlockedBy(n)
    BY DEF BlockedBy, Unstarted
  <2> QED BY <1>0, <1>7, <1>8, <2>1, <2>3, <2>4 DEF BlockedInv
<1>10. CASE ~IsBlockingFailure(n, k)
  <2>1. UNCHANGED <<failure, blocked>>
    BY <1>10 DEF TakeResult
  <2> QED BY <1>0, <1>1, <1>7, <1>8, <2>1 DEF BlockedInv, Scheduling
<1> QED BY <1>9, <1>10

\* The loop blocks nothing that no failure holds back, and misses nothing.
LEMMA BlockedStep ==
    TypeOK /\ FibersInv /\ VerdictInv /\ BlockedInv /\ [Next]_vars => BlockedInv'
<1> SUFFICES ASSUME TypeOK, FibersInv, VerdictInv, BlockedInv, [Next]_vars
             PROVE  BlockedInv'
  OBVIOUS
<1>0. failFast' = failFast
  BY ModeIsFixed
<1>1. CASE StartHookPasses
  BY <1>1 DEF StartHookPasses, VerdictInv, BlockedInv
<1>2. CASE TakeResult
  BY <1>2, BlockedTake
<1>3. CASE TickLaunch
  <2>1. /\ phase = "tick" /\ UNCHANGED <<completed, failure, blocked>>
        /\ phase' = "close" \/ running \subseteq running'
    BY <1>3 DEF TickLaunch, Finish
  <2>2. \A b \in blocked : HeldBack(b) => HeldBack(b)'
    BY <1>0, <2>1 DEF HeldBack
  <2>3. phase' = "close" \/ Unstarted' \subseteq Unstarted
    BY <2>1 DEF Unstarted
  <2> QED BY <1>0, <2>1, <2>2, <2>3 DEF BlockedInv, Scheduling
<1>4. CASE \/ StartHookFails \/ TickCancelled \/ TickTerminal \/ TakeError
           \/ CloseJournal \/ Finalise \/ Crash \/ Resume
  BY <1>4 DEF StartHookFails, TickCancelled, TickTerminal, TakeError, CloseJournal,
     Finalise, SuccessHook, PassCompleteHook, FailureHook, FailCompleteHook, Crash,
     Resume, Finish, BlockedInv, Scheduling
<1>5. CASE \/ PersistWrite \/ WriteFails \/ Cancel \/ Terminated \/ UNCHANGED vars
           \/ \E n \in Nodes : NodeSettles(n)
  <2>1. UNCHANGED <<phase, completed, running, failure, blocked>>
    <3>1. ASSUME NEW n \in Nodes, NodeSettles(n)
          PROVE  UNCHANGED <<phase, completed, running, failure, blocked>>
      BY <3>1, SettleForm DEF Settle
    <3> QED BY <1>5, <3>1 DEF PersistWrite, WriteFails, Cancel, Terminated, vars, schedVars
  <2> QED BY <1>0, <2>1 DEF BlockedInv, Scheduling, HeldBack, Unstarted
<1> QED BY <1>1, <1>2, <1>3, <1>4, <1>5 DEF Next, Scheduler, Tick, Store

LEMMA BlockedInit == Init => BlockedInv
BY DEF Init, BlockedInv, Scheduling

\* Only a tick launches: any other step keeps or drops the fibers there are.
LEMMA OnlyTicksLaunch ==
    ASSUME TypeOK, [Next]_vars, ~TickLaunch
    PROVE  running' \subseteq running
<1>1. CASE Scheduler \/ Store \/ Finalise \/ Cancel \/ Crash \/ Resume \/ Terminated
  BY <1>1 DEF Scheduler, StartHookPasses, StartHookFails, Tick, TickCancelled,
     TickTerminal, TakeResult, ApplyFailure, TakeError, Store, PersistWrite, WriteFails,
     CloseJournal, Finalise, SuccessHook, PassCompleteHook, FailureHook,
     FailCompleteHook, Cancel, Crash, Resume, FreshProcess, Terminated, vars, schedVars
<1>2. CASE UNCHANGED vars \/ \E n \in Nodes : NodeSettles(n)
  BY <1>2, SettleForm DEF Settle, vars, schedVars
<1> QED BY <1>1, <1>2 DEF Next

\* After a blocking failure a fail-fast run launches nothing more, whatever is
\* still in flight.
THEOREM FailFastNeverLaunches == Spec => FailFastStops
<1>1. Init => FibersInv
  BY EmptyQueue DEF Init, FibersInv, Scheduling
<1>2. TypeOK /\ BlockedInv /\ [Next]_vars =>
        [failFast /\ failure # NoFailure => running' \subseteq running]_vars
  <2> SUFFICES ASSUME TypeOK, BlockedInv, [Next]_vars, failFast, failure # NoFailure
               PROVE  running' \subseteq running
    OBVIOUS
  <2>1. CASE TickLaunch
    <3>1. ComputeReady = {}
      BY <2>1, FailFastReadiesNothing DEF TickLaunch, Scheduling
    <3>2. \A S \in SUBSET ComputeReady : running \cup S = running
      BY <3>1
    <3> QED BY <2>1, <3>2 DEF TickLaunch
  <2>2. CASE ~TickLaunch
    BY <2>2, OnlyTicksLaunch
  <2> QED BY <2>1, <2>2
<1> QED BY <1>1, <1>2, TypeCorrect, FibersStep, VerdictInit, VerdictStep, BlockedInit,
        BlockedStep, PTL DEF Spec, FailFastStops

\* A loop that drains leaves out only what a failure holds back: the first node,
\* in index order, left out for another reason would have been ready.
LEMMA DrainedIsHeldBack ==
    ASSUME TypeOK, BlockedInv, TickTerminal, NEW n \in Nodes, completed[n] = "none"
    PROVE  HeldBack(n)
<1> DEFINE U == {m \in Nodes : completed[m] = "none" /\ ~HeldBack(m)}
<1> SUFFICES ASSUME U # {} PROVE FALSE
  OBVIOUS
<1>1. PICK f \in U : \A m \in U : ~(Index[m] < Index[f])
  BY FirstNode
<1>2. f \notin blocked
  BY DEF BlockedInv, TickTerminal, Scheduling
<1>3. f \in Unstarted \ blocked
  BY <1>2 DEF Unstarted, TickTerminal
<1>4. ComputeReady = {}
  BY NothingReady DEF TickTerminal
<1>5. PICK m \in Needs[f] : ~NeedMet(m)
  BY <1>3, <1>4 DEF ComputeReady
<1>6. m \in Nodes /\ f \in Dependents(m) /\ Index[m] < Index[f]
  BY NeedsAreNodes, IndexIsTopological DEF Dependents
<1>7. CASE completed[m] = "none"
  <2>1. HeldBack(m)
    BY <1>1, <1>6, <1>7
  <2>2. PICK h \in Nodes :
            /\ completed[h] # "none" /\ IsBlockingFailure(h, completed[h])
            /\ failFast \/ m \in Descendants(h)
    BY <2>1 DEF HeldBack
  <2>3. failFast \/ f \in Descendants(h)
    BY <1>6, <2>2, DescendantsClosed
  <2> QED BY <2>2, <2>3 DEF HeldBack
<1>8. CASE completed[m] # "none"
  <2>1. IsBlockingFailure(m, completed[m])
    BY <1>5, <1>8 DEF NeedMet, IsBlockingFailure
  <2>2. f \in Descendants(m)
    BY <1>6, DescendantsClosed
  <2> QED BY <1>6, <1>8, <2>1, <2>2 DEF HeldBack
<1> QED BY <1>7, <1>8

\* When the loop drains by itself, every node without a result is held back by a
\* blocking failure; the caps and the capacity never drop one.
THEOREM NothingIsDropped == Spec => DrainsBeforeStopping
<1>1. Init => FibersInv
  BY EmptyQueue DEF Init, FibersInv, Scheduling
<1>2. TypeOK /\ BlockedInv =>
        [TickTerminal => \A n \in Nodes : completed[n] = "none" => HeldBack(n)]_vars
  BY DrainedIsHeldBack
<1> QED BY <1>1, <1>2, TypeCorrect, FibersStep, VerdictInit, VerdictStep, BlockedInit,
        BlockedStep, PTL DEF Spec, DrainsBeforeStopping
=============================================================================
