-------------------------- MODULE RemoteRunnerProofs --------------------------
(***************************************************************************)
(* Theorems about RemoteRunner, for every set of compiled plans, every retry *)
(* limit and any number of resumes: records never run ahead of refs, no node *)
(* builds on failed work, and a green run has delivered the work of every    *)
(* task.                                                                    *)
(***************************************************************************)
EXTENDS RemoteRunner, TLAPS

----------------------------------------------------------------------------
(* The inductive invariant.                                                 *)
(*                                                                         *)
(* Everything is said of a node, its record, its ref and its pod; blind is  *)
(* the set of nodes whose ref a pod without a store may have replaced, and   *)
(* only of the others can a record vouch for the ref.                       *)

Upstream(n) == Merges[plan][n]

\* The node's own passing work and the refs it was merged from are in its ref.
Vouched(n) ==
    /\ refs[n] \in SUBSET Work
    /\ WorkOf(n, "passed") \subseteq refs[n]
    /\ blind = {} => \A m \in Upstream(n) :
                        db[m] = "passed" /\ refs[m] \subseteq refs[n]
    /\ n \in Tasks(plan) \ blind => <<n, "bad">> \notin refs[n]

\* Records and refs are of nodes of the plan; a record vouches for the ref.
RecordFits(n) ==
    /\ db[n] # "none" \/ refs[n] # NoRef => n \in NodesOf(plan)
    /\ db[n] = "passed" /\ n \notin blind => Vouched(n)

\* Failed work in the ref of a task is its own, or of a blind node.
RefClean(n) ==
    n \in Tasks(plan) =>
        \A j \in Nodes : <<j, "bad">> \in refs[n] => j \in blind \cup {n}

\* Before a resume there are no blind nodes, children have neither record nor
\* ref, and needs are recorded before what needs them.
DynamicFits ==
    mode = "dynamic" =>
        /\ blind = {}
        /\ \A n \in Nodes : db[n] # "none" \/ refs[n] # NoRef => n \in Top(plan)
        /\ \A n \in Nodes : db[n] = "passed" \/ n \in wave =>
              \A m \in plan.needs[n] : db[m] = "passed"

\* Failed work a pod is about to push.
TreeClean(n) ==
    \A j \in Nodes : <<j, "bad">> \in pod[n].tree =>
        \/ j \in blind
        \/ n \in Tasks(plan) /\ j = n /\ pod[n].res # "passed"
        \/ n \notin Tasks(plan) /\ j \notin Top(plan)

\* A pod about to push has merged every dependency, and none but passed ones.
Gathered(n) ==
    /\ WorkOf(n, pod[n].res) \subseteq pod[n].tree
    /\ \A m \in Upstream(n) \ blind :
          db[m] = "passed" /\ <<m, "ok">> \in pod[n].tree
    /\ blind = {} => \A m \in Upstream(n) : refs[m] \subseteq pod[n].tree
    /\ TreeClean(n)

\* A pod that will record a success has pushed what the record vouches for.
Pushed(n) ==
    /\ ~pod[n].store => n \in blind
    /\ pod[n].store /\ pod[n].res = "passed" => Vouched(n)

\* Where a pod may be, given the pods, records and refs around it.
PodFits(n) ==
    /\ pod[n].pc # "idle" => stage = "nodes" /\ n \in NodeTasks
    /\ pod[n].pc \in {"idle", "start"} => ~pod[n].store
    /\ pod[n].pc \in Alive /\ mode = "static" =>
          \A m \in WaitsFor[plan][n] : pod[m].pc = "ok"
    /\ pod[n].pc = "ok" => db[n] = "passed" \/ n \in blind
    /\ pod[n].pc \in {"run", "push", "record"} =>
          /\ mode = "dynamic" => pod[n].store
          /\ pod[n].store => db[n] # "passed"
    /\ pod[n].pc = "push" => Gathered(n)
    /\ pod[n].pc = "record" => Pushed(n)

\* What the end of the workflow says of the records.
EndFits ==
    /\ stage \in PrePhases \cup {"select-ready-wave"} => mode = "dynamic"
    /\ mode = "static" /\ argo = "Succeeded" =>
          \A n \in Tasks(plan) : db[n] = "passed" \/ n \in blind
    /\ outcome = "PASS" =>
          /\ mode = "static" => argo = "Succeeded"
          /\ mode = "dynamic" => \A n \in Top(plan) : db[n] = "passed"
    /\ stage \in Startup \cup {"nodes"} => outcome # "PASS"
    /\ stage = "promote" => outcome = "PASS"
    /\ verdict = "exit0" => stage = "done" /\ GreenRunIsDelivered

RemoteInv ==
    /\ TypeOK
    /\ \A n \in Nodes : RecordFits(n) /\ RefClean(n)
    /\ DynamicFits
    /\ \A n \in Nodes : PodFits(n)
    /\ EndFits
----------------------------------------------------------------------------
(* The graph of a plan.                                                     *)

LEMMA MergedTasks ==
    ASSUME NEW p \in Plans, NEW n \in NodesOf(p)
    PROVE  /\ Merges[p][n] \subseteq Tasks(p)
           /\ Merges[p][n] \subseteq WaitsFor[p][n]
           /\ Merges[p][n] = ResolveExecutable(p, p.needs[n])
           /\ Tasks(p) \subseteq NodesOf(p) /\ NodesOf(p) \subseteq Nodes
<1>1. /\ Merges[p][n] = ResolveExecutable(p, p.needs[n])
      /\ WaitsFor[p][n] = Dependencies(p, n)
  BY DEF Merges, WaitsFor
<1>2. Below(p, p.needs[n]) \subseteq Below(p, InheritedNeeds(p, n) \cup p.needs[n])
  BY DEF Below
<1> QED
  BY <1>1, <1>2 DEF ResolveExecutable, Dependencies, Tasks, Nodes

\* What is below a set of nodes is in every set that holds them and the inside
\* of each of its members.
LEMMA BelowLeast ==
    ASSUME NEW p, NEW ns, NEW S \in SUBSET NodesOf(p), ns \subseteq S,
           \A m \in S : Inside(p, m) \subseteq S
    PROVE  Below(p, ns) \subseteq S
  BY DEF Below

LEMMA ChildLevel ==
    ASSUME NEW p \in Plans, NEW n \in NodesOf(p) \ Top(p)
    PROVE  p.needs[n] \subseteq NodesOf(p) \ Top(p)
<1>1. IsPlan(p)
  BY PlansAreCompiled
<1>2. Level(p, n) \subseteq NodesOf(p) \ Top(p)
  BY <1>1 DEF Level, IsPlan, Top
<1> QED
  BY <1>1, <1>2 DEF IsPlan

\* Children stay below the top: what is below nodes that are not at the top is
\* not at the top either.
LEMMA ChildrenInside ==
    ASSUME NEW p \in Plans, NEW m \in NodesOf(p) \ Top(p)
    PROVE  Inside(p, m) \subseteq NodesOf(p) \ Top(p)
<1>1. IsPlan(p)
  BY PlansAreCompiled
<1>2. p.kind[m] \in Kinds /\ p.kids[m] \subseteq NodesOf(p) \ Top(p)
  BY <1>1 DEF IsPlan, Top
<1>3. p.needs[m] \subseteq NodesOf(p) \ Top(p)
  BY ChildLevel
<1> QED
  BY <1>2, <1>3 DEF Inside, Kinds

LEMMA ChildNeeds ==
    ASSUME NEW p \in Plans, NEW n \in NodesOf(p) \ Top(p), NEW m \in Merges[p][n]
    PROVE  m \notin Top(p)
<1>3. p.needs[n] \subseteq NodesOf(p) \ Top(p)
  BY ChildLevel
<1>4. Below(p, p.needs[n]) \subseteq NodesOf(p) \ Top(p)
  BY <1>3, BelowLeast, ChildrenInside
<1> QED
  BY <1>4, MergedTasks DEF ResolveExecutable

LEMMA ChildLeaves ==
    ASSUME NEW p \in Plans, NEW n \in NodesOf(p), p.kind[n] = "parallel"
    PROVE  ResolveExecutable(p, {n}) \subseteq NodesOf(p) \ Top(p)
<1>1. IsPlan(p)
  BY PlansAreCompiled
<1> DEFINE S == {n} \cup (NodesOf(p) \ Top(p))
<1>2. Inside(p, n) \subseteq S
  BY <1>1 DEF Inside, IsPlan, Top
<1>3. \A m \in S : Inside(p, m) \subseteq S
  BY <1>2, ChildrenInside
<1>4. S \in SUBSET NodesOf(p) /\ {n} \subseteq S
  OBVIOUS
<1> HIDE DEF S
<1>5. Below(p, {n}) \subseteq S
  BY <1>3, <1>4, BelowLeast
<1>6. n \notin Tasks(p)
  BY DEF Tasks
<1> QED
  BY <1>5, <1>6 DEF ResolveExecutable, S, Tasks

\* In a dynamic run the tasks that a node merges have passed when its needs are
\* recorded so and they have a ref.
LEMMA RecordedUpstream ==
    ASSUME plan \in Plans, DynamicFits, mode = "dynamic", NEW n \in NodesOf(plan),
           \A m \in plan.needs[n] : db[m] = "passed",
           NEW k \in Merges[plan][n], k \in Top(plan)
    PROVE  db[k] = "passed"
<1>1. IsPlan(plan) /\ NodesOf(plan) \subseteq Nodes
  BY PlansAreCompiled DEF Nodes
<1> DEFINE S == {m \in NodesOf(plan) : m \in Top(plan) => db[m] = "passed"}
<1>2. plan.needs[n] \in SUBSET S
  BY <1>1 DEF IsPlan
<1>3. ASSUME NEW m \in S PROVE Inside(plan, m) \subseteq S
  <2>1. CASE m \notin Top(plan)
    BY <2>1, ChildrenInside
  <2>2. CASE m \in Top(plan) /\ plan.kind[m] = "group"
    BY <2>2, <1>1 DEF Inside, DynamicFits, IsPlan
  <2>3. CASE plan.kind[m] = "parallel"
    BY <2>3, <1>1 DEF Inside, IsPlan, Top
  <2>4. CASE plan.kind[m] = "exec"
    BY <2>4 DEF Inside
  <2> QED
    BY <1>1, <2>1, <2>2, <2>3, <2>4 DEF IsPlan, Kinds
<1>4. S \in SUBSET NodesOf(plan)
  OBVIOUS
<1> HIDE DEF S
<1>5. Below(plan, plan.needs[n]) \subseteq S
  BY <1>2, <1>3, <1>4, BelowLeast
<1>6. k \in S
  BY <1>5, MergedTasks DEF ResolveExecutable
<1> QED
  BY <1>6 DEF S

LEMMA WorkTyped ==
    ASSUME plan \in Plans, NEW n \in NodesOf(plan), NEW r
    PROVE  WorkOf(n, r) \in SUBSET Work
<1>1. NodesOf(plan) \subseteq Nodes
  BY DEF Nodes
<1>2. ResolveExecutable(plan, {n}) \subseteq NodesOf(plan) /\ Tasks(plan) \subseteq NodesOf(plan)
  BY DEF ResolveExecutable, Tasks
<1> QED
  BY <1>1, <1>2 DEF WorkOf, Work
----------------------------------------------------------------------------
(* Types. *)

LEMMA Limits ==
    /\ RetryLimit \in Nat /\ MaxResumes \in Nat
    /\ 0 \in 0..RetryLimit /\ 0 \in 0..MaxResumes
    /\ \A i \in 0..RetryLimit : i < RetryLimit => i + 1 \in 0..RetryLimit
    /\ \A i \in 0..MaxResumes : i < MaxResumes => i + 1 \in 0..MaxResumes
<1>1. RetryLimit \in Nat /\ MaxResumes \in Nat
  BY PlansAreCompiled
<1>2. ASSUME NEW m \in Nat
      PROVE  0 \in 0..m /\ \A i \in 0..m : i < m => i + 1 \in 0..m
  OBVIOUS
<1> QED
  BY <1>1, <1>2

LEMMA NoPodTyped == NoPod \in Pod /\ NoPods \in [Nodes -> Pod]
<1>1. NoPod \in Pod
  <2>1. 0 \in 0..RetryLimit
    BY Limits
  <2>2. {} \in SUBSET Work
    OBVIOUS
  <2> QED
    BY <2>1, <2>2 DEF Pod, NoPod, Results
<1> QED
  BY <1>1 DEF NoPods

\* How a pod is when it has exited: settled, or started again.
LEMMA ExitsTyped ==
    ASSUME pod \in [Nodes -> Pod], NEW n \in Nodes, NEW c \in {0, 1, 70}, Exits(n, c)
    PROVE  /\ pod' \in [Nodes -> Pod]
           /\ \A m \in Nodes \ {n} : pod'[m] = pod[m]
           /\ pod'[n].pc \in {"ok", "bad", "start"}
           /\ pod'[n].pc = "ok" <=> c = 0
<1>1. NoPod \in Pod /\ pod[n].tries \in 0..RetryLimit
  BY NoPodTyped DEF Pod
<1>2. ASSUME NEW v \in {"ok", "bad", "start"}
      PROVE  [NoPod EXCEPT !.pc = v] \in Pod /\ [NoPod EXCEPT !.pc = v].pc = v
  BY <1>1 DEF Pod, Alive
<1>3. ASSUME NEW i \in 0..RetryLimit
      PROVE  /\ [NoPod EXCEPT !.pc = "start", !.tries = i] \in Pod
             /\ [NoPod EXCEPT !.pc = "start", !.tries = i].pc = "start"
  BY <1>1 DEF Pod, Alive
<1>4. Retried(n) \in Pod /\ Retried(n).pc \in {"start", "bad"}
  <2>1. CASE pod[n].tries < RetryLimit
    <3>1. pod[n].tries + 1 \in 0..RetryLimit
      BY <1>1, <2>1, Limits
    <3> QED
      BY <2>1, <3>1, <1>3 DEF Retried
  <2>2. CASE ~(pod[n].tries < RetryLimit)
    BY <2>2, <1>2 DEF Retried
  <2> QED
    BY <2>1, <2>2
<1> DEFINE E == CASE c = 0 -> [NoPod EXCEPT !.pc = "ok"]
                  [] c = 1 -> [NoPod EXCEPT !.pc = "bad"]
                  [] c = 70 -> Retried(n)
<1>5. E \in Pod /\ E.pc \in {"ok", "bad", "start"} /\ (E.pc = "ok" <=> c = 0)
  BY <1>2, <1>4
<1>6. pod' = [pod EXCEPT ![n] = E]
  BY DEF Exits
<1> HIDE DEF E
<1> QED
  BY <1>5, <1>6

LEMMA InitTyped == Init => TypeOK
<1>1. Modes \subseteq {"static", "dynamic"}
  BY PlansAreCompiled
<1> QED
  BY <1>1, NoPodTyped, Limits
  DEF Init, TypeOK, FirstStage, Stages, Startup, PrePhases

\* Steps of the workflow and the finalizer, which touch no record, ref or pod
\* but that the pods are gone when the nodes are done.
FlowStep ==
    \/ WorkflowStart \/ PreAgentPhase \/ GenerateSchedule \/ RecordSchedule
    \/ SelectReadyWave \/ NodesSettled
    \/ FinalizeExecution \/ FinalizeHooks \/ PromoteFinalRef \/ FinalizerDies
    \/ StagePodFails \/ StagePodDies \/ StopWorkflow \/ Resume

LEMMA EndTyped ==
    ASSUME TypeOK, NEW status \in {"Succeeded", "Failed", "Stopped"}, EndWorkflow(status)
    PROVE  /\ stage' \in Stages /\ wtries' \in 0..RetryLimit /\ wave' = {}
           /\ pod' \in [Nodes -> Pod]
           /\ argo' \in {"Running", "Succeeded", "Failed", "Stopped"}
  BY NoPodTyped, Limits DEF TypeOK, EndWorkflow, GoTo, Stages

LEMMA FlowTyped ==
    ASSUME TypeOK, FlowStep
    PROVE  TypeOK'
<1> USE DEF submission, stored, ending
<1> USE Limits
<1>1. CASE WorkflowStart
  BY <1>1 DEF WorkflowStart, TypeOK, GoTo, Stages
<1>2. CASE PreAgentPhase
  BY <1>2 DEF PreAgentPhase, TypeOK, GoTo, Stages, Startup, PrePhases
<1>3. CASE GenerateSchedule
  BY <1>3 DEF GenerateSchedule, TypeOK, Stages, Startup, PrePhases
<1>4. CASE RecordSchedule
  BY <1>4 DEF RecordSchedule, TypeOK, GoTo, Stages, Startup
<1>5. CASE SelectReadyWave
  <2>1. CASE ReadyNodes = {}
    BY <1>5, <2>1, EndTyped DEF SelectReadyWave, TypeOK
  <2>2. CASE ReadyNodes # {}
    BY <1>5, <2>2 DEF SelectReadyWave, TypeOK, GoTo, Stages, ReadyNodes
  <2> QED
    BY <2>1, <2>2
<1>6. CASE NodesSettled
  <2>1. UNCHANGED <<submission, sched, stored, final, outcome, verdict, resumes>>
    BY <1>6 DEF NodesSettled
  <2>2. \/ EndWorkflow("Failed") \/ EndWorkflow("Succeeded")
        \/ GoTo("select-ready-wave") /\ wave' = {} /\ pod' = NoPods /\ UNCHANGED argo
    BY <1>6 DEF NodesSettled
  <2>3. CASE EndWorkflow("Failed") \/ EndWorkflow("Succeeded")
    BY <2>1, <2>3, EndTyped DEF TypeOK
  <2>4. CASE GoTo("select-ready-wave") /\ wave' = {} /\ pod' = NoPods /\ UNCHANGED argo
    BY <2>1, <2>4, NoPodTyped DEF TypeOK, GoTo, Stages, Startup
  <2> QED
    BY <2>2, <2>3, <2>4
<1>7. CASE FinalizeExecution
  BY <1>7 DEF FinalizeExecution, TypeOK, FinalizerOutcome, Stages
<1>8. CASE FinalizeHooks
  BY <1>8 DEF FinalizeHooks, TypeOK, Ends, Stages
<1>9. CASE PromoteFinalRef
  <2>1. TerminalNodes(plan) \subseteq Nodes
    BY DEF TerminalNodes, Tasks, Nodes, TypeOK
  <2> DEFINE sources == {refs[n] : n \in TerminalNodes(plan)}
  <2>2. NoRef \notin sources => UNION sources \in SUBSET Work
    BY <2>1 DEF TypeOK
  <2> HIDE DEF sources
  <2>3. /\ stage' = "done" /\ verdict' \in {"exit0", "exit70"}
        /\ final' \in {final} \cup SUBSET Work
    BY <1>9, <2>2 DEF PromoteFinalRef, Ends, sources
  <2> QED
    BY <1>9, <2>3 DEF PromoteFinalRef, TypeOK, Stages
<1>10. CASE FinalizerDies
  BY <1>10 DEF FinalizerDies, TypeOK, Ends, Stages
<1>11. CASE StagePodFails
  BY <1>11, EndTyped DEF StagePodFails, TypeOK
<1>12. CASE StagePodDies
  <2>1. CASE wtries < RetryLimit
    <3>1. wtries' \in 0..RetryLimit /\ stage' \in Stages
      BY <1>12, <2>1 DEF StagePodDies, TypeOK, Stages, Startup, PrePhases
    <3> QED
      BY <1>12, <2>1, <3>1 DEF StagePodDies, TypeOK
  <2>2. CASE ~(wtries < RetryLimit)
    BY <1>12, <2>2, EndTyped DEF StagePodDies, TypeOK
  <2> QED
    BY <2>1, <2>2
<1>13. CASE StopWorkflow
  BY <1>13, EndTyped DEF StopWorkflow, TypeOK
<1>14. CASE Resume
  <2>1. resumes' \in 0..MaxResumes
    BY <1>14 DEF Resume, TypeOK
  <2> QED
    BY <1>14, <2>1 DEF Resume, TypeOK, GoTo, FirstStage, Stages, Startup
<1> QED
  BY <1>1, <1>2, <1>3, <1>4, <1>5, <1>6, <1>7, <1>8, <1>9, <1>10, <1>11, <1>12,
     <1>13, <1>14 DEF FlowStep

----------------------------------------------------------------------------
(* A step of the pod of one node. *)

NodeStep(n) == PodStep(n) \/ PodDies(n)

LEMMA NextIs == Next <=> FlowStep \/ \E n \in Nodes : NodeStep(n)
  BY DEF Next, Progress, Faults, FlowStep, NodeStep

LEMMA RunningNode ==
    ASSUME TypeOK, NEW n \in Nodes, Running(n)
    PROVE  /\ n \in NodesOf(plan) /\ stage = "nodes"
           /\ mode = "static" => n \in Tasks(plan)
           /\ mode = "dynamic" => n \in wave /\ n \in Top(plan)
  BY DEF Running, NodeTasks, TypeOK, Tasks, Top

\* A field of a pod is replaced by a value of its type.
LEMMA PodUpdates ==
    ASSUME pod \in [Nodes -> Pod], NEW n \in Nodes
    PROVE  /\ \A v \in Alive : [pod EXCEPT ![n].pc = v] \in [Nodes -> Pod]
           /\ [pod EXCEPT ![n].pc = "run", ![n].store = TRUE] \in [Nodes -> Pod]
           /\ [pod EXCEPT ![n].pc = "record", ![n].tree = {}] \in [Nodes -> Pod]
           /\ \A r \in Results, t \in SUBSET Work :
                 [pod EXCEPT ![n].pc = "push", ![n].res = r, ![n].tree = t]
                    \in [Nodes -> Pod]
<1>1. pod[n] \in Pod
  OBVIOUS
<1>2. ASSUME NEW q \in Pod PROVE [pod EXCEPT ![n] = q] \in [Nodes -> Pod]
  OBVIOUS
<1>3. ASSUME NEW v \in Alive PROVE [pod EXCEPT ![n].pc = v] \in [Nodes -> Pod]
  <2>1. [pod[n] EXCEPT !.pc = v] \in Pod
    BY <1>1 DEF Pod
  <2> QED
    BY <1>2, <2>1
<1>4. [pod EXCEPT ![n].pc = "run", ![n].store = TRUE] \in [Nodes -> Pod]
  <2>1. [pod[n] EXCEPT !.pc = "run", !.store = TRUE] \in Pod
    BY <1>1 DEF Pod, Alive
  <2> QED
    BY <1>2, <2>1
<1>5. [pod EXCEPT ![n].pc = "record", ![n].tree = {}] \in [Nodes -> Pod]
  <2>1. [pod[n] EXCEPT !.pc = "record", !.tree = {}] \in Pod
    BY <1>1 DEF Pod, Alive
  <2> QED
    BY <1>2, <2>1
<1>6. ASSUME NEW r \in Results, NEW t \in SUBSET Work
      PROVE  [pod EXCEPT ![n].pc = "push", ![n].res = r, ![n].tree = t]
                \in [Nodes -> Pod]
  <2>1. [pod[n] EXCEPT !.pc = "push", !.res = r, !.tree = t] \in Pod
    BY <1>1 DEF Pod, Alive
  <2> QED
    BY <1>2, <2>1
<1> QED
  BY <1>3, <1>4, <1>5, <1>6

\* What a pod merges when every ref is there.
LEMMA TreeTyped ==
    ASSUME TypeOK, NEW n \in NodesOf(plan), NEW r
    PROVE  (UNION (MergedRefs(n) \ {NoRef})) \cup WorkOf(n, r) \in SUBSET Work
<1>1. Merges[plan][n] \subseteq Nodes
  BY MergedTasks DEF TypeOK
<1>2. \A t \in MergedRefs(n) \ {NoRef} : t \in SUBSET Work
  BY <1>1 DEF MergedRefs, TypeOK
<1>3. UNION (MergedRefs(n) \ {NoRef}) \in SUBSET Work
  BY <1>2
<1>4. WorkOf(n, r) \in SUBSET Work
  BY WorkTyped DEF TypeOK
<1> QED
  BY <1>3, <1>4

LEMMA ExitCodeTyped ==
    ASSUME NEW r \in Results
    PROVE  ExitCode(r) \in {0, 1, 70} /\ (ExitCode(r) = 0 <=> r = "passed")
<1> DEFINE code == [passed |-> 0, failed |-> 1, infra |-> 70]
<1>1. code["passed"] = 0 /\ code["failed"] = 1 /\ code["infra"] = 70
  OBVIOUS
<1>2. ExitCode(r) = code[r]
  BY DEF ExitCode
<1> HIDE DEF code
<1> QED
  BY <1>1, <1>2 DEF Results

LEMMA NodeFrame ==
    ASSUME TypeOK, NEW n \in Nodes, NodeStep(n)
    PROVE  /\ Running(n) /\ pod[n].pc \in {"idle"} \cup Alive
           /\ pod' \in [Nodes -> Pod]
           /\ \A m \in Nodes \ {n} : pod'[m] = pod[m]
           /\ UNCHANGED <<submission, flow, sched, ending, resumes>>
<1> USE DEF podOnly
<1>1. pod \in [Nodes -> Pod] /\ n \in Nodes /\ plan \in Plans
  BY DEF TypeOK
<1>2. CASE StartPod(n)
  <2>1. pod' = [pod EXCEPT ![n].pc = "start"]
    BY <1>2 DEF StartPod
  <2>2. pod' \in [Nodes -> Pod]
    BY <1>1, <2>1, PodUpdates DEF Alive
  <2> QED
    BY <1>1, <1>2, <2>1, <2>2 DEF StartPod
<1>3. CASE ResolveStore(n)
  <2>1. \/ Exits(n, 0) \/ Exits(n, 70)
        \/ pod' = [pod EXCEPT ![n].pc = "run", ![n].store = TRUE]
        \/ pod' = [pod EXCEPT ![n].pc = "run"]
    BY <1>3 DEF ResolveStore, WithoutStore
  <2>2. pod' \in [Nodes -> Pod] /\ \A m \in Nodes \ {n} : pod'[m] = pod[m]
    BY <1>1, <2>1, PodUpdates, ExitsTyped DEF Alive
  <2> QED
    BY <1>3, <2>2 DEF ResolveStore, Alive
<1>4. CASE RunTask(n)
  <2>1. n \in NodesOf(plan)
    BY <1>4, RunningNode DEF RunTask
  <2>2. Exits(n, 70) \/ \E r \in Results : Committed(n, r)
    BY <1>4 DEF RunTask, ResultsOf, Results
  <2>3. pod' \in [Nodes -> Pod] /\ \A m \in Nodes \ {n} : pod'[m] = pod[m]
    <3>1. CASE Exits(n, 70)
      BY <1>1, <3>1, ExitsTyped
    <3>2. ASSUME NEW r \in Results, Committed(n, r)
          PROVE  pod' \in [Nodes -> Pod] /\ \A m \in Nodes \ {n} : pod'[m] = pod[m]
      <4> DEFINE t == (UNION (MergedRefs(n) \ {NoRef})) \cup WorkOf(n, r)
      <4>1. t \in SUBSET Work
        BY <2>1, TreeTyped
      <4>2. pod' = [pod EXCEPT ![n].pc = "push", ![n].res = r, ![n].tree = t]
        BY <3>2 DEF Committed
      <4> HIDE DEF t
      <4>3. pod' \in [Nodes -> Pod]
        BY <1>1, <4>1, <4>2, PodUpdates
      <4> QED
        BY <1>1, <4>2, <4>3
    <3> QED
      BY <2>2, <3>1, <3>2
  <2> QED
    BY <1>4, <2>3 DEF RunTask, Alive
<1>5. CASE PushNodeRef(n)
  <2>1. pod' = [pod EXCEPT ![n].pc = "record", ![n].tree = {}]
    BY <1>5 DEF PushNodeRef
  <2>2. pod' \in [Nodes -> Pod]
    BY <1>1, <2>1, PodUpdates
  <2> QED
    BY <1>1, <1>5, <2>1, <2>2 DEF PushNodeRef, Alive
<1>6. CASE RecordResult(n)
  <2>1. ExitCode(pod[n].res) \in {0, 1, 70}
    BY <1>1, ExitCodeTyped DEF Pod
  <2>2. \E c \in {0, 1, 70} : Exits(n, c)
    BY <1>6, <2>1 DEF RecordResult
  <2>3. pod' \in [Nodes -> Pod] /\ \A m \in Nodes \ {n} : pod'[m] = pod[m]
    BY <1>1, <2>2, ExitsTyped
  <2> QED
    BY <1>6, <2>3 DEF RecordResult, Alive
<1>7. CASE PodDies(n)
  BY <1>1, <1>7, ExitsTyped DEF PodDies
<1> QED
  BY <1>2, <1>3, <1>4, <1>5, <1>6, <1>7 DEF NodeStep, PodStep

\* What a step of a pod does to records, refs and the blind nodes.
LEMMA NodeStores ==
    ASSUME TypeOK, NEW n \in Nodes, NodeStep(n)
    PROVE  \/ UNCHANGED stored
           \/ /\ pod[n].pc = "push" /\ UNCHANGED db
              /\ refs' = [refs EXCEPT ![n] = pod[n].tree]
              /\ blind' = IF pod[n].store THEN blind ELSE blind \cup {n}
           \/ /\ pod[n].pc = "record" /\ pod[n].store
              /\ db' = [db EXCEPT ![n] = Status(pod[n].res)]
              /\ UNCHANGED <<refs, blind>>
  BY DEF NodeStep, PodStep, StartPod, ResolveStore, RunTask, PushNodeRef,
         RecordResult, PodDies, podOnly, stored

LEMMA NodeTyped ==
    ASSUME TypeOK, NEW n \in Nodes, NodeStep(n)
    PROVE  TypeOK'
<1>1. /\ pod' \in [Nodes -> Pod]
      /\ UNCHANGED <<submission, flow, sched, ending, resumes>>
  BY NodeFrame
<1>2. pod[n] \in Pod
  BY DEF TypeOK
<1>3. /\ db' \in [Nodes -> {"none", "passed", "failed"}]
      /\ refs' \in [Nodes -> (SUBSET Work) \cup {NoRef}]
      /\ blind' \in SUBSET Nodes
  <2>1. CASE UNCHANGED stored
    BY <2>1 DEF stored, TypeOK
  <2>2. CASE /\ refs' = [refs EXCEPT ![n] = pod[n].tree] /\ UNCHANGED db
             /\ blind' = IF pod[n].store THEN blind ELSE blind \cup {n}
    BY <1>2, <2>2 DEF TypeOK, Pod
  <2>3. CASE /\ db' = [db EXCEPT ![n] = Status(pod[n].res)]
             /\ UNCHANGED <<refs, blind>>
    BY <2>3 DEF TypeOK, Status
  <2> QED
    BY <2>1, <2>2, <2>3, NodeStores
<1> QED
  BY <1>1, <1>3 DEF TypeOK, submission, flow, ending

----------------------------------------------------------------------------
(* Records and refs only gain. *)

\* Passed records and blind nodes stay, and the ref of a passed node changes
\* only when the node becomes blind.
StoreGrows ==
    /\ plan' = plan
    /\ blind \subseteq blind'
    /\ \A m \in Nodes : db[m] = "passed" => db'[m] = "passed"
    /\ \A m \in Nodes : refs'[m] # refs[m] => db[m] # "passed" \/ m \in blind'

LEMMA FlowStores ==
    ASSUME FlowStep
    PROVE  UNCHANGED <<plan, stored>>
  BY DEF FlowStep, WorkflowStart, PreAgentPhase, GenerateSchedule, RecordSchedule,
         SelectReadyWave, NodesSettled, FinalizeExecution, FinalizeHooks,
         PromoteFinalRef, FinalizerDies, StagePodFails, StagePodDies, StopWorkflow,
         Resume, submission

LEMMA Grows ==
    ASSUME RemoteInv, Next
    PROVE  StoreGrows
<1>1. CASE FlowStep
  BY <1>1, FlowStores DEF StoreGrows, stored
<1>2. ASSUME NEW n \in Nodes, NodeStep(n)
      PROVE  StoreGrows
  <2>1. TypeOK /\ PodFits(n)
    BY DEF RemoteInv
  <2>2. plan' = plan
    BY <1>2, <2>1, NodeFrame DEF submission
  <2>3. CASE UNCHANGED stored
    BY <2>2, <2>3 DEF StoreGrows, stored
  <2>4. CASE /\ pod[n].pc = "push" /\ UNCHANGED db
             /\ refs' = [refs EXCEPT ![n] = pod[n].tree]
             /\ blind' = IF pod[n].store THEN blind ELSE blind \cup {n}
    <3>1. pod[n].store => db[n] # "passed"
      BY <2>1, <2>4 DEF PodFits
    <3> QED
      BY <2>1, <2>2, <2>4, <3>1 DEF StoreGrows, TypeOK
  <2>5. CASE /\ pod[n].pc = "record" /\ pod[n].store
             /\ db' = [db EXCEPT ![n] = Status(pod[n].res)]
             /\ UNCHANGED <<refs, blind>>
    <3>1. db[n] # "passed"
      BY <2>1, <2>5 DEF PodFits
    <3> QED
      BY <2>1, <2>2, <2>5, <3>1 DEF StoreGrows, TypeOK
  <2> QED
    BY <1>2, <2>1, <2>3, <2>4, <2>5, NodeStores
<1> QED
  BY <1>1, <1>2, NextIs

LEMMA UpstreamNodes ==
    ASSUME TypeOK, NEW n \in NodesOf(plan)
    PROVE  /\ Upstream(n) \subseteq Tasks(plan) /\ Upstream(n) \subseteq Nodes
           /\ Upstream(n) \subseteq WaitsFor[plan][n]
  BY MergedTasks DEF TypeOK, Upstream

LEMMA VouchedStays ==
    ASSUME TypeOK, StoreGrows, NEW n \in NodesOf(plan), Vouched(n), refs'[n] = refs[n]
    PROVE  Vouched(n)'
<1>1. Upstream(n)' = Upstream(n) /\ WorkOf(n, "passed")' = WorkOf(n, "passed")
      /\ Tasks(plan)' = Tasks(plan)
  BY DEF StoreGrows, Upstream, WorkOf
<1>2. Upstream(n) \subseteq Nodes
  BY UpstreamNodes
<1>3. ASSUME blind' = {}, NEW m \in Upstream(n)
      PROVE  db'[m] = "passed" /\ refs'[m] \subseteq refs'[n]
  <2>1. blind = {}
    BY <1>3 DEF StoreGrows
  <2>2. db[m] = "passed" /\ refs[m] \subseteq refs[n]
    BY <2>1 DEF Vouched
  <2> QED
    BY <1>2, <1>3, <2>2 DEF StoreGrows
<1> QED
  BY <1>1, <1>3 DEF Vouched, StoreGrows

LEMMA GatheredStays ==
    ASSUME TypeOK, StoreGrows, NEW n \in NodesOf(plan), Gathered(n), pod'[n] = pod[n]
    PROVE  Gathered(n)'
<1>1. Upstream(n)' = Upstream(n) /\ WorkOf(n, pod[n].res)' = WorkOf(n, pod[n].res)
      /\ Tasks(plan)' = Tasks(plan) /\ Top(plan)' = Top(plan)
  BY DEF StoreGrows, Upstream, WorkOf
<1>2. Upstream(n) \subseteq Nodes
  BY UpstreamNodes
<1>3. ASSUME blind' = {}, NEW m \in Upstream(n)
      PROVE  refs'[m] \subseteq pod'[n].tree
  <2>1. blind = {}
    BY <1>3 DEF StoreGrows
  <2>2. db[m] = "passed" /\ refs[m] \subseteq pod[n].tree
    BY <2>1 DEF Gathered
  <2> QED
    BY <1>2, <1>3, <2>2 DEF StoreGrows
<1>4. ASSUME NEW m \in Upstream(n) \ blind'
      PROVE  db'[m] = "passed" /\ <<m, "ok">> \in pod'[n].tree
  BY <1>2 DEF Gathered, StoreGrows
<1>5. TreeClean(n)'
  BY <1>1 DEF Gathered, TreeClean, StoreGrows
<1> QED
  BY <1>1, <1>3, <1>4, <1>5 DEF Gathered

----------------------------------------------------------------------------
(* Each part of the invariant is kept. *)

LEMMA RecordsKept ==
    ASSUME RemoteInv, Next, NEW k \in Nodes
    PROVE  RecordFits(k)' /\ RefClean(k)'
<1>1. TypeOK /\ StoreGrows /\ RecordFits(k) /\ RefClean(k)
  BY Grows DEF RemoteInv
<1>2. k \in NodesOf(plan)' <=> k \in NodesOf(plan)
  BY <1>1 DEF StoreGrows
<1>3. CASE db'[k] = db[k] /\ refs'[k] = refs[k]
  <2>1. db'[k] = "passed" /\ k \notin blind' => Vouched(k)'
    BY <1>1, <1>3, VouchedStays DEF RecordFits, StoreGrows
  <2>2. RefClean(k)'
    BY <1>1, <1>3 DEF RefClean, StoreGrows
  <2> QED
    BY <1>1, <1>2, <1>3, <2>1, <2>2 DEF RecordFits
<1>4. CASE FlowStep
  BY <1>3, <1>4, FlowStores DEF stored
<1>5. ASSUME NEW n \in Nodes, NodeStep(n)
      PROVE  RecordFits(k)' /\ RefClean(k)'
  <2>1. n \in NodesOf(plan) /\ PodFits(n)
    BY <1>1, <1>5, NodeFrame, RunningNode DEF RemoteInv
  <2>2. CASE UNCHANGED stored
    BY <1>3, <2>2 DEF stored
  <2>3. CASE /\ pod[n].pc = "push" /\ UNCHANGED db
             /\ refs' = [refs EXCEPT ![n] = pod[n].tree]
             /\ blind' = IF pod[n].store THEN blind ELSE blind \cup {n}
    <3>1. CASE k # n
      BY <1>1, <1>3, <2>3, <3>1 DEF TypeOK
    <3>2. CASE k = n
      <4>1. db'[k] = "passed" => k \in blind'
        BY <2>1, <2>3, <3>2 DEF PodFits
      <4>2. refs'[k] = pod[n].tree
        BY <1>1, <2>3, <3>2 DEF TypeOK
      <4>3. RefClean(k)'
        BY <1>1, <2>1, <2>3, <3>2, <4>2
        DEF RefClean, PodFits, Gathered, TreeClean, StoreGrows
      <4> QED
        BY <1>2, <2>1, <3>2, <4>1, <4>3 DEF RecordFits
    <3> QED
      BY <3>1, <3>2
  <2>4. CASE /\ pod[n].pc = "record" /\ pod[n].store
             /\ db' = [db EXCEPT ![n] = Status(pod[n].res)]
             /\ UNCHANGED <<refs, blind>>
    <3>1. CASE k # n
      BY <1>1, <1>3, <2>4, <3>1 DEF TypeOK
    <3>2. CASE k = n
      <4>1. db'[k] = "passed" => pod[n].res = "passed"
        BY <1>1, <2>4, <3>2 DEF TypeOK, Status
      <4>2. db'[k] = "passed" => Vouched(k)'
        BY <1>1, <2>1, <2>4, <3>2, <4>1, VouchedStays DEF PodFits, Pushed
      <4>3. RefClean(k)'
        BY <1>1, <2>4 DEF RefClean, StoreGrows
      <4> QED
        BY <1>2, <2>1, <3>2, <4>2, <4>3 DEF RecordFits
    <3> QED
      BY <3>1, <3>2
  <2> QED
    BY <1>1, <1>5, <2>2, <2>3, <2>4, NodeStores
<1> QED
  BY <1>4, <1>5, NextIs

\* The pods are gone before and after the nodes, and a wave is of ready nodes.
LEMMA FlowPods ==
    ASSUME TypeOK, FlowStep
    PROVE  /\ pod' = NoPods \/ (pod' = pod /\ stage # "nodes")
           /\ mode' = "dynamic" => mode = "dynamic"
           /\ wave' \in {wave, {}, ReadyNodes}
<1> USE DEF submission, EndWorkflow, GoTo
<1>1. CASE WorkflowStart \/ PreAgentPhase \/ GenerateSchedule \/ RecordSchedule
  BY <1>1 DEF WorkflowStart, PreAgentPhase, GenerateSchedule, RecordSchedule
<1>2. CASE SelectReadyWave
  BY <1>2 DEF SelectReadyWave
<1>3. CASE NodesSettled
  BY <1>3 DEF NodesSettled
<1>4. CASE FinalizeExecution \/ FinalizeHooks \/ PromoteFinalRef \/ FinalizerDies
  BY <1>4 DEF FinalizeExecution, FinalizeHooks, PromoteFinalRef, FinalizerDies
<1>5. CASE StagePodFails \/ StagePodDies
  BY <1>5 DEF StagePodFails, StagePodDies, Startup, PrePhases
<1>6. CASE StopWorkflow
  BY <1>6 DEF StopWorkflow
<1>7. CASE Resume
  BY <1>7 DEF Resume
<1> QED
  BY <1>1, <1>2, <1>3, <1>4, <1>5, <1>6, <1>7 DEF FlowStep

LEMMA DynamicKept ==
    ASSUME RemoteInv, Next
    PROVE  DynamicFits'
<1>1. TypeOK /\ StoreGrows /\ DynamicFits
  BY Grows DEF RemoteInv
<1>2. /\ plan' = plan /\ \A n \in NodesOf(plan) : plan.needs[n] \subseteq Nodes
      /\ NodesOf(plan) \subseteq Nodes /\ Top(plan) \subseteq NodesOf(plan)
  <2>1. IsPlan(plan)
    BY <1>1, PlansAreCompiled DEF TypeOK
  <2>2. NodesOf(plan) \subseteq Nodes /\ Top(plan) \subseteq NodesOf(plan)
    BY <1>1 DEF TypeOK, Nodes, Top
  <2> QED
    BY <1>1, <2>1, <2>2 DEF IsPlan, StoreGrows
<1>3. CASE FlowStep
  <2>1. UNCHANGED stored
    BY <1>3, FlowStores
  <2>2. mode' = "dynamic" => mode = "dynamic"
    BY <1>1, <1>3, FlowPods
  <2>3. ASSUME mode = "dynamic", NEW n \in Nodes, db[n] = "passed" \/ n \in wave'
        PROVE  \A m \in plan.needs[n] : db[m] = "passed"
    BY <1>1, <1>3, <2>3, FlowPods DEF DynamicFits, ReadyNodes
  <2> QED
    BY <1>1, <1>2, <2>1, <2>2, <2>3 DEF DynamicFits, stored
<1>4. ASSUME NEW n \in Nodes, NodeStep(n), mode' = "dynamic"
      PROVE  /\ blind' = {}
             /\ \A k \in Nodes : db'[k] # "none" \/ refs'[k] # NoRef => k \in Top(plan)
             /\ \A k \in Nodes : db'[k] = "passed" \/ k \in wave =>
                   \A m \in plan.needs[k] : db'[m] = "passed"
  <2>1. /\ mode = "dynamic" /\ wave' = wave /\ PodFits(n)
        /\ n \in NodesOf(plan) /\ n \in wave /\ n \in Top(plan)
    BY <1>1, <1>4, NodeFrame, RunningNode DEF submission, flow, RemoteInv
  <2>2. blind' = {}
    BY <1>1, <1>4, <2>1, NodeStores DEF DynamicFits, PodFits, stored
  <2>3. \A k \in Nodes \ {n} : db'[k] = db[k] /\ refs'[k] = refs[k]
    BY <1>1, <1>4, NodeStores DEF TypeOK, stored
  <2>4. \A k \in Nodes : db'[k] # "none" \/ refs'[k] # NoRef => k \in Top(plan)
    BY <1>1, <2>1, <2>3 DEF DynamicFits
  <2>5. ASSUME NEW k \in Nodes, db'[k] = "passed" \/ k \in wave
        PROVE  /\ k \in NodesOf(plan)
               /\ \A m \in plan.needs[k] : db[m] = "passed"
    <3>1. k \in wave \/ db[k] = "passed"
      BY <2>1, <2>3, <2>5
    <3>2. k \in Top(plan)
      BY <1>1, <2>1, <3>1 DEF DynamicFits, TypeOK
    <3> QED
      BY <1>1, <1>2, <2>1, <3>1, <3>2 DEF DynamicFits
  <2> QED
    BY <1>1, <1>2, <2>2, <2>4, <2>5 DEF StoreGrows
<1>5. ASSUME NEW n \in Nodes, NodeStep(n)
      PROVE  DynamicFits'
  <2>1. wave' = wave
    BY <1>1, <1>5, NodeFrame DEF flow
  <2> QED
    BY <1>2, <1>4, <1>5, <2>1 DEF DynamicFits
<1> QED
  BY <1>3, <1>5, NextIs

----------------------------------------------------------------------------
(* The pods. *)

\* Only the passed, or what has become blind, is merged.
LEMMA MergedPassed ==
    ASSUME RemoteInv, NEW n \in Nodes, Running(n), pod[n].pc \in Alive,
           FetchesEveryRef(n), NEW m \in Upstream(n)
    PROVE  /\ db[m] = "passed" \/ m \in blind
           /\ refs[m] # NoRef
<1>1. /\ TypeOK /\ DynamicFits /\ PodFits(n) /\ PodFits(m) /\ RecordFits(m)
      /\ m \in Nodes /\ n \in NodesOf(plan)
  BY RunningNode, UpstreamNodes DEF RemoteInv
<1>2. refs[m] # NoRef
  BY DEF FetchesEveryRef, MergedRefs, Upstream
<1>3. CASE mode = "static"
  <2>1. pod[m].pc = "ok"
    BY <1>1, <1>3, UpstreamNodes DEF PodFits
  <2> QED
    BY <1>1, <1>2, <2>1 DEF PodFits, Alive
<1>4. CASE mode = "dynamic"
  <2>1. m \in Top(plan) /\ \A j \in plan.needs[n] : db[j] = "passed"
    BY <1>1, <1>2, <1>4, RunningNode DEF DynamicFits
  <2>2. db[m] = "passed"
    BY <1>1, <1>4, <2>1, RecordedUpstream DEF TypeOK, Upstream
  <2> QED
    BY <1>2, <2>2
<1> QED
  BY <1>1, <1>3, <1>4 DEF TypeOK

LEMMA GathersMerged ==
    ASSUME RemoteInv, NEW n \in Nodes, Running(n), pod[n].pc = "run",
           FetchesEveryRef(n), NEW r \in Results, Committed(n, r),
           UNCHANGED <<plan, stored>>
    PROVE  Gathered(n)'
<1>1. /\ TypeOK /\ n \in NodesOf(plan) /\ IsPlan(plan) /\ plan \in Plans
      /\ Upstream(n) \subseteq Tasks(plan) /\ Upstream(n) \subseteq Nodes
  BY RunningNode, UpstreamNodes, PlansAreCompiled DEF RemoteInv, TypeOK
<1> DEFINE t == (UNION (MergedRefs(n) \ {NoRef})) \cup WorkOf(n, r)
<1>2. pod'[n].tree = t /\ pod'[n].res = r
  BY <1>1 DEF Committed, TypeOK, Pod
<1>3. ASSUME NEW m \in Upstream(n)
      PROVE  /\ db[m] = "passed" \/ m \in blind
             /\ refs[m] \subseteq t
             /\ RecordFits(m) /\ RefClean(m)
  BY <1>1, MergedPassed DEF RemoteInv, MergedRefs, Upstream, Alive
<1>4. ASSUME NEW m \in Upstream(n) \ blind
      PROVE  <<m, "ok">> \in t /\ <<m, "bad">> \notin refs[m]
  <2>1. Vouched(m) /\ refs[m] \subseteq t /\ m \in Tasks(plan)
    BY <1>1, <1>3 DEF RecordFits
  <2>2. <<m, "ok">> \in WorkOf(m, "passed")
    BY <2>1 DEF WorkOf, Tasks
  <2> QED
    BY <2>1, <2>2 DEF Vouched
<1>5. ASSUME NEW j \in Nodes, <<j, "bad">> \in t
      PROVE  \/ j \in blind
             \/ n \in Tasks(plan) /\ j = n /\ r # "passed"
             \/ n \notin Tasks(plan) /\ j \notin Top(plan)
  <2>1. ASSUME NEW m \in Upstream(n), <<j, "bad">> \in refs[m]
        PROVE  j \in blind
    BY <1>1, <1>3, <1>4, <2>1 DEF RefClean
  <2>2. ASSUME <<j, "bad">> \in WorkOf(n, r)
        PROVE  \/ n \in Tasks(plan) /\ j = n /\ r # "passed"
               \/ n \notin Tasks(plan) /\ j \notin Top(plan)
    <3>1. CASE plan.kind[n] = "parallel"
      <4>1. j \in ResolveExecutable(plan, {n}) /\ n \notin Tasks(plan)
        BY <2>2, <3>1 DEF WorkOf, Tasks
      <4> QED
        BY <1>1, <3>1, <4>1, ChildLeaves
    <3>2. CASE plan.kind[n] # "parallel"
      BY <2>2, <3>2 DEF WorkOf
    <3> QED
      BY <3>1, <3>2
  <2>3. \/ <<j, "bad">> \in WorkOf(n, r)
        \/ \E m \in Upstream(n) : <<j, "bad">> \in refs[m]
    BY <1>5 DEF MergedRefs, Upstream
  <2> QED
    BY <2>1, <2>2, <2>3
<1>6. WorkOf(n, r) \subseteq t
  OBVIOUS
<1> HIDE DEF t
<1>7. /\ Upstream(n)' = Upstream(n) /\ \A q : WorkOf(n, q)' = WorkOf(n, q)
      /\ Tasks(plan)' = Tasks(plan) /\ Top(plan)' = Top(plan)
      /\ blind' = blind /\ db' = db /\ refs' = refs
  BY DEF Upstream, WorkOf, stored
<1>8. TreeClean(n)'
  BY <1>2, <1>5, <1>7 DEF TreeClean
<1>9. WorkOf(n, pod[n].res)' \subseteq pod'[n].tree
  BY <1>2, <1>6 DEF WorkOf
<1> QED
  BY <1>2, <1>3, <1>4, <1>7, <1>8, <1>9 DEF Gathered

\* The pods of the other nodes are where they were.
LEMMA OtherPodsFit ==
    ASSUME RemoteInv, Next, NEW n \in Nodes, NodeStep(n), NEW k \in Nodes \ {n}
    PROVE  PodFits(k)'
<1>1. /\ TypeOK /\ StoreGrows /\ PodFits(k)
      /\ \A m \in Nodes : pod[m].pc = "ok" => pod'[m].pc = "ok"
      /\ pod'[k] = pod[k]
      /\ plan' = plan /\ mode' = mode /\ stage' = stage /\ wave' = wave
  <2>1. TypeOK /\ PodFits(k) /\ StoreGrows
    BY Grows DEF RemoteInv
  <2>2. pod[n].pc # "ok"
    BY <2>1, NodeFrame DEF Alive
  <2> QED
    BY <2>1, <2>2, NodeFrame DEF submission, flow
<1>2. NodeTasks' = NodeTasks
  BY <1>1 DEF NodeTasks
<1>3. pod[k].pc # "idle" => k \in NodesOf(plan) /\ WaitsFor[plan][k] \subseteq Nodes
  <2>1. ASSUME k \in NodesOf(plan) PROVE WaitsFor[plan][k] \subseteq Nodes
    BY <1>1, <2>1 DEF TypeOK, WaitsFor, Dependencies, ResolveExecutable, Tasks, Nodes
  <2> QED
    BY <1>1, <2>1, RunningNode DEF PodFits, Running
<1>4. db'[k] = db[k] /\ refs'[k] = refs[k]
  BY <1>1, NodeStores DEF TypeOK, stored
<1>5. pod[k].pc = "push" => Gathered(k)'
  BY <1>1, <1>3, GatheredStays DEF PodFits
<1>6. pod[k].pc = "record" => Pushed(k)'
  BY <1>1, <1>3, <1>4, VouchedStays DEF PodFits, Pushed, StoreGrows
<1>7. pod[k].pc \in Alive /\ mode = "static" =>
         \A m \in WaitsFor[plan][k] : pod'[m].pc = "ok"
  BY <1>1, <1>3 DEF PodFits, Alive
<1>8. pod[k].pc = "ok" => db'[k] = "passed" \/ k \in blind'
  BY <1>1, <1>4 DEF PodFits, StoreGrows
<1> QED
  BY <1>1, <1>2, <1>4, <1>5, <1>6, <1>7, <1>8 DEF PodFits

\* What is left to show of the pod that took the step: its own state.
OwnPodFits(n) ==
    /\ pod'[n].pc \in {"idle", "start"} => ~pod'[n].store
    /\ pod'[n].pc = "ok" => db'[n] = "passed" \/ n \in blind'
    /\ pod'[n].pc \in {"run", "push", "record"} =>
          /\ mode = "dynamic" => pod'[n].store
          /\ pod'[n].store => db'[n] # "passed"
    /\ pod'[n].pc = "push" => Gathered(n)'
    /\ pod'[n].pc = "record" => Pushed(n)'

LEMMA ExitFits ==
    ASSUME TypeOK, NEW n \in Nodes, NEW c \in {0, 1, 70}, Exits(n, c),
           c = 0 => db'[n] = "passed" \/ n \in blind'
    PROVE  OwnPodFits(n)
<1>1. pod'[n].pc \in {"ok", "bad", "start"} /\ (pod'[n].pc = "ok" <=> c = 0)
  BY ExitsTyped DEF TypeOK
<1>2. ~pod'[n].store
  <2>1. ~NoPod.store /\ NoPod \in Pod
    BY NoPodTyped DEF NoPod
  <2>2. \A v : ~[NoPod EXCEPT !.pc = v].store
    BY <2>1 DEF Pod
  <2>3. ~Retried(n).store
    BY <2>1, <2>2 DEF Retried, Pod
  <2> DEFINE E == CASE c = 0 -> [NoPod EXCEPT !.pc = "ok"]
                    [] c = 1 -> [NoPod EXCEPT !.pc = "bad"]
                    [] c = 70 -> Retried(n)
  <2>4. ~E.store
    BY <2>2, <2>3
  <2>5. pod' = [pod EXCEPT ![n] = E]
    BY DEF Exits
  <2> HIDE DEF E
  <2> QED
    BY <2>4, <2>5 DEF TypeOK
<1> QED
  BY <1>1, <1>2 DEF OwnPodFits

LEMMA OwnPodKept ==
    ASSUME RemoteInv, Next, NEW n \in Nodes, NodeStep(n)
    PROVE  OwnPodFits(n)
<1>1. /\ TypeOK /\ StoreGrows /\ PodFits(n) /\ Running(n) /\ n \in NodesOf(plan)
      /\ pod \in [Nodes -> Pod] /\ pod[n] \in Pod /\ plan' = plan
  BY Grows, NodeFrame, RunningNode DEF RemoteInv, TypeOK, StoreGrows
<1>2. CASE StartPod(n)
  <2>1. pod'[n].pc = "start" /\ pod'[n].store = pod[n].store /\ pod[n].pc = "idle"
    BY <1>1, <1>2 DEF StartPod, Pod
  <2> QED
    BY <1>1, <2>1 DEF OwnPodFits, PodFits
<1>3. CASE ResolveStore(n)
  <2>1. UNCHANGED <<db, blind>> /\ pod[n].pc = "start"
    BY <1>3 DEF ResolveStore, podOnly, stored
  <2>2. CASE AlreadyPassed(n) /\ Exits(n, 0)
    BY <1>1, <2>1, <2>2, ExitFits DEF AlreadyPassed
  <2>3. CASE Exits(n, 70)
    BY <1>1, <2>3, ExitFits
  <2>4. CASE ~AlreadyPassed(n) /\ pod' = [pod EXCEPT ![n].pc = "run", ![n].store = TRUE]
    <3>1. pod'[n].pc = "run" /\ pod'[n].store
      BY <1>1, <2>4 DEF Pod
    <3> QED
      BY <2>1, <2>4, <3>1 DEF AlreadyPassed, OwnPodFits
  <2>5. CASE mode = "static" /\ pod' = [pod EXCEPT ![n].pc = "run"]
    <3>1. pod'[n].pc = "run" /\ ~pod'[n].store
      BY <1>1, <2>1, <2>5 DEF Pod, PodFits
    <3> QED
      BY <2>5, <3>1 DEF OwnPodFits
  <2> QED
    BY <1>3, <2>2, <2>3, <2>4, <2>5 DEF ResolveStore, WithoutStore
<1>4. CASE RunTask(n)
  <2>1. UNCHANGED <<plan, stored>> /\ pod[n].pc = "run"
    BY <1>4 DEF RunTask, podOnly, submission
  <2>2. CASE Exits(n, 70)
    BY <1>1, <2>2, ExitFits
  <2>3. ASSUME FetchesEveryRef(n), NEW r \in Results, Committed(n, r)
        PROVE  OwnPodFits(n)
    <3>1. Gathered(n)'
      BY <1>1, <2>1, <2>3, GathersMerged
    <3>2. pod'[n].pc = "push" /\ pod'[n].store = pod[n].store
      BY <1>1, <2>3 DEF Committed, Pod
    <3> QED
      BY <1>1, <2>1, <3>1, <3>2 DEF OwnPodFits, PodFits, stored
  <2>4. ResultsOf(n) \subseteq Results
    BY DEF ResultsOf, Results
  <2> QED
    BY <1>4, <2>2, <2>3, <2>4 DEF RunTask
<1>5. CASE PushNodeRef(n)
  <2>1. /\ pod'[n].pc = "record" /\ pod'[n].store = pod[n].store
        /\ pod'[n].res = pod[n].res /\ pod[n].pc = "push"
    BY <1>1, <1>5 DEF PushNodeRef, Pod
  <2>2. refs' = [refs EXCEPT ![n] = pod[n].tree] /\ db' = db
        /\ blind' = IF pod[n].store THEN blind ELSE blind \cup {n}
    BY <1>5 DEF PushNodeRef
  <2>3. refs'[n] = pod[n].tree /\ pod[n].tree \in SUBSET Work
    BY <1>1, <2>2 DEF TypeOK, Pod
  <2>4. ASSUME pod[n].store, pod[n].res = "passed"
        PROVE  Vouched(n)'
    <3>1. /\ Gathered(n) /\ blind' = blind /\ Upstream(n)' = Upstream(n)
          /\ WorkOf(n, "passed")' = WorkOf(n, "passed") /\ Tasks(plan)' = Tasks(plan)
      BY <1>1, <2>1, <2>2, <2>4 DEF PodFits, Upstream, WorkOf
    <3>2. ASSUME blind = {}, NEW m \in Upstream(n)
          PROVE  db'[m] = "passed" /\ refs'[m] \subseteq refs'[n]
      <4>1. db[m] = "passed" /\ refs[m] \subseteq pod[n].tree
        BY <3>1, <3>2 DEF Gathered
      <4> QED
        BY <1>1, <2>2, <2>3, <4>1 DEF TypeOK
    <3>3. n \in Tasks(plan) \ blind => <<n, "bad">> \notin pod[n].tree
      BY <2>4, <3>1 DEF Gathered, TreeClean
    <3>4. WorkOf(n, "passed") \subseteq pod[n].tree
      BY <2>4, <3>1 DEF Gathered
    <3> QED
      BY <2>3, <3>1, <3>2, <3>3, <3>4 DEF Vouched
  <2>5. Pushed(n)'
    BY <2>1, <2>2, <2>4 DEF Pushed
  <2> QED
    BY <1>1, <2>1, <2>2, <2>5 DEF OwnPodFits, PodFits
<1>6. CASE RecordResult(n)
  <2>1. pod[n].pc = "record" /\ Pushed(n) /\ blind' = blind
    BY <1>1, <1>6 DEF RecordResult, PodFits
  <2>2. /\ ExitCode(pod[n].res) \in {0, 1, 70}
        /\ ExitCode(pod[n].res) = 0 <=> pod[n].res = "passed"
    BY <1>1, ExitCodeTyped DEF Pod
  <2>3. CASE /\ pod[n].store /\ db' = [db EXCEPT ![n] = Status(pod[n].res)]
             /\ Exits(n, ExitCode(pod[n].res)) \/ Exits(n, 70)
    <3>1. pod[n].res = "passed" => db'[n] = "passed"
      BY <1>1, <2>3 DEF TypeOK, Status
    <3> QED
      BY <1>1, <2>2, <2>3, <3>1, ExitFits
  <2>4. CASE Exits(n, 1)
    BY <1>1, <2>4, ExitFits
  <2>5. CASE ~pod[n].store /\ Exits(n, ExitCode(pod[n].res))
    BY <1>1, <2>1, <2>2, <2>5, ExitFits DEF Pushed
  <2> QED
    BY <1>6, <2>3, <2>4, <2>5 DEF RecordResult
<1>7. CASE PodDies(n)
  BY <1>1, <1>7, ExitFits DEF PodDies
<1> QED
  BY <1>2, <1>3, <1>4, <1>5, <1>6, <1>7 DEF NodeStep, PodStep

LEMMA PodsKept ==
    ASSUME RemoteInv, Next, NEW k \in Nodes
    PROVE  PodFits(k)'
<1>1. TypeOK /\ PodFits(k)
  BY DEF RemoteInv
<1>2. CASE FlowStep
  <2>1. pod'[k].pc = "idle" /\ ~pod'[k].store
    BY <1>1, <1>2, FlowPods DEF PodFits, NoPods, NoPod
  <2> QED
    BY <2>1 DEF PodFits, Alive
<1>3. ASSUME NEW n \in Nodes, NodeStep(n), k = n
      PROVE  PodFits(k)'
  <2>1. /\ OwnPodFits(n) /\ Running(n) /\ n \in NodesOf(plan)
        /\ pod[n].pc \in {"idle"} \cup Alive
        /\ \A m \in Nodes \ {n} : pod'[m] = pod[m]
        /\ plan' = plan /\ mode' = mode /\ stage' = stage /\ wave' = wave
    BY <1>1, <1>3, OwnPodKept, NodeFrame, RunningNode DEF submission, flow
  <2>2. WaitsFor[plan][n] \subseteq Nodes
    BY <1>1, <2>1 DEF TypeOK, WaitsFor, Dependencies, ResolveExecutable, Tasks, Nodes
  <2>3. ASSUME mode = "static", NEW m \in WaitsFor[plan][n]
        PROVE  pod'[m].pc = "ok"
    <3>1. pod[m].pc = "ok"
      <4>1. CASE pod[n].pc = "idle"
        <5>1. StartPod(n)
          BY <1>3, <4>1
          DEF NodeStep, PodStep, ResolveStore, RunTask, PushNodeRef, RecordResult,
              PodDies, Alive
        <5> QED
          BY <2>3, <5>1 DEF StartPod
      <4>2. CASE pod[n].pc \in Alive
        BY <1>1, <1>3, <2>3, <4>2 DEF PodFits
      <4> QED
        BY <2>1, <4>1, <4>2
    <3>2. m # n
      BY <2>1, <3>1 DEF Alive
    <3> QED
      BY <2>1, <2>2, <3>1, <3>2
  <2>4. stage = "nodes" /\ n \in NodeTasks /\ NodeTasks' = NodeTasks
    BY <2>1 DEF Running, NodeTasks
  <2> QED
    BY <1>3, <2>1, <2>3, <2>4 DEF PodFits, OwnPodFits
<1>4. ASSUME NEW n \in Nodes, NodeStep(n), k # n
      PROVE  PodFits(k)'
  BY <1>4, OtherPodsFit
<1> QED
  BY <1>2, <1>3, <1>4, NextIs

----------------------------------------------------------------------------
(* The end of the workflow. *)

\* Along what tasks merge the refs only grow, up to the ones that are promoted.
LEMMA PromotedIsDelivered ==
    ASSUME RemoteInv, PromoteFinalRef, verdict' = "exit0"
    PROVE  GreenRunIsDelivered'
<1> DEFINE sources == {refs[n] : n \in TerminalNodes(plan)}
<1>1. /\ TypeOK /\ EndFits /\ DynamicFits /\ \A n \in Nodes : RecordFits(n)
      /\ plan \in Plans /\ IsPlan(plan) /\ IsAcyclic(plan)
      /\ Tasks(plan) \subseteq Nodes /\ "no ref" \notin Nodes
      /\ Tasks(plan) \subseteq NodesOf(plan)
  BY PlansAreCompiled DEF RemoteInv, TypeOK, Tasks, Nodes
<1>2. outcome = "PASS" /\ UNCHANGED <<plan, stored>>
  BY <1>1, FlowStores DEF PromoteFinalRef, EndFits, FlowStep
<1>3. NoRef \notin sources /\ final' = UNION sources
  BY DEF PromoteFinalRef, Ends
<1>4. \A n \in TerminalNodes(plan) : refs[n] \in SUBSET Work /\ refs[n] \in sources
  BY <1>1, <1>3 DEF TerminalNodes, TypeOK
<1>5. <<"no ref", "bad">> \notin Work
  BY <1>1 DEF Work
<1> HIDE DEF sources
<1>6. final' # NoRef
  <2>1. final' \in SUBSET Work
    BY <1>3, <1>4 DEF sources
  <2> QED
    BY <1>5, <2>1 DEF NoRef
<1>7. ASSUME blind = {}, MergesWhatItWaitsFor, NEW t \in Tasks(plan)
      PROVE  <<t, "ok">> \in final'
  <2>1. ASSUME NEW n \in Tasks(plan)
        PROVE  \/ db[n] = "passed" /\ Vouched(n)
               \/ mode = "dynamic" /\ n \notin Top(plan) /\ refs[n] = NoRef
    <3>1. CASE mode = "static"
      BY <1>1, <1>2, <1>7, <3>1 DEF EndFits, RecordFits
    <3>2. CASE mode = "dynamic"
      BY <1>1, <1>2, <1>7, <3>2 DEF EndFits, RecordFits, DynamicFits
    <3> QED
      BY <1>1, <3>1, <3>2 DEF TypeOK
  <2>2. ASSUME NEW n \in Tasks(plan), NEW u \in Merges[plan][n]
        PROVE  refs[u] \subseteq refs[n]
    <3>1. u \in Tasks(plan)
      BY <1>1, MergedTasks
    <3>2. CASE db[n] = "passed" /\ Vouched(n)
      BY <1>7, <3>2 DEF Vouched, Upstream
    <3>3. CASE mode = "dynamic" /\ n \notin Top(plan) /\ refs[n] = NoRef
      <4>1. u \notin Top(plan)
        BY <1>1, <3>3, ChildNeeds
      <4>2. refs[u] = NoRef
        BY <1>1, <3>1, <3>3, <4>1 DEF DynamicFits
      <4> QED
        BY <3>3, <4>2
    <3> QED
      BY <2>1, <3>2, <3>3
  <2> DEFINE S == {u \in Tasks(plan) : refs[t] \subseteq refs[u]}
  <2>3. S \in SUBSET Tasks(plan) /\ S # {}
    OBVIOUS
  <2>4. PICK u \in S : \A n \in S : u \notin Dependencies(plan, n)
    BY <1>1, <2>3 DEF IsAcyclic
  <2>5. ASSUME NEW n \in Tasks(plan) PROVE u \notin Dependencies(plan, n)
    <3>1. SUFFICES ASSUME u \in Dependencies(plan, n) PROVE FALSE
      OBVIOUS
    <3>2. u \in Merges[plan][n]
      BY <1>1, <1>7, <3>1 DEF MergesWhatItWaitsFor, WaitsFor
    <3>3. refs[t] \subseteq refs[n]
      BY <2>2, <3>2
    <3> QED
      BY <2>4, <3>1, <3>3
  <2>6. u \in TerminalNodes(plan) /\ refs[t] \subseteq refs[u]
    BY <2>5 DEF TerminalNodes
  <2>7. refs[t] \subseteq final' /\ refs[t] \subseteq Work
    BY <1>3, <1>4, <2>6
  <2>8. Vouched(t)
    BY <1>5, <2>1, <2>7 DEF NoRef
  <2>9. <<t, "ok">> \in WorkOf(t, "passed")
    BY DEF WorkOf, Tasks
  <2> QED
    BY <2>7, <2>8, <2>9 DEF Vouched
<1>8. blind' = blind /\ plan' = plan /\ (MergesWhatItWaitsFor' <=> MergesWhatItWaitsFor)
      /\ Tasks(plan)' = Tasks(plan)
  BY <1>2 DEF MergesWhatItWaitsFor, stored
<1> QED
  BY <1>6, <1>7, <1>8 DEF GreenRunIsDelivered, Passed

\* A step before the finalizer decides neither outcome nor verdict, and the
\* workflow succeeds for Argo when every task has.
LEMMA EarlyStep ==
    ASSUME RemoteInv,
           \/ WorkflowStart \/ PreAgentPhase \/ GenerateSchedule \/ RecordSchedule
           \/ SelectReadyWave \/ NodesSettled
           \/ StagePodFails \/ StagePodDies \/ StopWorkflow
    PROVE  /\ stage \in Startup \cup {"nodes"}
           /\ stage' \in Startup \cup {"nodes", "finalize"}
           /\ stage' \in PrePhases \cup {"select-ready-wave"} => mode = "dynamic"
           /\ UNCHANGED <<plan, mode, outcome, verdict>>
           /\ mode = "static" /\ argo' = "Succeeded" =>
                 \A n \in Tasks(plan) : db[n] = "passed" \/ n \in blind
<1> USE DEF submission, ending, EndWorkflow, GoTo, Startup, PrePhases
<1>1. TypeOK /\ EndFits
  BY DEF RemoteInv
<1>2. CASE WorkflowStart \/ PreAgentPhase \/ GenerateSchedule \/ RecordSchedule
  BY <1>1, <1>2
  DEF WorkflowStart, PreAgentPhase, GenerateSchedule, RecordSchedule, EndFits
<1>3. CASE SelectReadyWave
  BY <1>1, <1>3 DEF SelectReadyWave, EndFits
<1>4. CASE NodesSettled
  <2>1. ASSUME mode = "static", argo' = "Succeeded", NEW n \in Tasks(plan)
        PROVE  db[n] = "passed" \/ n \in blind
    <3>1. n \in Nodes /\ NodeTasks = Tasks(plan) /\ PodFits(n)
      BY <2>1 DEF NodeTasks, Tasks, Nodes, RemoteInv, TypeOK
    <3>2. CASE \E m \in NodeTasks : pod[m].pc = "bad"
      BY <1>4, <2>1, <3>2 DEF NodesSettled
    <3>3. CASE ~\E m \in NodeTasks : pod[m].pc = "bad"
      <4>1. pod[n].pc \in {"ok", "bad", "idle"} /\ pod[n].pc # "idle"
        BY <1>4, <3>1, <3>3 DEF NodesSettled
      <4>2. pod[n].pc = "ok"
        BY <3>1, <3>3, <4>1
      <4> QED
        BY <3>1, <4>2 DEF PodFits
    <3> QED
      BY <3>2, <3>3
  <2>2. /\ stage = "nodes"
        /\ UNCHANGED <<plan, mode, outcome, verdict>>
    BY <1>4 DEF NodesSettled
  <2>3. \/ EndWorkflow("Failed") \/ EndWorkflow("Succeeded")
        \/ mode = "dynamic" /\ GoTo("select-ready-wave")
    BY <1>4 DEF NodesSettled
  <2>4. stage' = "finalize" \/ (stage' = "select-ready-wave" /\ mode = "dynamic")
    BY <2>3
  <2> QED
    BY <2>1, <2>2, <2>4
<1>5. CASE StagePodFails
  BY <1>1, <1>5 DEF StagePodFails
<1>6. CASE StagePodDies
  BY <1>1, <1>6 DEF StagePodDies, EndFits
<1>7. CASE StopWorkflow
  BY <1>1, <1>7 DEF StopWorkflow
<1> QED
  BY <1>2, <1>3, <1>4, <1>5, <1>6, <1>7

LEMMA EndKept ==
    ASSUME RemoteInv, Next
    PROVE  EndFits'
<1>1. TypeOK /\ StoreGrows /\ EndFits /\ Tasks(plan) \subseteq Nodes
      /\ Top(plan) \subseteq Nodes
  BY Grows DEF RemoteInv, TypeOK, Tasks, Top, Nodes
<1>2. /\ Tasks(plan)' = Tasks(plan) /\ Top(plan)' = Top(plan)
      /\ \A k \in Tasks(plan) :
            db[k] = "passed" \/ k \in blind => db'[k] = "passed" \/ k \in blind'
      /\ \A k \in Top(plan) : db[k] = "passed" => db'[k] = "passed"
  BY <1>1 DEF StoreGrows
<1>3. ASSUME NEW n \in Nodes, NodeStep(n)
      PROVE  EndFits'
  <2>1. /\ stage = "nodes" /\ UNCHANGED <<plan, mode, stage, argo, outcome, verdict>>
    BY <1>1, <1>3, NodeFrame, RunningNode DEF submission, flow, ending
  <2>2. verdict' # "exit0"
    BY <1>1, <2>1 DEF EndFits
  <2> QED
    BY <1>1, <1>2, <2>1, <2>2 DEF EndFits, Startup, PrePhases
<1>4. CASE \/ WorkflowStart \/ PreAgentPhase \/ GenerateSchedule \/ RecordSchedule
           \/ SelectReadyWave \/ NodesSettled
           \/ StagePodFails \/ StagePodDies \/ StopWorkflow
  <2>1. /\ outcome' # "PASS" /\ verdict' # "exit0" /\ stage' # "promote"
    BY <1>1, <1>4, EarlyStep DEF EndFits, Startup, PrePhases
  <2> QED
    BY <1>2, <1>4, <2>1, EarlyStep DEF EndFits
<1>5. CASE FinalizeExecution
  <2>1. /\ stage = "finalize" /\ stage' = "hooks" /\ outcome' = FinalizerOutcome
        /\ UNCHANGED <<plan, mode, argo, verdict, db>>
    BY <1>5 DEF FinalizeExecution, submission, stored
  <2>2. outcome' = "PASS" =>
          /\ mode = "static" => argo = "Succeeded"
          /\ mode = "dynamic" => \A n \in Top(plan) : db[n] = "passed"
    <3>1. CASE mode = "static"
      BY <2>1, <3>1 DEF FinalizerOutcome
    <3>2. CASE mode = "dynamic"
      <4>1. outcome' = "PASS" => FailedNodes \cup MissingNodes = {}
        BY <2>1, <3>2 DEF FinalizerOutcome
      <4> QED
        BY <1>1, <3>2, <4>1 DEF FailedNodes, MissingNodes, TypeOK
    <3> QED
      BY <1>1, <3>1, <3>2 DEF TypeOK
  <2>3. verdict' # "exit0"
    BY <1>1, <2>1 DEF EndFits
  <2> QED
    BY <1>1, <1>2, <2>1, <2>2, <2>3 DEF EndFits, Startup, PrePhases
<1>6. CASE FinalizeHooks
  <2>1. /\ stage = "hooks" /\ UNCHANGED <<plan, mode, argo>>
        /\ \/ stage' = "promote" /\ outcome = "PASS" /\ UNCHANGED <<outcome, verdict>>
           \/ stage' = "done" /\ verdict' = "exit1" /\ outcome' \in {outcome, "FAIL"}
    BY <1>6 DEF FinalizeHooks, submission, Ends
  <2>2. verdict' # "exit0"
    BY <1>1, <2>1 DEF EndFits
  <2> QED
    BY <1>1, <1>2, <2>1, <2>2 DEF EndFits, Startup, PrePhases
<1>7. CASE PromoteFinalRef
  <2>1. /\ stage = "promote" /\ stage' = "done" /\ UNCHANGED <<plan, mode, argo, outcome>>
    BY <1>7 DEF PromoteFinalRef, submission, Ends
  <2>2. verdict' = "exit0" => GreenRunIsDelivered'
    BY <1>7, PromotedIsDelivered
  <2> QED
    BY <1>1, <1>2, <2>1, <2>2 DEF EndFits, Startup, PrePhases
<1>8. CASE FinalizerDies
  <2>1. /\ stage' = "done" /\ verdict' = "exit70" /\ UNCHANGED <<plan, mode, argo, outcome>>
    BY <1>8 DEF FinalizerDies, submission, ending, Ends
  <2> QED
    BY <1>1, <1>2, <2>1 DEF EndFits, Startup, PrePhases
<1>9. CASE Resume
  <2>1. /\ mode' = "static" /\ stage' = "workflow.start" /\ argo' = "Running"
        /\ outcome' = "none" /\ verdict' = "none"
    BY <1>9 DEF Resume, GoTo, FirstStage
  <2> QED
    BY <2>1 DEF EndFits, Startup, PrePhases
<1> QED
  BY <1>3, <1>4, <1>5, <1>6, <1>7, <1>8, <1>9, NextIs DEF FlowStep

----------------------------------------------------------------------------
(* The theorems. *)

LEMMA InitFits ==
    ASSUME Init
    PROVE  RemoteInv
<1>1. TypeOK
  BY InitTyped
<1>2. \A n \in Nodes : db[n] = "none" /\ refs[n] = NoRef /\ pod[n] = NoPod
  BY DEF Init, NoPods
<1>3. "no ref" \notin Nodes
  BY PlansAreCompiled DEF Nodes
<1>4. \A n \in Nodes : RecordFits(n)
  BY <1>2 DEF RecordFits
<1>8. \A n \in Nodes : RefClean(n)
  <2>1. \A j \in Nodes : <<j, "bad">> \notin NoRef
    BY <1>3 DEF NoRef
  <2> QED
    BY <1>2, <2>1 DEF RefClean
<1>5. DynamicFits
  BY <1>2 DEF DynamicFits, Init
<1>6. \A n \in Nodes : PodFits(n)
  BY <1>2 DEF PodFits, NoPod, Alive
<1>7. EndFits
  BY <1>1 DEF EndFits, Init, TypeOK, FirstStage, Startup, PrePhases
<1> QED
  BY <1>1, <1>4, <1>5, <1>6, <1>7, <1>8 DEF RemoteInv

LEMMA NextFits ==
    ASSUME RemoteInv, Next
    PROVE  RemoteInv'
<1>1. TypeOK'
  BY NextIs, FlowTyped, NodeTyped DEF RemoteInv
<1>2. Nodes' = Nodes
  OBVIOUS
<1> QED
  BY <1>1, <1>2, RecordsKept, DynamicKept, PodsKept, EndKept DEF RemoteInv

LEMMA StutterFits ==
    ASSUME RemoteInv, UNCHANGED vars
    PROVE  RemoteInv'
<1>1. UNCHANGED <<plan, mode, stage, wtries, wave, pod, sched, db, refs, final, blind,
                  argo, outcome, verdict, resumes>>
  BY DEF vars, submission, flow, stored, ending
<1>2. TypeOK' /\ DynamicFits'
  BY <1>1 DEF RemoteInv, TypeOK, DynamicFits
<1>3. EndFits'
  BY <1>1 DEF RemoteInv, EndFits, GreenRunIsDelivered, MergesWhatItWaitsFor
<1>4. ASSUME NEW n \in Nodes PROVE Vouched(n)' <=> Vouched(n)
  BY <1>1 DEF Vouched, Upstream, WorkOf
<1>5. ASSUME NEW n \in Nodes PROVE RecordFits(n)' /\ RefClean(n)'
  BY <1>1, <1>4 DEF RemoteInv, RecordFits, RefClean
<1>6. ASSUME NEW n \in Nodes PROVE (Gathered(n)' <=> Gathered(n)) /\ (Pushed(n)' <=> Pushed(n))
  BY <1>1, <1>4 DEF Gathered, TreeClean, Upstream, WorkOf, Pushed
<1>7. ASSUME NEW n \in Nodes PROVE PodFits(n)'
  BY <1>1, <1>6 DEF RemoteInv, PodFits, NodeTasks
<1> QED
  BY <1>2, <1>3, <1>5, <1>7 DEF RemoteInv

\* The invariant of a remote run: what records, refs and pods say of each other
\* in every state of every submission, for all plans.
THEOREM RemoteRunInvariant == Spec => []RemoteInv
<1>1. Init => RemoteInv
  BY InitFits
<1>2. RemoteInv /\ [Next]_vars => RemoteInv'
  BY NextFits, StutterFits
<1> QED
  BY <1>1, <1>2, PTL DEF Spec

\* A node recorded as passed has its work, and the work it needs, on the remote:
\* run.ts pushes the ref before it writes the record.
THEOREM RecordsFollowRefs == Spec => []RecordedWorkIsPushed
<1>1. RemoteInv => RecordedWorkIsPushed
  <2> SUFFICES ASSUME RemoteInv, NEW n \in Nodes, db[n] = "passed", blind = {}
               PROVE  /\ refs[n] # NoRef
                      /\ WorkOf(n, "passed") \subseteq refs[n]
                      /\ Passed(Merges[plan][n]) \subseteq refs[n]
    BY DEF RecordedWorkIsPushed
  <2>1. /\ TypeOK /\ RecordFits(n) /\ Vouched(n) /\ n \in NodesOf(plan)
    BY DEF RemoteInv, RecordFits
  <2>2. ASSUME NEW m \in Merges[plan][n] PROVE <<m, "ok">> \in refs[n]
    <3>1. /\ db[m] = "passed" /\ refs[m] \subseteq refs[n]
          /\ m \in Tasks(plan) /\ m \in Nodes
      BY <2>1, UpstreamNodes DEF Vouched, Upstream
    <3>2. Vouched(m)
      BY <3>1 DEF RemoteInv, RecordFits
    <3>3. <<m, "ok">> \in WorkOf(m, "passed")
      BY <3>1 DEF WorkOf, Tasks
    <3> QED
      BY <3>1, <3>2, <3>3 DEF Vouched
  <2>3. refs[n] # NoRef
    <3>1. <<"no ref", "bad">> \notin Work
      BY PlansAreCompiled DEF Work, Nodes
    <3> QED
      BY <2>1, <3>1 DEF Vouched, NoRef
  <2> QED
    BY <2>1, <2>2, <2>3 DEF Vouched, Passed
<1> QED
  BY <1>1, RemoteRunInvariant, PTL

\* A node runs on the passing work of every dependency and on no failed attempt,
\* whatever was pushed, retried or skipped before.
THEOREM BuildsOnPassedWork == Spec => []UpstreamWorkPassed
<1>1. RemoteInv => UpstreamWorkPassed
  <2> SUFFICES ASSUME RemoteInv, NEW n \in Nodes, pod[n].pc = "push",
                      NEW m \in Merges[plan][n] \ blind
               PROVE  <<m, "ok">> \in pod[n].tree /\ <<m, "bad">> \notin pod[n].tree
    BY DEF UpstreamWorkPassed
  <2>1. /\ TypeOK /\ PodFits(n) /\ Gathered(n) /\ DynamicFits /\ Running(n)
        /\ n \in NodesOf(plan)
    <3>1. PodFits(n) /\ TypeOK /\ DynamicFits
      BY DEF RemoteInv
    <3>2. Running(n) /\ Gathered(n)
      BY <3>1 DEF PodFits, Running
    <3> QED
      BY <3>1, <3>2, RunningNode
  <2>2. m \in Upstream(n) \ blind /\ m \in Nodes /\ m \in WaitsFor[plan][n]
    BY <2>1, UpstreamNodes DEF Upstream
  <2>3. db[m] = "passed" /\ <<m, "ok">> \in pod[n].tree
    BY <2>1, <2>2 DEF Gathered
  <2>4. CASE mode = "static"
    <3>1. m # n /\ n \in Tasks(plan)
      BY <2>1, <2>2, <2>4, RunningNode DEF PodFits, Alive
    <3> QED
      BY <2>1, <2>2, <2>3, <3>1 DEF Gathered, TreeClean
  <2>5. CASE mode = "dynamic"
    <3>1. m # n /\ m \in Top(plan)
      BY <2>1, <2>2, <2>3, <2>5 DEF PodFits, DynamicFits
    <3> QED
      BY <2>1, <2>2, <2>3, <3>1 DEF Gathered, TreeClean
  <2> QED
    BY <2>1, <2>4, <2>5 DEF TypeOK
<1> QED
  BY <1>1, RemoteRunInvariant, PTL

\* A run that ends with exit code 0 has promoted the passing work of every task.
THEOREM GreenRunsDeliver == Spec => []GreenRunIsDelivered
<1>1. RemoteInv => GreenRunIsDelivered
  BY DEF RemoteInv, EndFits, GreenRunIsDelivered
<1> QED
  BY <1>1, RemoteRunInvariant, PTL
=============================================================================
