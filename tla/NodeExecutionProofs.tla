------------------------- MODULE NodeExecutionProofs -------------------------
(***************************************************************************)
(* Proofs about NodeExecution for every plan: no event is refused, passed   *)
(* means gated, and the attempt loop implements NodePromise.                *)
(***************************************************************************)
EXTENDS NodeExecution, SequenceTheorems, TLAPS

Ending == {"finishHook", "settled"}

\* What the tracker says where the attempt loop is: no event is ever refused.
StatusFits(r) ==
    /\ r.pc = "idle" => r.status = "pending"
    /\ r.pc = "begin" => r.status \in {"ready", "running"}
    /\ r.pc \in {"startHook", "runner"} => r.status = "running"
    /\ r.pc \in {"gates", "gateHook", "successHook"} => r.status = "gating"
    /\ r.pc \in {"remediate", "selfFix", "ancestors", "unitFix", "schedule", "errorHook"}
          => r.status \in Open
    /\ r.pc \in Ending => r.status \in {"passed", "failed", "cancelled", "ready", "running"}
    /\ r.pc = "rejected" => r.status \in {"passed", "failed", "cancelled", "ready"} \cup Open

Held(a, r) == r.cur = "ok" /\ r.good = GatesToPass(a)

\* The gates of an attempt that were looked at, and that all of them held.
GatesCounted(a, r) ==
    /\ r.pc = "runner" => r.good = {} /\ r.bad = {}
    /\ r.pc = "gates" => r.good \subseteq GatesToPass(a)
    /\ r.pc = "gateHook" => r.good \subseteq GatesToPass(a) /\ r.bad # {}
    /\ r.pc = "successHook" => Held(a, r)
    /\ r.pc \in {"gates", "gateHook"} => r.cur # "none"

\* A planned node may pass because the remediation that replaced it did.
PassedByFix(a) ==
    LET f == act[Fix(a[1])]
    IN  /\ a[2] = "main" /\ fixing[a[1]] = Self
        /\ f.pc = "settled" /\ f.result = "passed"
        /\ Held(Fix(a[1]), f) \/ (cancelled /\ f.status = "cancelled")

\* What a result stands for, and what a node waits for that may yet pass by it.
ResultFits(a, r) ==
    /\ r.pc = "selfFix" => fixing[a[1]] = Self
    /\ r.pc \in Ending => r.result # "none"
    /\ r.pc \notin Ending \cup {"rejected"} => r.result = "none"
    /\ r.result = "failed" =>
          \/ r.status = "failed"
          \/ cancelled /\ r.status \in {"cancelled", "ready", "running"}
    /\ r.result = "passed" =>
          \/ cancelled /\ r.status = "cancelled"
          \/ r.status = "passed" /\ (Held(a, r) \/ PassedByFix(a))

\* A node has an output once its runner has returned or a remediation stood in.
OutputKept(n, r) ==
    r.cur # "none" \/ r.last # "none" \/ r.status \in {"passed", "cancelled"}
       => n \in outputs

\* The remediation node is at work only while its node waits for it.
FixAwaited(n) ==
    act[Fix(n)].pc \notin {"idle", "settled", "rejected"}
       => act[Main(n)].pc \in {"selfFix", "unitFix"}

\* What is remediated upstream has passed.
UnitsPassed(n) ==
    \A u \in Units \cap Nodes :
        u \in todo[n] \/ u = fixing[n] => act[Main(u)].status = "passed"

RecordFits(a, r) ==
    /\ r \in Actor
    /\ StatusFits(r) /\ GatesCounted(a, r) /\ ResultFits(a, r)
    /\ a[2] = "main" => OutputKept(a[1], r)

NodeInv ==
    /\ TypeOK
    /\ \A a \in Actors : RecordFits(a, act[a])
    /\ \A n \in Nodes : FixAwaited(n) /\ UnitsPassed(n)

----------------------------------------------------------------------------
(* The steps of one actor. *)

LEMMA EventTable ==
    /\ Record("pending", "READY") = "ready"
    /\ \A s \in {"ready", "running"} : Record(s, "STARTED") = "running"
    /\ Record("running", "RUNNER_STARTED") = "running"
    /\ Record("running", "RUNNER_FINISHED") = "running"
    /\ Record("running", "GATES_STARTED") = "gating"
    /\ Record("gating", "GATES_FINISHED") = "gating"
    /\ \A s \in Open : /\ Record(s, "RETRYING") = "running"
                       /\ Record(s, "PASSED") = "passed"
                       /\ Record(s, "FAILED") = "failed"
                       /\ Record(s, "CANCELLED") = "cancelled"
BY DEF Record, AllowedFrom, StatusAfter, Open

LEMMA ActorNames ==
    /\ \A n \in Nodes : /\ Main(n) \in Actors /\ Fix(n) \in Actors /\ Main(n) # Fix(n)
                        /\ Main(n)[1] = n /\ Main(n)[2] = "main"
                        /\ Fix(n)[1] = n /\ Fix(n)[2] = "fix"
    /\ \A a \in Actors : /\ a[1] \in Nodes /\ a[2] \in {"main", "fix"}
                         /\ a[2] = "main" => a = Main(a[1])
                         /\ a[2] = "fix" => a = Fix(a[1])
BY DEF Main, Fix, Actors

\* A step of one actor that leaves its record fit keeps the invariant: of the other
\* actors only the node that waits for it looks at it, and only when it has settled.
LEMMA OneActor ==
    ASSUME NodeInv, NEW a \in Actors,
           \E r : Becomes(a, r), outputs \subseteq outputs', outputs' \in SUBSET Nodes,
           RecordFits(a, act[a])',
           act[a].pc \notin {"settled", "rejected", "selfFix", "unitFix"},
           a[2] = "fix" => act[a].pc # "idle",
           act[a].status = "passed" => act'[a].status = "passed"
    PROVE  NodeInv'
<1>1. /\ act' = [act EXCEPT ![a] = act'[a]]
      /\ \A b \in Actors \ {a} : act'[b] = act[b]
      /\ UNCHANGED <<cancelled, task, saved, fixing, todo, remediated>>
  BY DEF Becomes, nodeVars, NodeInv, TypeOK
<1>2. TypeOK'
  BY <1>1 DEF NodeInv, TypeOK, RecordFits, Actor
<1>3. ASSUME NEW b \in Actors PROVE RecordFits(b, act[b])'
  <2>1. CASE b = a
    BY <1>1, <2>1
  <2>2. CASE b # a
    <3>1. act'[b] = act[b] /\ RecordFits(b, act[b])
      BY <1>1, <2>2 DEF NodeInv
    <3>2. GatesToPass(b)' = GatesToPass(b) /\ GatesToPass(Fix(b[1]))' = GatesToPass(Fix(b[1]))
      BY <1>1 DEF GatesToPass, GatesOf
    <3>3. PassedByFix(b) => PassedByFix(b)'
      <4> SUFFICES ASSUME PassedByFix(b) PROVE PassedByFix(b)'
        OBVIOUS
      <4>1. act'[Fix(b[1])] = act[Fix(b[1])]
        BY <1>1, ActorNames DEF PassedByFix
      <4> QED BY <1>1, <3>2, <4>1 DEF PassedByFix, Held
    <3>4. GatesCounted(b, act[b])' /\ ResultFits(b, act[b])'
      BY <1>1, <3>1, <3>2, <3>3 DEF RecordFits, GatesCounted, ResultFits, Held
    <3>5. (b[2] = "main" => OutputKept(b[1], act[b]))'
      BY <3>1 DEF RecordFits, OutputKept
    <3> QED BY <3>1, <3>4, <3>5 DEF RecordFits, StatusFits
  <2> QED BY <2>1, <2>2
<1>4. ASSUME NEW n \in Nodes PROVE FixAwaited(n)'
  <2>1. FixAwaited(n)
    BY DEF NodeInv
  <2>2. CASE a = Fix(n)
    BY <1>1, <2>1, <2>2, ActorNames DEF FixAwaited
  <2>3. CASE a = Main(n)
    BY <1>1, <2>1, <2>3, ActorNames DEF FixAwaited
  <2>4. CASE a # Fix(n) /\ a # Main(n)
    BY <1>1, <2>1, <2>4, ActorNames DEF FixAwaited
  <2> QED BY <2>2, <2>3, <2>4
<1>5. ASSUME NEW n \in Nodes PROVE UnitsPassed(n)'
  BY <1>1, ActorNames DEF UnitsPassed, NodeInv
<1> QED BY <1>2, <1>3, <1>4, <1>5 DEF NodeInv

\* What a step of one actor leaves alone of what its record is measured by.
LEMMA Moves ==
    ASSUME NodeInv, NEW a \in Actors, NEW r, Becomes(a, r)
    PROVE  /\ act'[a] = r /\ cancelled' = cancelled /\ fixing' = fixing
           /\ GatesToPass(a)' = GatesToPass(a)
           /\ (PassedByFix(a)' <=> PassedByFix(a))
<1>1. act'[a] = r /\ UNCHANGED <<cancelled, fixing>>
  BY DEF Becomes, nodeVars, NodeInv, TypeOK
<1>2. GatesToPass(a)' = GatesToPass(a) /\ GatesToPass(Fix(a[1]))' = GatesToPass(Fix(a[1]))
  BY <1>1 DEF GatesToPass, GatesOf
<1>3. CASE a[2] = "main"
  <2>1. act'[Fix(a[1])] = act[Fix(a[1])]
    BY <1>3, ActorNames DEF Becomes, NodeInv, TypeOK
  <2> QED BY <1>1, <1>2, <2>1 DEF PassedByFix, Held
<1>4. CASE a[2] # "main"
  BY <1>1, <1>2, <1>4 DEF PassedByFix
<1> QED BY <1>1, <1>2, <1>3, <1>4

\* The same step, told by its record alone.
LEMMA QuietStep ==
    ASSUME NodeInv, NEW a \in Actors, NEW r, Becomes(a, r), UNCHANGED outputs,
           RecordFits(a, r),
           act[a].pc \notin {"settled", "rejected", "selfFix", "unitFix"},
           a[2] = "fix" => act[a].pc # "idle",
           act[a].status = "passed" => r.status = "passed"
    PROVE  NodeInv'
<1>1. /\ act'[a] = r /\ cancelled' = cancelled /\ fixing' = fixing
      /\ GatesToPass(a)' = GatesToPass(a)
      /\ (PassedByFix(a)' <=> PassedByFix(a))
  BY Moves
<1>2. RecordFits(a, act[a])'
  BY <1>1 DEF RecordFits, StatusFits, GatesCounted, ResultFits, Held, OutputKept
<1>3. outputs \subseteq outputs' /\ outputs' \in SUBSET Nodes
  BY DEF NodeInv, TypeOK
<1> QED BY <1>1, <1>2, <1>3, OneActor

LEMMA FitRecord ==
    ASSUME NodeInv, NEW a \in Actors PROVE RecordFits(a, act[a]) /\ AttemptCap \in Nat \ {0}
BY AttemptsTyped DEF NodeInv

\* The updates of a record leave it a record.
LEMMA RecordTypes ==
    ASSUME NEW r \in Actor
    PROVE  /\ \A pc \in Pcs : At(r, pc) \in Actor
           /\ \A e \in DOMAIN StatusAfter : Event(r, e) \in Actor
           /\ \A a : \A x \in {"passed", "failed"} : Done(a, r, x) \in Actor
           /\ NextAttempt(r) \in Actor
           /\ [r EXCEPT !.last = r.cur] \in Actor
           /\ \A a : CancelledResult(a, r) \in Actor
           /\ [r EXCEPT !.cur = "none", !.gate = 0, !.good = {}, !.bad = {}] \in Actor
<1>1. \A pc \in Pcs : At(r, pc) \in Actor
  BY DEF At, Actor
<1>2. \A q \in Actor : \A e \in DOMAIN StatusAfter : Event(q, e) \in Actor
  <2>1. \A e \in DOMAIN StatusAfter : StatusAfter[e] \in NodeStatuses
    BY DEF StatusAfter, NodeStatuses
  <2> QED BY <2>1 DEF Event, Record, Actor
<1>3. ASSUME NEW q \in Actor, NEW a, NEW x \in {"passed", "failed"} PROVE Done(a, q, x) \in Actor
  <2>1. [q EXCEPT !.result = x] \in Actor
    BY DEF Actor
  <2>2. \A pc \in Pcs : [[q EXCEPT !.result = x] EXCEPT !.pc = pc] \in Actor
    BY <2>1 DEF Actor
  <2>3. \A pc \in Pcs : [q EXCEPT !.result = x, !.pc = pc] \in Actor
    BY <2>2
  <2> QED BY <2>3 DEF Done, Pcs
<1>4. NextAttempt(r) \in Actor
  <2>1. AttemptCap \in Nat /\ r.attempt \in 0..AttemptCap
    BY AttemptsTyped DEF Actor
  <2>2. (IF r.attempt < AttemptCap THEN r.attempt + 1 ELSE r.attempt) \in 0..AttemptCap
    BY <2>1
  <2> QED BY <2>2 DEF NextAttempt, At, Actor, Pcs
<1>5. [r EXCEPT !.last = r.cur] \in Actor
  BY DEF Actor
<1>6. \A a : CancelledResult(a, r) \in Actor
  <2>1. "CANCELLED" \in DOMAIN StatusAfter
    BY DEF StatusAfter
  <2> QED BY <1>2, <1>3, <1>5, <2>1 DEF CancelledResult
<1>7. [r EXCEPT !.cur = "none", !.gate = 0, !.good = {}, !.bad = {}] \in Actor
  BY DEF Actor
<1> QED BY <1>1, <1>2, <1>3, <1>4, <1>5, <1>6, <1>7

LEMMA Events ==
    \A e \in {"READY", "STARTED", "RUNNER_STARTED", "RUNNER_FINISHED", "GATES_STARTED",
                 "GATES_FINISHED", "RETRYING", "PASSED", "FAILED", "CANCELLED"} :
          e \in DOMAIN StatusAfter
BY DEF StatusAfter

LEMMA BeginAttemptInv ==
    ASSUME NodeInv, NEW a \in Actors, BeginAttempt(a) PROVE NodeInv'
<1> DEFINE r == IF cancelled THEN Done(a, act[a], "failed")
                ELSE At(Event(act[a], "STARTED"), "startHook")
<1>1. act[a].pc = "begin" /\ Becomes(a, r) /\ UNCHANGED outputs
  BY DEF BeginAttempt
<1>2. RecordFits(a, act[a]) /\ act[a].status \in {"ready", "running"}
  BY <1>1, FitRecord DEF RecordFits, StatusFits
<1>3. r \in Actor
  BY <1>2, RecordTypes, Events DEF RecordFits, Pcs
<1>4. StatusFits(r)
  BY <1>2, EventTable DEF RecordFits, Actor, StatusFits, Ending, Done, At, Event
<1>5. GatesCounted(a, r)
  BY <1>2, EventTable DEF RecordFits, Actor, GatesCounted, Done, At, Event
<1>6. ResultFits(a, r)
  BY <1>1, <1>2, EventTable DEF RecordFits, Actor, ResultFits, Ending, Done, At, Event
<1>7. OutputKept(a[1], act[a]) => OutputKept(a[1], r)
  BY <1>2, EventTable DEF RecordFits, Actor, OutputKept, Done, At, Event
<1> QED BY <1>1, <1>2, <1>3, <1>4, <1>5, <1>6, <1>7, QuietStep DEF RecordFits

LEMMA StartHookPassesInv ==
    ASSUME NodeInv, NEW a \in Actors, StartHookPasses(a) PROVE NodeInv'
<1> DEFINE r == IF cancelled THEN Done(a, act[a], "failed")
                ELSE At(Event([act[a] EXCEPT !.cur = "none", !.gate = 0,
                                             !.good = {}, !.bad = {}], "RUNNER_STARTED"),
                        "runner")
<1>1. act[a].pc = "startHook" /\ Becomes(a, r) /\ UNCHANGED outputs
  BY DEF StartHookPasses
<1>2. RecordFits(a, act[a]) /\ act[a].status = "running"
  BY <1>1, FitRecord DEF RecordFits, StatusFits, Open, Ending, NodeStatuses
<1>3. r \in Actor
  BY <1>2, RecordTypes, Events DEF RecordFits, Pcs
<1>4. StatusFits(r)
  BY <1>1, <1>2, EventTable DEF RecordFits, Actor, StatusFits, Ending, Open, Done, At, Event
<1>5. GatesCounted(a, r)
  BY <1>1, <1>2, EventTable DEF RecordFits, Actor, GatesCounted, Held, Done, At, Event
<1>6. ResultFits(a, r)
  BY <1>1, <1>2, EventTable DEF RecordFits, Actor, ResultFits, GatesCounted, Held, Ending,
     Open, Done, At, Event
<1>7. OutputKept(a[1], act[a]) => OutputKept(a[1], r)
  BY <1>1, <1>2, EventTable DEF RecordFits, Actor, OutputKept, GatesCounted, Held, Open,
     Done, At, Event
<1>8. act[a].status = "passed" => r.status = "passed"
  BY <1>2 DEF Open, At
<1> QED BY <1>1, <1>2, <1>3, <1>4, <1>5, <1>6, <1>7, <1>8, QuietStep DEF RecordFits

LEMMA HookFailsInv ==
    ASSUME NodeInv, NEW a \in Actors, HookFails(a) PROVE NodeInv'
<1> DEFINE r == Done(a, Event(IF act[a].pc = "successHook" THEN [act[a] EXCEPT !.last = act[a].cur]
                              ELSE act[a], "FAILED"), "failed")
<1>1. act[a].pc \in {"startHook", "successHook"} /\ Becomes(a, r) /\ UNCHANGED outputs
  BY DEF HookFails
<1>2. RecordFits(a, act[a]) /\ act[a].status \in Open
  BY <1>1, FitRecord DEF RecordFits, StatusFits, Open, Ending, NodeStatuses
<1>3. r \in Actor
  BY <1>2, RecordTypes, Events DEF RecordFits, Pcs
<1>4. StatusFits(r)
  BY <1>1, <1>2, EventTable DEF RecordFits, Actor, StatusFits, Ending, Open, Done, At, Event
<1>5. GatesCounted(a, r)
  BY <1>1, <1>2, EventTable DEF RecordFits, Actor, GatesCounted, Held, Done, At, Event
<1>6. ResultFits(a, r)
  BY <1>1, <1>2, EventTable DEF RecordFits, Actor, ResultFits, GatesCounted, Held, Ending,
     Open, Done, At, Event
<1>7. OutputKept(a[1], act[a]) => OutputKept(a[1], r)
  BY <1>1, <1>2, EventTable DEF RecordFits, Actor, OutputKept, GatesCounted, Held, Open,
     Done, At, Event
<1>8. act[a].status = "passed" => r.status = "passed"
  BY <1>2 DEF Open, At
<1> QED BY <1>1, <1>2, <1>3, <1>4, <1>5, <1>6, <1>7, <1>8, QuietStep DEF RecordFits

LEMMA SuccessHookPassesInv ==
    ASSUME NodeInv, NEW a \in Actors, SuccessHookPasses(a) PROVE NodeInv'
<1> DEFINE r == IF cancelled THEN CancelledResult(a, act[a])
                ELSE Done(a, Event([act[a] EXCEPT !.last = act[a].cur], "PASSED"), "passed")
<1>1. act[a].pc = "successHook" /\ Becomes(a, r) /\ UNCHANGED outputs
  BY DEF SuccessHookPasses
<1>2. RecordFits(a, act[a]) /\ act[a].status = "gating"
  BY <1>1, FitRecord DEF RecordFits, StatusFits, Open, Ending, NodeStatuses
<1>3. r \in Actor
  BY <1>2, RecordTypes, Events DEF RecordFits, Pcs
<1>4. StatusFits(r)
  BY <1>1, <1>2, EventTable DEF RecordFits, Actor, StatusFits, Ending, Open, Done, At, Event,
     CancelledResult
<1>5. GatesCounted(a, r)
  BY <1>1, <1>2, EventTable DEF RecordFits, Actor, GatesCounted, Held, Done, At, Event,
     CancelledResult
<1>6. ResultFits(a, r)
  BY <1>1, <1>2, EventTable DEF RecordFits, Actor, ResultFits, GatesCounted, Held, Ending,
     Open, Done, At, Event, CancelledResult
<1>7. OutputKept(a[1], act[a]) => OutputKept(a[1], r)
  BY <1>1, <1>2, EventTable DEF RecordFits, Actor, OutputKept, GatesCounted, Held, Open,
     Done, At, Event, CancelledResult
<1>8. act[a].status = "passed" => r.status = "passed"
  BY <1>2 DEF Open, At
<1> QED BY <1>1, <1>2, <1>3, <1>4, <1>5, <1>6, <1>7, <1>8, QuietStep DEF RecordFits

LEMMA AttemptRejectsInv ==
    ASSUME NodeInv, NEW a \in Actors, AttemptRejects(a) PROVE NodeInv'
<1> DEFINE r == At(act[a], "errorHook")
<1>1. act[a].pc \in {"startHook", "runner", "gateHook", "successHook"} /\ Becomes(a, r) /\ UNCHANGED outputs
  BY DEF AttemptRejects
<1>2. RecordFits(a, act[a]) /\ act[a].status \in Open
  BY <1>1, FitRecord DEF RecordFits, StatusFits, Open, Ending, NodeStatuses
<1>3. r \in Actor
  BY <1>2, RecordTypes, Events DEF RecordFits, Pcs
<1>4. StatusFits(r)
  BY <1>1, <1>2, EventTable DEF RecordFits, Actor, StatusFits, Ending, Open, Done, At, Event
<1>5. GatesCounted(a, r)
  BY <1>1, <1>2, EventTable DEF RecordFits, Actor, GatesCounted, Held, Done, At, Event
<1>6. ResultFits(a, r)
  BY <1>1, <1>2, EventTable DEF RecordFits, Actor, ResultFits, GatesCounted, Held, Ending,
     Open, Done, At, Event
<1>7. OutputKept(a[1], act[a]) => OutputKept(a[1], r)
  BY <1>1, <1>2, EventTable DEF RecordFits, Actor, OutputKept, GatesCounted, Held, Open,
     Done, At, Event
<1>8. act[a].status = "passed" => r.status = "passed"
  BY <1>2 DEF Open, At
<1> QED BY <1>1, <1>2, <1>3, <1>4, <1>5, <1>6, <1>7, <1>8, QuietStep DEF RecordFits

LEMMA ScheduleNodeRetryInv ==
    ASSUME NodeInv, NEW a \in Actors, ScheduleNodeRetry(a) PROVE NodeInv'
<1> DEFINE r == IF RetryReason(act[a]) \in RetriesOn(a) /\ act[a].attempt < AttemptLimit(a)
                THEN NextAttempt(Event(act[a], "RETRYING"))
                ELSE At(Event(act[a], "RETRYING"), "errorHook")
<1>1. act[a].pc = "schedule" /\ Becomes(a, r) /\ UNCHANGED outputs
  BY DEF ScheduleNodeRetry
<1>2. RecordFits(a, act[a]) /\ act[a].status \in Open
  BY <1>1, FitRecord DEF RecordFits, StatusFits, Open, Ending, NodeStatuses
<1>3. r \in Actor
  BY <1>2, RecordTypes, Events DEF RecordFits, Pcs
<1>4. StatusFits(r)
  BY <1>1, <1>2, EventTable DEF RecordFits, Actor, StatusFits, Ending, Open, Done, At, Event,
     NextAttempt
<1>5. GatesCounted(a, r)
  BY <1>1, <1>2, EventTable DEF RecordFits, Actor, GatesCounted, Held, Done, At, Event,
     NextAttempt
<1>6. ResultFits(a, r)
  BY <1>1, <1>2, EventTable DEF RecordFits, Actor, ResultFits, GatesCounted, Held, Ending,
     Open, Done, At, Event, NextAttempt
<1>7. OutputKept(a[1], act[a]) => OutputKept(a[1], r)
  BY <1>1, <1>2, EventTable DEF RecordFits, Actor, OutputKept, GatesCounted, Held, Open,
     Done, At, Event, NextAttempt
<1>8. act[a].status = "passed" => r.status = "passed"
  BY <1>2 DEF Open, At
<1> QED BY <1>1, <1>2, <1>3, <1>4, <1>5, <1>6, <1>7, <1>8, QuietStep DEF RecordFits

LEMMA FinishFailedNodeInv ==
    ASSUME NodeInv, NEW a \in Actors, FinishFailedNode(a) PROVE NodeInv'
<1> DEFINE r == Done(a, Event(act[a], "FAILED"), "failed")
<1>1. act[a].pc = "errorHook" /\ Becomes(a, r) /\ UNCHANGED outputs
  BY DEF FinishFailedNode
<1>2. RecordFits(a, act[a]) /\ act[a].status \in Open
  BY <1>1, FitRecord DEF RecordFits, StatusFits, Open, Ending, NodeStatuses
<1>3. r \in Actor
  BY <1>2, RecordTypes, Events DEF RecordFits, Pcs
<1>4. StatusFits(r)
  BY <1>1, <1>2, EventTable DEF RecordFits, Actor, StatusFits, Ending, Open, Done, At, Event
<1>5. GatesCounted(a, r)
  BY <1>1, <1>2, EventTable DEF RecordFits, Actor, GatesCounted, Held, Done, At, Event
<1>6. ResultFits(a, r)
  BY <1>1, <1>2, EventTable DEF RecordFits, Actor, ResultFits, GatesCounted, Held, Ending,
     Open, Done, At, Event
<1>7. OutputKept(a[1], act[a]) => OutputKept(a[1], r)
  BY <1>1, <1>2, EventTable DEF RecordFits, Actor, OutputKept, GatesCounted, Held, Open,
     Done, At, Event
<1>8. act[a].status = "passed" => r.status = "passed"
  BY <1>2 DEF Open, At
<1> QED BY <1>1, <1>2, <1>3, <1>4, <1>5, <1>6, <1>7, <1>8, QuietStep DEF RecordFits

LEMMA FinishHookInv ==
    ASSUME NodeInv, NEW a \in Actors, FinishHook(a) PROVE NodeInv'
<1> DEFINE r == At(act[a], "settled")
<1>1. act[a].pc = "finishHook" /\ Becomes(a, r) /\ UNCHANGED outputs
  BY DEF FinishHook
<1>2. RecordFits(a, act[a]) /\ act[a].status \in NodeStatuses
  BY <1>1, FitRecord DEF RecordFits, StatusFits, Open, Ending, NodeStatuses
<1>3. r \in Actor
  BY <1>2, RecordTypes, Events DEF RecordFits, Pcs
<1>4. StatusFits(r)
  BY <1>1, <1>2, EventTable DEF RecordFits, Actor, StatusFits, Ending, Open, Done, At, Event
<1>5. GatesCounted(a, r)
  BY <1>1, <1>2, EventTable DEF RecordFits, Actor, GatesCounted, Held, Done, At, Event
<1>6. ResultFits(a, r)
  BY <1>1, <1>2, EventTable DEF RecordFits, Actor, ResultFits, GatesCounted, Held, Ending,
     Open, Done, At, Event
<1>7. OutputKept(a[1], act[a]) => OutputKept(a[1], r)
  BY <1>1, <1>2, EventTable DEF RecordFits, Actor, OutputKept, GatesCounted, Held, Open,
     Done, At, Event
<1>8. act[a].status = "passed" => r.status = "passed"
  BY <1>2 DEF Open, At
<1> QED BY <1>1, <1>2, <1>3, <1>4, <1>5, <1>6, <1>7, <1>8, QuietStep DEF RecordFits

LEMMA LastHookRejectsInv ==
    ASSUME NodeInv, NEW a \in Actors, LastHookRejects(a) PROVE NodeInv'
<1> DEFINE r == At(act[a], "rejected")
<1>1. act[a].pc \in {"errorHook", "finishHook"} /\ Becomes(a, r) /\ UNCHANGED outputs
  BY DEF LastHookRejects
<1>2. RecordFits(a, act[a]) /\ act[a].status \in NodeStatuses
  BY <1>1, FitRecord DEF RecordFits, StatusFits, Open, Ending, NodeStatuses
<1>3. r \in Actor
  BY <1>2, RecordTypes, Events DEF RecordFits, Pcs
<1>4. StatusFits(r)
  BY <1>1, <1>2, EventTable DEF RecordFits, Actor, StatusFits, Ending, Open, Done, At, Event
<1>5. GatesCounted(a, r)
  BY <1>1, <1>2, EventTable DEF RecordFits, Actor, GatesCounted, Held, Done, At, Event
<1>6. ResultFits(a, r)
  BY <1>1, <1>2, EventTable DEF RecordFits, Actor, ResultFits, GatesCounted, Held, Ending,
     Open, Done, At, Event
<1>7. OutputKept(a[1], act[a]) => OutputKept(a[1], r)
  BY <1>1, <1>2, EventTable DEF RecordFits, Actor, OutputKept, GatesCounted, Held, Open,
     Done, At, Event
<1>8. act[a].status = "passed" => r.status = "passed"
  BY <1>2 DEF Open, At
<1> QED BY <1>1, <1>2, <1>3, <1>4, <1>5, <1>6, <1>7, <1>8, QuietStep DEF RecordFits

LEMMA GatePositions == ASSUME NodeInv, NEW a \in Actors PROVE GatesToPass(a) \subseteq Nat
<1>1. GatesOf(a) \in Seq(Gate)
  BY GatesTyped, ActorNames DEF GatesOf, NodeInv, TypeOK
<1> QED BY <1>1 DEF GatesToPass

\* The code after GATES_FINISHED: cancelled, failed, or all gates held.
LEMMA GatesFinishedInv ==
    ASSUME NodeInv, NEW a \in Actors, Becomes(a, GatesFinished(a, act[a])),
           act[a].pc \in {"gates", "gateHook"}, UNCHANGED outputs,
           act[a].bad # {} \/ cancelled \/ GatesLeft(a) = {}
    PROVE  NodeInv'
<1> DEFINE r == GatesFinished(a, act[a])
<1>1. /\ RecordFits(a, act[a]) /\ act[a].status = "gating"
      /\ act[a].result = "none" /\ act[a].cur # "none" /\ act[a].pc # "selfFix"
  BY FitRecord DEF RecordFits, StatusFits, ResultFits, GatesCounted, Ending
<1>2. act[a].bad = {} /\ ~cancelled => act[a].good = GatesToPass(a)
  BY <1>1 DEF RecordFits, GatesCounted, GatesLeft
<1>3. r \in Actor
  <2> DEFINE f == Event(act[a], "GATES_FINISHED")
  <2>1. f \in Actor
    BY <1>1, RecordTypes, Events DEF RecordFits
  <2>2. [f EXCEPT !.last = act[a].cur] \in Actor
    BY <1>1, <2>1 DEF RecordFits, Actor
  <2>3. r = IF cancelled THEN CancelledResult(a, f)
            ELSE IF act[a].bad # {} \/ act[a].cur # "ok"
                 THEN At([f EXCEPT !.last = act[a].cur], "remediate")
                 ELSE At(f, "successHook")
    BY DEF GatesFinished
  <2> HIDE DEF f, r
  <2> QED BY <2>1, <2>2, <2>3, RecordTypes DEF Pcs
<1>4. StatusFits(r)
  BY <1>1, EventTable DEF RecordFits, Actor, StatusFits, Ending, Open,
     GatesFinished, CancelledResult, Done, At, Event
<1>5. GatesCounted(a, r)
  BY <1>1, <1>2, EventTable DEF RecordFits, Actor, GatesCounted, Held, Open,
     GatesFinished, CancelledResult, Done, At, Event
<1>6. ResultFits(a, r)
  BY <1>1, EventTable DEF RecordFits, Actor, ResultFits, Ending, Open,
     GatesFinished, CancelledResult, Done, At, Event
<1>7. OutputKept(a[1], act[a]) => OutputKept(a[1], r)
  BY <1>1, EventTable DEF RecordFits, Actor, OutputKept, Open,
     GatesFinished, CancelledResult, Done, At, Event
<1> QED BY <1>1, <1>3, <1>4, <1>5, <1>6, <1>7, QuietStep DEF RecordFits

LEMMA GatesEndInv == ASSUME NodeInv, NEW a \in Actors, GatesEnd(a) PROVE NodeInv'
BY GatesFinishedInv DEF GatesEnd

LEMMA GateIterationInv == ASSUME NodeInv, NEW a \in Actors, GateIteration(a) PROVE NodeInv'
<1>1. PICK g \in GatesLeft(a) :
         \/ Becomes(a, [act[a] EXCEPT !.good = @ \cup {g}])
         \/ Becomes(a, At([act[a] EXCEPT !.gate = g, !.bad = @ \cup {g}], "gateHook"))
  BY DEF GateIteration
<1>2. /\ RecordFits(a, act[a]) /\ act[a].pc = "gates" /\ act[a].status = "gating"
      /\ UNCHANGED outputs /\ g \in Nat /\ g \in GatesToPass(a)
  BY FitRecord, GatePositions DEF GateIteration, RecordFits, StatusFits, GatesLeft
<1>3. CASE Becomes(a, [act[a] EXCEPT !.good = @ \cup {g}])
  <2> DEFINE r == [act[a] EXCEPT !.good = @ \cup {g}]
  <2>1. r \in Actor
    BY <1>2 DEF RecordFits, Actor
  <2>2. StatusFits(r) /\ GatesCounted(a, r) /\ ResultFits(a, r)
    BY <1>2 DEF RecordFits, Actor, StatusFits, GatesCounted, ResultFits, Ending
  <2>3. OutputKept(a[1], act[a]) => OutputKept(a[1], r)
    BY <1>2 DEF RecordFits, Actor, OutputKept
  <2> QED BY <1>2, <1>3, <2>1, <2>2, <2>3, QuietStep DEF RecordFits
<1>4. CASE Becomes(a, At([act[a] EXCEPT !.gate = g, !.bad = @ \cup {g}], "gateHook"))
  <2> DEFINE r == At([act[a] EXCEPT !.gate = g, !.bad = @ \cup {g}], "gateHook")
  <2>1. r \in Actor
    <3>1. [act[a] EXCEPT !.gate = g, !.bad = @ \cup {g}] \in Actor
      BY <1>2 DEF RecordFits, Actor
    <3> QED BY <3>1, RecordTypes DEF Pcs
  <2>2. StatusFits(r) /\ GatesCounted(a, r) /\ ResultFits(a, r)
    BY <1>2 DEF RecordFits, Actor, StatusFits, GatesCounted, ResultFits, Ending, At
  <2>3. OutputKept(a[1], act[a]) => OutputKept(a[1], r)
    BY <1>2 DEF RecordFits, Actor, OutputKept, At
  <2> QED BY <1>2, <1>4, <2>1, <2>2, <2>3, QuietStep DEF RecordFits
<1> QED BY <1>1, <1>3, <1>4

LEMMA GateFailureHookInv == ASSUME NodeInv, NEW a \in Actors, GateFailureHook(a) PROVE NodeInv'
<1>1. /\ RecordFits(a, act[a]) /\ act[a].pc = "gateHook" /\ act[a].status = "gating"
      /\ act[a].bad # {} /\ UNCHANGED outputs
  BY FitRecord DEF GateFailureHook, RecordFits, StatusFits, GatesCounted
<1>2. CASE GatesOf(a)[act[a].gate].required
  BY <1>1, <1>2, GatesFinishedInv DEF GateFailureHook
<1>3. CASE ~GatesOf(a)[act[a].gate].required
  <2> DEFINE r == At(act[a], "gates")
  <2>1. r \in Actor
    BY <1>1, RecordTypes DEF RecordFits, Pcs
  <2>2. StatusFits(r) /\ GatesCounted(a, r) /\ ResultFits(a, r)
    BY <1>1 DEF RecordFits, Actor, StatusFits, GatesCounted, ResultFits, Ending, At
  <2>3. OutputKept(a[1], act[a]) => OutputKept(a[1], r)
    BY <1>1 DEF RecordFits, Actor, OutputKept, At
  <2>4. Becomes(a, r)
    BY <1>3 DEF GateFailureHook
  <2> QED BY <1>1, <2>1, <2>2, <2>3, <2>4, QuietStep DEF RecordFits
<1> QED BY <1>2, <1>3

LEMMA RunnerFinishesInv == ASSUME NodeInv, NEW a \in Actors, RunnerFinishes(a) PROVE NodeInv'
<1> DEFINE f(exit) == Event([act[a] EXCEPT !.cur = exit], "RUNNER_FINISHED")
           r(exit) == IF cancelled THEN CancelledResult(a, f(exit))
                      ELSE IF exit = "infra" THEN At([f(exit) EXCEPT !.last = exit], "remediate")
                      ELSE At(Event(f(exit), "GATES_STARTED"), "gates")
<1>1. PICK exit \in Exits : Becomes(a, r(exit))
  BY DEF RunnerFinishes
<1>2. /\ RecordFits(a, act[a]) /\ act[a].pc = "runner" /\ act[a].status = "running"
      /\ outputs \subseteq outputs' /\ outputs' \in SUBSET Nodes
      /\ a[2] = "main" => a[1] \in outputs'
      /\ exit # "none"
  BY FitRecord, ActorNames DEF RunnerFinishes, RecordFits, StatusFits, NodeInv, TypeOK, Exits
<1>3. r(exit) \in Actor
  <2>1. [act[a] EXCEPT !.cur = exit] \in Actor
    BY <1>2 DEF RecordFits, Actor
  <2>2. f(exit) \in Actor
    BY <2>1, RecordTypes, Events
  <2>3. [f(exit) EXCEPT !.last = exit] \in Actor
    BY <2>2 DEF Actor
  <2> HIDE DEF f
  <2> QED BY <2>2, <2>3, RecordTypes, Events DEF Pcs
<1>4. StatusFits(r(exit))
  BY <1>2, EventTable DEF RecordFits, Actor, StatusFits, Ending, Open, CancelledResult,
     Done, At, Event
<1>5. GatesCounted(a, r(exit))
  BY <1>2, EventTable DEF RecordFits, Actor, GatesCounted, Held, CancelledResult, Done, At,
     Event
<1>6. ResultFits(a, r(exit))
  BY <1>2, EventTable DEF RecordFits, Actor, ResultFits, Ending, Open, CancelledResult,
     Done, At, Event
<1>7. r(exit).status # "passed" /\ act[a].status # "passed"
  BY <1>2, EventTable DEF RecordFits, Actor, Open, CancelledResult, Done, At, Event
<1> HIDE DEF r
<1>8. /\ act'[a] = r(exit) /\ cancelled' = cancelled /\ fixing' = fixing
      /\ GatesToPass(a)' = GatesToPass(a)
      /\ (PassedByFix(a)' <=> PassedByFix(a))
  BY <1>1, Moves
<1>9. RecordFits(a, act[a])'
  BY <1>2, <1>3, <1>4, <1>5, <1>6, <1>8
     DEF RecordFits, StatusFits, GatesCounted, ResultFits, Held, OutputKept
<1> QED BY <1>1, <1>2, <1>7, <1>9, OneActor

LEMMA AttemptInv == ASSUME NodeInv, NEW a \in Actors, Attempt(a) PROVE NodeInv'
BY BeginAttemptInv, StartHookPassesInv, HookFailsInv, RunnerFinishesInv, GatesEndInv,
   GateIterationInv, GateFailureHookInv, SuccessHookPassesInv, AttemptRejectsInv,
   ScheduleNodeRetryInv, FinishFailedNodeInv, FinishHookInv, LastHookRejectsInv DEF Attempt

LEMMA LaunchInv == ASSUME NodeInv, NEW n \in Nodes, Launch(n) PROVE NodeInv'
<1> DEFINE a == Main(n)
           r == NextAttempt(Event(act[a], "READY"))
<1>1. /\ a \in Actors /\ a[2] = "main" /\ act[a].pc = "idle" /\ Becomes(a, r)
      /\ UNCHANGED outputs
  BY ActorNames DEF Launch
<1>2. RecordFits(a, act[a]) /\ act[a].status = "pending"
  BY <1>1, FitRecord DEF RecordFits, StatusFits
<1>3. r \in Actor
  BY <1>2, RecordTypes, Events DEF RecordFits
<1>4. StatusFits(r) /\ GatesCounted(a, r) /\ ResultFits(a, r)
  BY <1>1, <1>2, EventTable DEF RecordFits, Actor, StatusFits, GatesCounted, ResultFits,
     Ending, NextAttempt, At, Event
<1>5. OutputKept(a[1], act[a]) => OutputKept(a[1], r)
  BY <1>1, <1>2, EventTable DEF RecordFits, Actor, OutputKept, NextAttempt, At, Event
<1> QED BY <1>1, <1>2, <1>3, <1>4, <1>5, QuietStep DEF RecordFits

----------------------------------------------------------------------------
(* Remediation. *)

LEMMA FixNotRemediatedInv == ASSUME NodeInv, NEW n \in Nodes, FixNotRemediated(n) PROVE NodeInv'
<1> DEFINE a == Fix(n)
           r == At(act[a], "schedule")
<1>1. a \in Actors /\ act[a].pc = "remediate" /\ Becomes(a, r) /\ UNCHANGED outputs
  BY ActorNames DEF FixNotRemediated
<1>2. RecordFits(a, act[a])
  BY <1>1, FitRecord
<1>3. r \in Actor
  BY <1>2, RecordTypes DEF RecordFits, Pcs
<1>4. StatusFits(r) /\ GatesCounted(a, r) /\ ResultFits(a, r)
  BY <1>1, <1>2 DEF RecordFits, Actor, StatusFits, GatesCounted, ResultFits, Ending, At
<1>5. a[2] # "main" /\ (act[a].status = "passed" => r.status = "passed")
  BY <1>1, <1>2, ActorNames DEF RecordFits, StatusFits, Open
<1> QED BY <1>1, <1>2, <1>3, <1>4, <1>5, QuietStep DEF RecordFits

\* The strategy over the units is exhausted or the run is being cancelled.
LEMMA AncestorsEndInv ==
    ASSUME NodeInv, NEW n \in Nodes, act[Main(n)].pc = "ancestors", UNCHANGED outputs,
           Becomes(Main(n), IF remediated[n] THEN NextAttempt(Event(act[Main(n)], "RETRYING"))
                            ELSE At(act[Main(n)], "schedule"))
    PROVE  NodeInv'
<1> DEFINE a == Main(n)
           r == IF remediated[n] THEN NextAttempt(Event(act[a], "RETRYING"))
                ELSE At(act[a], "schedule")
<1>1. a \in Actors /\ a[2] = "main"
  BY ActorNames
<1>2. RecordFits(a, act[a]) /\ act[a].status \in Open
  BY <1>1, FitRecord DEF RecordFits, StatusFits
<1>3. r \in Actor
  BY <1>2, RecordTypes, Events DEF RecordFits, Pcs
<1>4. StatusFits(r) /\ GatesCounted(a, r) /\ ResultFits(a, r)
  BY <1>1, <1>2, EventTable DEF RecordFits, Actor, StatusFits, GatesCounted, ResultFits,
     Ending, NextAttempt, At, Event, Open
<1>5. OutputKept(a[1], act[a]) => OutputKept(a[1], r)
  BY <1>1, <1>2, EventTable DEF RecordFits, Actor, OutputKept, NextAttempt, At, Event, Open
<1>6. act[a].status # "passed"
  BY <1>2 DEF Open
<1> QED BY <1>1, <1>2, <1>3, <1>4, <1>5, <1>6, QuietStep DEF RecordFits

\* A node starts a remediation node for itself or for a unit still to do.
LEMMA StartFixInv ==
    ASSUME NodeInv, NEW n \in Nodes, NEW what \in todo[n] \cup {Self},
           NEW pc \in {"selfFix", "unitFix"}, StartFix(n, what, pc),
           act[Main(n)].pc \in {"remediate", "ancestors"},
           pc = "selfFix" => what = Self,
           todo' \in [Nodes -> SUBSET Units],
           \A m \in Nodes : todo'[m] \subseteq todo[m]
    PROVE  NodeInv'
<1> DEFINE new == NextAttempt(Event(NewActor, "READY"))
<1>1. /\ act'[Main(n)] = At(act[Main(n)], pc) /\ act'[Fix(n)] = new
      /\ act' \in [Actors -> Actor]
      /\ \A b \in Actors \ {Main(n), Fix(n)} : act'[b] = act[b]
      /\ fixing' = [fixing EXCEPT ![n] = what] /\ UNCHANGED <<cancelled, remediated, outputs>>
  <2>1. act \in [Actors -> Actor] /\ Main(n) \in Actors /\ Fix(n) \in Actors /\ Main(n) # Fix(n)
    BY ActorNames DEF NodeInv, TypeOK
  <2>2. new \in Actor
    <3>1. NewActor \in Actor
      BY AttemptsTyped DEF NewActor, Actor, Pcs, NodeStatuses
    <3> QED BY <3>1, RecordTypes, Events
  <2>3. At(act[Main(n)], pc) \in Actor
    BY <2>1, RecordTypes DEF Pcs
  <2> HIDE DEF new
  <2>4. act' = [act EXCEPT ![Main(n)] = At(@, pc), ![Fix(n)] = new]
    BY DEF StartFix, new
  <2> QED BY <2>1, <2>2, <2>3, <2>4 DEF StartFix
<1>2. TypeOK'
  <2>1. saved' \in [Nodes -> Tasks] /\ task' \in Tasks
    BY DEF StartFix, NodeInv, TypeOK, Tasks
  <2>2. fixing' \in [Nodes -> Units \cup {Self}]
    BY <1>1 DEF NodeInv, TypeOK
  <2> QED BY <1>1, <2>1, <2>2 DEF NodeInv, TypeOK
<1>3. RecordFits(Main(n), act[Main(n)])'
  <2>1. RecordFits(Main(n), act[Main(n)]) /\ act[Main(n)].status \in Open
    BY ActorNames DEF NodeInv, RecordFits, StatusFits
  <2>2. act'[Main(n)] \in Actor /\ fixing'[n] = what
    BY <1>1, ActorNames DEF NodeInv, TypeOK
  <2>3. StatusFits(act[Main(n)])' /\ GatesCounted(Main(n), act[Main(n)])'
    BY <1>1, <2>1 DEF RecordFits, Actor, StatusFits, GatesCounted, Ending, At
  <2>4. ResultFits(Main(n), act[Main(n)])'
    BY <1>1, <2>1, <2>2, ActorNames DEF RecordFits, Actor, ResultFits, Ending, At
  <2>5. (Main(n)[2] = "main" => OutputKept(Main(n)[1], act[Main(n)]))'
    BY <1>1, <2>1, ActorNames DEF RecordFits, Actor, OutputKept, At
  <2> QED BY <2>2, <2>3, <2>4, <2>5 DEF RecordFits
<1>4. RecordFits(Fix(n), act[Fix(n)])'
  <2>1. act'[Fix(n)] \in Actor /\ Fix(n)[2] # "main"
    BY <1>1, ActorNames
  <2>2. /\ act'[Fix(n)].pc = "begin" /\ act'[Fix(n)].status = "ready"
        /\ act'[Fix(n)].result = "none"
    BY <1>1, EventTable DEF NewActor, NextAttempt, At, Event
  <2> QED BY <2>1, <2>2 DEF RecordFits, StatusFits, GatesCounted, ResultFits, Ending
<1>5. ASSUME NEW b \in Actors \ {Main(n), Fix(n)} PROVE RecordFits(b, act[b])'
  <2>1. act'[b] = act[b] /\ RecordFits(b, act[b])
    BY <1>1 DEF NodeInv
  <2>2. /\ b[1] # n /\ fixing'[b[1]] = fixing[b[1]]
        /\ Fix(b[1]) \in Actors \ {Main(n), Fix(n)} /\ Fix(b[1])[1] = b[1]
    <3>1. b[1] # n /\ b[1] \in Nodes
      BY ActorNames
    <3> QED BY <1>1, <3>1, ActorNames DEF NodeInv, TypeOK
  <2>3. GatesToPass(b)' = GatesToPass(b) /\ GatesToPass(Fix(b[1]))' = GatesToPass(Fix(b[1]))
    BY <2>2 DEF GatesToPass, GatesOf
  <2>4. PassedByFix(b)' <=> PassedByFix(b)
    BY <1>1, <2>2, <2>3 DEF PassedByFix, Held
  <2> QED BY <1>1, <2>1, <2>2, <2>3, <2>4
          DEF RecordFits, StatusFits, GatesCounted, ResultFits, Held, OutputKept
<1>6. ASSUME NEW m \in Nodes PROVE FixAwaited(m)' /\ UnitsPassed(m)'
  <2>1. FixAwaited(m) /\ UnitsPassed(m)
    BY DEF NodeInv
  <2>2. act'[Main(n)].pc = pc /\ act'[Main(n)].status = act[Main(n)].status
    <3>1. act[Main(n)] \in Actor
      BY ActorNames DEF NodeInv, TypeOK
    <3> QED BY <1>1, <3>1 DEF At, Actor
  <2>3. \A k \in Nodes \ {n} : act'[Main(k)] = act[Main(k)] /\ act'[Fix(k)] = act[Fix(k)]
    <3>1. ASSUME NEW k \in Nodes \ {n}
          PROVE  {Main(k), Fix(k)} \subseteq Actors \ {Main(n), Fix(n)}
      BY ActorNames
    <3> QED BY <1>1, <3>1
  <2>4. \A k \in Nodes : act'[Main(k)].status = act[Main(k)].status
    BY <2>2, <2>3
  <2>5. FixAwaited(m)'
    BY <2>1, <2>2, <2>3 DEF FixAwaited
  <2>6. UnitsPassed(m)'
    <3>1. fixing'[m] = fixing[m] \/ fixing'[m] \in todo[m] \cup {Self}
      BY <1>1 DEF NodeInv, TypeOK
    <3> QED BY <2>1, <2>4, <3>1, PlanTyped DEF UnitsPassed
  <2> QED BY <2>5, <2>6
<1>7. \A b \in Actors : RecordFits(b, act[b])'
  BY <1>3, <1>4, <1>5
<1> QED BY <1>2, <1>6, <1>7 DEF NodeInv

\* Steps of a node whose remediation node is not at work, and that may add outputs.
LEMMA NodeAlone ==
    ASSUME NodeInv, NEW n \in Nodes, NEW r, act' = [act EXCEPT ![Main(n)] = r],
           act[Main(n)].pc \in {"remediate", "selfFix", "unitFix"},
           act[Fix(n)].pc \in {"idle", "settled", "rejected"},
           RecordFits(Main(n), act[Main(n)])', r.pc # "selfFix",
           UNCHANGED <<cancelled, saved, fixing>>,
           task' \in Tasks, remediated' \in [Nodes -> BOOLEAN],
           outputs' \in SUBSET Nodes, outputs \subseteq outputs',
           todo' \in [Nodes -> SUBSET Units], \A m \in Nodes \ {n} : todo'[m] = todo[m],
           \A u \in Nodes : u \in todo'[n] => act[Main(u)].status = "passed"
    PROVE  NodeInv'
<1>1. /\ act'[Main(n)] = r /\ \A b \in Actors \ {Main(n)} : act'[b] = act[b]
      /\ \A m \in Nodes : act'[Fix(m)] = act[Fix(m)]
      /\ \A m \in Nodes \ {n} : act'[Main(m)] = act[Main(m)]
  BY ActorNames DEF NodeInv, TypeOK
<1>2. act[Main(n)].status # "passed"
  BY ActorNames DEF NodeInv, RecordFits, StatusFits, Open
<1>3. TypeOK'
  BY <1>1, ActorNames DEF NodeInv, TypeOK, RecordFits
<1>4. ASSUME NEW b \in Actors \ {Main(n)} PROVE RecordFits(b, act[b])'
  <2>1. act'[b] = act[b] /\ RecordFits(b, act[b])
    BY <1>1 DEF NodeInv
  <2>2. GatesToPass(b)' = GatesToPass(b) /\ GatesToPass(Fix(b[1]))' = GatesToPass(Fix(b[1]))
    BY DEF GatesToPass, GatesOf
  <2>3. PassedByFix(b)' <=> PassedByFix(b)
    BY <1>1, <2>2, ActorNames DEF PassedByFix, Held
  <2> QED BY <2>1, <2>2, <2>3
          DEF RecordFits, StatusFits, GatesCounted, ResultFits, Held, OutputKept
<1>5. \A b \in Actors : RecordFits(b, act[b])'
  BY <1>4
<1>6. ASSUME NEW m \in Nodes PROVE FixAwaited(m)' /\ UnitsPassed(m)'
  <2>1. FixAwaited(m) /\ UnitsPassed(m)
    BY DEF NodeInv
  <2>2. FixAwaited(m)'
    BY <1>1, <2>1 DEF FixAwaited
  <2>3. \A u \in Nodes : act[Main(u)].status = "passed" => act'[Main(u)].status = "passed"
    BY <1>1, <1>2
  <2>4. UnitsPassed(m)'
    BY <2>1, <2>3 DEF UnitsPassed
  <2> QED BY <2>2, <2>4
<1> QED BY <1>3, <1>5, <1>6 DEF NodeInv

\* Only units that have passed upstream are remediated.
LEMMA UpstreamUnitsPassed ==
    ASSUME NodeInv, NEW n \in Nodes
    PROVE  /\ UpstreamUnits(n) \subseteq Units
           /\ \A u \in Nodes : u \in UpstreamUnits(n) => act[Main(u)].status = "passed"
BY PlanTyped DEF UpstreamUnits, Upstream

LEMMA NextStrategyInv ==
    ASSUME NodeInv, NEW n \in Nodes, NextStrategy(n, act[Main(n)]), task' \in Tasks,
           act[Main(n)].pc \in {"remediate", "selfFix"},
           act[Fix(n)].pc \in {"idle", "settled", "rejected"}
    PROVE  NodeInv'
<1>1. PICK pc \in {"ancestors", "schedule"} :
        act' = [act EXCEPT ![Main(n)] = At(act[Main(n)], pc)]
  BY DEF NextStrategy
<1>2. /\ UNCHANGED <<cancelled, saved, fixing, outputs>>
      /\ todo' \in [Nodes -> SUBSET Units] /\ \A m \in Nodes \ {n} : todo'[m] = todo[m]
      /\ \A u \in Nodes : u \in todo'[n] => act[Main(u)].status = "passed"
      /\ remediated' \in [Nodes -> BOOLEAN]
  BY UpstreamUnitsPassed DEF NextStrategy, NodeInv, TypeOK
<1>3. RecordFits(Main(n), act[Main(n)])'
  <2>1. /\ RecordFits(Main(n), act[Main(n)]) /\ act[Main(n)].status \in Open
        /\ act'[Main(n)] = At(act[Main(n)], pc)
    BY <1>1, ActorNames DEF NodeInv, TypeOK, RecordFits, StatusFits
  <2>2. act'[Main(n)] \in Actor
    BY <2>1, RecordTypes DEF RecordFits, Pcs
  <2>3. StatusFits(act[Main(n)])' /\ GatesCounted(Main(n), act[Main(n)])'
    BY <2>1 DEF RecordFits, Actor, StatusFits, GatesCounted, Ending, At
  <2>4. ResultFits(Main(n), act[Main(n)])'
    BY <2>1, <2>2, ActorNames DEF RecordFits, Actor, ResultFits, Ending, At
  <2>5. (Main(n)[2] = "main" => OutputKept(Main(n)[1], act[Main(n)]))'
    BY <1>2, <2>1, ActorNames DEF RecordFits, Actor, OutputKept, At
  <2> QED BY <2>2, <2>3, <2>4, <2>5 DEF RecordFits
<1>4. At(act[Main(n)], pc).pc # "selfFix"
  BY ActorNames DEF NodeInv, TypeOK, Actor, At
<1>5. outputs' \in SUBSET Nodes /\ outputs \subseteq outputs'
  BY <1>2 DEF NodeInv, TypeOK
<1> QED BY <1>1, <1>2, <1>3, <1>4, <1>5, NodeAlone

LEMMA RemediateFailedNodeInv ==
    ASSUME NodeInv, NEW n \in Nodes, RemediateFailedNode(n) PROVE NodeInv'
<1>1. act[Main(n)].pc = "remediate" /\ act[Fix(n)].pc \in {"idle", "settled", "rejected"}
  BY DEF RemediateFailedNode, NodeInv, FixAwaited
<1>2. todo \in [Nodes -> SUBSET Units] /\ task \in Tasks
  BY DEF NodeInv, TypeOK
<1>3. CASE StartFix(n, Self, "selfFix") /\ UNCHANGED todo
  BY <1>1, <1>2, <1>3, StartFixInv
<1>4. CASE NextStrategy(n, act[Main(n)]) /\ UNCHANGED task
  BY <1>1, <1>2, <1>4, NextStrategyInv
<1> QED BY <1>3, <1>4 DEF RemediateFailedNode

LEMMA AncestorsStepInv == ASSUME NodeInv, NEW n \in Nodes, AncestorsStep(n) PROVE NodeInv'
<1>1. CASE todo[n] = {} \/ cancelled
  BY <1>1, AncestorsEndInv DEF AncestorsStep
<1>2. CASE ~(todo[n] = {} \/ cancelled)
  <2>1. PICK u \in todo[n] : StartFix(n, u, "unitFix") /\ todo' = [todo EXCEPT ![n] = @ \ {u}]
    BY <1>2 DEF AncestorsStep
  <2>2. todo' \in [Nodes -> SUBSET Units] /\ \A m \in Nodes : todo'[m] \subseteq todo[m]
    BY <2>1 DEF NodeInv, TypeOK
  <2> QED BY <2>1, <2>2, StartFixInv DEF AncestorsStep
<1> QED BY <1>1, <1>2

\* The node passes by the remediation that replaced it, or goes on.
LEMMA SelfFixReturnsInv == ASSUME NodeInv, NEW n \in Nodes, SelfFixReturns(n) PROVE NodeInv'
<1>1. /\ act[Main(n)].pc = "selfFix" /\ act[Fix(n)].pc = "settled" /\ task' \in Tasks
      /\ RecordFits(Main(n), act[Main(n)]) /\ RecordFits(Fix(n), act[Fix(n)])
  BY ActorNames DEF SelfFixReturns, RestoreTask, NodeInv, TypeOK
<1>2. CASE NextStrategy(n, act[Main(n)])
  BY <1>1, <1>2, NextStrategyInv
<1>3. CASE /\ act[Fix(n)].result = "passed"
           /\ act' = [act EXCEPT ![Main(n)] = Done(Main(n), Event(act[Main(n)], "PASSED"), "passed")]
           /\ outputs' = outputs \cup {n}
           /\ UNCHANGED <<cancelled, nodeVars>>
  <2> DEFINE r == Done(Main(n), Event(act[Main(n)], "PASSED"), "passed")
  <2>1. /\ act'[Main(n)] = r /\ act'[Fix(n)] = act[Fix(n)]
        /\ UNCHANGED <<cancelled, saved, fixing, todo, remediated>>
    BY <1>3, ActorNames DEF NodeInv, TypeOK, nodeVars
  <2>2. r \in Actor
    BY <1>1, RecordTypes, Events DEF RecordFits
  <2>3. r.pc = "finishHook" /\ r.status = "passed" /\ r.result = "passed"
    BY <1>1, EventTable, ActorNames DEF RecordFits, Actor, StatusFits, Open, Done, Event
  <2>4. PassedByFix(Main(n))'
    <3>1. GatesToPass(Fix(n))' = GatesToPass(Fix(n))
      BY <2>1 DEF GatesToPass, GatesOf
    <3>2. fixing[n] = Self
      BY <1>1, ActorNames DEF RecordFits, ResultFits
    <3>3. Held(Fix(n), act[Fix(n)]) \/ (cancelled /\ act[Fix(n)].status = "cancelled")
      BY <1>1, <1>3, ActorNames DEF RecordFits, ResultFits, PassedByFix, Ending
    <3> QED BY <1>1, <1>3, <2>1, <3>1, <3>2, <3>3, ActorNames DEF PassedByFix, Held
  <2>5. RecordFits(Main(n), act[Main(n)])'
    <3> HIDE DEF r
    <3>1. StatusFits(act[Main(n)])' /\ GatesCounted(Main(n), act[Main(n)])'
      BY <2>1, <2>3 DEF StatusFits, GatesCounted, Ending
    <3>2. ResultFits(Main(n), act[Main(n)])'
      BY <2>1, <2>3, <2>4 DEF ResultFits, Ending
    <3>3. OutputKept(Main(n)[1], act[Main(n)])'
      BY <1>3, ActorNames DEF OutputKept
    <3> QED BY <2>1, <2>2, <3>1, <3>2, <3>3 DEF RecordFits
  <2>6. /\ outputs' \in SUBSET Nodes /\ outputs \subseteq outputs'
        /\ remediated' \in [Nodes -> BOOLEAN] /\ todo' \in [Nodes -> SUBSET Units]
        /\ \A m \in Nodes \ {n} : todo'[m] = todo[m]
    BY <1>3, <2>1 DEF NodeInv, TypeOK
  <2>7. \A u \in Nodes : u \in todo'[n] => act[Main(u)].status = "passed"
    BY <2>1 DEF NodeInv, TypeOK, UnitsPassed
  <2>8. r.pc # "selfFix"
    BY <2>3
  <2>9. act' = [act EXCEPT ![Main(n)] = r]
    BY <1>3
  <2> HIDE DEF r
  <2> QED BY <1>1, <2>1, <2>5, <2>6, <2>7, <2>8, <2>9, NodeAlone
<1> QED BY <1>2, <1>3 DEF SelfFixReturns

LEMMA UnitFixReturnsInv == ASSUME NodeInv, NEW n \in Nodes, UnitFixReturns(n) PROVE NodeInv'
<1> DEFINE r == At(act[Main(n)], "ancestors")
<1>1. /\ act[Main(n)].pc = "unitFix" /\ act[Fix(n)].pc = "settled"
      /\ act' = [act EXCEPT ![Main(n)] = r]
      /\ RecordFits(Main(n), act[Main(n)])
  BY ActorNames DEF UnitFixReturns, NodeInv
<1>2. /\ UNCHANGED <<cancelled, saved, fixing, todo>>
      /\ task' \in Tasks /\ remediated' \in [Nodes -> BOOLEAN]
      /\ outputs' \in SUBSET Nodes /\ outputs \subseteq outputs'
  BY DEF UnitFixReturns, RestoreTask, NodeInv, TypeOK
<1>3. RecordFits(Main(n), act[Main(n)])'
  <2>1. act'[Main(n)] = r /\ act[Main(n)].status \in Open
    BY <1>1, ActorNames DEF NodeInv, TypeOK, RecordFits, StatusFits
  <2>2. r \in Actor
    BY <1>1, RecordTypes DEF RecordFits, Pcs
  <2>3. StatusFits(r) /\ GatesCounted(Main(n), r) /\ ResultFits(Main(n), r)
    BY <1>1, <2>1 DEF RecordFits, Actor, StatusFits, GatesCounted, ResultFits, Ending, At
  <2>4. r.pc = "ancestors" /\ r.result = "none"
    BY <1>1 DEF RecordFits, Actor, ResultFits, Ending, At
  <2>5. OutputKept(Main(n)[1], act[Main(n)])'
    BY <1>1, <1>2, <2>1, ActorNames DEF RecordFits, Actor, OutputKept, At
  <2> HIDE DEF r
  <2>6. ResultFits(Main(n), act[Main(n)])' /\ GatesCounted(Main(n), act[Main(n)])'
    BY <2>1, <2>4 DEF ResultFits, GatesCounted, Ending
  <2> QED BY <2>1, <2>2, <2>3, <2>5, <2>6 DEF RecordFits, StatusFits
<1>4. r.pc # "selfFix"
  BY <1>1 DEF RecordFits, Actor, At
<1>5. /\ todo' \in [Nodes -> SUBSET Units] /\ \A m \in Nodes \ {n} : todo'[m] = todo[m]
      /\ \A u \in Nodes : u \in todo'[n] => act[Main(u)].status = "passed"
  BY <1>2, PlanTyped DEF NodeInv, TypeOK, UnitsPassed
<1> HIDE DEF r
<1> QED BY <1>1, <1>2, <1>3, <1>4, <1>5, NodeAlone

LEMMA FixRejectedInv == ASSUME NodeInv, NEW n \in Nodes, FixRejected(n) PROVE NodeInv'
<1> DEFINE r == At(act[Main(n)], "rejected")
<1>1. /\ act[Main(n)].pc \in {"selfFix", "unitFix"} /\ act[Fix(n)].pc = "rejected"
      /\ act' = [act EXCEPT ![Main(n)] = r]
      /\ RecordFits(Main(n), act[Main(n)])
  BY ActorNames DEF FixRejected, NodeInv
<1>2. /\ UNCHANGED <<cancelled, saved, fixing, todo, remediated, outputs>>
      /\ task' \in Tasks /\ remediated' \in [Nodes -> BOOLEAN]
      /\ outputs' \in SUBSET Nodes /\ outputs \subseteq outputs'
  BY DEF FixRejected, RestoreTask, NodeInv, TypeOK, nodeVars
<1>3. RecordFits(Main(n), act[Main(n)])'
  <2>1. act'[Main(n)] = r /\ act[Main(n)].status \in Open
    BY <1>1, ActorNames DEF NodeInv, TypeOK, RecordFits, StatusFits
  <2>2. r \in Actor
    BY <1>1, RecordTypes DEF RecordFits, Pcs
  <2>3. StatusFits(r)
    BY <1>1, <2>1 DEF RecordFits, Actor, StatusFits, Ending, At
  <2>4. r.pc = "rejected" /\ r.result = "none"
    BY <1>1 DEF RecordFits, Actor, ResultFits, Ending, At
  <2>5. OutputKept(Main(n)[1], act[Main(n)])'
    BY <1>1, <1>2, <2>1, ActorNames DEF RecordFits, Actor, OutputKept, At
  <2> HIDE DEF r
  <2>6. ResultFits(Main(n), act[Main(n)])' /\ GatesCounted(Main(n), act[Main(n)])'
    BY <2>1, <2>4 DEF ResultFits, GatesCounted, Ending
  <2> QED BY <2>1, <2>2, <2>3, <2>5, <2>6 DEF RecordFits, StatusFits
<1>4. r.pc # "selfFix"
  BY <1>1 DEF RecordFits, Actor, At
<1>5. /\ todo' \in [Nodes -> SUBSET Units] /\ \A m \in Nodes \ {n} : todo'[m] = todo[m]
      /\ \A u \in Nodes : u \in todo'[n] => act[Main(u)].status = "passed"
  BY <1>2, PlanTyped DEF NodeInv, TypeOK, UnitsPassed
<1> HIDE DEF r
<1> QED BY <1>1, <1>2, <1>3, <1>4, <1>5, NodeAlone

LEMMA RemediationInv == ASSUME NodeInv, NEW n \in Nodes, Remediation(n) PROVE NodeInv'
BY RemediateFailedNodeInv, FixNotRemediatedInv, SelfFixReturnsInv, AncestorsStepInv,
   UnitFixReturnsInv, FixRejectedInv DEF Remediation

----------------------------------------------------------------------------
(* The specification. *)

\* A cancellation only ever excuses more.
LEMMA CancelInv == ASSUME NodeInv, Cancel PROVE NodeInv'
<1>1. UNCHANGED <<act, task, saved, fixing, todo, remediated, outputs>> /\ cancelled'
  BY DEF Cancel, nodeVars
<1>2. \A a \in Actors : GatesToPass(a)' = GatesToPass(a)
  BY <1>1 DEF GatesToPass, GatesOf
<1>3. ASSUME NEW a \in Actors PROVE RecordFits(a, act[a])'
  <2>1. RecordFits(a, act[a])
    BY DEF NodeInv
  <2>2. PassedByFix(a) => PassedByFix(a)'
    BY <1>1, <1>2, ActorNames DEF PassedByFix, Held
  <2> QED BY <1>1, <1>2, <2>1, <2>2
          DEF RecordFits, StatusFits, GatesCounted, ResultFits, Held, OutputKept
<1>4. TypeOK'
  BY <1>1 DEF NodeInv, TypeOK, Cancel
<1>5. \A n \in Nodes : FixAwaited(n)' /\ UnitsPassed(n)'
  BY <1>1 DEF NodeInv, FixAwaited, UnitsPassed
<1> QED BY <1>3, <1>4, <1>5 DEF NodeInv

LEMMA StutterInv == ASSUME NodeInv, UNCHANGED vars PROVE NodeInv'
<1>1. UNCHANGED <<act, cancelled, task, saved, fixing, todo, remediated, outputs>>
  BY DEF vars, nodeVars
<1>2. \A a \in Actors : GatesToPass(a)' = GatesToPass(a)
  BY <1>1 DEF GatesToPass, GatesOf
<1>3. ASSUME NEW a \in Actors PROVE RecordFits(a, act[a])'
  <2>1. PassedByFix(a)' <=> PassedByFix(a)
    BY <1>1, <1>2, ActorNames DEF PassedByFix, Held
  <2> QED BY <1>1, <1>2, <2>1
          DEF NodeInv, RecordFits, StatusFits, GatesCounted, ResultFits, Held, OutputKept
<1> QED BY <1>1, <1>3 DEF NodeInv, TypeOK, FixAwaited, UnitsPassed

LEMMA InitNodeInv == Init => NodeInv
<1> SUFFICES ASSUME Init PROVE NodeInv
  OBVIOUS
<1>1. NewActor \in Actor
  BY AttemptsTyped DEF NewActor, Actor, Pcs, NodeStatuses
<1>2. \A a \in Actors : act[a] = NewActor
  BY DEF Init
<1>3. TypeOK
  BY <1>1 DEF Init, TypeOK, Tasks
<1>4. NewActor.pc = "idle" /\ NewActor.status = "pending" /\ NewActor.result = "none"
      /\ NewActor.cur = "none" /\ NewActor.last = "none"
  BY DEF NewActor
<1>5. \A a \in Actors : RecordFits(a, act[a])
  BY <1>1, <1>2, <1>4
     DEF RecordFits, StatusFits, GatesCounted, ResultFits, OutputKept, Ending
<1>6. \A n \in Nodes : FixAwaited(n) /\ UnitsPassed(n)
  BY <1>2, <1>4, ActorNames, PlanTyped DEF Init, FixAwaited, UnitsPassed
<1> QED BY <1>3, <1>5, <1>6 DEF NodeInv

LEMMA NodeInvStep == NodeInv /\ [Next]_vars => NodeInv'
BY LaunchInv, RemediationInv, AttemptInv, CancelInv, StutterInv DEF Next, Terminated

\* NodeInv holds in every run: the tracker accepts every event the loop records, in
\* whatever order the attempts, hooks and remediations of the nodes interleave.
THEOREM AttemptLoopInvariant == Spec => []NodeInv
BY InitNodeInv, NodeInvStep, PTL DEF Spec

\* Every field keeps its type.
THEOREM AttemptLoopTyped == Spec => []TypeOK
<1>1. NodeInv => TypeOK
  BY DEF NodeInv
<1> QED BY <1>1, AttemptLoopInvariant, PTL

\* PassedMeansGated: the promise of a node settles as passed, outside a cancellation,
\* only if every gate of the node held, on its last attempt or in the remediation
\* that replaced it.
THEOREM NodesPassGated == Spec => []PassedMeansGated
<1>1. NodeInv => PassedMeansGated
  <2> SUFFICES ASSUME NodeInv, NEW n \in Nodes, SettledAs(n) = "passed"
               PROVE  GatesHeld(Main(n)) \/ (fixing[n] = Self /\ GatesHeld(Fix(n)))
    BY DEF PassedMeansGated
  <2>1. /\ act[Main(n)].pc = "settled" /\ act[Main(n)].result = "passed"
        /\ act[Main(n)].status # "cancelled"
        /\ ~(act[Fix(n)].result = "passed" /\ fixing[n] = Self /\ act[Fix(n)].status = "cancelled")
    BY DEF SettledAs
  <2>2. RecordFits(Main(n), act[Main(n)])
    BY ActorNames DEF NodeInv
  <2>3. Held(Main(n), act[Main(n)]) \/ PassedByFix(Main(n))
    BY <2>1, <2>2 DEF RecordFits, ResultFits, Ending
  <2>4. PassedByFix(Main(n)) => fixing[n] = Self /\ Held(Fix(n), act[Fix(n)])
    BY <2>1, ActorNames DEF PassedByFix
  <2> QED BY <2>3, <2>4 DEF Held, GatesHeld
<1> QED BY <1>1, AttemptLoopInvariant, PTL

----------------------------------------------------------------------------
(* The attempt loop implements NodePromise. *)

Over == {"idle", "settled", "rejected"}

\* Fields of an updated record.
LEMMA RecordPlaces ==
    ASSUME NEW r \in Actor
    PROVE  /\ \A pc : At(r, pc).pc = pc
           /\ \A e : Event(r, e).pc = r.pc
           /\ \A n, x : Done(Main(n), r, x).pc = "finishHook"
           /\ \A n : CancelledResult(Main(n), r).pc = "finishHook"
           /\ NextAttempt(r).pc = "begin"
BY DEF At, Event, Done, CancelledResult, NextAttempt, Main, Actor

\* Of a planned node only its last hook dispatch ends the loop.
LEMMA LoopGoesOn ==
    ASSUME NodeInv, NEW n \in Nodes, Attempt(Main(n))
    PROVE  /\ act[Main(n)].pc \notin Over
           /\ \/ FinishHook(Main(n)) \/ LastHookRejects(Main(n))
              \/ act'[Main(n)].pc \notin Over
<1> DEFINE a == Main(n)
           r == act[a]
<1>1. a \in Actors /\ r \in Actor /\ act \in [Actors -> Actor]
  BY ActorNames DEF NodeInv, TypeOK
<1>2. \A q : Becomes(a, q) => act'[a] = q
  BY <1>1 DEF Becomes
<1>3. \A e \in DOMAIN StatusAfter : Event(r, e) \in Actor
  BY <1>1, RecordTypes
<1>4. CASE BeginAttempt(a)
  BY <1>1, <1>2, <1>3, <1>4, RecordPlaces, Events DEF BeginAttempt, Over
<1>5. CASE StartHookPasses(a)
  <2>1. [r EXCEPT !.cur = "none", !.gate = 0, !.good = {}, !.bad = {}] \in Actor
    BY <1>1, RecordTypes
  <2>2. Event([r EXCEPT !.cur = "none", !.gate = 0, !.good = {}, !.bad = {}],
              "RUNNER_STARTED") \in Actor
    BY <2>1, RecordTypes, Events
  <2> QED BY <1>1, <1>2, <1>5, <2>2, RecordPlaces DEF StartHookPasses, Over
<1>6. CASE HookFails(a)
  <2>1. [r EXCEPT !.last = r.cur] \in Actor
    BY <1>1, RecordTypes
  <2>2. Event([r EXCEPT !.last = r.cur], "FAILED") \in Actor
    BY <2>1, RecordTypes, Events
  <2> QED BY <1>1, <1>2, <1>3, <1>6, <2>2, RecordPlaces, Events DEF HookFails, Over
<1>7. CASE RunnerFinishes(a)
  <2> DEFINE f(exit) == Event([r EXCEPT !.cur = exit], "RUNNER_FINISHED")
  <2>1. PICK exit \in Exits :
           Becomes(a, IF cancelled THEN CancelledResult(a, f(exit))
                      ELSE IF exit = "infra" THEN At([f(exit) EXCEPT !.last = exit], "remediate")
                      ELSE At(Event(f(exit), "GATES_STARTED"), "gates"))
    BY <1>7 DEF RunnerFinishes
  <2>2. [r EXCEPT !.cur = exit] \in Actor
    BY <1>1 DEF Actor
  <2>3. f(exit) \in Actor
    BY <2>2, RecordTypes, Events
  <2> HIDE DEF f
  <2>4. Event(f(exit), "GATES_STARTED") \in Actor
    BY <2>3, RecordTypes, Events
  <2>5. [f(exit) EXCEPT !.last = exit] \in Actor
    BY <2>3 DEF Actor
  <2>6. r.pc \notin Over
    BY <1>7 DEF RunnerFinishes, Over
  <2> QED BY <1>2, <2>1, <2>3, <2>4, <2>5, <2>6, RecordPlaces DEF Over
<1>8. \A q : q = GatesFinished(a, r) => q.pc \notin Over
  <2> DEFINE f == Event(r, "GATES_FINISHED")
  <2>1. f \in Actor
    BY <1>3, Events
  <2>2. [f EXCEPT !.last = r.cur] \in Actor
    BY <1>1, <2>1 DEF Actor
  <2>3. GatesFinished(a, r) = IF cancelled THEN CancelledResult(a, f)
                              ELSE IF r.bad # {} \/ r.cur # "ok"
                                   THEN At([f EXCEPT !.last = r.cur], "remediate")
                                   ELSE At(f, "successHook")
    BY DEF GatesFinished
  <2> HIDE DEF f
  <2> QED BY <2>1, <2>2, <2>3, RecordPlaces DEF Over
<1>9. CASE GatesEnd(a)
  BY <1>2, <1>8, <1>9 DEF GatesEnd, Over
<1>10. CASE GateIteration(a)
  <2>1. PICK g \in GatesLeft(a) :
           \/ Becomes(a, [r EXCEPT !.good = @ \cup {g}])
           \/ Becomes(a, At([r EXCEPT !.gate = g, !.bad = @ \cup {g}], "gateHook"))
    BY <1>10 DEF GateIteration
  <2>2. r.pc = "gates"
    BY <1>10 DEF GateIteration
  <2> QED BY <1>1, <1>2, <2>1, <2>2 DEF At, Actor, Over
<1>11. CASE GateFailureHook(a)
  BY <1>1, <1>2, <1>8, <1>11, RecordPlaces DEF GateFailureHook, Over
<1>12. CASE SuccessHookPasses(a)
  <2>1. [r EXCEPT !.last = r.cur] \in Actor
    BY <1>1, RecordTypes
  <2>2. Event([r EXCEPT !.last = r.cur], "PASSED") \in Actor
    BY <2>1, RecordTypes, Events
  <2> QED BY <1>1, <1>2, <1>12, <2>2, RecordPlaces DEF SuccessHookPasses, Over
<1>13. CASE AttemptRejects(a)
  BY <1>1, <1>2, <1>13, RecordPlaces DEF AttemptRejects, Over
<1>14. CASE ScheduleNodeRetry(a)
  BY <1>1, <1>2, <1>3, <1>14, RecordPlaces, Events DEF ScheduleNodeRetry, Over
<1>15. CASE FinishFailedNode(a)
  BY <1>1, <1>2, <1>3, <1>15, RecordPlaces, Events DEF FinishFailedNode, Over
<1>16. CASE FinishHook(a) \/ LastHookRejects(a)
  BY <1>16 DEF FinishHook, LastHookRejects, Over
<1> QED BY <1>4, <1>5, <1>6, <1>7, <1>9, <1>10, <1>11, <1>12, <1>13, <1>14, <1>15, <1>16
        DEF Attempt

\* A step of node n and its remediation node does not show on another node.
LEMMA OthersUnseen ==
    ASSUME NEW n \in Nodes,
           \A b \in Actors \ {Main(n), Fix(n)} : act'[b] = act[b],
           \A m \in Nodes \ {n} : fixing'[m] = fixing[m],
           outputs \subseteq outputs', outputs' \subseteq outputs \cup {n}
    PROVE  \A m \in Nodes \ {n} : /\ SettledAs(m)' = SettledAs(m)
                                  /\ StatusAs(m)' = StatusAs(m)
                                  /\ Ended(m)' <=> Ended(m)
                                  /\ m \in outputs' <=> m \in outputs
<1> TAKE m \in Nodes \ {n}
<1>1. act'[Main(m)] = act[Main(m)] /\ act'[Fix(m)] = act[Fix(m)] /\ fixing'[m] = fixing[m]
  <2>1. Main(m) \in Actors \ {Main(n), Fix(n)} /\ Fix(m) \in Actors \ {Main(n), Fix(n)}
    BY ActorNames
  <2> QED BY <2>1
<1> QED BY <1>1 DEF SettledAs, StatusAs, Ended

\* A step that shows on no node, or on one that has not ended and goes on.
LEMMA UnseenStep ==
    ASSUME NodeInv, NodeInv', NEW n \in Nodes, cancelled' = cancelled,
           \A b \in Actors \ {Main(n), Fix(n)} : act'[b] = act[b],
           \A m \in Nodes \ {n} : fixing'[m] = fixing[m],
           outputs \subseteq outputs', outputs' \subseteq outputs \cup {n},
           act[Main(n)].pc \notin Over, act'[Main(n)].pc \notin Over
    PROVE  UNCHANGED Promise!vars
<1>1. /\ SettledAs(n)' = SettledAs(n) /\ StatusAs(n)' = StatusAs(n) /\ ~Ended(n) /\ ~Ended(n)'
  <2>1. SettledAs(n) = "pending" /\ StatusAs(n) = "ready" /\ ~Ended(n)
    BY DEF SettledAs, StatusAs, Ended, Over
  <2>2. SettledAs(n)' = "pending" /\ StatusAs(n)' = "ready" /\ ~Ended(n)'
    BY DEF SettledAs, StatusAs, Ended, Over
  <2> QED BY <2>1, <2>2
<1>2. \A m \in Nodes \ {n} : /\ SettledAs(m)' = SettledAs(m) /\ StatusAs(m)' = StatusAs(m)
                             /\ (Ended(m)' <=> Ended(m)) /\ (m \in outputs' <=> m \in outputs)
  BY OthersUnseen
<1>3. \A m \in Nodes : SettledAs(m)' = SettledAs(m) /\ StatusAs(m)' = StatusAs(m)
  BY <1>1, <1>2
<1>4. [m \in Nodes |-> SettledAs(m)]' = [m \in Nodes |-> SettledAs(m)]
  BY <1>3
<1>5. [m \in Nodes |-> StatusAs(m)]' = [m \in Nodes |-> StatusAs(m)]
  BY <1>3
<1>6. {m \in outputs : Ended(m)}' = {m \in outputs : Ended(m)}
  BY <1>1, <1>2 DEF NodeInv, TypeOK
<1> QED BY <1>4, <1>5, <1>6 DEF Promise!vars

\* A step by which one node settles.
LEMMA SettlingStep ==
    ASSUME NodeInv, NodeInv', NEW n \in Nodes, cancelled' = cancelled,
           \A b \in Actors \ {Main(n), Fix(n)} : act'[b] = act[b],
           \A m \in Nodes \ {n} : fixing'[m] = fixing[m], outputs' = outputs,
           act[Main(n)].pc \notin Over, act'[Main(n)].pc \in {"settled", "rejected"}
    PROVE  \E o \in BOOLEAN : /\ (o = TRUE /\ n \in outputs') \/ (o = FALSE /\ n \notin outputs')
                              /\ Promise!Settle(n, SettledAs(n)', StatusAs(n)', o)
<1>1. SettledAs(n) = "pending" /\ ~Ended(n) /\ Ended(n)'
  BY DEF SettledAs, Ended, Over
<1>2. \A m \in Nodes \ {n} : /\ SettledAs(m)' = SettledAs(m) /\ StatusAs(m)' = StatusAs(m)
                             /\ (Ended(m)' <=> Ended(m)) /\ (m \in outputs' <=> m \in outputs)
  BY OthersUnseen
<1>3. [m \in Nodes |-> SettledAs(m)]'
        = [[m \in Nodes |-> SettledAs(m)] EXCEPT ![n] = SettledAs(n)']
  BY <1>2
<1>4. [m \in Nodes |-> StatusAs(m)]'
        = [[m \in Nodes |-> StatusAs(m)] EXCEPT ![n] = StatusAs(n)']
  BY <1>2
<1>5. {m \in outputs : Ended(m)}'
        = IF n \in outputs' THEN {m \in outputs : Ended(m)} \cup {n} ELSE {m \in outputs : Ended(m)}
  BY <1>1, <1>2 DEF NodeInv, TypeOK
<1>6. CASE n \in outputs'
  <2>1. Promise!Settle(n, SettledAs(n)', StatusAs(n)', TRUE)
    BY <1>1, <1>3, <1>4, <1>5, <1>6 DEF Promise!Settle
  <2> WITNESS TRUE \in BOOLEAN
  <2> QED BY <1>6, <2>1
<1>7. CASE n \notin outputs'
  <2>1. Promise!Settle(n, SettledAs(n)', StatusAs(n)', FALSE)
    BY <1>1, <1>3, <1>4, <1>5, <1>7 DEF Promise!Settle
  <2> QED BY <1>7, <2>1
<1> QED BY <1>6, <1>7

\* The last hook of a node: how the promise settles is one of the promised ways.
LEMMA FinishKeepsPromise ==
    ASSUME NodeInv, NodeInv', NEW n \in Nodes, FinishHook(Main(n)) PROVE Promise!Next
<1> DEFINE r == act[Main(n)]
<1>1. /\ r.pc = "finishHook" /\ r \in Actor /\ act'[Main(n)] = At(r, "settled")
      /\ UNCHANGED <<cancelled, fixing, outputs>>
      /\ \A b \in Actors \ {Main(n), Fix(n)} : act'[b] = act[b]
      /\ act'[Fix(n)] = act[Fix(n)]
  BY ActorNames DEF FinishHook, Becomes, nodeVars, NodeInv, TypeOK
<1>2. /\ act'[Main(n)].pc = "settled" /\ act'[Main(n)].status = r.status
      /\ act'[Main(n)].result = r.result /\ act'[Main(n)].last = r.last
  BY <1>1 DEF At, Actor
<1>3. PICK o \in BOOLEAN : /\ (o = TRUE /\ n \in outputs') \/ (o = FALSE /\ n \notin outputs')
                           /\ Promise!Settle(n, SettledAs(n)', StatusAs(n)', o)
  BY <1>1, <1>2, SettlingStep DEF Over
<1>4. /\ RecordFits(Main(n), r) /\ RecordFits(Fix(n), act[Fix(n)])
      /\ r.result \in {"passed", "failed"} /\ OutputKept(n, r)
  BY <1>1, ActorNames DEF NodeInv, RecordFits, ResultFits, Ending, Actor
<1>5. StatusAs(n)' = IF r.status \in Live THEN "ready" ELSE r.status
  BY <1>2 DEF StatusAs, Ended
<1>6. ASSUME r.result = "passed" PROVE Promise!Passes(n) \/ Promise!Cancelled(n)
  <2> DEFINE byFix == act[Fix(n)].result = "passed" /\ fixing[n] = Self
  <2>1. \/ cancelled /\ r.status = "cancelled"
        \/ r.status = "passed"
    BY <1>4, <1>6 DEF RecordFits, ResultFits
  <2>2. SettledAs(n)' = IF r.status = "cancelled" \/ (byFix /\ act[Fix(n)].status = "cancelled")
                        THEN "ungated" ELSE "passed"
    BY <1>1, <1>2, <1>6 DEF SettledAs
  <2>3. byFix /\ act[Fix(n)].status = "cancelled" => cancelled
    BY <1>4 DEF RecordFits, ResultFits
  <2>4. n \in outputs' /\ StatusAs(n)' = r.status
    BY <1>1, <1>4, <1>5, <2>1 DEF OutputKept, Live
  <2>5. CASE SettledAs(n)' = "passed"
    BY <1>3, <2>1, <2>2, <2>4, <2>5 DEF Promise!Passes
  <2>6. CASE SettledAs(n)' = "ungated"
    <3>1. cancelled /\ r.status \in {"cancelled", "passed"}
      BY <2>1, <2>2, <2>3, <2>6
    <3> QED BY <1>1, <1>3, <2>4, <2>6, <3>1 DEF Promise!Cancelled
  <2> QED BY <2>2, <2>5, <2>6
<1>7. ASSUME r.result = "failed"
      PROVE  Promise!Fails(n) \/ Promise!Cancelled(n) \/ Promise!Aborted(n)
  <2>1. \/ r.status = "failed"
        \/ cancelled /\ r.status \in {"cancelled", "ready", "running"}
    BY <1>4, <1>7 DEF RecordFits, ResultFits
  <2>2. SettledAs(n)' = IF n \in ParallelNodes /\ r.last # "none" THEN "partial" ELSE "failed"
    BY <1>1, <1>2, <1>7 DEF SettledAs
  <2>3. SettledAs(n)' \in Promise!FailedOrPartial(n, o)
    BY <1>1, <1>3, <1>4, <2>2 DEF OutputKept, Promise!FailedOrPartial
  <2>4. CASE r.status = "failed"
    BY <1>3, <1>5, <2>3, <2>4 DEF Promise!Fails, Live
  <2>5. CASE cancelled /\ r.status = "cancelled"
    <3>1. n \in outputs' /\ StatusAs(n)' = "cancelled"
      BY <1>1, <1>4, <1>5, <2>5 DEF OutputKept, Live
    <3> QED BY <1>1, <1>3, <2>3, <2>5, <3>1 DEF Promise!Cancelled
  <2>6. CASE cancelled /\ r.status \in {"ready", "running"}
    BY <1>3, <1>5, <2>3, <2>6 DEF Promise!Aborted, Live
  <2> QED BY <2>1, <2>4, <2>5, <2>6
<1> QED BY <1>4, <1>6, <1>7 DEF Promise!Next

\* A hook dispatch or a remediation that rejects rejects the promise.
LEMMA RejectionKeepsPromise ==
    ASSUME NodeInv, NodeInv', NEW n \in Nodes, LastHookRejects(Main(n)) \/ FixRejected(n)
    PROVE  Promise!Next
<1> DEFINE r == act[Main(n)]
<1>1. /\ r.pc \notin Over /\ r \in Actor /\ act'[Main(n)] = At(r, "rejected")
      /\ UNCHANGED <<cancelled, fixing, outputs>>
      /\ \A b \in Actors \ {Main(n), Fix(n)} : act'[b] = act[b]
  BY ActorNames DEF LastHookRejects, FixRejected, Becomes, nodeVars, NodeInv, TypeOK, Over
<1>2. act'[Main(n)].pc = "rejected" /\ RecordFits(Main(n), act[Main(n)])'
  BY <1>1, ActorNames DEF At, Actor, NodeInv
<1>3. PICK o \in BOOLEAN : Promise!Settle(n, SettledAs(n)', StatusAs(n)', o)
  BY <1>1, <1>2, SettlingStep
<1>4. SettledAs(n)' = "error"
  BY <1>2 DEF SettledAs
<1>5. StatusAs(n)' \in {"ready", "passed", "failed", "cancelled"}
  BY <1>2 DEF RecordFits, StatusFits, StatusAs, Ended, Live, Open
<1> QED BY <1>3, <1>4, <1>5 DEF Promise!Rejects, Promise!Next

LEMMA LaunchKeepsPromise ==
    ASSUME NodeInv, NodeInv', NEW n \in Nodes, Launch(n) PROVE Promise!Next
<1> DEFINE q == NextAttempt(Event(act[Main(n)], "READY"))
<1>1. /\ act[Main(n)].pc = "idle" /\ act'[Main(n)] = q
      /\ UNCHANGED <<cancelled, fixing, outputs>>
      /\ \A b \in Actors \ {Main(n), Fix(n)} : act'[b] = act[b]
  BY ActorNames DEF Launch, Becomes, nodeVars, NodeInv, TypeOK
<1>2. q.pc = "begin"
  BY ActorNames, RecordTypes, RecordPlaces, Events DEF NodeInv, TypeOK
<1>3. SettledAs(n) = "idle" /\ SettledAs(n)' = "pending" /\ StatusAs(n)' = "ready"
      /\ ~Ended(n) /\ ~Ended(n)'
  BY <1>1, <1>2 DEF SettledAs, StatusAs, Ended
<1>4. \A m \in Nodes \ {n} : /\ SettledAs(m)' = SettledAs(m) /\ StatusAs(m)' = StatusAs(m)
                             /\ (Ended(m)' <=> Ended(m)) /\ (m \in outputs' <=> m \in outputs)
  BY <1>1, OthersUnseen
<1>5. [m \in Nodes |-> SettledAs(m)]' = [[m \in Nodes |-> SettledAs(m)] EXCEPT ![n] = "pending"]
  BY <1>3, <1>4
<1>6. [m \in Nodes |-> StatusAs(m)]' = [[m \in Nodes |-> StatusAs(m)] EXCEPT ![n] = "ready"]
  BY <1>3, <1>4
<1>7. {m \in outputs : Ended(m)}' = {m \in outputs : Ended(m)}
  BY <1>1, <1>3, <1>4 DEF NodeInv, TypeOK
<1> QED BY <1>1, <1>3, <1>5, <1>6, <1>7 DEF Promise!Launch, Promise!Next

\* What the other steps touch.
LEMMA AttemptTouches ==
    ASSUME NodeInv, NEW a \in Actors, Attempt(a)
    PROVE  /\ \E r : act' = [act EXCEPT ![a] = r]
           /\ UNCHANGED <<cancelled, fixing>>
           /\ outputs \subseteq outputs' /\ outputs' \subseteq outputs \cup {a[1]}
           /\ a[2] = "fix" => outputs' = outputs
           /\ act[a].pc \notin Over
BY DEF Attempt, BeginAttempt, StartHookPasses, HookFails, RunnerFinishes, GatesEnd,
   GateIteration, GateFailureHook, SuccessHookPasses, AttemptRejects, ScheduleNodeRetry,
   FinishFailedNode, FinishHook, LastHookRejects, Becomes, nodeVars, Over

LEMMA AttemptKeepsPromise ==
    ASSUME NodeInv, NodeInv', NEW a \in Actors, Attempt(a)
    PROVE  [Promise!Next]_(Promise!vars)
<1> DEFINE n == a[1]
<1>1. /\ n \in Nodes /\ a \in {Main(n), Fix(n)} /\ UNCHANGED <<cancelled, fixing>>
      /\ \A b \in Actors \ {Main(n), Fix(n)} : act'[b] = act[b]
      /\ outputs \subseteq outputs' /\ outputs' \subseteq outputs \cup {n}
  BY ActorNames, AttemptTouches DEF NodeInv, TypeOK
<1>2. CASE a = Main(n)
  <2>1. CASE FinishHook(Main(n))
    BY <1>1, <2>1, FinishKeepsPromise
  <2>2. CASE LastHookRejects(Main(n))
    BY <1>1, <2>2, RejectionKeepsPromise
  <2>3. CASE act[Main(n)].pc \notin Over /\ act'[Main(n)].pc \notin Over
    BY <1>1, <2>3, UnseenStep
  <2> QED BY <1>1, <1>2, <2>1, <2>2, <2>3, LoopGoesOn
<1>3. CASE a = Fix(n)
  <2>1. act[Fix(n)].pc \notin Over
    BY <1>3, AttemptTouches
  <2>2. act[Main(n)].pc \in {"selfFix", "unitFix"}
    BY <1>1, <2>1 DEF NodeInv, FixAwaited, Over
  <2>3. act'[Main(n)] = act[Main(n)]
    BY <1>1, <1>3, ActorNames, AttemptTouches DEF NodeInv, TypeOK
  <2> QED BY <1>1, <2>2, <2>3, UnseenStep DEF Over
<1> QED BY <1>1, <1>2, <1>3

LEMMA RemediationKeepsPromise ==
    ASSUME NodeInv, NodeInv', NEW n \in Nodes, Remediation(n)
    PROVE  [Promise!Next]_(Promise!vars)
<1>1. CASE FixRejected(n)
  BY <1>1, RejectionKeepsPromise
<1> SUFFICES ASSUME ~FixRejected(n) PROVE [Promise!Next]_(Promise!vars)
  BY <1>1
<1>2. /\ cancelled' = cancelled
      /\ \A b \in Actors \ {Main(n), Fix(n)} : act'[b] = act[b]
      /\ \A m \in Nodes \ {n} : fixing'[m] = fixing[m]
  BY DEF Remediation, RemediateFailedNode, FixNotRemediated, SelfFixReturns, AncestorsStep,
     UnitFixReturns, NextStrategy, StartFix, Becomes, nodeVars, NodeInv, TypeOK
<1>3. outputs \subseteq outputs' /\ outputs' \subseteq outputs \cup {n}
  <2>1. CASE UnitFixReturns(n)
    <3>1. {fixing[n]} \cap Nodes \subseteq outputs   \* what was remediated has passed
      <4> SUFFICES ASSUME fixing[n] \in Nodes PROVE fixing[n] \in outputs
        OBVIOUS
      <4>1. fixing[n] \in Units
        BY PlanTyped DEF NodeInv, TypeOK
      <4>2. act[Main(fixing[n])].status = "passed"
        BY <4>1 DEF NodeInv, UnitsPassed
      <4> QED BY <4>2, ActorNames DEF NodeInv, RecordFits, OutputKept
    <3> QED BY <2>1, <3>1 DEF UnitFixReturns
  <2>2. CASE ~UnitFixReturns(n)
    BY <2>2 DEF Remediation, RemediateFailedNode, FixNotRemediated, SelfFixReturns,
       AncestorsStep, NextStrategy, StartFix
  <2> QED BY <2>1, <2>2
<1>4. act[Main(n)].pc \notin Over
  BY DEF Remediation, RemediateFailedNode, FixNotRemediated, SelfFixReturns, AncestorsStep,
     UnitFixReturns, NodeInv, FixAwaited, Over
<1>5. act'[Main(n)].pc \notin Over
  <2> DEFINE r == act[Main(n)]
  <2>1. r \in Actor /\ act \in [Actors -> Actor] /\ Main(n) \in Actors /\ Fix(n) \in Actors
        /\ Main(n) # Fix(n)
    BY ActorNames DEF NodeInv, TypeOK
  <2>2. Event(r, "PASSED") \in Actor /\ Event(r, "RETRYING") \in Actor
    BY <2>1, RecordTypes, Events
  <2>3. CASE RemediateFailedNode(n)
    BY <2>1, <2>3, RecordPlaces DEF RemediateFailedNode, StartFix, NextStrategy, Over
  <2>4. CASE FixNotRemediated(n)
    BY <1>4, <2>1, <2>4 DEF FixNotRemediated, Becomes
  <2>5. CASE SelfFixReturns(n)
    BY <2>1, <2>2, <2>5, RecordPlaces DEF SelfFixReturns, NextStrategy, Over
  <2>6. CASE AncestorsStep(n)
    BY <2>1, <2>2, <2>6, RecordPlaces DEF AncestorsStep, StartFix, Becomes, Over
  <2>7. CASE UnitFixReturns(n)
    BY <2>1, <2>7, RecordPlaces DEF UnitFixReturns, Over
  <2> QED BY <2>3, <2>4, <2>5, <2>6, <2>7 DEF Remediation
<1> QED BY <1>2, <1>3, <1>4, <1>5, UnseenStep

LEMMA CancelKeepsPromise == ASSUME NodeInv, Cancel PROVE Promise!Next
<1>1. UNCHANGED <<act, fixing, outputs>> /\ cancelled' = TRUE
  BY DEF Cancel, nodeVars
<1>2. \A m \in Nodes : SettledAs(m)' = SettledAs(m) /\ StatusAs(m)' = StatusAs(m)
                       /\ (Ended(m)' <=> Ended(m))
  BY <1>1 DEF SettledAs, StatusAs, Ended
<1>3. {m \in outputs : Ended(m)}' = {m \in outputs : Ended(m)}
  BY <1>1, <1>2 DEF NodeInv, TypeOK
<1> QED BY <1>1, <1>2, <1>3 DEF Promise!Cancel, Promise!Next

LEMMA StutterKeepsPromise == UNCHANGED vars => UNCHANGED Promise!vars
BY DEF vars, nodeVars, Promise!vars, SettledAs, StatusAs, Ended

\* PromiseKept: whatever the hooks, gates, retries and remediations do, the promise of
\* a launched node settles at most once and in one of the ways the scheduler's model
\* is built on.
THEOREM ExecutionKeepsPromise == Spec => PromiseKept
<1>1. Init => Promise!Init
  BY ActorNames DEF Init, NewActor, Promise!Init, SettledAs, StatusAs, Ended
<1>2. NodeInv /\ NodeInv' /\ [Next]_vars => [Promise!Next]_(Promise!vars)
  BY LaunchKeepsPromise, RemediationKeepsPromise, AttemptKeepsPromise, CancelKeepsPromise,
     StutterKeepsPromise DEF Next, Terminated
<1> QED BY <1>1, <1>2, AttemptLoopInvariant, PTL DEF Spec, PromiseKept, Promise!Spec
=============================================================================
