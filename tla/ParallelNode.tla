----------------------------- MODULE ParallelNode -----------------------------
(***************************************************************************)
(* Nodes of kind "parallel" (src/runtime/parallel-node/parallel-node.ts):   *)
(* children fanned out under maxParallelNodes and the semaphores of their   *)
(* categories, the fail-fast gate, a worktree leased per child, startup     *)
(* collection of stale worktrees and aggregation.  Several parallel nodes   *)
(* may be in flight in one process; the registry of worktrees is common to  *)
(* them.                                                                   *)
(*                                                                         *)
(* A child settles as NodePromise.tla allows, with the fan-out's signal in   *)
(* the place of the run's.  While git calls are pending in `sync` the event  *)
(* loop is blocked: only agents, or the death of the process, come between. *)
(* parallel_worktrees is enabled; without it the steps are the same less    *)
(* the worktrees.                                                          *)
(***************************************************************************)
EXTENDS FiniteSets, ParallelWorktrees

CONSTANTS
    Parents,       \* parallel nodes
    Children,      \* their children
    Kids,          \* [Parents -> SUBSET Children]
    Index,         \* [Children -> Nat], the order of declaration and of the registry
    Category,      \* [Children -> category or NoCategory]
    Configs,       \* [failFast, permits by category] the run may have
    MaxParallel,   \* maxParallelNodes
    MaxAttempts,   \* [Configs -> [Parents -> Nat]], executions in one process
    MaxCrashes     \* [Configs -> Nat], bound: deaths of the process

NoCategory == "none"

ASSUME KidsArePartition ==
    /\ Kids \in [Parents -> (SUBSET Children) \ {{}}]   \* nodes: nonEmptyMutableArray
    /\ \A p, q \in Parents : p # q => Kids[p] \cap Kids[q] = {}
    /\ UNION {Kids[p] : p \in Parents} = Children
ASSUME BoundsAreNaturals ==
    /\ MaxAttempts \in [Configs -> [Parents -> Nat]] /\ MaxCrashes \in [Configs -> Nat]
    /\ \A c \in Configs : c = [failFast |-> c.failFast, permits |-> c.permits]
ASSUME IndexIsOrder ==
    /\ Index \in [Children -> Nat]
    /\ \A c, d \in Children : Index[c] = Index[d] => c = d

VARIABLES
    failFast,   \* plan.execution.failFast, fixed for the run
    permits,    \* fan_out_width.by_category, fixed for the run
    aborted,    \* context.signal.aborted
    parent,     \* "idle", "gc", "fan", or how the attempt ended
    attempts,   \* executions of each parent in this process
    tripped,    \* parents whose fan-out controller was aborted by a failure
    child,      \* where a child is in its parent's current attempt
    runners,    \* agents that may be editing in a child's worktree
    wt,         \* worktrees by child
    sync,       \* the git call in progress, for which parent, and the children to
                \* release after it
    crashes

config == <<failFast, permits>>
Config == [failFast |-> failFast, permits |-> permits]
vars == <<config, aborted, parent, attempts, tripped, child, runners, wt,
          sync, crashes>>

Ended == {"exit0", "exit1", "rejected"}
Settled == {"passed", "ungated", "failed"}
Leased == {"creating", "working", "doomed"}
ChildStates == {"idle", "queued", "waiting", "skipped"} \cup Leased \cup Settled

NoCall == [op |-> "none"]
Calls == [op : {"create"}, of : Children, by : Parents, step : CreateSteps, rest : {{}}]
         \cup [op : {"release"}, of : Children, by : Parents, step : ReleaseSteps,
               rest : SUBSET Children]

TypeOK ==
    /\ Config \in Configs
    /\ aborted \in BOOLEAN
    /\ parent \in [Parents -> {"idle", "gc", "fan"} \cup Ended]
    /\ attempts \in [Parents -> Nat]
    /\ \A p \in Parents : attempts[p] <= MaxAttempts[Config][p]
    /\ tripped \in SUBSET Parents
    /\ child \in [Children -> ChildStates]
    /\ runners \in [Children -> Nat]
    /\ wt \in [Children -> Worktree]
    /\ sync \in Calls \cup {NoCall}
    /\ crashes \in 0..MaxCrashes[Config]

Init ==
    /\ \E c \in Configs : failFast = c.failFast /\ permits = c.permits
    /\ aborted = FALSE
    /\ parent = [p \in Parents |-> "idle"]
    /\ attempts = [p \in Parents |-> 0]
    /\ tripped = {}
    /\ child = [c \in Children |-> "idle"]
    /\ runners = [c \in Children |-> 0]
    /\ wt = [c \in Children |-> NoWorktree]
    /\ sync = NoCall
    /\ crashes = 0

ParentOf(c) == CHOOSE p \in Parents : c \in Kids[p]
In(p, S) == {c \in Kids[p] : child[c] \in S}
FirstOf(S) == {c \in S : \A d \in S : Index[c] <= Index[d]}
SameCategory(c) == {d \in Kids[ParentOf(c)] : Category[d] = Category[c]}

\* The signal of the children: under fail-fast the linked controller's.
Signal(p) == aborted \/ (failFast /\ p \in tripped)

\* p has the children of S released one after the other, in order.
Releases(p, S) ==
    IF S = {} THEN {NoCall}
    ELSE {[op |-> "release", of |-> c, by |-> p, step |-> "check", rest |-> S \ {c}] :
             c \in FirstOf(S)}

----------------------------------------------------------------------------
(* Starting: gc of every registered lease, then the fan-out. *)

\* A rejected promise ends the run: the scheduler launches nothing more.
RunStands == \A p \in Parents : parent[p] # "rejected"

\* The scheduler, or the node's attempt loop, executes the parallel node.
Begin(p) ==
    /\ sync = NoCall /\ ~aborted
    /\ parent[p] = "exit1" \/ (parent[p] = "idle" /\ RunStands)
    /\ attempts[p] < MaxAttempts[Config][p]
    /\ Cardinality({q \in Parents : parent[q] \in {"gc", "fan"}})
          < (IF failFast THEN 1 ELSE MaxParallel)
    /\ parent' = [parent EXCEPT ![p] = "gc"]
    /\ attempts' = [attempts EXCEPT ![p] = @ + 1]
    /\ sync' \in Releases(p, {c \in Children : wt[c].man # "none"})
    /\ UNCHANGED <<config, aborted, tripped, child, runners, wt, crashes>>

\* markNodeReady on a fresh fork of the state store, new semaphores and a new
\* controller.
FanOut(p) ==
    /\ sync = NoCall /\ parent[p] = "gc"
    /\ parent' = [parent EXCEPT ![p] = "fan"]
    /\ tripped' = tripped \ {p}
    /\ child' = [c \in Children |-> IF c \in Kids[p] THEN "queued" ELSE child[c]]
    /\ UNCHANGED <<config, aborted, attempts, runners, wt, sync, crashes>>

----------------------------------------------------------------------------
(* One child. *)

HasPermit(c) ==
    \/ Category[c] = NoCategory
    \/ Cardinality({d \in SameCategory(c) : child[d] \in Leased})
          < permits[Category[c]]

\* createChild, a synchronous call.
Lease(c) ==
    /\ child' = [child EXCEPT ![c] = "creating"]
    /\ sync' = [op |-> "create", of |-> c, by |-> ParentOf(c), step |-> "manifest",
                rest |-> {}]

\* forEach takes the next child when fewer than maxParallelNodes are under way;
\* the gate is looked at once, before the wait for a permit.
TakeChild(p) ==
    /\ sync = NoCall /\ parent[p] = "fan"
    /\ Cardinality(In(p, Leased \cup {"waiting"})) < MaxParallel
    /\ \E c \in FirstOf(In(p, {"queued"})) :
           IF failFast /\ Signal(p)
           THEN child' = [child EXCEPT ![c] = "skipped"] /\ UNCHANGED sync
           ELSE IF HasPermit(c) THEN Lease(c)
           ELSE child' = [child EXCEPT ![c] = "waiting"] /\ UNCHANGED sync
    /\ UNCHANGED <<config, aborted, parent, attempts, tripped, runners, wt, crashes>>

\* A released permit goes to the first waiter, which does not look at the gate.
Grant(p) ==
    /\ sync = NoCall /\ parent[p] = "fan"
    /\ \E c \in In(p, {"waiting"}) :
        /\ HasPermit(c)
        /\ c \in FirstOf(SameCategory(c) \cap In(p, {"waiting"}))
        /\ Lease(c)
    /\ UNCHANGED <<config, aborted, parent, attempts, tripped, runners, wt, crashes>>

\* executeNode: an aborted signal ends the first attempt before its agent runs.
StartedAs(c) == IF Signal(ParentOf(c)) THEN "doomed" ELSE "working"

\* A rejection is a defect: the siblings' fibers are interrupted and their
\* leases released, while the agents behind them go on.
Interrupt(p, rejecting) ==
    /\ parent' = [parent EXCEPT ![p] = "rejected"]
    /\ child' = [c \in Children |-> IF c \in Kids[p] THEN "idle" ELSE child[c]]
    /\ sync' \in Releases(p, In(p, {"working", "doomed"}) \cup rejecting)

\* One git command or manifest write of the call in progress.  One that throws
\* rejects the parallel node it was made for; the releases of an interruption
\* are finalizers of their own and go on with the next child.
SyncStep ==
    /\ sync # NoCall
    /\ LET c == sync.of
           after == IF sync.op = "create" THEN CreateStep(sync.step, wt[c])
                    ELSE ReleaseStep(sync.step, wt[c])
       IN  \E r \in after :
            /\ wt' = [wt EXCEPT ![c] = r.w]
            /\ CASE r.step \notin Ends ->
                      /\ sync' = [sync EXCEPT !.step = r.step]
                      /\ UNCHANGED <<child, parent, runners>>
                 [] r.step = "throws" /\ parent[sync.by] # "rejected" ->
                      Interrupt(sync.by, {}) /\ UNCHANGED runners
                 [] \/ r.step = "throws" /\ parent[sync.by] = "rejected"
                    \/ r.step = "done" /\ sync.op = "release" ->
                      /\ sync' \in Releases(sync.by, sync.rest)
                      /\ UNCHANGED <<child, parent, runners>>
                 [] OTHER ->
                      /\ sync' = NoCall
                      /\ child' = [child EXCEPT ![c] = StartedAs(c)]
                      /\ runners' = [runners EXCEPT ![c] =
                                        IF StartedAs(c) = "working" THEN @ + 1 ELSE @]
                      /\ UNCHANGED parent
    /\ UNCHANGED <<config, aborted, attempts, tripped, crashes>>

\* The agent edits or commits; it is not stopped by a blocked event loop.
Edit(c) ==
    /\ runners[c] > 0 /\ wt[c].dir
    /\ \E w \in {"dirty", "committed"} : wt' = [wt EXCEPT ![c].work = w]
    /\ UNCHANGED <<config, aborted, parent, attempts, tripped, child, runners,
                   sync, crashes>>

Outcomes(c) ==
    CASE child[c] = "doomed" -> {"failed"}
      [] Signal(ParentOf(c)) -> {"passed", "ungated", "failed"}
      [] OTHER -> {"passed", "failed"}

\* Mutant: a failed child keeps its worktree leased and its permit.
SettleLeaksLease(c) ==
    /\ sync = NoCall /\ child[c] \in {"working", "doomed"}
    /\ \E k \in Outcomes(c) :
        child' = [child EXCEPT ![c] = IF k = "failed" THEN "creating" ELSE k]
    /\ runners' = [runners EXCEPT ![c] = IF child[c] = "working" THEN @ - 1 ELSE @]
    /\ sync' \in Releases(ParentOf(c), {c})
    /\ UNCHANGED <<config, aborted, parent, attempts, tripped, wt, crashes>>

\* The promise of the child settles: its lease and its permit are released and
\* a failure trips the gate.
Settle(c) ==
    /\ sync = NoCall /\ child[c] \in {"working", "doomed"}
    /\ \E k \in Outcomes(c) :
        /\ child' = [child EXCEPT ![c] = k]
        /\ tripped' = IF failFast /\ k = "failed" THEN tripped \cup {ParentOf(c)}
                      ELSE tripped
    /\ runners' = [runners EXCEPT ![c] = IF child[c] = "working" THEN @ - 1 ELSE @]
    /\ sync' \in Releases(ParentOf(c), {c})
    /\ UNCHANGED <<config, aborted, parent, attempts, wt, crashes>>

Reject(c) ==
    /\ sync = NoCall /\ child[c] \in {"working", "doomed"}
    /\ runners' = [runners EXCEPT ![c] = IF child[c] = "working" THEN @ - 1 ELSE @]
    /\ Interrupt(ParentOf(c), {c})
    /\ UNCHANGED <<config, aborted, attempts, tripped, wt, crashes>>

\* A promise whose fiber was interrupted settles unobserved.
OrphanEnds(c) ==
    /\ sync = NoCall
    /\ runners[c] > (IF child[c] = "working" THEN 1 ELSE 0)
    /\ runners' = [runners EXCEPT ![c] = @ - 1]
    /\ UNCHANGED <<config, aborted, parent, attempts, tripped, child, wt, sync, crashes>>

----------------------------------------------------------------------------
(* The end of an attempt. *)

\* aggregateParallelResult leaves skipped children out of the results.
Aggregate(p) ==
    /\ sync = NoCall /\ parent[p] = "fan"
    /\ Kids[p] = In(p, Settled \cup {"skipped"})
    /\ parent' = [parent EXCEPT ![p] = IF In(p, {"failed"}) = {} THEN "exit0" ELSE "exit1"]
    /\ UNCHANGED <<config, aborted, attempts, tripped, child, runners, wt,
                   sync, crashes>>

Cancel ==
    /\ sync = NoCall /\ ~aborted
    /\ aborted' = TRUE
    /\ UNCHANGED <<config, parent, attempts, tripped, child, runners, wt, sync, crashes>>

\* The process dies, also between two git commands, and a new one resumes what
\* had not passed; its agents die with it.
Crash ==
    /\ crashes < MaxCrashes[Config]
    /\ crashes' = crashes + 1
    /\ aborted' = FALSE
    /\ parent' = [p \in Parents |-> IF parent[p] = "exit0"
                                    THEN parent[p] ELSE "idle"]
    /\ tripped' = {}
    /\ child' = [c \in Children |-> IF parent'[ParentOf(c)] = "idle" THEN "idle"
                                    ELSE child[c]]
    /\ attempts' = [p \in Parents |-> 0]
    /\ runners' = [c \in Children |-> 0]
    /\ sync' = NoCall
    /\ UNCHANGED <<config, wt>>

Parent(p) == Begin(p) \/ FanOut(p) \/ TakeChild(p) \/ Grant(p) \/ Aggregate(p)
Child(c) == Settle(c) \/ Reject(c)

Next ==
    \/ \E p \in Parents : Parent(p)
    \/ \E c \in Children : Child(c) \/ Edit(c) \/ OrphanEnds(c)
    \/ SyncStep \/ Cancel \/ Crash

Spec == Init /\ [][Next]_vars

\* The event loop runs what is due, git calls return and child promises settle.
Fairness ==
    /\ WF_vars(SyncStep)
    /\ \A p \in Parents : WF_vars(FanOut(p) \/ TakeChild(p) \/ Grant(p) \/ Aggregate(p))
    /\ \A c \in Children : WF_vars(Child(c))

FairSpec == Spec /\ Fairness

----------------------------------------------------------------------------
(* Properties. *)

\* "A worktree with dirty or unpushed work is retained (never deleted)": once no
\* agent works in it, no release, collection, retry or crash loses what it holds.
RetainedWorkKept ==
    [][\A c \in Children :
         wt[c].dir /\ wt[c].work # "clean" /\ runners[c] = 0
         => wt'[c].dir /\ wt'[c].work = wt[c].work]_vars

\* Whatever the moment of a crash, a worktree directory has a manifest the next
\* collection will look at.
WorktreesAreRegistered ==
    \A c \in Children : wt[c].dir => wt[c].man \notin {"none", "removed"}

\* A fan-out comes to an end: permits are handed on and the gate leaves nobody
\* waiting.
FanOutEnds == \A p \in Parents : parent[p] = "fan" ~> parent[p] # "fan"
=============================================================================
