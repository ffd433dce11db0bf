----------------------------- MODULE FanOutProofs -----------------------------
(***************************************************************************)
(* Theorems about ParallelNode and FanOutDelivery, for any parallel nodes,    *)
(* children, order, caps, permits and number of deaths of the process: no     *)
(* worktree directory escapes the collection, no work in one is lost, and     *)
(* what drain-merge and open-pull-request report as done is done.             *)
(***************************************************************************)
EXTENDS FanOutDelivery, TLAPS

----------------------------------------------------------------------------
(* The inductive invariant of the fan-out. *)

\* A child under way is one of a fan-out under way.  Only a rejection leaves agents
\* behind that nobody waits for.
ChildFits(c) ==
    /\ child[c] \in Leased \cup {"queued", "waiting"} => parent[ParentOf(c)] = "fan"
    /\ parent[ParentOf(c)] # "rejected" =>
          runners[c] = IF child[c] = "working" THEN 1 ELSE 0

\* A directory goes only when there was nothing in it to keep, or when an agent
\* that is still at work put it there after the check.
CallFits ==
    /\ sync # NoCall => parent[sync.by] \in {"gc", "fan", "rejected"}
    /\ sync.op = "create" =>
          /\ child[sync.of] = "creating" /\ sync.by = ParentOf(sync.of)
          /\ sync.step # "manifest" => wt[sync.of].man = "creating"
    /\ sync.op = "release" =>
          /\ sync.step = "remove" /\ wt[sync.of].work # "clean" => runners[sync.of] > 0
          /\ sync.step \in {"branch", "forget"} => ~wt[sync.of].dir

FanOutInv ==
    /\ TypeOK
    /\ \A c \in Children : ChildFits(c)
    /\ CallFits
    /\ WorktreesAreRegistered

----------------------------------------------------------------------------
(* The inductive invariant of the delivery. *)

Content == Children \cup {Base, Uncommitted, Others}
Merges == [pc : {"idle", "merging", "aborting", "exit0", "exit1"},
           left : SUBSET Children, conflicts : BOOLEAN, runs : Nat]
Deliveries == [pc : {"idle", "checkout", "commit", "push", "submit", "exit0", "exit1"},
               mode : {"unknown", "create-new-pr", "update-existing-pr"},
               dirty : BOOLEAN, runs : Nat]
Branches == [main : SUBSET Content, integration : SUBSET Content, head : SUBSET Content]

DeliveryTyped ==
    /\ outputs \in SUBSET Kids[Fan] /\ ahead \in SUBSET Children
    /\ checkout \in [on : {"main", "integration", "head"}, unmerged : BOOLEAN]
    /\ branches \in Branches
    /\ merge \in Merges
    /\ delivery \in Deliveries
    /\ origin \in [head : SUBSET Content, pull : BOOLEAN]
    /\ lease \in SUBSET Content

\* While the branches are joined the parallel node does not run, and its agents
\* have ended.  What the process was told of is merged, to be merged or reported.
MergeFits ==
    merge.pc \in {"merging", "aborting"} =>
        /\ FanSettled
        /\ checkout.on = "integration"
        /\ ~merge.conflicts => outputs \cap ahead \subseteq merge.left

\* The integration branch is in what is checked out, and open-pull-request
\* carries it along: to the head branch, and from there to the remote.
DeliveryFits ==
    /\ checkout.on = "main" => branches.integration = {}
    /\ checkout.on = "head" => branches.integration \subseteq branches.head
    /\ checkout.on = "head" \/ delivery.pc # "idle" => merge.pc = "exit0"
    /\ delivery.pc \in {"commit", "push", "submit"} =>
          branches.integration \subseteq branches.head
    /\ delivery.pc \in {"push", "submit"} => ~delivery.dirty
    /\ delivery.pc = "submit" => branches.head \subseteq origin.head

DeliveryInv == FanOutInv /\ DeliveryTyped /\ MergeFits /\ DeliveryFits

----------------------------------------------------------------------------
(* Parents, calls and worktrees. *)

LEMMA ParentIs ==
    /\ \A c \in Children : ParentOf(c) \in Parents /\ c \in Kids[ParentOf(c)]
    /\ \A p \in Parents : Kids[p] \subseteq Children
    /\ \A p \in Parents, c \in Children : c \in Kids[p] => ParentOf(c) = p
<1>1. \A p \in Parents : Kids[p] \subseteq Children
  BY KidsArePartition
<1>2. ASSUME NEW c \in Children
      PROVE  ParentOf(c) \in Parents /\ c \in Kids[ParentOf(c)]
  <2>1. \E p \in Parents : c \in Kids[p]
    BY KidsArePartition
  <2> QED
    BY <2>1 DEF ParentOf
<1>3. ASSUME NEW p \in Parents, NEW c \in Children, c \in Kids[p]
      PROVE  ParentOf(c) = p
  BY <1>2, <1>3, KidsArePartition
<1> QED
  BY <1>1, <1>2, <1>3

LEMMA ReleasesTyped ==
    ASSUME NEW p \in Parents, NEW S \in SUBSET Children, NEW q \in Releases(p, S)
    PROVE  /\ q \in Calls \cup {NoCall}
           /\ q = NoCall \/ (q.op = "release" /\ q.step = "check" /\ q.by = p)
<1>1. FirstOf(S) \subseteq S
  BY DEF FirstOf
<1> QED
  BY <1>1 DEF Releases, Calls, ReleaseSteps

LEMMA CallTyped ==
    ASSUME NEW q \in Calls \cup {NoCall}
    PROVE  /\ q.op \in {"none", "create", "release"}
           /\ q.op = "none" <=> q = NoCall
           /\ q # NoCall => q.of \in Children /\ q.by \in Parents /\ q.rest \in SUBSET Children
           /\ q.op = "create" => q.step \in CreateSteps
           /\ q.op = "release" => q.step \in ReleaseSteps
           /\ \A t : LET s == [q EXCEPT !.step = t]
                    IN  s.op = q.op /\ s.of = q.of /\ (q # NoCall => s.by = q.by)
           /\ q.op = "create" => \A t \in CreateSteps : [q EXCEPT !.step = t] \in Calls
           /\ q.op = "release" => \A t \in ReleaseSteps : [q EXCEPT !.step = t] \in Calls
           /\ q # NoCall => \A t : [q EXCEPT !.step = t].step = t
<1>1. CASE q = NoCall
  BY <1>1 DEF NoCall
<1>2. CASE q \in [op : {"create"}, of : Children, by : Parents, step : CreateSteps,
                  rest : {{}}]
  BY <1>2 DEF NoCall, Calls
<1>3. CASE q \in [op : {"release"}, of : Children, by : Parents, step : ReleaseSteps,
                  rest : SUBSET Children]
  BY <1>3 DEF NoCall, Calls
<1> QED
  BY <1>1, <1>2, <1>3 DEF Calls

\* Fields of a worktree that a step replaces, and those it leaves.
LEMMA WorktreeUpdates ==
    ASSUME NEW w \in Worktree, NEW q
    PROVE  /\ \A v \in ManifestStates : q = [w EXCEPT !.man = v] =>
                  q \in Worktree /\ q.man = v /\ q.dir = w.dir /\ q.work = w.work
           /\ \A b \in BOOLEAN : q = [w EXCEPT !.behind = b] =>
                  q \in Worktree /\ q.man = w.man /\ q.dir = w.dir /\ q.work = w.work
           /\ q = [w EXCEPT !.dir = TRUE, !.branch = TRUE, !.work = "clean",
                            !.behind = FALSE] =>
                  q \in Worktree /\ q.man = w.man
           /\ q = [w EXCEPT !.dir = FALSE, !.work = "clean"] =>
                  q \in Worktree /\ ~q.dir
           /\ \A b \in BOOLEAN : q = [w EXCEPT !.branch = b] =>
                  q \in Worktree /\ q.man = w.man /\ q.dir = w.dir /\ q.work = w.work
           /\ \A v \in {"dirty", "committed"} : q = [w EXCEPT !.work = v] =>
                  q \in Worktree /\ q.man = w.man /\ q.dir = w.dir
  BY DEF Worktree

LEMMA AfterIs ==
    \A w, step : After(w, step).w = w /\ After(w, step).step = step
  BY DEF After

LEMMA StatesOfManifests ==
    /\ {"none", "creating", "active", "removed"} \subseteq ManifestStates
    /\ Retained \subseteq ManifestStates /\ "none" \notin Retained /\ "removed" \notin Retained
  BY DEF ManifestStates, Retained

\* A step of createChildWorktree.
LEMMA CreateStepIs ==
    ASSUME NEW w \in Worktree, NEW step \in CreateSteps, NEW r \in CreateStep(step, w),
           step # "manifest" => w.man = "creating",
           w.dir => w.man \notin {"none", "removed"}
    PROVE  /\ r.w \in Worktree /\ r.step \in {"add", "activate"} \cup Ends
           /\ r.step \notin Ends => r.w.man = "creating"
           /\ r.w.dir => r.w.man \notin {"none", "removed"}
           /\ w.dir => r.w.dir /\ r.w.work = w.work
<1>0. CASE r \in Throws(w)
  <2>1. r.w = w /\ r.step = "throws"
    BY <1>0, AfterIs DEF Throws
  <2> QED
    BY <2>1 DEF Ends
<1>1. CASE step = "manifest" /\ r \notin Throws(w)
  <2>1. r = After([w EXCEPT !.man = "creating"], "add")
    BY <1>1 DEF CreateStep
  <2>2. r.w = [w EXCEPT !.man = "creating"] /\ r.step = "add"
    BY <2>1, AfterIs
  <2>3. r.w \in Worktree /\ r.w.man = "creating" /\ r.w.dir = w.dir /\ r.w.work = w.work
    BY <2>2 DEF Worktree, ManifestStates
  <2> QED
    BY <2>2, <2>3
<1>2. CASE step = "add" /\ r \notin Throws(w)
  <2>1. r \in AddWorktree(w)
    BY <1>2 DEF CreateStep
  <2>2. CASE w.dir
    <3>1. PICK b \in BOOLEAN : r = After([w EXCEPT !.behind = b], "activate")
      BY <2>1, <2>2 DEF AddWorktree
    <3>2. r.w = [w EXCEPT !.behind = b] /\ r.step = "activate"
      BY <3>1, AfterIs
    <3>3. r.w \in Worktree /\ r.w.man = w.man /\ r.w.dir = w.dir /\ r.w.work = w.work
      BY <3>2 DEF Worktree
    <3> QED
      BY <1>2, <3>2, <3>3
  <2>3. CASE ~w.dir /\ r = After([w EXCEPT !.branch = TRUE], "throws")
    <3>1. r.w = [w EXCEPT !.branch = TRUE] /\ r.step = "throws"
      BY <2>3, AfterIs
    <3> QED
      BY <1>2, <2>3, <3>1, WorktreeUpdates DEF Ends
  <2>4. CASE ~w.dir /\ r # After([w EXCEPT !.branch = TRUE], "throws")
    <3>1. r.w = [w EXCEPT !.dir = TRUE, !.branch = TRUE, !.work = "clean",
                          !.behind = FALSE]
          /\ r.step = "activate"
      BY <2>1, <2>4, AfterIs DEF AddWorktree
    <3> QED
      BY <1>2, <2>4, <3>1, WorktreeUpdates
  <2> QED
    BY <2>2, <2>3, <2>4
<1>3. CASE step = "activate" /\ r \notin Throws(w)
  <2>1. r = After([w EXCEPT !.man = "active"], "done")
    BY <1>3 DEF CreateStep
  <2>2. r.w = [w EXCEPT !.man = "active"] /\ r.step = "done"
    BY <2>1, AfterIs
  <2>3. r.w \in Worktree /\ r.w.man = "active" /\ r.w.dir = w.dir /\ r.w.work = w.work
    BY <2>2 DEF Worktree, ManifestStates
  <2> QED
    BY <2>2, <2>3 DEF Ends
<1> QED
  BY <1>0, <1>1, <1>2, <1>3 DEF CreateSteps

\* A step of releaseWorktree.
LEMMA ReleaseStepIs ==
    ASSUME NEW w \in Worktree, NEW step \in ReleaseSteps, NEW r \in ReleaseStep(step, w),
           step \in {"branch", "forget"} => ~w.dir,
           w.dir => w.man \notin {"none", "removed"}
    PROVE  /\ r.w \in Worktree /\ r.step \in {"remove", "branch", "forget"} \cup Ends
           /\ r.step = "remove" => r.w = w /\ w.work = "clean" /\ step = "check"
           /\ r.step \in {"branch", "forget"} => ~r.w.dir
           /\ r.w.dir => r.w.man \notin {"none", "removed"}
           /\ w.dir /\ step # "remove" => r.w.dir /\ r.w.work = w.work
<1> USE DEF Ends
<1>0. CASE r \in Throws(w)
  <2>1. r.w = w /\ r.step = "throws"
    BY <1>0, AfterIs DEF Throws
  <2> QED
    BY <2>1
<1>1. CASE step = "check" /\ r \notin Throws(w)
  <2>1. r = Guard(w)
    BY <1>1 DEF ReleaseStep
  <2>2. /\ RetentionState(w) # "remove" => RetentionState(w) \in Retained
        /\ RetentionState(w) = "remove" => w.work = "clean"
    BY DEF RetentionState, Retained, Worktree
  <2>3. CASE w.man = "none"
    <3>1. r.w = w /\ r.step = "done"
      BY <2>1, <2>3, AfterIs DEF Guard
    <3> QED
      BY <2>3, <3>1
  <2>4. CASE w.man # "none" /\ ~w.dir
    <3>1. r.w = [w EXCEPT !.man = "removed"] /\ r.step = "done"
      BY <2>1, <2>4, AfterIs DEF Guard
    <3> QED
      BY <2>4, <3>1, WorktreeUpdates, StatesOfManifests
  <2>5. CASE w.man # "none" /\ w.dir /\ RetentionState(w) # "remove"
    <3>1. r.w = [w EXCEPT !.man = RetentionState(w)] /\ r.step = "done"
      BY <2>1, <2>5, AfterIs DEF Guard
    <3>2. /\ r.w \in Worktree /\ r.w.man = RetentionState(w)
          /\ r.w.dir = w.dir /\ r.w.work = w.work
      BY <2>2, <2>5, <3>1, WorktreeUpdates, StatesOfManifests
    <3> QED
      BY <2>2, <2>5, <3>1, <3>2, StatesOfManifests
  <2>6. CASE w.man # "none" /\ w.dir /\ RetentionState(w) = "remove"
    <3>1. r.w = w /\ r.step = "remove"
      BY <2>1, <2>6, AfterIs DEF Guard
    <3> QED
      BY <1>1, <2>2, <2>6, <3>1
  <2> QED
    BY <2>3, <2>4, <2>5, <2>6 DEF Worktree
<1>2. CASE step = "remove" /\ r \notin Throws(w)
  <2>1. r.w = [w EXCEPT !.dir = FALSE, !.work = "clean"] /\ r.step = "branch"
    BY <1>2, AfterIs DEF ReleaseStep
  <2> QED
    BY <1>2, <2>1, WorktreeUpdates
<1>3. CASE step = "branch" /\ r \notin Throws(w)
  <2>1. r.w = [w EXCEPT !.branch = FALSE] /\ r.step = "forget"
    BY <1>3, AfterIs DEF ReleaseStep
  <2> QED
    BY <1>3, <2>1, WorktreeUpdates
<1>4. CASE step = "forget" /\ r \notin Throws(w)
  <2>1. r.w = [w EXCEPT !.man = "removed"] /\ r.step = "done"
    BY <1>4, AfterIs DEF ReleaseStep
  <2>2. r.w \in Worktree /\ r.w.man = "removed" /\ r.w.dir = w.dir /\ r.w.work = w.work
    BY <2>1 DEF Worktree, ManifestStates
  <2> QED
    BY <1>4, <2>1, <2>2
<1> QED
  BY <1>0, <1>1, <1>2, <1>3, <1>4 DEF ReleaseSteps

----------------------------------------------------------------------------
(* Steps of the fan-out. *)

LEMMA FanOutStart == Init => FanOutInv
<1> SUFFICES ASSUME Init
             PROVE  FanOutInv
  OBVIOUS
<1>1. Config \in Configs
  BY BoundsAreNaturals DEF Init, Config
<1>2. TypeOK
  <2>1. wt \in [Children -> Worktree]
    BY DEF Init, NoWorktree, Worktree, ManifestStates
  <2>2. MaxAttempts[Config] \in [Parents -> Nat]
    BY <1>1, BoundsAreNaturals
  <2>3. /\ attempts \in [Parents -> Nat] /\ crashes \in 0..MaxCrashes[Config]
        /\ \A p \in Parents : attempts[p] <= MaxAttempts[Config][p]
    BY <1>1, <2>2, BoundsAreNaturals DEF Init
  <2>4. child \in [Children -> ChildStates]
    BY DEF Init, ChildStates
  <2>5. sync \in Calls \cup {NoCall}
    BY DEF Init
  <2>6. aborted \in BOOLEAN /\ tripped \in SUBSET Parents /\ runners \in [Children -> Nat]
        /\ parent \in [Parents -> {"idle", "gc", "fan"} \cup Ended]
    BY DEF Init
  <2> QED
    BY <1>1, <2>1, <2>3, <2>4, <2>5, <2>6 DEF TypeOK
<1>3. \A c \in Children : ChildFits(c)
  BY DEF Init, ChildFits, Leased
<1>4. CallFits /\ WorktreesAreRegistered
  BY DEF Init, CallFits, NoCall, NoWorktree, WorktreesAreRegistered
<1> QED
  BY <1>2, <1>3, <1>4 DEF FanOutInv

\* The configuration is fixed for the run.
LEMMA ConfigIsFixed == UNCHANGED config => Config' = Config
  BY DEF config, Config

\* No release is past its check when it is asked for.
LEMMA CallFitsReleases ==
    ASSUME NEW p \in Parents, NEW S \in SUBSET Children, sync' \in Releases(p, S),
           parent'[p] \in {"gc", "fan", "rejected"}
    PROVE  sync' \in Calls \cup {NoCall} /\ CallFits'
<1>1. /\ sync' \in Calls \cup {NoCall}
      /\ sync' = NoCall \/ (sync'.op = "release" /\ sync'.step = "check" /\ sync'.by = p)
  BY ReleasesTyped
<1> QED
  BY <1>1 DEF CallFits, NoCall

LEMMA NoCallFits == sync' = NoCall => CallFits'
  BY DEF NoCall, CallFits

LEMMA BeginKeeps ==
    ASSUME FanOutInv, NEW p \in Parents, Begin(p)
    PROVE  FanOutInv'
<1>1. sync' \in Calls \cup {NoCall} /\ CallFits'
  <2>1. parent'[p] = "gc"
    BY DEF Begin, FanOutInv, TypeOK
  <2> QED
    BY <2>1, CallFitsReleases DEF Begin
<1>2. TypeOK'
  BY <1>1, ConfigIsFixed, BoundsAreNaturals DEF Begin, FanOutInv, TypeOK
<1>3. \A c \in Children : ChildFits(c)'
  BY ParentIs DEF Begin, FanOutInv, TypeOK, ChildFits
<1> QED
  BY <1>1, <1>2, <1>3 DEF Begin, FanOutInv, WorktreesAreRegistered

LEMMA FanOutKeeps ==
    ASSUME FanOutInv, NEW p \in Parents, FanOut(p)
    PROVE  FanOutInv'
<1>1. TypeOK'
  BY ConfigIsFixed DEF FanOut, FanOutInv, TypeOK, ChildStates
<1>2. \A c \in Children : ChildFits(c)'
  BY ParentIs DEF FanOut, FanOutInv, TypeOK, ChildFits, Leased
<1>3. CallFits'
  BY NoCallFits DEF FanOut
<1> QED
  BY <1>1, <1>2, <1>3 DEF FanOut, FanOutInv, WorktreesAreRegistered

\* A queued or waiting child gets its permit, is skipped or waits.
LEMMA TakenKeeps ==
    ASSUME FanOutInv, NEW p \in Parents, parent[p] = "fan", sync = NoCall,
           NEW c \in Kids[p], child[c] \in {"queued", "waiting"},
           \/ Lease(c)
           \/ \E k \in {"skipped", "waiting"} :
                  child' = [child EXCEPT ![c] = k] /\ UNCHANGED sync,
           UNCHANGED <<config, aborted, parent, attempts, tripped, runners, wt, crashes>>
    PROVE  FanOutInv'
<1>1. c \in Children /\ ParentOf(c) = p
  BY ParentIs
<1>2. sync' \in Calls \cup {NoCall} /\ CallFits'
  <2>1. CASE Lease(c)
    BY <1>1, <2>1 DEF Lease, Calls, CreateSteps, CallFits, FanOutInv, TypeOK
  <2>2. CASE UNCHANGED sync
    BY <2>2, NoCallFits
  <2> QED
    BY <2>1, <2>2
<1>3. PICK k \in {"creating", "skipped", "waiting"} : child' = [child EXCEPT ![c] = k]
  BY DEF Lease
<1>4. TypeOK'
  BY <1>2, <1>3, ConfigIsFixed DEF FanOutInv, TypeOK, ChildStates, Leased
<1>5. \A d \in Children : ChildFits(d)'
  BY <1>1, <1>3 DEF FanOutInv, TypeOK, ChildFits, Leased
<1> QED
  BY <1>2, <1>4, <1>5 DEF FanOutInv, WorktreesAreRegistered

\* The fibers of a fan-out are interrupted.
LEMMA InterruptKeeps ==
    ASSUME FanOutInv, NEW p \in Parents, NEW R \in SUBSET Children, Interrupt(p, R)
    PROVE  /\ parent' \in [Parents -> {"idle", "gc", "fan"} \cup Ended]
           /\ child' \in [Children -> ChildStates]
           /\ sync' \in Calls \cup {NoCall} /\ CallFits'
           /\ \A c \in Children :
                  \/ child'[c] = "idle" /\ parent'[ParentOf(c)] = "rejected"
                  \/ c \notin Kids[p] /\ child'[c] = child[c]
                     /\ parent'[ParentOf(c)] = parent[ParentOf(c)]
<1>1. parent' \in [Parents -> {"idle", "gc", "fan"} \cup Ended]
  BY DEF Interrupt, FanOutInv, TypeOK, Ended
<1>2. child' \in [Children -> ChildStates]
  BY DEF Interrupt, FanOutInv, TypeOK, ChildStates
<1>3. In(p, {"working", "doomed"}) \cup R \in SUBSET Children
  BY ParentIs DEF In
<1>4. sync' \in Calls \cup {NoCall} /\ CallFits'
  <2>1. parent'[p] = "rejected"
    BY DEF Interrupt, FanOutInv, TypeOK
  <2> QED
    BY <1>3, <2>1, CallFitsReleases DEF Interrupt
<1>5. ASSUME NEW c \in Children
      PROVE  \/ child'[c] = "idle" /\ parent'[ParentOf(c)] = "rejected"
             \/ c \notin Kids[p] /\ child'[c] = child[c]
                /\ parent'[ParentOf(c)] = parent[ParentOf(c)]
  BY <1>5, ParentIs DEF Interrupt, FanOutInv, TypeOK
<1> QED
  BY <1>1, <1>2, <1>4, <1>5

LEMMA SettleKeeps ==
    ASSUME FanOutInv, NEW c \in Children, Settle(c)
    PROVE  FanOutInv'
<1>1. PICK k \in Settled :
          /\ child' = [child EXCEPT ![c] = k]
          /\ tripped' = IF failFast /\ k = "failed" THEN tripped \cup {ParentOf(c)}
                        ELSE tripped
  BY DEF Settle, Outcomes, Settled
<1>2. sync' \in Calls \cup {NoCall} /\ CallFits'
  <2>1. ParentOf(c) \in Parents /\ parent'[ParentOf(c)] = "fan"
    BY ParentIs DEF Settle, FanOutInv, ChildFits, Leased
  <2> QED
    BY <2>1, CallFitsReleases DEF Settle
<1>3. /\ runners' \in [Children -> Nat] /\ runners'[c] = 0
      /\ \A d \in Children : d # c => runners'[d] = runners[d]
  <2>1. /\ parent[ParentOf(c)] = "fan" /\ child[c] \in {"working", "doomed"}
        /\ runners[c] = IF child[c] = "working" THEN 1 ELSE 0
    BY DEF Settle, FanOutInv, ChildFits, Leased
  <2> QED
    BY <2>1 DEF Settle, FanOutInv, TypeOK
<1>4. TypeOK'
  BY <1>1, <1>2, <1>3, ParentIs, ConfigIsFixed
  DEF Settle, FanOutInv, TypeOK, ChildStates
<1>5. \A d \in Children : ChildFits(d)'
  BY <1>1, <1>3 DEF Settle, FanOutInv, TypeOK, ChildFits, Settled, Leased
<1> QED
  BY <1>2, <1>4, <1>5 DEF Settle, FanOutInv, WorktreesAreRegistered

LEMMA RejectKeeps ==
    ASSUME FanOutInv, NEW c \in Children, Reject(c)
    PROVE  FanOutInv'
<1>1. /\ parent' \in [Parents -> {"idle", "gc", "fan"} \cup Ended]
      /\ child' \in [Children -> ChildStates]
      /\ sync' \in Calls \cup {NoCall} /\ CallFits'
      /\ \A d \in Children :
             \/ child'[d] = "idle" /\ parent'[ParentOf(d)] = "rejected"
             \/ d \notin Kids[ParentOf(c)] /\ child'[d] = child[d]
                /\ parent'[ParentOf(d)] = parent[ParentOf(d)]
  BY ParentIs, InterruptKeeps DEF Reject
<1>2. runners' \in [Children -> Nat] /\ \A d \in Children : d # c => runners'[d] = runners[d]
  BY DEF Reject, FanOutInv, TypeOK, ChildFits, Leased
<1>3. TypeOK'
  BY <1>1, <1>2, ConfigIsFixed DEF Reject, FanOutInv, TypeOK
<1>4. \A d \in Children : ChildFits(d)'
  BY <1>1, <1>2, ParentIs DEF FanOutInv, ChildFits, Leased
<1> QED
  BY <1>1, <1>3, <1>4 DEF Reject, FanOutInv, WorktreesAreRegistered

LEMMA OrphanEndsKeeps ==
    ASSUME FanOutInv, NEW c \in Children, OrphanEnds(c)
    PROVE  FanOutInv'
<1>1. runners' \in [Children -> Nat]
  BY DEF OrphanEnds, FanOutInv, TypeOK
<1>2. TypeOK'
  BY <1>1, ConfigIsFixed DEF OrphanEnds, FanOutInv, TypeOK
<1>3. \A d \in Children : ChildFits(d)'
  <2>1. parent[ParentOf(c)] = "rejected"
    BY DEF OrphanEnds, FanOutInv, ChildFits
  <2>2. \A d \in Children : d # c => runners'[d] = runners[d]
    BY DEF OrphanEnds, FanOutInv, TypeOK
  <2> QED
    BY <2>1, <2>2 DEF OrphanEnds, FanOutInv, ChildFits
<1>4. CallFits'
  BY NoCallFits DEF OrphanEnds
<1> QED
  BY <1>2, <1>3, <1>4 DEF OrphanEnds, FanOutInv, WorktreesAreRegistered

\* The agent works on; it is at work, so nothing it adds is lost to the check.
LEMMA EditKeeps ==
    ASSUME FanOutInv, NEW c \in Children, Edit(c)
    PROVE  FanOutInv'
<1>1. PICK v \in {"dirty", "committed"} : wt' = [wt EXCEPT ![c].work = v]
  BY DEF Edit
<1>2. /\ wt' \in [Children -> Worktree]
      /\ \A d \in Children : wt'[d].man = wt[d].man /\ wt'[d].dir = wt[d].dir
      /\ \A d \in Children : d # c => wt'[d] = wt[d]
  BY <1>1 DEF FanOutInv, TypeOK, Worktree
<1>3. TypeOK'
  BY <1>2, ConfigIsFixed DEF Edit, FanOutInv, TypeOK
<1>4. \A d \in Children : ChildFits(d)'
  BY DEF Edit, FanOutInv, ChildFits
<1>5. CallFits'
  BY <1>2, CallTyped DEF Edit, FanOutInv, TypeOK, CallFits
<1>6. WorktreesAreRegistered'
  BY <1>2 DEF FanOutInv, WorktreesAreRegistered
<1> QED
  BY <1>3, <1>4, <1>5, <1>6 DEF FanOutInv

LEMMA AggregateKeeps ==
    ASSUME FanOutInv, NEW p \in Parents, Aggregate(p)
    PROVE  FanOutInv'
<1>1. TypeOK'
  BY ConfigIsFixed DEF Aggregate, FanOutInv, TypeOK, Ended
<1>2. \A c \in Children : ChildFits(c)'
  BY ParentIs DEF Aggregate, FanOutInv, TypeOK, ChildFits, In, Settled, Leased
<1>3. CallFits'
  BY NoCallFits DEF Aggregate
<1> QED
  BY <1>1, <1>2, <1>3 DEF Aggregate, FanOutInv, WorktreesAreRegistered

LEMMA CancelKeeps ==
    ASSUME FanOutInv, Cancel
    PROVE  FanOutInv'
  BY NoCallFits, ConfigIsFixed
  DEF Cancel, FanOutInv, TypeOK, ChildFits, WorktreesAreRegistered

LEMMA CrashKeeps ==
    ASSUME FanOutInv, Crash
    PROVE  FanOutInv'
<1>1. parent' \in [Parents -> {"idle", "gc", "fan"} \cup Ended]
  BY DEF Crash, FanOutInv, TypeOK, Ended
<1>2. \A p \in Parents : parent'[p] = "idle" \/ (parent'[p] = "exit0" /\ parent[p] = "exit0")
  BY DEF Crash
<1>3. /\ child' \in [Children -> ChildStates]
      /\ \A c \in Children : child'[c] = "idle"
                             \/ (child'[c] = child[c] /\ parent[ParentOf(c)] = "exit0")
  BY <1>2, ParentIs DEF Crash, FanOutInv, TypeOK, ChildStates
<1>4. TypeOK'
  <2>1. crashes' \in 0..MaxCrashes[Config]
    BY BoundsAreNaturals DEF Crash, FanOutInv, TypeOK
  <2>2. /\ aborted' \in BOOLEAN /\ tripped' \in SUBSET Parents
        /\ runners' \in [Children -> Nat] /\ sync' \in Calls \cup {NoCall}
    BY DEF Crash
  <2>3. UNCHANGED <<config, wt>>
    BY DEF Crash
  <2>4. /\ attempts' \in [Parents -> Nat]
        /\ \A p \in Parents : attempts'[p] <= MaxAttempts[Config][p]
    BY BoundsAreNaturals DEF Crash, FanOutInv, TypeOK
  <2> QED
    BY <1>1, <1>3, <2>1, <2>2, <2>3, <2>4, ConfigIsFixed DEF FanOutInv, TypeOK
<1>5. \A c \in Children : ChildFits(c)'
  BY <1>3 DEF Crash, FanOutInv, ChildFits, Leased
<1>6. CallFits'
  BY NoCallFits DEF Crash
<1> QED
  BY <1>4, <1>5, <1>6 DEF Crash, FanOutInv, WorktreesAreRegistered

\* What a git command does to the worktree of its call.
LEMMA SyncStepIs ==
    ASSUME FanOutInv, SyncStep
    PROVE  LET c == sync.of IN
           /\ c \in Children /\ sync # NoCall /\ sync.by \in Parents
           /\ wt' = [wt EXCEPT ![c] = wt'[c]] /\ wt'[c] \in Worktree
           /\ wt'[c].dir => wt'[c].man \notin {"none", "removed"}
           /\ wt[c].dir /\ ~(sync.op = "release" /\ sync.step = "remove") =>
                  wt'[c].dir /\ wt'[c].work = wt[c].work
           /\ UNCHANGED <<config, aborted, attempts, tripped, crashes>>
           /\ \/ /\ sync.op = "create" => wt'[c].man = "creating"
                 /\ \E t : /\ sync' = [sync EXCEPT !.step = t]
                           /\ sync.op = "create" => t \in CreateSteps
                           /\ sync.op = "release" =>
                                 /\ t \in ReleaseSteps
                                 /\ t = "remove" => wt'[c].work = "clean"
                                 /\ t \in {"branch", "forget"} => ~wt'[c].dir
                 /\ UNCHANGED <<child, parent, runners>>
              \/ /\ parent[sync.by] # "rejected"
                 /\ Interrupt(sync.by, {}) /\ UNCHANGED runners
              \/ sync' \in Releases(sync.by, sync.rest) /\ UNCHANGED <<child, parent, runners>>
              \/ /\ sync.op = "create" /\ sync' = NoCall
                 /\ child' = [child EXCEPT ![c] = StartedAs(c)]
                 /\ runners' = [runners EXCEPT ![c] =
                                   IF StartedAs(c) = "working" THEN @ + 1 ELSE @]
                 /\ UNCHANGED parent
<1> DEFINE c == sync.of
           after == IF sync.op = "create" THEN CreateStep(sync.step, wt[c])
                    ELSE ReleaseStep(sync.step, wt[c])
<1>1. /\ sync # NoCall /\ c \in Children /\ sync.by \in Parents
      /\ sync.op \in {"create", "release"}
      /\ sync.op = "create" => sync.step \in CreateSteps
      /\ sync.op = "release" => sync.step \in ReleaseSteps
  BY CallTyped DEF SyncStep, FanOutInv, TypeOK
<1>2. /\ wt[c] \in Worktree /\ (wt[c].dir => wt[c].man \notin {"none", "removed"})
      /\ \A q : [wt EXCEPT ![c] = q][c] = q
  BY <1>1 DEF FanOutInv, TypeOK, WorktreesAreRegistered
<1>3. PICK r \in after :
          /\ wt' = [wt EXCEPT ![c] = r.w]
          /\ CASE r.step \notin Ends ->
                    /\ sync' = [sync EXCEPT !.step = r.step]
                    /\ UNCHANGED <<child, parent, runners>>
               [] r.step = "throws" /\ parent[sync.by] # "rejected" ->
                    Interrupt(sync.by, {}) /\ UNCHANGED runners
               [] \/ r.step = "throws" /\ parent[sync.by] = "rejected"
                  \/ r.step = "done" /\ sync.op = "release" ->
                    /\ sync' \in Releases(sync.by, sync.rest)
                    /\ UNCHANGED <<child, parent, runners>>
               [] OTHER ->
                    /\ sync' = NoCall
                    /\ child' = [child EXCEPT ![c] = StartedAs(c)]
                    /\ runners' = [runners EXCEPT ![c] =
                                      IF StartedAs(c) = "working" THEN @ + 1 ELSE @]
                    /\ UNCHANGED parent
  BY DEF SyncStep
<1>4. wt'[c] = r.w
  BY <1>2, <1>3
<1>5. CASE sync.op = "create"
  <2>1. /\ r.w \in Worktree /\ r.step \in {"add", "activate"} \cup Ends
        /\ r.step \notin Ends => r.w.man = "creating"
        /\ r.w.dir => r.w.man \notin {"none", "removed"}
        /\ wt[c].dir => r.w.dir /\ r.w.work = wt[c].work
    BY <1>1, <1>2, <1>5, CreateStepIs DEF FanOutInv, CallFits
  <2>2. CASE r.step \notin Ends
    BY <1>1, <1>3, <1>4, <1>5, <2>1, <2>2 DEF CreateSteps, SyncStep
  <2>3. CASE r.step = "throws"
    BY <1>1, <1>3, <1>4, <1>5, <2>1, <2>3 DEF Ends, SyncStep
  <2>4. CASE r.step = "done"
    BY <1>1, <1>3, <1>4, <1>5, <2>1, <2>4 DEF Ends, SyncStep
  <2> QED
    BY <2>1, <2>2, <2>3, <2>4 DEF Ends
<1>6. CASE sync.op = "release"
  <2>1. /\ r.w \in Worktree /\ r.step \in {"remove", "branch", "forget"} \cup Ends
        /\ r.step = "remove" => r.w = wt[c] /\ wt[c].work = "clean" /\ sync.step = "check"
        /\ r.step \in {"branch", "forget"} => ~r.w.dir
        /\ r.w.dir => r.w.man \notin {"none", "removed"}
        /\ wt[c].dir /\ sync.step # "remove" => r.w.dir /\ r.w.work = wt[c].work
    BY <1>1, <1>2, <1>6, ReleaseStepIs DEF FanOutInv, CallFits
  <2>2. CASE r.step \notin Ends
    BY <1>1, <1>3, <1>4, <1>6, <2>1, <2>2 DEF ReleaseSteps, SyncStep, Ends
  <2>3. CASE r.step = "done"
    BY <1>1, <1>3, <1>4, <1>6, <2>1, <2>3 DEF Ends, SyncStep
  <2>4. CASE r.step = "throws"
    BY <1>1, <1>3, <1>4, <1>6, <2>1, <2>4 DEF Ends, SyncStep
  <2> QED
    BY <2>1, <2>2, <2>3, <2>4 DEF Ends
<1> QED
  BY <1>1, <1>5, <1>6

LEMMA SyncStepKeeps ==
    ASSUME FanOutInv, SyncStep
    PROVE  FanOutInv'
<1> DEFINE c == sync.of
<1>1. /\ c \in Children /\ sync # NoCall /\ sync.by \in Parents
      /\ wt' = [wt EXCEPT ![c] = wt'[c]] /\ wt'[c] \in Worktree
      /\ wt'[c].dir => wt'[c].man \notin {"none", "removed"}
      /\ UNCHANGED <<config, aborted, attempts, tripped, crashes>>
  BY SyncStepIs
<1>2. wt' \in [Children -> Worktree] /\ WorktreesAreRegistered'
  BY <1>1 DEF FanOutInv, TypeOK, WorktreesAreRegistered
<1>3. ASSUME /\ parent' \in [Parents -> {"idle", "gc", "fan"} \cup Ended]
             /\ child' \in [Children -> ChildStates]
             /\ runners' \in [Children -> Nat]
             /\ sync' \in Calls \cup {NoCall} /\ CallFits'
             /\ \A d \in Children : ChildFits(d)'
      PROVE  FanOutInv'
  BY <1>1, <1>2, <1>3, ConfigIsFixed DEF FanOutInv, TypeOK
<1>4. CASE /\ sync.op = "create" => wt'[c].man = "creating"
           /\ \E t : /\ sync' = [sync EXCEPT !.step = t]
                     /\ sync.op = "create" => t \in CreateSteps
                     /\ sync.op = "release" =>
                           /\ t \in ReleaseSteps
                           /\ t = "remove" => wt'[c].work = "clean"
                           /\ t \in {"branch", "forget"} => ~wt'[c].dir
           /\ UNCHANGED <<child, parent, runners>>
  <2>1. PICK t : /\ sync' = [sync EXCEPT !.step = t]
                 /\ sync.op = "create" => t \in CreateSteps
                 /\ sync.op = "release" =>
                       /\ t \in ReleaseSteps
                       /\ t = "remove" => wt'[c].work = "clean"
                       /\ t \in {"branch", "forget"} => ~wt'[c].dir
    BY <1>4
  <2>2. /\ sync' \in Calls /\ sync'.op = sync.op /\ sync'.of = c /\ sync'.by = sync.by
        /\ sync'.step = t
    BY <1>1, <2>1, CallTyped DEF FanOutInv, TypeOK
  <2>3. CallFits'
    BY <1>1, <1>4, <2>1, <2>2 DEF FanOutInv, CallFits
  <2>4. \A d \in Children : ChildFits(d)'
    BY <1>4 DEF FanOutInv, ChildFits
  <2> QED
    BY <1>3, <1>4, <2>2, <2>3, <2>4 DEF FanOutInv, TypeOK
<1>5. CASE Interrupt(sync.by, {}) /\ UNCHANGED runners
  <2>1. /\ parent' \in [Parents -> {"idle", "gc", "fan"} \cup Ended]
        /\ child' \in [Children -> ChildStates]
        /\ sync' \in Calls \cup {NoCall} /\ CallFits'
        /\ \A d \in Children :
               \/ child'[d] = "idle" /\ parent'[ParentOf(d)] = "rejected"
               \/ d \notin Kids[sync.by] /\ child'[d] = child[d]
                  /\ parent'[ParentOf(d)] = parent[ParentOf(d)]
    BY <1>1, <1>5, ParentIs, InterruptKeeps
  <2>2. \A d \in Children : ChildFits(d)'
    BY <1>5, <2>1 DEF FanOutInv, ChildFits, Leased
  <2> QED
    BY <1>3, <1>5, <2>1, <2>2 DEF FanOutInv, TypeOK
<1>6. CASE sync' \in Releases(sync.by, sync.rest) /\ UNCHANGED <<child, parent, runners>>
  <2>0. sync.rest \in SUBSET Children /\ parent'[sync.by] \in {"gc", "fan", "rejected"}
    BY <1>1, <1>6, CallTyped DEF FanOutInv, TypeOK, CallFits
  <2>1. sync' \in Calls \cup {NoCall} /\ CallFits'
    BY <1>1, <1>6, <2>0, CallFitsReleases
  <2>2. \A d \in Children : ChildFits(d)'
    BY <1>6 DEF FanOutInv, ChildFits
  <2> QED
    BY <1>3, <1>6, <2>1, <2>2 DEF FanOutInv, TypeOK
<1>7. CASE /\ sync.op = "create" /\ sync' = NoCall
           /\ child' = [child EXCEPT ![c] = StartedAs(c)]
           /\ runners' = [runners EXCEPT ![c] =
                             IF StartedAs(c) = "working" THEN @ + 1 ELSE @]
           /\ UNCHANGED parent
  <2>1. StartedAs(c) \in {"working", "doomed"}
    BY DEF StartedAs
  <2>2. child' \in [Children -> ChildStates] /\ runners' \in [Children -> Nat]
    BY <1>1, <1>7, <2>1 DEF FanOutInv, TypeOK, ChildStates, Leased
  <2>3. \A d \in Children : ChildFits(d)'
    BY <1>1, <1>7, <2>1 DEF FanOutInv, TypeOK, ChildFits, CallFits, Leased
  <2> QED
    BY <1>3, <1>7, <2>2, <2>3, NoCallFits DEF FanOutInv, TypeOK
<1> HIDE DEF c
<1> QED
  BY <1>4, <1>5, <1>6, <1>7, SyncStepIs DEF c

LEMMA FanOutStepKeeps ==
    ASSUME FanOutInv, [Next]_vars
    PROVE  FanOutInv'
<1>1. ASSUME NEW p \in Parents, TakeChild(p)
      PROVE  FanOutInv'
  <2>1. PICK c \in FirstOf(In(p, {"queued"})) :
            \/ Lease(c)
            \/ \E k \in {"skipped", "waiting"} :
                   child' = [child EXCEPT ![c] = k] /\ UNCHANGED sync
    BY <1>1 DEF TakeChild
  <2>2. c \in Kids[p] /\ child[c] = "queued"
    BY DEF FirstOf, In
  <2> QED
    BY <1>1, <2>1, <2>2, TakenKeeps DEF TakeChild
<1>2. ASSUME NEW p \in Parents, Grant(p)
      PROVE  FanOutInv'
  BY <1>2, TakenKeeps DEF Grant, In
<1>3. CASE UNCHANGED vars
  <2>1. Config' = Config
    BY <1>3, ConfigIsFixed DEF vars
  <2> QED
    BY <1>3, <2>1 DEF vars, FanOutInv, TypeOK, ChildFits, CallFits, WorktreesAreRegistered
<1> QED
  BY <1>1, <1>2, <1>3, BeginKeeps, FanOutKeeps, SettleKeeps, RejectKeeps, OrphanEndsKeeps,
     EditKeeps, AggregateKeeps, CancelKeeps, CrashKeeps, SyncStepKeeps
  DEF Next, Parent, Child

\* A worktree with work in it goes only while an agent is still at work there.
LEMMA WorkIsKept ==
    ASSUME FanOutInv, [Next]_vars, NEW c \in Children,
           wt[c].dir, wt[c].work # "clean", runners[c] = 0
    PROVE  wt'[c].dir /\ wt'[c].work = wt[c].work
<1>1. CASE SyncStep
  <2>1. /\ sync.of \in Children
        /\ wt' = [wt EXCEPT ![sync.of] = wt'[sync.of]]
        /\ wt[sync.of].dir /\ ~(sync.op = "release" /\ sync.step = "remove") =>
              wt'[sync.of].dir /\ wt'[sync.of].work = wt[sync.of].work
    BY <1>1, SyncStepIs
  <2>2. CASE sync.of = c
    BY <2>1, <2>2 DEF FanOutInv, CallFits
  <2>3. CASE sync.of # c
    BY <2>1, <2>3 DEF FanOutInv, TypeOK
  <2> QED
    BY <2>2, <2>3
<1>2. ASSUME NEW d \in Children, Edit(d)
      PROVE  wt'[c] = wt[c]
  BY <1>2 DEF Edit, FanOutInv, TypeOK
<1>3. CASE UNCHANGED wt
  BY <1>3
<1> QED
  BY <1>1, <1>2, <1>3
  DEF Next, Parent, Child, Begin, FanOut, TakeChild, Grant, Aggregate, Settle, Reject,
      OrphanEnds, Cancel, Crash, vars

\* A parallel node whose result is final runs no more in this process.
LEMMA FanStaysSettled ==
    ASSUME FanOutInv, FanSettled, [Next]_vars, crashes' = crashes
    PROVE  FanSettled'
<1> USE FanIsParallel
<1>1. CASE UNCHANGED vars
  BY <1>1 DEF vars, config, Config, FanSettled
<1>2. CASE Crash
  BY <1>2, BoundsAreNaturals DEF Crash, FanOutInv, TypeOK
<1>3. ASSUME NEW p \in Parents, NEW R, Interrupt(p, R), parent[p] \in {"gc", "fan"},
             UNCHANGED <<config, attempts>>
      PROVE  FanSettled'
  BY <1>3, ConfigIsFixed DEF Interrupt, FanOutInv, TypeOK, FanSettled
<1>4. CASE SyncStep
  <2>1. CASE parent[sync.by] # "rejected" /\ Interrupt(sync.by, {})
    <3>1. sync.by \in Parents /\ parent[sync.by] \in {"gc", "fan"}
      BY <1>4, <2>1, SyncStepIs DEF FanOutInv, CallFits
    <3> QED
      BY <1>3, <1>4, <2>1, <3>1, SyncStepIs
  <2>2. CASE UNCHANGED parent
    BY <1>4, <2>2, SyncStepIs, ConfigIsFixed DEF FanSettled
  <2> QED
    BY <1>4, <2>1, <2>2, SyncStepIs
<1>5. ASSUME NEW c \in Children, Reject(c)
      PROVE  FanSettled'
  <2>1. parent[ParentOf(c)] = "fan"
    BY <1>5 DEF Reject, FanOutInv, ChildFits, Leased
  <2> QED
    BY <1>3, <1>5, <2>1, ParentIs DEF Reject
<1>6. ASSUME NEW p \in Parents, Begin(p)
      PROVE  FanSettled'
  <2>1. p # Fan
    BY <1>6 DEF Begin, FanOutInv, TypeOK, FanSettled
  <2> QED
    BY <1>6, <2>1, ConfigIsFixed DEF Begin, FanOutInv, TypeOK, FanSettled
<1>7. ASSUME NEW p \in Parents, FanOut(p) \/ Aggregate(p)
      PROVE  FanSettled'
  <2>1. p # Fan
    BY <1>7 DEF FanOut, Aggregate, FanSettled
  <2> QED
    BY <1>7, <2>1, ConfigIsFixed DEF FanOut, Aggregate, FanOutInv, TypeOK, FanSettled
<1>8. CASE UNCHANGED <<config, parent, attempts>>
  BY <1>8, ConfigIsFixed DEF FanSettled
<1> QED
  BY <1>1, <1>2, <1>4, <1>5, <1>6, <1>7, <1>8
  DEF Next, Parent, Child, TakeChild, Grant, Settle, Edit, OrphanEnds, Cancel

\* No agent of a fan-out whose result is final is at work.
LEMMA SettledFanIsQuiet ==
    ASSUME FanOutInv, FanSettled, NEW c \in Kids[Fan]
    PROVE  c \in Children /\ runners[c] = 0
<1>1. c \in Children /\ ParentOf(c) = Fan
  BY ParentIs, FanIsParallel
<1>2. child[c] # "working" /\ parent[Fan] # "rejected"
  BY <1>1 DEF FanOutInv, ChildFits, FanSettled, Leased
<1> QED
  BY <1>1, <1>2 DEF FanOutInv, ChildFits

----------------------------------------------------------------------------
(* Steps of the delivery. *)

LEMMA DeliveryStart == DeliveryInit => DeliveryInv
<1> SUFFICES ASSUME DeliveryInit
             PROVE  DeliveryInv
  OBVIOUS
<1>1. DeliveryTyped
  BY DEF DeliveryInit, DeliveryTyped, Content, NoBranch, Branches, Merges, Deliveries
<1>2. MergeFits /\ DeliveryFits
  BY DEF DeliveryInit, MergeFits, DeliveryFits, NoBranch
<1> QED
  BY <1>1, <1>2, FanOutStart DEF DeliveryInit, DeliveryInv

LEMMA DeliveryStepsAreSteps == DeliveryNext => [Next]_vars
  BY DEF DeliveryNext, FanOutStep, DrainMerge, OpenPullRequest, SomeonePushes, StartMerge,
         MergeChild, AbortMerge, DrainMergeResult, StartDelivery,
         CheckoutOrCreateHeadBranch, StageAndCommitChanges, PushHeadBranch,
         SubmitPullRequest

\* Fields of a drain-merge that a step replaces.
LEMMA MergeUpdates ==
    ASSUME NEW n \in Merges, NEW q
    PROVE  /\ q = Interrupted(n) => q \in Merges /\ q.pc = (IF n.pc = "exit0" THEN "exit0" ELSE "idle")
           /\ q = Ends0(n) => q \in Merges /\ q.pc = "exit0"
           /\ q = [n EXCEPT !.pc = "exit0", !.runs = @ + 1] => q \in Merges /\ q.pc = "exit0"
           /\ q = Fails(n) => q \in Merges /\ q.pc = "exit1"
           /\ q = [n EXCEPT !.pc = "exit1", !.runs = @ + 1] => q \in Merges /\ q.pc = "exit1"
           /\ q = [n EXCEPT !.pc = "aborting"] =>
                 /\ q \in Merges /\ q.pc = "aborting"
                 /\ q.left = n.left /\ q.conflicts = n.conflicts
           /\ \A S \in SUBSET Children : q = [n EXCEPT !.left = S] =>
                 q \in Merges /\ q.pc = n.pc /\ q.left = S /\ q.conflicts = n.conflicts
           /\ \A S \in SUBSET Children :
                 q = [n EXCEPT !.pc = "merging", !.left = S, !.conflicts = TRUE] =>
                 q \in Merges /\ q.pc = "merging" /\ q.conflicts
<1>1. ASSUME NEW v \in {"idle", "exit0", "exit1", "aborting"}, q = [n EXCEPT !.pc = v]
      PROVE  /\ q \in Merges /\ q.pc = v
             /\ q.left = n.left /\ q.conflicts = n.conflicts
  BY <1>1 DEF Merges
<1>2. ASSUME NEW v \in {"exit0", "exit1"}, q = [n EXCEPT !.pc = v, !.runs = @ + 1]
      PROVE  q \in Merges /\ q.pc = v
  <2>1. n.runs + 1 \in Nat
    BY DEF Merges
  <2> QED
    BY <1>2, <2>1 DEF Merges
<1>3. ASSUME q = Interrupted(n)
      PROVE  q \in Merges /\ q.pc = (IF n.pc = "exit0" THEN "exit0" ELSE "idle")
  <2>1. CASE n.pc = "exit0"
    BY <1>1, <1>3, <2>1 DEF Interrupted
  <2>2. CASE n.pc # "exit0"
    BY <1>1, <1>3, <2>2 DEF Interrupted
  <2> QED
    BY <2>1, <2>2
<1>4. /\ q = Ends0(n) => q \in Merges /\ q.pc = "exit0"
      /\ q = Fails(n) => q \in Merges /\ q.pc = "exit1"
  BY <1>1 DEF Ends0, Fails
<1>5. \A S \in SUBSET Children : q = [n EXCEPT !.left = S] =>
          q \in Merges /\ q.pc = n.pc /\ q.left = S /\ q.conflicts = n.conflicts
  BY DEF Merges
<1>6. \A S \in SUBSET Children :
          q = [n EXCEPT !.pc = "merging", !.left = S, !.conflicts = TRUE] =>
          q \in Merges /\ q.pc = "merging" /\ q.conflicts
  BY DEF Merges
<1> QED
  BY <1>1, <1>2, <1>3, <1>4, <1>5, <1>6

\* The fan-out goes on, its result is taken, or the process dies.
LEMMA FanOutStepDelivers ==
    ASSUME DeliveryInv, FanOutStep
    PROVE  DeliveryTyped' /\ MergeFits' /\ DeliveryFits'
<1> USE DEF DeliveryInv
<1>1. UNCHANGED <<checkout, branches, origin, lease>> /\ ahead' \in SUBSET Children
  BY DEF FanOutStep, gitVars
<1>2. CASE crashes' # crashes
  <2>1. outputs' = {} /\ merge' = Interrupted(merge) /\ delivery' = Interrupted(delivery)
    BY <1>2 DEF FanOutStep
  <2>2. /\ merge' \in Merges
        /\ merge'.pc = (IF merge.pc = "exit0" THEN "exit0" ELSE "idle")
    BY <2>1, MergeUpdates DEF DeliveryTyped
  <2>3. /\ delivery' \in Deliveries
        /\ delivery'.pc = (IF delivery.pc = "exit0" THEN "exit0" ELSE "idle")
    BY <2>1 DEF DeliveryTyped, Interrupted, Deliveries
  <2> QED
    BY <1>1, <2>1, <2>2, <2>3 DEF DeliveryTyped, MergeFits, DeliveryFits
<1>3. CASE crashes' = crashes /\ FanDone
  <2>1. outputs' \in SUBSET Kids[Fan] /\ UNCHANGED <<merge, delivery>>
    BY <1>3 DEF FanOutStep, In
  <2>2. merge.pc \notin {"merging", "aborting"}
    BY <1>3 DEF FanDone, MergeFits, FanSettled
  <2> QED
    BY <1>1, <2>1, <2>2 DEF DeliveryTyped, MergeFits, DeliveryFits
<1>4. CASE crashes' = crashes /\ ~FanDone
  <2>1. UNCHANGED <<outputs, merge, delivery>>
    BY <1>4 DEF FanOutStep
  <2>2. ASSUME merge.pc \in {"merging", "aborting"}
        PROVE  FanSettled' /\ outputs \cap ahead' \subseteq ahead
    <3>1. FanSettled'
      BY <1>4, <2>2, FanStaysSettled DEF MergeFits, FanOutStep
    <3>2. ASSUME NEW c \in outputs
          PROVE  ~Commits(c)
      BY <2>2, <3>2, SettledFanIsQuiet DEF MergeFits, DeliveryTyped, Commits, Edit
    <3> QED
      BY <3>1, <3>2 DEF FanOutStep
  <2> QED
    BY <1>1, <2>1, <2>2 DEF DeliveryTyped, MergeFits, DeliveryFits
<1> QED
  BY <1>2, <1>3, <1>4 DEF FanOutStep

\* A branch that is written over.
LEMMA BranchUpdates ==
    ASSUME NEW b \in Branches, NEW S \in SUBSET Content, NEW q
    PROVE  /\ q = [b EXCEPT !.integration = S] =>
                 q \in Branches /\ q.integration = S /\ q.head = b.head
           /\ q = [b EXCEPT !.head = S] =>
                 q \in Branches /\ q.head = S /\ q.integration = b.integration
  BY DEF Branches

LEMMA CheckoutUpdates ==
    ASSUME NEW k \in [on : {"main", "integration", "head"}, unmerged : BOOLEAN], NEW q
    PROVE  /\ \A v \in {"integration", "head"} : q = [k EXCEPT !.on = v] =>
                 /\ q \in [on : {"main", "integration", "head"}, unmerged : BOOLEAN]
                 /\ q.on = v
           /\ \A v \in BOOLEAN : q = [k EXCEPT !.unmerged = v] =>
                 /\ q \in [on : {"main", "integration", "head"}, unmerged : BOOLEAN]
                 /\ q.on = k.on
  OBVIOUS

LEMMA StartMergeDelivers ==
    ASSUME DeliveryInv, StartMerge
    PROVE  DeliveryTyped' /\ MergeFits' /\ DeliveryFits'
<1> USE DEF DeliveryInv
<1>1. FanSettled'
  BY DEF StartMerge, FanSettled, vars, config, Config
<1>2. merge.pc \in {"idle", "exit1"} /\ checkout.on # "head" /\ delivery.pc = "idle"
  BY DEF StartMerge, Startable, DeliveryFits
<1>3. UNCHANGED <<outputs, ahead, delivery, origin, lease>>
  BY DEF StartMerge, remoteVars
<1>4. CASE /\ UNCHANGED gitVars
           /\ \/ merge' = [merge EXCEPT !.pc = "exit0", !.runs = @ + 1]
              \/ merge' = [merge EXCEPT !.pc = "exit1", !.runs = @ + 1]
  <2>1. merge' \in Merges /\ merge'.pc \in {"exit0", "exit1"}
    BY <1>4, MergeUpdates DEF DeliveryTyped
  <2> QED
    BY <1>1, <1>2, <1>3, <1>4, <2>1
    DEF gitVars, DeliveryTyped, MergeFits, DeliveryFits
<1>5. CASE /\ merge' = [pc |-> "merging", left |-> outputs, conflicts |-> FALSE,
                        runs |-> merge.runs + 1]
           /\ checkout' = [checkout EXCEPT !.on = "integration"]
           /\ branches' = [branches EXCEPT !.integration =
                              IF @ = NoBranch THEN {Base} ELSE @]
  <2>1. /\ merge' \in Merges /\ merge'.pc = "merging" /\ merge'.left = outputs
    <3>1. outputs \in SUBSET Children /\ merge.runs + 1 \in Nat
      BY ParentIs, FanIsParallel DEF DeliveryTyped, Merges
    <3> QED
      BY <1>5, <3>1 DEF Merges
  <2>2. /\ checkout' \in [on : {"main", "integration", "head"}, unmerged : BOOLEAN]
        /\ checkout'.on = "integration"
    BY <1>5, CheckoutUpdates DEF DeliveryTyped
  <2>3. (IF branches.integration = NoBranch THEN {Base} ELSE branches.integration)
        \in SUBSET Content
    BY DEF DeliveryTyped, Branches, Content
  <2>4. branches' \in Branches
    BY <1>5, <2>3, BranchUpdates DEF DeliveryTyped
  <2> QED
    BY <1>1, <1>2, <1>3, <2>1, <2>2, <2>4
    DEF DeliveryTyped, MergeFits, DeliveryFits
<1> QED
  BY <1>4, <1>5 DEF StartMerge, SetupFails

LEMMA MergeChildDelivers ==
    ASSUME DeliveryInv, MergeChild
    PROVE  DeliveryTyped' /\ MergeFits' /\ DeliveryFits'
<1> USE DEF DeliveryInv
<1>1. /\ merge.pc = "merging" /\ checkout.on = "integration" /\ delivery.pc = "idle"
      /\ FanSettled'
  BY DEF MergeChild, MergeFits, DeliveryFits, vars, config, Config, FanSettled
<1>2. UNCHANGED <<outputs, delivery, origin, lease>>
  BY DEF MergeChild, remoteVars
<1>3. CASE \E c \in merge.left :
              /\ branches' = [branches EXCEPT !.integration = @ \cup (ahead \cap {c})]
              /\ ahead' = ahead \ {c}
              /\ merge' = [merge EXCEPT !.left = @ \ {c}]
              /\ UNCHANGED checkout
  <2>1. PICK c \in merge.left :
            /\ branches' = [branches EXCEPT !.integration = @ \cup (ahead \cap {c})]
            /\ ahead' = ahead \ {c}
            /\ merge' = [merge EXCEPT !.left = @ \ {c}]
            /\ UNCHANGED checkout
    BY <1>3
  <2>2. /\ merge.left \ {c} \in SUBSET Children /\ ahead' \in SUBSET Children
        /\ branches.integration \cup (ahead \cap {c}) \in SUBSET Content
    BY <2>1 DEF DeliveryTyped, Merges, Branches, Content
  <2>3. /\ merge' \in Merges /\ merge'.pc = "merging"
        /\ merge'.left = merge.left \ {c} /\ merge'.conflicts = merge.conflicts
    BY <1>1, <2>1, <2>2 DEF DeliveryTyped, Merges
  <2>4. branches' \in Branches
    BY <2>1, <2>2 DEF DeliveryTyped, Branches
  <2> QED
    BY <1>1, <1>2, <2>1, <2>2, <2>3, <2>4 DEF DeliveryTyped, MergeFits, DeliveryFits
<1>4. CASE /\ merge' = [merge EXCEPT !.pc = "aborting"] /\ UNCHANGED <<ahead, branches>>
           /\ UNCHANGED checkout \/ checkout' = [checkout EXCEPT !.unmerged = TRUE]
  <2>1. /\ merge' \in Merges /\ merge'.pc = "aborting"
        /\ merge'.left = merge.left /\ merge'.conflicts = merge.conflicts
    BY <1>4 DEF DeliveryTyped, Merges
  <2>2. /\ checkout' \in [on : {"main", "integration", "head"}, unmerged : BOOLEAN]
        /\ checkout'.on = checkout.on
    BY <1>4, CheckoutUpdates DEF DeliveryTyped
  <2> QED
    BY <1>1, <1>2, <1>4, <2>1, <2>2 DEF DeliveryTyped, MergeFits, DeliveryFits
<1> QED
  BY <1>3, <1>4 DEF MergeChild, FirstOf, gitVars

LEMMA AbortMergeDelivers ==
    ASSUME DeliveryInv, AbortMerge
    PROVE  DeliveryTyped' /\ MergeFits' /\ DeliveryFits'
<1> USE DEF DeliveryInv
<1>1. /\ merge.pc = "aborting" /\ checkout.on = "integration" /\ delivery.pc = "idle"
      /\ FanSettled'
  BY DEF AbortMerge, MergeFits, DeliveryFits, vars, config, Config, FanSettled
<1>2. UNCHANGED <<outputs, ahead, branches, delivery, origin, lease>>
  BY DEF AbortMerge, remoteVars
<1>3. PICK aborts \in BOOLEAN :
          checkout' = [checkout EXCEPT !.unmerged = @ /\ ~aborts]
  BY DEF AbortMerge
<1>4. /\ checkout' \in [on : {"main", "integration", "head"}, unmerged : BOOLEAN]
      /\ checkout'.on = checkout.on
  BY <1>3, CheckoutUpdates DEF DeliveryTyped
<1>5. merge.left \ FirstOf(merge.left) \in SUBSET Children
  BY DEF DeliveryTyped, Merges
<1>6. merge' \in Merges /\ merge'.pc = "merging" /\ merge'.conflicts
  BY <1>5 DEF AbortMerge, DeliveryTyped, Merges
<1> QED
  BY <1>1, <1>2, <1>4, <1>6
  DEF DeliveryTyped, MergeFits, DeliveryFits

LEMMA DrainMergeResultDelivers ==
    ASSUME DeliveryInv, DrainMergeResult
    PROVE  DeliveryTyped' /\ MergeFits' /\ DeliveryFits'
<1> USE DEF DeliveryInv
<1>1. merge.pc = "merging" /\ checkout.on = "integration" /\ delivery.pc = "idle"
  BY DEF DrainMergeResult, MergeFits, DeliveryFits
<1>2. UNCHANGED <<outputs, ahead, checkout, branches, delivery, origin, lease>>
  BY DEF DrainMergeResult, remoteVars, gitVars
<1>3. merge' \in Merges /\ merge'.pc \in {"exit0", "exit1"}
  <2>1. merge \in Merges /\ merge' \in {Fails(merge), Ends0(merge)}
    BY DEF DrainMergeResult, DeliveryTyped
  <2> QED
    BY <2>1, MergeUpdates
<1> QED
  BY <1>1, <1>2, <1>3 DEF DeliveryTyped, MergeFits, DeliveryFits

\* Fields of an open-pull-request that a step replaces.
LEMMA DeliveryUpdates ==
    ASSUME NEW n \in Deliveries, NEW q
    PROVE  /\ q = Fails(n) => q \in Deliveries /\ q.pc = "exit1"
           /\ q = Ends0(n) => q \in Deliveries /\ q.pc = "exit0"
           /\ q = [n EXCEPT !.pc = "commit"] => q \in Deliveries /\ q.pc = "commit"
           /\ q = [n EXCEPT !.pc = "push", !.dirty = FALSE] =>
                 q \in Deliveries /\ q.pc = "push" /\ ~q.dirty
           /\ q = [n EXCEPT !.pc = "submit"] =>
                 q \in Deliveries /\ q.pc = "submit" /\ q.dirty = n.dirty
           /\ q = [n EXCEPT !.pc = "checkout", !.runs = @ + 1] =>
                 q \in Deliveries /\ q.pc = "checkout"
<1>1. ASSUME NEW v \in {"exit0", "exit1", "commit", "submit"}, q = [n EXCEPT !.pc = v]
      PROVE  q \in Deliveries /\ q.pc = v /\ q.dirty = n.dirty
  BY <1>1 DEF Deliveries
<1>2. ASSUME q = [n EXCEPT !.pc = "push", !.dirty = FALSE]
      PROVE  q \in Deliveries /\ q.pc = "push" /\ ~q.dirty
  BY <1>2 DEF Deliveries
<1>3. ASSUME q = [n EXCEPT !.pc = "checkout", !.runs = @ + 1]
      PROVE  q \in Deliveries /\ q.pc = "checkout"
  <2>1. n.runs + 1 \in Nat
    BY DEF Deliveries
  <2> QED
    BY <1>3, <2>1 DEF Deliveries
<1> QED
  BY <1>1, <1>2, <1>3 DEF Fails, Ends0

LEMMA StartDeliveryDelivers ==
    ASSUME DeliveryInv, StartDelivery
    PROVE  DeliveryTyped' /\ MergeFits' /\ DeliveryFits'
<1> USE DEF DeliveryInv
<1>1. merge.pc = "exit0"
  BY DEF StartDelivery
<1>2. UNCHANGED <<outputs, ahead, checkout, branches, merge>>
  BY DEF StartDelivery, gitVars
<1>3. delivery' \in Deliveries /\ delivery'.pc = "checkout"
  <2>1. CASE delivery.mode # "unknown"
    BY <2>1, DeliveryUpdates DEF StartDelivery, DeliveryTyped
  <2>2. CASE delivery.mode = "unknown"
    <3>1. PICK mode \in {"create-new-pr", "update-existing-pr"} :
              delivery' = [pc |-> "checkout", mode |-> mode, dirty |-> TRUE, runs |-> 1]
      BY <2>2 DEF StartDelivery
    <3> QED
      BY <3>1 DEF Deliveries
  <2> QED
    BY <2>1, <2>2
<1>4. /\ origin' \in [head : SUBSET Content, pull : BOOLEAN]
      /\ lease' \in SUBSET Content
  <2>1. \/ origin' = origin /\ lease' = lease
        \/ origin' = [head |-> {Base}, pull |-> TRUE] /\ lease' = {Base}
    BY DEF StartDelivery
  <2>2. /\ {Base} \in SUBSET Content
        /\ [head |-> {Base}, pull |-> TRUE] \in [head : SUBSET Content, pull : BOOLEAN]
    BY DEF Content
  <2> QED
    BY <2>1, <2>2 DEF DeliveryTyped
<1> QED
  BY <1>1, <1>2, <1>3, <1>4 DEF DeliveryTyped, MergeFits, DeliveryFits

LEMMA CheckoutDelivers ==
    ASSUME DeliveryInv, CheckoutOrCreateHeadBranch
    PROVE  DeliveryTyped' /\ MergeFits' /\ DeliveryFits'
<1> USE DEF DeliveryInv
<1>1. merge.pc = "exit0" /\ delivery.pc = "checkout"
  BY DEF CheckoutOrCreateHeadBranch, DeliveryFits
<1>2. UNCHANGED <<outputs, ahead, merge, origin, lease>>
  BY DEF CheckoutOrCreateHeadBranch
<1>3. CASE OpenPrFailure /\ UNCHANGED gitVars
  <2>1. delivery' \in Deliveries /\ delivery'.pc = "exit1"
    BY <1>3, DeliveryUpdates DEF OpenPrFailure, DeliveryTyped
  <2> QED
    BY <1>1, <1>2, <1>3, <2>1
    DEF gitVars, DeliveryTyped, MergeFits, DeliveryFits
<1>4. CASE /\ delivery' = [delivery EXCEPT !.pc = "commit"]
           /\ branches' = [branches EXCEPT !.head = branches[checkout.on]]
           /\ checkout' = [checkout EXCEPT !.on = "head"]
  <2>1. delivery' \in Deliveries /\ delivery'.pc = "commit"
    BY <1>4, DeliveryUpdates DEF DeliveryTyped
  <2>2. PICK S \in SUBSET Content :
            branches.integration \subseteq S /\ branches' = [branches EXCEPT !.head = S]
    BY <1>4 DEF DeliveryTyped, Branches, DeliveryFits
  <2>3. /\ branches' \in Branches /\ branches'.head = S
        /\ branches'.integration = branches.integration
    BY <2>2, BranchUpdates DEF DeliveryTyped
  <2>4. /\ checkout' \in [on : {"main", "integration", "head"}, unmerged : BOOLEAN]
        /\ checkout'.on = "head"
    BY <1>4, CheckoutUpdates DEF DeliveryTyped
  <2> QED
    BY <1>1, <1>2, <2>1, <2>2, <2>3, <2>4
    DEF DeliveryTyped, MergeFits, DeliveryFits
<1> QED
  BY <1>3, <1>4 DEF CheckoutOrCreateHeadBranch

LEMMA StageAndCommitDelivers ==
    ASSUME DeliveryInv, StageAndCommitChanges
    PROVE  DeliveryTyped' /\ MergeFits' /\ DeliveryFits'
<1> USE DEF DeliveryInv
<1>1. merge.pc = "exit0" /\ delivery.pc = "commit"
  BY DEF StageAndCommitChanges, DeliveryFits
<1>2. UNCHANGED <<outputs, ahead, checkout, merge, origin, lease>>
  BY DEF StageAndCommitChanges
<1>3. CASE OpenPrFailure /\ UNCHANGED branches
  <2>1. delivery' \in Deliveries /\ delivery'.pc = "exit1"
    BY <1>3, DeliveryUpdates DEF OpenPrFailure, DeliveryTyped
  <2> QED
    BY <1>1, <1>2, <1>3, <2>1
    DEF DeliveryTyped, MergeFits, DeliveryFits
<1>4. CASE /\ delivery' = [delivery EXCEPT !.pc = "push", !.dirty = FALSE]
           /\ branches' = [branches EXCEPT !.head = IF delivery.dirty
                                                    THEN @ \cup {Uncommitted} ELSE @]
  <2>1. delivery' \in Deliveries /\ delivery'.pc = "push" /\ ~delivery'.dirty
    BY <1>4, DeliveryUpdates DEF DeliveryTyped
  <2>2. PICK S \in SUBSET Content :
            branches.head \subseteq S /\ branches' = [branches EXCEPT !.head = S]
    <3>1. branches.head \in SUBSET Content /\ branches.head \cup {Uncommitted} \in SUBSET Content
      BY DEF DeliveryTyped, Branches, Content
    <3>2. CASE delivery.dirty
      BY <1>4, <3>1, <3>2
    <3>3. CASE ~delivery.dirty
      BY <1>4, <3>1, <3>3
    <3> QED
      BY <3>2, <3>3
  <2>3. /\ branches' \in Branches /\ branches.head \subseteq branches'.head
        /\ branches'.integration = branches.integration
    <3>1. branches \in Branches
      BY DEF DeliveryTyped
    <3> QED
      BY <2>2, <3>1, BranchUpdates
  <2> QED
    BY <1>1, <1>2, <2>1, <2>3
    DEF DeliveryTyped, MergeFits, DeliveryFits
<1> QED
  BY <1>3, <1>4 DEF StageAndCommitChanges

LEMMA PushDelivers ==
    ASSUME DeliveryInv, PushHeadBranch
    PROVE  DeliveryTyped' /\ MergeFits' /\ DeliveryFits'
<1> USE DEF DeliveryInv
<1>1. merge.pc = "exit0" /\ delivery.pc = "push"
  BY DEF PushHeadBranch, DeliveryFits
<1>2. UNCHANGED <<outputs, ahead, checkout, branches, merge>>
  BY DEF PushHeadBranch, gitVars
<1>3. /\ origin' = origin \/ origin'.head = branches.head
      /\ origin' \in [head : SUBSET Content, pull : BOOLEAN]
      /\ lease' \in SUBSET Content
  BY DEF PushHeadBranch, DeliveryTyped, Branches
<1>4. /\ delivery' \in Deliveries
      /\ \/ delivery'.pc = "exit1"
         \/ delivery'.pc = "submit" /\ delivery'.dirty = delivery.dirty
            /\ origin'.head = branches.head
  <2>1. \/ delivery' = Fails(delivery)
        \/ /\ delivery' = [delivery EXCEPT !.pc = "submit"]
           /\ origin' = [origin EXCEPT !.head = branches.head]
    BY DEF PushHeadBranch, OpenPrFailure
  <2> QED
    BY <2>1, DeliveryUpdates DEF DeliveryTyped
<1> QED
  BY <1>1, <1>2, <1>3, <1>4 DEF DeliveryTyped, MergeFits, DeliveryFits

LEMMA SubmitDelivers ==
    ASSUME DeliveryInv, SubmitPullRequest
    PROVE  DeliveryTyped' /\ MergeFits' /\ DeliveryFits'
<1> USE DEF DeliveryInv
<1>1. merge.pc = "exit0" /\ delivery.pc = "submit"
  BY DEF SubmitPullRequest, DeliveryFits
<1>2. UNCHANGED <<outputs, ahead, checkout, branches, merge, lease>>
  BY DEF SubmitPullRequest, gitVars
<1>3. origin' \in [head : SUBSET Content, pull : BOOLEAN]
  BY DEF SubmitPullRequest, DeliveryTyped
<1>4. delivery' \in Deliveries /\ delivery'.pc \in {"exit0", "exit1"}
  BY DeliveryUpdates DEF SubmitPullRequest, OpenPrFailure, DeliveryTyped
<1> QED
  BY <1>1, <1>2, <1>3, <1>4 DEF DeliveryTyped, MergeFits, DeliveryFits

LEMMA SomeonePushesDelivers ==
    ASSUME DeliveryInv, SomeonePushes
    PROVE  DeliveryTyped' /\ MergeFits' /\ DeliveryFits'
<1> USE DEF DeliveryInv
<1>1. /\ UNCHANGED <<outputs, ahead, checkout, branches, merge, delivery, lease>>
      /\ FanSettled => FanSettled'
  BY DEF SomeonePushes, gitVars, vars, config, Config, FanSettled
<1>2. /\ origin' \in [head : SUBSET Content, pull : BOOLEAN]
      /\ origin.head \subseteq origin'.head
  BY DEF SomeonePushes, DeliveryTyped, Content
<1> QED
  BY <1>1, <1>2 DEF DeliveryTyped, MergeFits, DeliveryFits

LEMMA DeliveryStepKeeps ==
    ASSUME DeliveryInv, [DeliveryNext]_allVars
    PROVE  DeliveryInv'
<1>1. [Next]_vars
  BY DeliveryStepsAreSteps DEF allVars
<1>2. FanOutInv'
  BY <1>1, FanOutStepKeeps DEF DeliveryInv
<1>3. CASE UNCHANGED allVars
  <2>1. FanSettled => FanSettled'
    BY <1>3 DEF allVars, vars, config, Config, FanSettled
  <2>2. UNCHANGED <<outputs, ahead, checkout, branches, merge, delivery, origin, lease>>
    BY <1>3 DEF allVars, deliveryVars, gitVars, remoteVars
  <2> QED
    BY <1>2, <2>1, <2>2
    DEF DeliveryInv, DeliveryTyped, MergeFits, DeliveryFits
<1>4. CASE DeliveryNext
  BY <1>2, <1>4, FanOutStepDelivers, StartMergeDelivers, MergeChildDelivers,
     AbortMergeDelivers, DrainMergeResultDelivers, StartDeliveryDelivers, CheckoutDelivers,
     StageAndCommitDelivers, PushDelivers, SubmitDelivers, SomeonePushesDelivers
  DEF DeliveryNext, DrainMerge, OpenPullRequest, DeliveryInv
<1> QED
  BY <1>3, <1>4

\* A drain-merge ends well without outputs, or when nothing is left to join.
LEMMA DrainEndsMerged ==
    ASSUME DeliveryInv, [DeliveryNext]_allVars, merge.pc # "exit0", merge'.pc = "exit0"
    PROVE  outputs \cap ahead = {}
<1> USE DEF DeliveryInv
<1>1. CASE StartMerge
  <2>1. CASE outputs # {}
    <3>1. \/ merge' = [merge EXCEPT !.pc = "exit1", !.runs = @ + 1]
          \/ merge'.pc = "merging"
      BY <1>1, <2>1 DEF StartMerge, SetupFails
    <3> QED
      BY <3>1, MergeUpdates DEF DeliveryTyped
  <2> QED
    BY <2>1
<1>2. CASE DrainMergeResult
  <2>1. ~merge.conflicts
    BY <1>2, MergeUpdates DEF DrainMergeResult, DeliveryTyped
  <2> QED
    BY <1>2, <2>1 DEF DrainMergeResult, MergeFits
<1>3. CASE FanOutStep
  BY <1>3, MergeUpdates DEF FanOutStep, DeliveryTyped
<1>4. CASE MergeChild
  BY <1>4 DEF MergeChild, DeliveryTyped, Merges
<1>5. CASE AbortMerge
  BY <1>5 DEF AbortMerge, DeliveryTyped, Merges
<1>6. CASE UNCHANGED merge
  BY <1>6
<1> QED
  BY <1>1, <1>2, <1>3, <1>4, <1>5, <1>6
  DEF DeliveryNext, DrainMerge, OpenPullRequest, SomeonePushes, StartDelivery,
      CheckoutOrCreateHeadBranch, StageAndCommitChanges, PushHeadBranch,
      SubmitPullRequest, allVars, deliveryVars

\* A delivery ends well in gh's answer, after the push.
LEMMA DeliveryEndsPublished ==
    ASSUME DeliveryInv, [DeliveryNext]_allVars, delivery.pc' = "exit0", delivery.pc # "exit0"
    PROVE  branches.integration \subseteq origin.head /\ ~delivery.dirty
<1> USE DEF DeliveryInv
<1>1. CASE SubmitPullRequest
  BY <1>1 DEF SubmitPullRequest, DeliveryFits
<1>2. CASE FanOutStep
  BY <1>2 DEF FanOutStep, Interrupted, DeliveryTyped, Deliveries
<1>3. CASE StartDelivery
  <2>1. CASE delivery.mode # "unknown"
    BY <1>3, <2>1, DeliveryUpdates DEF StartDelivery, DeliveryTyped
  <2>2. CASE delivery.mode = "unknown"
    BY <1>3, <2>2 DEF StartDelivery
  <2> QED
    BY <2>1, <2>2
<1>4. CASE CheckoutOrCreateHeadBranch
  BY <1>4, DeliveryUpdates DEF CheckoutOrCreateHeadBranch, OpenPrFailure, DeliveryTyped
<1>5. CASE StageAndCommitChanges
  BY <1>5, DeliveryUpdates DEF StageAndCommitChanges, OpenPrFailure, DeliveryTyped
<1>6. CASE PushHeadBranch
  BY <1>6, DeliveryUpdates DEF PushHeadBranch, OpenPrFailure, DeliveryTyped
<1>7. CASE UNCHANGED delivery
  BY <1>7
<1> QED
  BY <1>1, <1>2, <1>3, <1>4, <1>5, <1>6, <1>7
  DEF DeliveryNext, DrainMerge, OpenPullRequest, SomeonePushes, StartMerge, MergeChild,
      AbortMerge, DrainMergeResult, remoteVars, allVars, deliveryVars

----------------------------------------------------------------------------
(* Theorems. *)

\* However git commands, agents, failures and deaths of the process interleave,
\* the registry, the calls in progress and the children agree (parallel-node.ts,
\* parallel-worktrees.ts).
THEOREM FanOutInvariant == Spec => []FanOutInv
<1>1. Init => FanOutInv
  BY FanOutStart
<1>2. FanOutInv /\ [Next]_vars => FanOutInv'
  BY FanOutStepKeeps
<1> QED
  BY <1>1, <1>2, PTL DEF Spec

\* Every worktree directory has a manifest the next collection looks at
\* (createChildWorktree writes it before git worktree add).
THEOREM NoWorktreeEscapes == Spec => []WorktreesAreRegistered
<1>1. FanOutInv => WorktreesAreRegistered
  BY DEF FanOutInv
<1> QED
  BY <1>1, FanOutInvariant, PTL

\* A worktree with dirty or unpushed work is retained, once no agent works in it
\* (releaseWorktree's retentionState).
THEOREM WorkIsRetained == Spec => RetainedWorkKept
<1>1. FanOutInv /\ [Next]_vars =>
          [\A c \in Children :
               wt[c].dir /\ wt[c].work # "clean" /\ runners[c] = 0
               => wt'[c].dir /\ wt'[c].work = wt[c].work]_vars
  BY WorkIsKept
<1> QED
  BY <1>1, FanOutInvariant, PTL DEF Spec, RetainedWorkKept

\* The fan-out, drain-merge and open-pull-request of a local run agree on which
\* branch holds what, through failures, retries and deaths between git commands.
THEOREM DeliveryInvariant == DeliverySpec => []DeliveryInv
<1>1. DeliveryInit => DeliveryInv
  BY DeliveryStart
<1>2. DeliveryInv /\ [DeliveryNext]_allVars => DeliveryInv'
  BY DeliveryStepKeeps
<1> QED
  BY <1>1, <1>2, PTL DEF DeliverySpec

\* The delivery takes no step of the fan-out that the fan-out could not take.
THEOREM DeliveryRunsTheFanOut == DeliverySpec => Spec
<1>1. DeliveryInit => Init
  BY DEF DeliveryInit
<1>2. [DeliveryNext]_allVars => [Next]_vars
  BY DeliveryStepsAreSteps DEF allVars
<1> QED
  BY <1>1, <1>2, PTL DEF DeliverySpec, Spec

\* When a drain-merge exits 0 every commit on the branches the process was told of
\* has been joined, in whichever process the fan-out and earlier drain-merges ran
\* (drain-merge.ts:229).
THEOREM DrainMergesAll == DeliverySpec => DrainedMeansMerged
<1>1. DeliveryInv /\ [DeliveryNext]_allVars =>
          [merge.pc # "exit0" /\ merge'.pc = "exit0" => outputs \cap ahead = {}]_allVars
  BY DrainEndsMerged
<1> QED
  BY <1>1, DeliveryInvariant, PTL DEF DeliverySpec, DrainedMeansMerged

\* A pull request that was delivered holds what was joined and what the nodes
\* had left uncommitted (open-pull-request.ts:152).
THEOREM DeliveryIsPublished == DeliverySpec => DeliveredMeansPublished
<1>1. DeliveryInv /\ [DeliveryNext]_allVars =>
          [delivery.pc' = "exit0" /\ delivery.pc # "exit0"
           => branches.integration \subseteq origin.head /\ ~delivery.dirty]_allVars
  BY DeliveryEndsPublished
<1> QED
  BY <1>1, DeliveryInvariant, PTL DEF DeliverySpec, DeliveredMeansPublished
=============================================================================
