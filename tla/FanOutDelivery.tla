---------------------------- MODULE FanOutDelivery ----------------------------
(***************************************************************************)
(* What becomes of the work of a fan-out in a local run: a parallel node      *)
(* (ParallelNode.tla), the drain-merge that joins its branches                *)
(* (src/runtime/drain-merge) and the open-pull-request that publishes the     *)
(* checkout (src/runtime/open-pull-request).  Both are sequences of git        *)
(* commands in the main checkout, which any failure or the death of the       *)
(* process may cut short and a retry or a resumed run goes through again.     *)
(*                                                                         *)
(* A branch is the set of what was committed on it: Base, where the run        *)
(* started, children, what the nodes left uncommitted, and Others' work.      *)
(***************************************************************************)
EXTENDS ParallelNode

CONSTANTS
    Fan,           \* the parallel node that drain-merge needs
    MaxDeliveries  \* [Configs -> Nat], bound: executions of drain-merge and
                   \* open-pull-request in all processes

ASSUME FanIsParallel == Fan \in Parents

VARIABLES
    outputs,    \* the children that lastOutputByNode[Fan] says have work to merge
    ahead,      \* the children whose branch has commits that were not merged
    checkout,   \* [on, unmerged]: the branch, and whether a merge is under way
    branches,   \* local branches
    merge,      \* drain-merge: [pc, left, conflicts, runs]
    delivery,   \* open-pull-request: [pc, mode, dirty, runs]
    origin,     \* the remote: [head, pull], its head branch and the pull request
    lease       \* what the checkout last knew origin.head to be

gitVars == <<checkout, branches>>
remoteVars == <<delivery, origin, lease>>
deliveryVars == <<outputs, ahead, gitVars, merge, remoteVars>>
allVars == <<vars, deliveryVars>>

Base == "base"
Uncommitted == "uncommitted"
Others == "others"
NoBranch == {}

DeliveryInit ==
    /\ Init
    /\ outputs = {} /\ ahead = {}
    /\ checkout = [on |-> "main", unmerged |-> FALSE]
    /\ branches = [main |-> {Base}, integration |-> NoBranch, head |-> NoBranch]
    /\ merge = [pc |-> "idle", left |-> {}, conflicts |-> FALSE, runs |-> 0]
    /\ delivery = [pc |-> "idle", mode |-> "unknown", dirty |-> FALSE, runs |-> 0]
    /\ origin = [head |-> NoBranch, pull |-> FALSE]
    /\ lease = NoBranch

\* The parallel node's result is final, and not one that ends the run: what
\* only a drain-merge waits for may have failed.
FanSettled ==
    \/ parent[Fan] = "exit0"
    \/ parent[Fan] = "exit1" /\ attempts[Fan] = MaxAttempts[Config][Fan]

Startable(n) ==
    /\ ~aborted
    /\ n.pc = "exit1" \/ (n.pc = "idle" /\ RunStands)
    /\ merge.runs + delivery.runs < MaxDeliveries[Config]

(***************************************************************************)
(* The fan-out.  An output is what the child's agent says of itself: only an   *)
(* object that says PASS and names branch, base and worktree is mergeable.    *)
(* A new process has no outputs, and what had not passed starts over: a        *)
(* fan-out that failed runs again, under a drain-merge that may have passed.   *)
(***************************************************************************)
Interrupted(n) == [n EXCEPT !.pc = IF @ = "exit0" THEN @ ELSE "idle"]

FanDone == parent[Fan] = "fan" /\ parent'[Fan] \in {"exit0", "exit1"}
Commits(c) == Edit(c) /\ wt'[c].work = "committed"

FanOutStep ==
    /\ Next
    /\ \/ /\ crashes' # crashes
          /\ outputs' = {}
          /\ merge' = Interrupted(merge) /\ delivery' = Interrupted(delivery)
       \/ /\ crashes' = crashes /\ FanDone
          /\ outputs' \in SUBSET In(Fan, Settled)
          /\ UNCHANGED <<merge, delivery>>
       \/ crashes' = crashes /\ ~FanDone /\ UNCHANGED <<outputs, merge, delivery>>
    /\ ahead' = {c \in Children : wt'[c].branch /\ (c \in ahead \/ Commits(c))}
    /\ UNCHANGED <<gitVars, origin, lease>>

----------------------------------------------------------------------------
(* drain-merge. *)

Ends0(n) == [n EXCEPT !.pc = "exit0"]
Fails(n) == [n EXCEPT !.pc = "exit1"]
SetupFails == merge' = [merge EXCEPT !.pc = "exit1", !.runs = @ + 1] /\ UNCHANGED gitVars

\* Nothing to merge; bases that differ; or the integration branch is checked
\* out, which an unmerged index or uncommitted files may prevent.
StartMerge ==
    /\ FanSettled /\ Startable(merge)
    /\ \/ /\ outputs = {}
          /\ merge' = [merge EXCEPT !.pc = "exit0", !.runs = @ + 1]
          /\ UNCHANGED gitVars
       \/ outputs # {} /\ SetupFails
       \/ /\ outputs # {} /\ ~checkout.unmerged
          /\ merge' = [pc |-> "merging", left |-> outputs, conflicts |-> FALSE,
                       runs |-> merge.runs + 1]
          /\ checkout' = [checkout EXCEPT !.on = "integration"]
          /\ branches' = [branches EXCEPT !.integration = IF @ = NoBranch THEN {Base} ELSE @]
    /\ UNCHANGED <<vars, outputs, ahead, remoteVars>>

\* A branch without commits of its own, or merged before, merges with nothing to
\* do; what a worktree holds uncommitted is on no branch.  A branch may be gone: a
\* worktree without work was removed with its branch.  A git merge that fails for
\* another reason than a conflict leaves no merge behind.
MergeChild ==
    /\ merge.pc = "merging"
    /\ \E c \in FirstOf(merge.left) :
        \/ /\ wt[c].branch /\ ~checkout.unmerged
           /\ branches' = [branches EXCEPT !.integration = @ \cup (ahead \cap {c})]
           /\ ahead' = ahead \ {c}
           /\ merge' = [merge EXCEPT !.left = @ \ {c}]
           /\ UNCHANGED checkout
        \/ /\ wt[c].branch /\ c \in ahead
           /\ checkout' = [checkout EXCEPT !.unmerged = TRUE]
           /\ merge' = [merge EXCEPT !.pc = "aborting"]
           /\ UNCHANGED <<ahead, branches>>
        \/ /\ merge' = [merge EXCEPT !.pc = "aborting"]
           /\ UNCHANGED <<ahead, gitVars>>
    /\ UNCHANGED <<vars, outputs, remoteVars>>

\* Variant: what could not be merged is left out of the report.
AbortForgetsConflict ==
    /\ merge.pc = "aborting"
    /\ \E aborts \in BOOLEAN :
          checkout' = [checkout EXCEPT !.unmerged = @ /\ ~aborts]
    /\ merge' = [merge EXCEPT !.pc = "merging", !.left = @ \ FirstOf(@)]
    /\ UNCHANGED <<vars, outputs, ahead, branches, remoteVars>>

\* The conflict goes to the report; the result of merge --abort is not looked at.
AbortMerge ==
    /\ merge.pc = "aborting"
    /\ \E aborts \in BOOLEAN :
          checkout' = [checkout EXCEPT !.unmerged = @ /\ ~aborts]
    /\ merge' = [merge EXCEPT !.pc = "merging", !.left = @ \ FirstOf(@), !.conflicts = TRUE]
    /\ UNCHANGED <<vars, outputs, ahead, branches, remoteVars>>

DrainMergeResult ==
    /\ merge.pc = "merging" /\ merge.left = {}
    /\ merge' = IF merge.conflicts THEN Fails(merge) ELSE Ends0(merge)
    /\ UNCHANGED <<vars, outputs, ahead, gitVars, remoteVars>>

----------------------------------------------------------------------------
(* open-pull-request. *)

OpenPrFailure == delivery' = Fails(delivery)

\* The mode is configured; in update-existing-pr the run was started from the
\* head of the pull request.  The nodes before have left uncommitted work.
StartDelivery ==
    /\ merge.pc = "exit0" /\ Startable(delivery)
    /\ IF delivery.mode # "unknown"
       THEN /\ delivery' = [delivery EXCEPT !.pc = "checkout", !.runs = @ + 1]
            /\ UNCHANGED <<origin, lease>>
       ELSE \E mode \in {"create-new-pr", "update-existing-pr"} :
            /\ delivery' = [pc |-> "checkout", mode |-> mode, dirty |-> TRUE, runs |-> 1]
            /\ IF mode = "create-new-pr" THEN UNCHANGED <<origin, lease>>
               ELSE origin' = [head |-> {Base}, pull |-> TRUE] /\ lease' = {Base}
    /\ UNCHANGED <<vars, outputs, ahead, gitVars, merge>>

\* Variant: a head branch that exists is checked out as it is.
CheckoutExistingHead ==
    /\ delivery.pc = "checkout"
    /\ \/ OpenPrFailure /\ UNCHANGED gitVars
       \/ /\ ~checkout.unmerged
          /\ delivery' = [delivery EXCEPT !.pc = "commit"]
          /\ branches' = [branches EXCEPT !.head =
                             IF @ # NoBranch THEN @
                             ELSE IF lease # NoBranch THEN lease ELSE branches[checkout.on]]
          /\ checkout' = [checkout EXCEPT !.on = "head"]
    /\ UNCHANGED <<vars, outputs, ahead, merge, origin, lease>>

\* checkout -B: the head branch becomes what is checked out.
CheckoutOrCreateHeadBranch ==
    /\ delivery.pc = "checkout"
    /\ \/ OpenPrFailure /\ UNCHANGED gitVars
       \/ /\ ~checkout.unmerged
          /\ delivery' = [delivery EXCEPT !.pc = "commit"]
          /\ branches' = [branches EXCEPT !.head = branches[checkout.on]]
          /\ checkout' = [checkout EXCEPT !.on = "head"]
    /\ UNCHANGED <<vars, outputs, ahead, merge, origin, lease>>

StageAndCommitChanges ==
    /\ delivery.pc = "commit"
    /\ \/ OpenPrFailure /\ UNCHANGED branches
       \/ /\ delivery' = [delivery EXCEPT !.pc = "push", !.dirty = FALSE]
          /\ branches' = [branches EXCEPT !.head = IF delivery.dirty THEN @ \cup {Uncommitted} ELSE @]
    /\ UNCHANGED <<vars, outputs, ahead, checkout, merge, origin, lease>>

\* The remote has what is pushed, or what the checkout knows of it.
LeaseHolds == origin.head \in {branches.head, lease}

\* push --force-with-lease; the answer to a push that was done may be lost.
PushHeadBranch ==
    /\ delivery.pc = "push"
    /\ \/ OpenPrFailure /\ UNCHANGED <<origin, lease>>
       \/ /\ LeaseHolds
          /\ origin' = [origin EXCEPT !.head = branches.head]
          /\ \/ delivery' = [delivery EXCEPT !.pc = "submit"] /\ lease' = branches.head
             \/ OpenPrFailure /\ UNCHANGED lease
    /\ UNCHANGED <<vars, outputs, ahead, gitVars, merge>>

\* gh pr create, which may take effect and fail; or, when there is one already,
\* gh pr edit and gh pr view.
SubmitPullRequest ==
    /\ delivery.pc = "submit"
    /\ \/ delivery.mode = "create-new-pr" /\ ~origin.pull /\ origin' = [origin EXCEPT !.pull = TRUE]
       \/ UNCHANGED origin
    /\ \/ OpenPrFailure
       \/ origin'.pull /\ delivery' = Ends0(delivery)
    /\ UNCHANGED <<vars, outputs, ahead, gitVars, merge, lease>>

\* Somebody else pushes to the branch of the pull request.
SomeonePushes ==
    /\ origin.head # NoBranch /\ Others \notin origin.head
    /\ origin' = [origin EXCEPT !.head = @ \cup {Others}]
    /\ UNCHANGED <<vars, outputs, ahead, gitVars, merge, delivery, lease>>

DrainMerge == StartMerge \/ MergeChild \/ AbortMerge \/ DrainMergeResult
OpenPullRequest ==
    \/ StartDelivery \/ CheckoutOrCreateHeadBranch \/ StageAndCommitChanges
    \/ PushHeadBranch \/ SubmitPullRequest

DeliveryNext == FanOutStep \/ DrainMerge \/ OpenPullRequest \/ SomeonePushes

DeliverySpec == DeliveryInit /\ [][DeliveryNext]_allVars

----------------------------------------------------------------------------
(* Properties. *)

\* "Exit code non-zero iff any PASSed child failed to merge" (backlog, pipe-31.4):
\* after conflicts, aborts that fail, branches that are gone, retries and crashes
\* between two git commands, every commit on the branches this process was told of
\* has been joined when drain-merge exits 0 (drain-merge.ts:229).
DrainedMeansMerged ==
    [][merge.pc # "exit0" /\ merge'.pc = "exit0" => outputs \cap ahead = {}]_allVars

\* A pull request that was delivered holds what drain-merge joined, in this
\* process or an earlier one, and what nodes had left uncommitted, whichever of
\* the steps had failed or been cut short before (open-pull-request.ts:152).
DeliveredMeansPublished ==
    [][delivery.pc' = "exit0" /\ delivery.pc # "exit0"
       => branches.integration \subseteq origin.head /\ ~delivery.dirty]_allVars

----------------------------------------------------------------------------
(* What the repository's documents say and the code does not keep.          *)

\* "A failed node and everything downstream replay" (docs/config-architecture.md):
\* drain-merge stands only while it has joined what the fan-out it needs put out,
\* also when a resumed run has run that fan-out again.
ReplayJoinsAnew == merge.pc = "exit0" => outputs \cap ahead = {}
=============================================================================
