-------------------------- MODULE ParallelWorktrees --------------------------
(***************************************************************************)
(* The git worktree of one parallel child                                  *)
(* (src/runtime/parallel-worktrees/parallel-worktrees.ts): its manifest in  *)
(* the registry, its directory, its branch and the work in it.             *)
(*                                                                         *)
(* Creating and releasing are synchronous in Node.js but made of several    *)
(* git commands and file writes.  Each is a step here, since any of them    *)
(* may fail, the process may die between two of them and the agents, which  *)
(* are processes of their own, go on editing.                              *)
(***************************************************************************)
EXTENDS Naturals

Retained == {"retained-dirty", "retained-unpushed"}
ManifestStates == {"none", "creating", "active", "removed"} \cup Retained

\* behind: the recorded baseSha is not the commit the worktree was added at.
Worktree == [man : ManifestStates, dir : BOOLEAN, branch : BOOLEAN,
             work : {"clean", "dirty", "committed"}, behind : BOOLEAN]

NoWorktree == [man |-> "none", dir |-> FALSE, branch |-> FALSE,
               work |-> "clean", behind |-> FALSE]

\* Steps still to do; "done" and "throws" end a call.
CreateSteps == {"manifest", "add", "activate"}
ReleaseSteps == {"check", "remove", "branch", "forget"}
Ends == {"done", "throws"}

After(w, step) == [w |-> w, step |-> step]

----------------------------------------------------------------------------
\* Mutant: committed work is not looked for.
RetentionOfDirtyOnly(w) == IF w.work = "dirty" THEN "retained-dirty" ELSE "remove"

\* retentionState: dirty files, else a HEAD other than the recorded base.
RetentionState(w) ==
    IF w.work = "dirty" THEN "retained-dirty"
    ELSE IF w.work = "committed" \/ w.behind THEN "retained-unpushed"
    ELSE "remove"

\* git worktree add -b: refused when the branch is there, and it may leave the
\* branch behind when it fails.  An existing directory is reused, with the
\* checkout's HEAD of today as its base.
AddWorktree(w) ==
    IF w.dir THEN {After([w EXCEPT !.behind = b], "activate") : b \in BOOLEAN}
    ELSE IF w.branch THEN {}
    ELSE {After([w EXCEPT !.branch = TRUE], "throws"),
          After([w EXCEPT !.dir = TRUE, !.branch = TRUE, !.work = "clean",
                          !.behind = FALSE], "activate")}

\* execFileSync and writeFileSync throw: what follows in the call is not done.
Throws(w) == {After(w, "throws")}

\* Mutant: the manifest is written when the worktree is complete.
ManifestWrittenLast(step, w) ==
    Throws(w) \cup
    CASE step = "manifest" -> {After(w, "add")}
      [] step = "add" -> AddWorktree(w)
      [] step = "activate" -> {After([w EXCEPT !.man = "active"], "done")}

\* createChildWorktree
CreateStep(step, w) ==
    Throws(w) \cup
    CASE step = "manifest" -> {After([w EXCEPT !.man = "creating"], "add")}
      [] step = "add" -> AddWorktree(w)
      [] step = "activate" -> {After([w EXCEPT !.man = "active"], "done")}

\* releaseWorktree up to the decision.
Guard(w) ==
    IF w.man = "none" THEN After(w, "done")
    ELSE IF ~w.dir THEN After([w EXCEPT !.man = "removed"], "done")
    ELSE IF RetentionState(w) # "remove"
         THEN After([w EXCEPT !.man = RetentionState(w)], "done")
    ELSE After(w, "remove")

\* releaseWorktree; remove --force takes what is in the directory by then.
ReleaseStep(step, w) ==
    Throws(w) \cup
    CASE step = "check" -> {Guard(w)}
      [] step = "remove" -> {After([w EXCEPT !.dir = FALSE, !.work = "clean"], "branch")}
      [] step = "branch" -> {After([w EXCEPT !.branch = FALSE], "forget")}
      [] step = "forget" -> {After([w EXCEPT !.man = "removed"], "done")}
=============================================================================
