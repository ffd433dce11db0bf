----------------------------- MODULE MCGoalLoop -----------------------------
(* Two nodes on one server or in one worktree, or one node that a goal loop drives. *)
EXTENDS GoalLoop

CONSTANTS n1, n2

Plain == [missing |-> FALSE, unreadable |-> FALSE, runner |-> "opencode",
          repairRunner |-> "opencode", models |-> <<>>, usable |-> {}, budget |-> FALSE,
          timeout |-> 0, envTimeout |-> 1, idle |-> 0, schema |-> FALSE, repairs |-> 1,
          handoff |-> FALSE, goal |-> FALSE]
NoNode == [Plain EXCEPT !.missing = TRUE]
Command == [Plain EXCEPT !.runner = "command", !.repairRunner = "command", !.repairs = 0]

Fallback == [Plain EXCEPT !.models = <<"a", "b">>, !.usable = {"a", "b"}, !.idle = 1,
                          !.timeout = 2]
Single == {
    Fallback,
    [Fallback EXCEPT !.idle = 0, !.timeout = 1],
    [Plain EXCEPT !.schema = TRUE, !.repairs = 2, !.handoff = TRUE],
    [Plain EXCEPT !.schema = TRUE, !.repairRunner = "command"],
    [Plain EXCEPT !.envTimeout = 0, !.idle = 1, !.models = <<"a", "b">>, !.usable = {"b"}],
    [Plain EXCEPT !.models = <<"a">>, !.budget = TRUE],
    [Plain EXCEPT !.unreadable = TRUE],
    [Plain EXCEPT !.goal = TRUE]}
Pairs == {<<[Plain EXCEPT !.models = <<"a">>, !.usable = {"a"}, !.idle = 1, !.envTimeout = 0],
            [Plain EXCEPT !.envTimeout = 0]>>,
          <<Command, Command>>}
MCProfiles ==
    {[n \in {n1, n2} |-> IF n = n1 THEN p ELSE NoNode] : p \in Single} \cup
    {[n \in {n1, n2} |-> IF n = n1 THEN p[1] ELSE p[2]] : p \in Pairs}

Verified == [type |-> "output", verifier |-> TRUE, verdict |-> "PASS", evidence |-> 1,
             violations |-> FALSE, accept |-> "met"]
MCEvent ==
    {Verified, [Verified EXCEPT !.evidence = 0],
     [Verified EXCEPT !.verdict = "FAIL", !.evidence = 2, !.accept = "absent"],
     [Verified EXCEPT !.verifier = FALSE, !.accept = "unmet"],
     [type |-> "gate", verifier |-> TRUE, passed |-> FALSE],
     [type |-> "gate", verifier |-> FALSE, passed |-> FALSE], [type |-> "files"]}
=============================================================================
