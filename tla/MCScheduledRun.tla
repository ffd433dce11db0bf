--------------------------- MODULE MCScheduledRun ---------------------------
(* Two workers; the profiles of defaults/profiles.yaml that matter; a backlog  *)
(* of one split ticket; what a planner may answer.                            *)
EXTENDS ScheduledRun

MCSchedulingRoles ==
    [p \in {"moka-researcher", "moka-learner"} |-> {}]
    @@ [p \in {"moka-test-writer", "moka-code-writer"} |-> {"implementation"}]
    @@ [p \in {"moka-verifier", "moka-acceptance-reviewer", "moka-thermo-nuclear-reviewer"} |-> {"coverage"}]
MCWorkspaceWrite == {"moka-test-writer", "moka-code-writer"}
MCCoverageProfiles == <<"moka-verifier", "moka-acceptance-reviewer", "moka-thermo-nuclear-reviewer">>
MCSlug == "Impl" :> "impl" @@ "T.1" :> "t-1" @@ "T.2" :> "t-2"

MCBacklog == [ids |-> <<"T", "T.1", "T.2">>,
              parent |-> "T" :> "" @@ "T.1" :> "T" @@ "T.2" :> "T",
              deps |-> "T" :> {} @@ "T.1" :> {"X"} @@ "T.2" :> {"T.1", "X"}]
MCTasks == {{}, {"T"}}
MCTicketPlan == [units |-> <<"p1", "p2">>, deps |-> "p1" :> {} @@ "p2" :> {"p1"}]

Write(id, needs) == Agent(<<id>>, "moka-code-writer", needs)
Verify(id, needs) == Agent(<<id>>, "moka-verifier", needs)
Research(id, needs) == Agent(<<id>>, "moka-researcher", needs)
Unit(node, unit) == [node EXCEPT !.unit = unit]
Parallel(id, needs, nodes) ==
    [AnyNode EXCEPT !.id = <<id>>, !.kind = "parallel", !.needs = needs, !.nodes = nodes]
Group(id, members) ==
    [AnyNode EXCEPT !.id = <<id>>, !.kind = "group", !.members = members]

Root(nodes) == [root |-> "root", nodes |-> nodes]
a == {<<"a">>}
fan == {<<"fan">>}

MCAnswers ==
    "covered" :> Root(<<Write("a", {}), Verify("v", a)>>)
 @@ "two writers" :> Root(<<Parallel("fan", {}, <<Write("a", {}), Write("b", {})>>),
                           Research("notes", fan)>>)
 @@ "one child, two writers" :> Root(<<Parallel("fan", {},
        <<Parallel("inner", {}, <<Write("a", {}), Write("b", {})>>)>>)>>)
 @@ "verified by a sibling" :> Root(<<Parallel("fan", {}, <<Write("a", {}), Verify("v", a)>>)>>)
 @@ "slugs meet" :> Root(<<Write("Impl", {}), Write("impl", {<<"Impl">>})>>)
 @@ "cycle" :> Root(<<Write("a", {<<"v">>}), Verify("v", a), Verify("w", a)>>)
 @@ "declared twice" :> Root(<<Write("a", {}), Verify("a", {})>>)
 @@ "twice in two scopes" :> Root(<<Parallel("fan", {}, <<Write("a", {})>>), Verify("a", fan)>>)
 @@ "needs a stranger" :> Root(<<Write("a", {<<"ghost">>})>>)
 @@ "needs across scopes" :> Root(<<Parallel("fan", {}, <<Write("a", {})>>), Verify("v", a)>>)
 @@ "group" :> Root(<<Group("g", {<<"a">>, <<"b">>}), Write("a", {}), Write("b", {}),
                     Verify("v", {<<"g">>})>>)
 @@ "empty group" :> Root(<<Write("a", {}), Group("g", {})>>)
 @@ "delivers early" :> Root(<<Write("a", {}), Builtin(<<"pr">>, "open-pull-request", a), Verify("v", a)>>)
 @@ "strange builtin" :> Root(<<Builtin(<<"b">>, "deploy", {})>>)
 @@ "strange gate" :> Root(<<[Verify("v", {}) EXCEPT !.gates = {"deploy"}]>>)
 @@ "strange profile" :> Root(<<Agent(<<"a">>, "nobody", {})>>)
 @@ "other root" :> [root |-> "main", nodes |-> <<Research("r", {})>>]
 @@ "units" :> Root(<<Unit(Write("a", {}), "T.1"), Unit(Write("b", a), "T.2"), Verify("v", {<<"b">>})>>)
 @@ "units out of order" :> Root(<<Unit(Write("a", {}), "T.1"), Unit(Write("b", {}), "T.2")>>)
 @@ "planned units" :> Root(<<Unit(Write("a", {}), "p1"), Unit(Write("b", a), "p2"), Verify("v", {<<"b">>})>>)
 @@ "units in a parallel" :> Root(<<Parallel("fan", {}, <<Unit(Write("a", {}), "T.1"),
                                                        Unit(Write("b", a), "T.2")>>)>>)
=============================================================================
