---------------------------- MODULE MCRemoteRunner ----------------------------
(* Small plans for TLC. *)
EXTENDS RemoteRunner

\* an implementation, a group of it, and a review of the group
GroupPlan ==
    [kind |-> [a |-> "exec", g |-> "group", b |-> "exec"],
     kids |-> [n \in {"a", "b", "g"} |-> {}],
     needs |-> [a |-> {}, g |-> {"a"}, b |-> {"g"}]]

\* a parallel node and a review of it
FanPlan ==
    [kind |-> [p |-> "parallel", a |-> "exec", c |-> "exec", b |-> "exec"],
     kids |-> [p |-> {"a", "c"}, a |-> {}, c |-> {}, b |-> {}],
     needs |-> [p |-> {}, a |-> {}, c |-> {}, b |-> {"p"}]]

\* a parallel node that needs an implementation
InheritPlan ==
    [kind |-> [a |-> "exec", p |-> "parallel", c |-> "exec"],
     kids |-> [a |-> {}, p |-> {"c"}, c |-> {}],
     needs |-> [a |-> {}, p |-> {"a"}, c |-> {}]]

MCPlans == {GroupPlan, FanPlan, InheritPlan}
=============================================================================
