-------------------------- MODULE MCLoopController --------------------------
(* An epic with two children, of which the second waits for the first; three     *)
(* independent tickets of which one has a dangling dependency and a missing        *)
(* parent; a cyclic backlog.                                                     *)
EXTENDS LoopController

MCTicket == 1 .. 3
Epic == [ids |-> MCTicket, deps |-> <<{}, {}, {2}>>, parent |-> <<0, 1, 1>>,
         prio |-> <<1, 1, 0>>]
Flat == [ids |-> MCTicket, deps |-> <<{9}, {}, {1}>>, parent |-> <<8, 0, 0>>,
         prio |-> <<1, 0, 1>>]
Cyclic == [ids |-> MCTicket, deps |-> <<{3}, {1}, {2}>>, parent |-> <<0, 0, 0>>,
           prio |-> <<1, 1, 1>>]
MCBacklogs == {Epic, Flat, Cyclic}
MCOptions ==
    {[root |-> 0, strategy |-> "priority", includeParents |-> FALSE],
     [root |-> 1, strategy |-> "dfs", includeParents |-> FALSE]}

Required(c) == [required |-> TRUE, conclusion |-> c]
MCCheckLists ==
    {{}, {Required("failure"), Required("cancelled")}, {Required("timed_out")},
     {Required("success"), [required |-> FALSE, conclusion |-> "failure"]}}
=============================================================================
