-------------------------- MODULE MCTicketCommands --------------------------
(* Two clients on three tickets, of which the second waits for the first; room for  *)
(* three more.                                                                      *)
EXTENDS TicketCommands

CONSTANTS c1, c2
MCTicket == 1 .. 6
MCBacklog ==
    [ids |-> 1 .. 3, deps |-> [t \in MCTicket |-> IF t = 2 THEN {1} ELSE {}],
     parent |-> [t \in MCTicket |-> NoTicket], prio |-> [t \in MCTicket |-> 1]]

Good == [type |-> "graph", schedule |-> "none", sink |-> "one", tokenFile |-> TRUE,
         url |-> FALSE, key |-> FALSE, clash |-> FALSE, repository |-> TRUE,
         worktree |-> FALSE, remote |-> "https", credentials |-> TRUE]
MCRequests ==
    {Good, [Good EXCEPT !.schedule = "good", !.sink = "none", !.url = TRUE, !.key = TRUE],
     [Good EXCEPT !.type = "command"],
     [Good EXCEPT !.schedule = "ungraphable"], [Good EXCEPT !.sink = "none", !.url = TRUE],
     [Good EXCEPT !.remote = "ssh-other"], [Good EXCEPT !.tokenFile = FALSE]}

NoPlan == [epic |-> "none", needs |-> <<>>, unique |-> TRUE]
Line == [name |-> "next", options |-> [root |-> NoTicket, strategy |-> "priority",
         includeParents |-> FALSE], readOnly |-> FALSE, request |-> Good, ticket |-> 1,
         evidence |-> {}, plan |-> NoPlan, apply |-> TRUE, dryRun |-> FALSE,
         parent |-> NoTicket]
Diamond == [epic |-> "epic", needs |-> [k \in {"a", "b"} |-> IF k = "b" THEN {"a"} ELSE {}],
            unique |-> TRUE]
Cyclic == [epic |-> "none", unique |-> TRUE,
           needs |-> [k \in {"a", "b", "c"} |-> IF k = "b" THEN {"c"}
                                                 ELSE IF k = "c" THEN {"b"} ELSE {}]]
MCCommands ==
    {Line, [Line EXCEPT !.options.root = 9], [Line EXCEPT !.name = "start", !.readOnly = TRUE]}
    \cup {[Line EXCEPT !.name = "start", !.request = r] :
             r \in {q \in MCRequests : q.type = "graph"}}
    \cup {[Line EXCEPT !.name = "loop", !.request = [Good EXCEPT !.type = "command"]],
          [Line EXCEPT !.name = "complete", !.evidence = {<<1, "shown">>, <<2, "shown">>}],
          [Line EXCEPT !.name = "complete", !.ticket = 6],
          [Line EXCEPT !.name = "create", !.plan = Diamond],
          [Line EXCEPT !.name = "create", !.plan = Cyclic, !.parent = 3],
          [Line EXCEPT !.name = "create", !.plan = Cyclic],
          [Line EXCEPT !.name = "create", !.plan = Diamond, !.parent = 9],
          [Line EXCEPT !.name = "create", !.plan = Diamond, !.dryRun = TRUE,
                       !.apply = FALSE]}
\* The second client works with the first, without another static submission.
MCSecond ==
    {Line, [Line EXCEPT !.name = "create", !.plan = Diamond],
     [Line EXCEPT !.name = "start", !.request = [Good EXCEPT !.tokenFile = FALSE]],
     [Line EXCEPT !.name = "complete", !.evidence = {<<1, "shown">>, <<2, "shown">>}]}
MCSessions == {[c \in {c1, c2} |-> IF c = c1 THEN l ELSE n] : l \in MCCommands, n \in MCSecond}
MCJudge(k) == {"shown"}
=============================================================================
