--------------------------- MODULE TicketCommands ---------------------------
(***************************************************************************)
(* The operator's commands on a backlog (src/commands/ticket, src/tickets,      *)
(* src/loop/loop-command.ts): `ticket next`, `start`, `complete`, `create` and   *)
(* `loop`, run by several clients in one worktree.  Each command reads the       *)
(* backlog files once and writes through the backlog tool, one call per change,  *)
(* each of which may fail.  `start` and `loop` end in a submission.             *)
(***************************************************************************)
EXTENDS Tickets, Submission

CONSTANTS
    Ticket,     \* ids of the backlog, the ones that may be created included
    Backlog,    \* the backlog at first
    Sessions,   \* the command line of each client, one function per session
    Judge(_)    \* evidence the judge cites for a criterion, of the claim or not

Lines == {s[c] : s \in Sessions, c \in Client}
PlanKeys == UNION {DOMAIN line.plan.needs : line \in Lines}
Criterion == {1, 2}

Backlogs ==
    [ids : SUBSET Ticket, deps : [Ticket -> SUBSET Nat], parent : [Ticket -> Nat],
     prio : {Backlog.prio}]

ASSUME IdsAreNumbers == Ticket \subseteq Nat \ {NoTicket}
ASSUME BacklogTyped == Backlog \in Backlogs
ASSUME LinesTyped ==
    /\ \A s \in Sessions : DOMAIN s = Client
    /\ \A line \in Lines :
        line.request \in Requests /\ line.ticket \in Ticket /\ line.parent \in Nat

VARIABLES
    bl,         \* [ids, deps, parent, prio]: the backlog files
    st, criteria,
    cmd         \* a client's command: pc, line, what it read and what it made

commandVars == <<bl, st, criteria, cmd>>
vars == <<commandVars, submission>>

CommandPc == {"read", "claim", "submit", "mark", "scope", "parent", "apply",
              "done", "refused", "failed"}

IdMaps == UNION {[K -> Ticket] : K \in SUBSET PlanKeys}
Commands ==
    [pc : CommandPc, line : Lines, ticket : Ticket \cup {NoTicket},
     criteria : SUBSET Criterion, parent : Nat,
     idOf : IdMaps, created : SUBSET Ticket]

TypeOK ==
    /\ bl \in Backlogs
    /\ st \in [Ticket -> Statuses]
    /\ criteria \in [Ticket -> SUBSET Criterion]
    /\ cmd \in [Client -> Commands]
    /\ SubmissionTypeOK

Init ==
    /\ bl = Backlog
    /\ st = [t \in Ticket |-> "To Do"]
    /\ criteria \in {[t \in Ticket |-> k] : k \in {{}, Criterion}}
    /\ \E s \in Sessions :
        cmd = [c \in Client |->
                [pc |-> IF s[c].name = "create" THEN "scope" ELSE "read", line |-> s[c],
                 ticket |-> NoTicket, criteria |-> {}, parent |-> NoTicket,
                 idOf |-> [k \in {} |-> NoTicket], created |-> {}]]
    /\ SubmissionInit

At(c, pc) == cmd[c].pc = pc
Is(c, name) == cmd[c].line.name = name
Goto(c, pc) == cmd' = [cmd EXCEPT ![c].pc = pc]
Fail(c) == Goto(c, "failed")

----------------------------------------------------------------------------
(* next and start: select in the backlog as read, claim, run *)

LoadTicketSelection(line) ==
    /\ BuildTicketGraphOk(bl)
    /\ line.options.root = NoTicket \/ line.options.root \in bl.ids

Selected(line) == SelectNextTicket(bl, st, bl.ids, line.options)

\* A task file that is missing, malformed or a duplicate fails the whole load.
ReadFails(c) ==
    /\ At(c, "read") /\ Fail(c)
    /\ UNCHANGED <<bl, st, criteria, submission>>

\* start refuses --read-only on a remote target before it claims anything.
ReadSelection(c) ==
    /\ At(c, "read") /\ (Is(c, "next") \/ Is(c, "start"))
    /\ LET line == cmd[c].line
       IN  IF LoadTicketSelection(line) /\ NoTicket \notin Selected(line) /\ ~line.readOnly
           THEN \E t \in Selected(line) :
                    cmd' = [cmd EXCEPT ![c].pc = "claim", ![c].ticket = t]
           ELSE Fail(c)
    /\ UNCHANGED <<bl, st, criteria, submission>>

\* The claim is written whatever the ticket's status has become since it was read.
ClaimTicket(c) ==
    /\ At(c, "claim")
    /\ \/ /\ st' = [st EXCEPT ![cmd[c].ticket] = "In Progress"]
          /\ Goto(c, IF Is(c, "start") THEN "submit" ELSE "done")
       \/ Fail(c) /\ UNCHANGED st
    /\ UNCHANGED <<bl, criteria, submission>>

RunCommand(c) ==
    /\ At(c, "submit")
    /\ SubmitMoka(c, cmd[c].line.request)
    /\ Goto(c, "done")
    /\ UNCHANGED <<bl, st, criteria>>

\* `moka loop` submits the controller only for an acyclic backlog with a ready ticket.
AssertStartableBacklog(c) ==
    /\ At(c, "read") /\ Is(c, "loop")
    /\ LET line == cmd[c].line
       IN  IF BuildTicketGraphOk(bl) /\ NoTicket \notin Selected(line)
           THEN Goto(c, "submit") ELSE Fail(c)
    /\ UNCHANGED <<bl, st, criteria, submission>>

----------------------------------------------------------------------------
(* complete: an evidence map per criterion, adjudicated in layers *)

\* A layer of deterministic gates, of which the command configures none, then the
\* claim, then the judge on what is left; a cited item must be deterministic evidence.
StructuredClaimUnmet(required, claim) ==
    {k \in required : k \notin DOMAIN claim \/ claim[k] = {} \/ "blank" \in claim[k]}

LlmJudgeUnmet(residue, evidence) ==
    {k \in residue : Judge(k) = {} \/ ~(Judge(k) \subseteq evidence)}

Adjudicate(required, claim, gates) ==
    LET covered == {g.criterion : g \in {h \in gates : h.passed}}
        evidence == UNION {g.evidence : g \in {h \in gates : h.passed}}
        unmet == {g.criterion : g \in {h \in gates : ~h.passed}}
        structured == StructuredClaimUnmet(required, claim)
        residue == (required \ covered) \ structured
    IN  unmet \cup structured \cup LlmJudgeUnmet(residue, evidence)

\* Entries <<criterion, text>>, several per criterion.
BuildCompletionClaim(entries) ==
    [k \in {e[1] : e \in entries} |-> {e[2] : e \in {f \in entries : f[1] = k}}]

CompleteTicket(c) ==
    /\ At(c, "read") /\ Is(c, "complete")
    /\ LET t == cmd[c].line.ticket
           unmet == Adjudicate(criteria[t], BuildCompletionClaim(cmd[c].line.evidence), {})
       IN  IF t \notin bl.ids THEN Fail(c)
           ELSE cmd' = [cmd EXCEPT ![c].pc = IF unmet = {} THEN "mark" ELSE "refused",
                                   ![c].ticket = t, ![c].criteria = criteria[t]]
    /\ UNCHANGED <<bl, st, criteria, submission>>

MarkDone(c) ==
    /\ At(c, "mark")
    /\ \/ st' = [st EXCEPT ![cmd[c].ticket] = "Done"] /\ Goto(c, "done")
       \/ Fail(c) /\ UNCHANGED st
    /\ UNCHANGED <<bl, criteria, submission>>

----------------------------------------------------------------------------
(* create: a plan [epic, needs, unique], needs[k] the local keys ticket k waits for *)

PlanOk(plan) ==
    /\ plan.unique
    /\ plan.epic \notin DOMAIN plan.needs
    /\ \A k \in DOMAIN plan.needs : plan.needs[k] \subseteq DOMAIN plan.needs

\* --dry-run or --apply, not both, and --parent only with --apply.
CreateFlagsOk(line) ==
    /\ line.apply # line.dryRun
    /\ line.parent # NoTicket => line.apply

ScopeTickets(c) ==
    /\ At(c, "scope")
    /\ LET line == cmd[c].line
       IN  \/ CreateFlagsOk(line) /\ PlanOk(line.plan)
              /\ Goto(c, IF line.dryRun THEN "done" ELSE "parent")
           \/ Fail(c)
    /\ UNCHANGED <<bl, st, criteria, submission>>

Free == Ticket \ bl.ids

\* One backlog call: it fails, or creates a ticket whose id cannot be read back, or
\* succeeds; made says what the caller does with the id then.
RunCreate(c, deps, parent, made) ==
    \/ Fail(c) /\ UNCHANGED <<bl, criteria>>
    \/ \E id \in {t \in Free : \A u \in Free : t <= u} :
            /\ bl' = [bl EXCEPT !.ids = @ \cup {id}, !.deps[id] = deps, !.parent[id] = parent]
            /\ criteria' = [criteria EXCEPT ![id] = {}]
            /\ cmd' = made[id] \/ Fail(c)

ResolveParentId(c) ==
    /\ At(c, "parent")
    /\ LET line == cmd[c].line
           made == [id \in Ticket |->
                       [cmd EXCEPT ![c].pc = "apply", ![c].parent = id,
                                   ![c].created = @ \cup {id}]]
       IN  IF line.parent # NoTicket
           THEN /\ cmd' = [cmd EXCEPT ![c].pc = "apply", ![c].parent = line.parent]
                /\ UNCHANGED <<bl, criteria>>
           ELSE IF line.plan.epic = "none" THEN Fail(c) /\ UNCHANGED <<bl, criteria>>
           ELSE RunCreate(c, {}, NoTicket, made)
    /\ UNCHANGED <<st, submission>>

Remaining(c) == DOMAIN cmd[c].line.plan.needs \ DOMAIN cmd[c].idOf

\* Variant: the next wave does not wait for the one before.
AnyRemainingKey(c) == Remaining(c)

ReadyKeys(c) == {k \in Remaining(c) : cmd[c].line.plan.needs[k] \subseteq DOMAIN cmd[c].idOf}

\* One ticket of the current wave; no ticket that is ready means a cycle in the plan.
CreateChildTickets(c) ==
    /\ At(c, "apply")
    /\ IF Remaining(c) = {} THEN Goto(c, "done") /\ UNCHANGED <<bl, criteria>>
       ELSE IF ReadyKeys(c) = {} THEN Fail(c) /\ UNCHANGED <<bl, criteria>>
       ELSE \E k \in ReadyKeys(c) :
              LET idOf == cmd[c].idOf
                  deps == {IF d \in DOMAIN idOf THEN idOf[d] ELSE NoTicket :
                           d \in cmd[c].line.plan.needs[k]}
                  made == [id \in Ticket |->
                      [cmd EXCEPT
                          ![c].idOf = [d \in DOMAIN idOf \cup {k} |->
                                        IF d = k THEN id ELSE idOf[d]],
                          ![c].created = @ \cup {id}]]
              IN  RunCreate(c, deps, cmd[c].parent, made)
    /\ UNCHANGED <<st, submission>>

----------------------------------------------------------------------------

\* A person rewrites the acceptance criteria of a ticket between read and write.
CriteriaEdited ==
    /\ \E c \in Client : At(c, "mark")
    /\ \E t \in bl.ids : criteria[t] = {} /\ criteria' = [criteria EXCEPT ![t] = Criterion]
    /\ UNCHANGED <<bl, st, cmd, submission>>

CommandStep(c) ==
    \/ ReadFails(c) \/ ReadSelection(c) \/ ClaimTicket(c) \/ RunCommand(c)
    \/ AssertStartableBacklog(c)
    \/ CompleteTicket(c) \/ MarkDone(c)
    \/ ScopeTickets(c) \/ ResolveParentId(c) \/ CreateChildTickets(c)

Next ==
    \/ \E c \in Client :
        \/ CommandStep(c)
        \/ SubmitStep(c) /\ UNCHANGED commandVars
        \/ ClusterStep(c) /\ UNCHANGED commandVars
    \/ CriteriaEdited

Spec == Init /\ [][Next]_vars

\* A command is one fiber that never parks for good, and the API server answers.
FairSpec ==
    /\ Spec
    /\ \A c \in Client :
        /\ WF_vars(CommandStep(c))
        /\ WF_vars(SubmitStep(c) /\ UNCHANGED commandVars)
        /\ \A m \in Map : WF_vars(CreateLands(c, m) /\ UNCHANGED commandVars)

----------------------------------------------------------------------------
(* Properties *)

\* However far a plan is applied before it fails, every ticket it made has dependencies
\* that exist and a parent that does or that the operator named, and a plan reported as
\* applied made all its tickets once, below one parent, with the dependencies it asked for
\* (applyTicketPlanEffect).
PlanAppliedInOrder ==
    \A c \in Client : Is(c, "create") =>
        /\ \A id \in cmd[c].created :
            /\ bl.deps[id] \subseteq bl.ids
            /\ bl.parent[id] \in bl.ids \cup {NoTicket, cmd[c].line.parent}
        /\ At(c, "done") /\ ~cmd[c].line.dryRun =>
            /\ DOMAIN cmd[c].idOf = DOMAIN cmd[c].line.plan.needs
            /\ \A k \in DOMAIN cmd[c].idOf : bl.parent[cmd[c].idOf[k]] = cmd[c].parent
            /\ \A k, l \in DOMAIN cmd[c].idOf :
                /\ k # l => cmd[c].idOf[k] # cmd[c].idOf[l]
                /\ l \in cmd[c].line.plan.needs[k] <=>
                    cmd[c].idOf[l] \in bl.deps[cmd[c].idOf[k]]
=============================================================================
