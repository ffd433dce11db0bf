------------------------ MODULE TicketCommandsProofs ------------------------
(***************************************************************************)
(* Proofs about the operator's commands and the submissions they end in        *)
(* (TicketCommands, Submission), for any number of clients, any backlog and      *)
(* any plans.  The inductive invariant CommandInv says of each client that what  *)
(* it made of its plan is in the backlog as the plan asked (PlanFits, an         *)
(* operator of a command and a backlog), and of each submission what the         *)
(* cluster may still hold for it (SubmissionFits).  A backlog only grows:          *)
(* a new ticket takes a free id, and no command rewrites the dependencies of     *)
(* a ticket that exists (Grows).                                               *)
(***************************************************************************)
EXTENDS TicketCommands, TLAPS

\* What the command r, a create, has made is in the backlog b as its plan asks: ids of
\* its own, below one parent, waiting for what they should.
PlanFits(r, b) ==
    LET needs == r.line.plan.needs
        keys == DOMAIN r.idOf
    IN  /\ r.pc \in {"scope", "parent", "apply", "done", "failed"}
        /\ r.pc \in {"scope", "parent"} => keys = {}
        /\ r.pc = "done" /\ ~r.line.dryRun => keys = DOMAIN needs
        /\ r.pc = "apply" => r.parent \in b.ids \cup {r.line.parent}
        /\ \A id \in r.created :
            /\ id \in b.ids /\ b.deps[id] \subseteq b.ids
            /\ b.parent[id] \in b.ids \cup {NoTicket, r.line.parent}
        /\ keys \subseteq DOMAIN needs
        /\ \A k \in keys :
            /\ r.idOf[k] \in r.created /\ b.parent[r.idOf[k]] = r.parent
            /\ needs[k] \subseteq keys
            /\ b.deps[r.idOf[k]] = {r.idOf[d] : d \in needs[k]}
        /\ \A k, l \in keys : k # l => r.idOf[k] # r.idOf[l]

\* Before the maps are sent there is no call; after a clean-up that reports no error
\* nothing acknowledged is left.
SubmissionFits(c) ==
    /\ sub[c].pc \in {"idle", "record", "payload"} => \A m \in Map : call[c][m] = "none"
    /\ sub[c].pc = "failed" /\ ~sub[c].dirty =>
        \A m \in Map : call[c][m] = "acked" => cm[c][m] = "absent"

SubmissionInv == SubmissionTypeOK /\ \A c \in Client : SubmissionFits(c)

Created(c) == cmd[c].line.name = "create" => PlanFits(cmd[c], bl)

CommandInv == TypeOK /\ SubmissionInv /\ \A c \in Client : Created(c)

----------------------------------------------------------------------------
(* Commands and backlogs as data. *)

Grows(b, new) ==
    /\ b.ids \subseteq new.ids
    /\ \A t \in b.ids : new.deps[t] = b.deps[t] /\ new.parent[t] = b.parent[t]

\* What fits a backlog fits one that has grown.
LEMMA GrowthKeeps ==
    ASSUME NEW r, NEW b, NEW new, PlanFits(r, b), Grows(b, new)
    PROVE  PlanFits(r, new)
<1>1. \A id \in r.created :
        /\ id \in new.ids /\ new.deps[id] = b.deps[id] /\ new.parent[id] = b.parent[id]
  BY DEF PlanFits, Grows
<1>2. b.ids \subseteq new.ids
  BY DEF Grows
<1> QED
  BY <1>1, <1>2 DEF PlanFits

LEMMA KeysArePlanned ==
    ASSUME NEW r \in Commands
    PROVE  DOMAIN r.line.plan.needs \subseteq PlanKeys
<1>1. r.line \in Lines
  BY DEF Commands
<1> QED
  BY <1>1 DEF PlanKeys

\* Moving to another step leaves the rest of a command alone.
LEMMA MovedCommand ==
    ASSUME NEW r \in Commands, NEW pc \in CommandPc
    PROVE  /\ [r EXCEPT !.pc = pc] \in Commands
           /\ [r EXCEPT !.pc = pc].pc = pc
           /\ [r EXCEPT !.pc = pc].line = r.line
           /\ [r EXCEPT !.pc = pc].parent = r.parent
           /\ [r EXCEPT !.pc = pc].idOf = r.idOf
           /\ [r EXCEPT !.pc = pc].created = r.created
  BY DEF Commands

\* A command that fails, or ends with its plan applied, leaves what it made in place.
LEMMA FailingFits ==
    ASSUME NEW r \in Commands, NEW b, PlanFits(r, b)
    PROVE  PlanFits([r EXCEPT !.pc = "failed"], b)
<1> DEFINE q == [r EXCEPT !.pc = "failed"]
<1>1. /\ q.pc = "failed" /\ q.line = r.line /\ q.parent = r.parent /\ q.idOf = r.idOf
      /\ q.created = r.created
  BY MovedCommand DEF CommandPc
<1> HIDE DEF q
<1>2. PlanFits(q, b)
  BY <1>1 DEF PlanFits
<1> QED
  BY <1>2 DEF q

\* One more ticket of the plan: what it waits for was made before it (createChildTickets).
LEMMA ChildFits ==
    ASSUME NEW r \in Commands, NEW b \in Backlogs, PlanFits(r, b), r.pc = "apply",
           NEW k \in DOMAIN r.line.plan.needs \ DOMAIN r.idOf,
           r.line.plan.needs[k] \subseteq DOMAIN r.idOf,
           NEW id \in Ticket \ b.ids, NEW new, Grows(b, new), new.ids = b.ids \cup {id},
           new.deps[id] = {r.idOf[d] : d \in r.line.plan.needs[k]},
           new.parent[id] = r.parent,
           NEW q, q.pc = "apply", q.line = r.line, q.parent = r.parent,
           q.created = r.created \cup {id}, DOMAIN q.idOf = DOMAIN r.idOf \cup {k},
           \A d \in DOMAIN r.idOf : q.idOf[d] = r.idOf[d], q.idOf[k] = id
    PROVE  PlanFits(q, new)
<1> DEFINE needs == r.line.plan.needs
           keys == DOMAIN r.idOf
<1>1. PlanFits(r, new)
  BY GrowthKeeps
<1>2. \A d \in keys : r.idOf[d] \in b.ids /\ r.idOf[d] # id /\ q.idOf[d] = r.idOf[d]
  BY DEF PlanFits
<1>3. \A j \in keys : needs[j] \subseteq keys
  BY DEF PlanFits
<1>4. \A j \in keys \cup {k} : needs[j] \subseteq keys
  BY <1>3
<1>5. \A j \in keys \cup {k} :
        {q.idOf[d] : d \in needs[j]} = {r.idOf[d] : d \in needs[j]}
  BY <1>2, <1>4
<1>6. new.deps[id] \subseteq new.ids
  BY <1>2, <1>4
<1>7. r.parent \in new.ids \cup {r.line.parent}
  BY <1>1 DEF PlanFits
<1>8. \A j \in q.created :
        /\ j \in new.ids /\ new.deps[j] \subseteq new.ids
        /\ new.parent[j] \in new.ids \cup {NoTicket, q.line.parent}
  BY <1>1, <1>6, <1>7 DEF PlanFits
<1>9. \A j \in keys \cup {k} :
        /\ q.idOf[j] \in q.created /\ new.parent[q.idOf[j]] = q.parent
        /\ needs[j] \subseteq keys \cup {k}
        /\ new.deps[q.idOf[j]] = {q.idOf[d] : d \in needs[j]}
  <2>1. ASSUME NEW j \in keys
        PROVE  /\ q.idOf[j] \in q.created /\ new.parent[q.idOf[j]] = q.parent
               /\ needs[j] \subseteq keys \cup {k}
               /\ new.deps[q.idOf[j]] = {q.idOf[d] : d \in needs[j]}
    <3>1. /\ r.idOf[j] \in r.created /\ new.parent[r.idOf[j]] = r.parent
          /\ new.deps[r.idOf[j]] = {r.idOf[d] : d \in needs[j]}
      BY <1>1 DEF PlanFits
    <3> QED
      BY <1>2, <1>3, <1>5, <3>1
  <2>2. /\ q.idOf[k] \in q.created /\ new.parent[q.idOf[k]] = q.parent
        /\ needs[k] \subseteq keys \cup {k}
        /\ new.deps[q.idOf[k]] = {q.idOf[d] : d \in needs[k]}
    BY <1>4, <1>5
  <2> QED
    BY <2>1, <2>2
<1>10. \A j, l \in keys \cup {k} : j # l => q.idOf[j] # q.idOf[l]
  <2>1. \A j, l \in keys : j # l => r.idOf[j] # r.idOf[l]
    BY DEF PlanFits
  <2> QED
    BY <1>2, <2>1
<1>11. keys \cup {k} \subseteq DOMAIN needs
  BY DEF PlanFits
<1> HIDE DEF needs, keys
<1>12. DOMAIN q.idOf = keys \cup {k} /\ q.line.plan.needs = needs
  BY DEF needs, keys
<1>13. q.parent \in new.ids \cup {q.line.parent}
  BY <1>7
<1> QED
  BY <1>8, <1>9, <1>10, <1>11, <1>12, <1>13 DEF PlanFits

\* An epic made for the plan is the parent of what follows (resolveParentId).
LEMMA EpicFits ==
    ASSUME NEW r \in Commands, NEW b \in Backlogs, PlanFits(r, b), r.pc = "parent",
           NEW id \in Ticket \ b.ids, NEW new, Grows(b, new), new.ids = b.ids \cup {id},
           new.deps[id] = {}, new.parent[id] = NoTicket,
           NEW q, q.pc = "apply", q.line = r.line, q.parent = id,
           q.created = r.created \cup {id}, q.idOf = r.idOf
    PROVE  PlanFits(q, new)
<1>1. PlanFits(r, new) /\ DOMAIN r.idOf = {}
  BY GrowthKeeps DEF PlanFits
<1>2. \A j \in q.created :
        /\ j \in new.ids /\ new.deps[j] \subseteq new.ids
        /\ new.parent[j] \in new.ids \cup {NoTicket, q.line.parent}
  BY <1>1 DEF PlanFits
<1> QED
  BY <1>1, <1>2 DEF PlanFits

\* With nothing made yet, or everything, the command may go to its next step.
LEMMA AdvancingFits ==
    ASSUME NEW r \in Commands, NEW b, PlanFits(r, b),
           NEW q, q.line = r.line, q.idOf = r.idOf, q.created = r.created,
           \/ r.pc = "scope" /\ q.pc = "parent"
           \/ r.pc = "scope" /\ q.pc = "done" /\ r.line.dryRun
           \/ r.pc = "parent" /\ q.pc = "apply" /\ q.parent = r.line.parent
           \/ /\ r.pc = "apply" /\ q.pc = "done" /\ q.parent = r.parent
              /\ DOMAIN r.line.plan.needs \ DOMAIN r.idOf = {}
    PROVE  PlanFits(q, b)
<1>1. CASE r.pc \in {"scope", "parent"}
  <2>1. DOMAIN q.idOf = {}
    BY <1>1 DEF PlanFits
  <2>2. \A id \in q.created :
            /\ id \in b.ids /\ b.deps[id] \subseteq b.ids
            /\ b.parent[id] \in b.ids \cup {NoTicket, q.line.parent}
    BY DEF PlanFits
  <2>3. /\ q.pc \in {"parent", "done", "apply"}
        /\ q.pc = "done" => q.line.dryRun
        /\ q.pc = "apply" => q.parent = q.line.parent
    BY <1>1
  <2> QED
    BY <2>1, <2>2, <2>3 DEF PlanFits
<1>2. CASE r.pc = "apply"
  <2>1. /\ q.pc = "done" /\ q.parent = r.parent
        /\ DOMAIN r.line.plan.needs \ DOMAIN r.idOf = {}
    BY <1>2
  <2>2. DOMAIN q.idOf = DOMAIN q.line.plan.needs
    BY <2>1 DEF PlanFits
  <2>3. \A k \in DOMAIN q.idOf :
            /\ q.idOf[k] \in q.created /\ b.parent[q.idOf[k]] = q.parent
            /\ q.line.plan.needs[k] \subseteq DOMAIN q.idOf
            /\ b.deps[q.idOf[k]] = {q.idOf[d] : d \in q.line.plan.needs[k]}
    BY <2>1 DEF PlanFits
  <2>4. /\ \A id \in q.created :
            /\ id \in b.ids /\ b.deps[id] \subseteq b.ids
            /\ b.parent[id] \in b.ids \cup {NoTicket, q.line.parent}
        /\ \A k, l \in DOMAIN q.idOf : k # l => q.idOf[k] # q.idOf[l]
    BY DEF PlanFits
  <2> QED
    BY <2>1, <2>2, <2>3, <2>4 DEF PlanFits
<1> QED
  BY <1>1, <1>2

----------------------------------------------------------------------------
(* Submissions. *)

Submissions == [pc : SubmitPc, request : Requests \cup {NoRequest}, dirty : BOOLEAN]
CallStates == {"none", "sent", "landed", "acked", "lost"}
MapStates == {"absent", "present", "owned"}

LEMMA SubmitGotoMoves ==
    ASSUME sub \in [Client -> Submissions], NEW c \in Client, NEW pc \in SubmitPc, SubmitGoto(c, pc)
    PROVE  /\ sub' \in [Client -> Submissions] /\ \A d \in Client \ {c} : sub'[d] = sub[d]
           /\ sub'[c].pc = pc /\ sub'[c].dirty = sub[c].dirty
  BY DEF SubmitGoto, Submissions

\* One client's submission does not touch another's names.
LEMMA OthersFit ==
    ASSUME SubmissionInv, NEW c \in Client, SubmissionTypeOK', SubmissionFits(c)',
           \A d \in Client \ {c} : sub'[d] = sub[d] /\ call'[d] = call[d] /\ cm'[d] = cm[d]
    PROVE  SubmissionInv'
<1>1. \A d \in Client : SubmissionFits(d)'
  BY DEF SubmissionInv, SubmissionFits
<1> QED
  BY <1>1 DEF SubmissionInv

LEMMA SubmitMokaKeeps ==
    ASSUME SubmissionInv, NEW c \in Client, NEW r \in Requests, SubmitMoka(c, r)
    PROVE  SubmissionInv'
<1>1. sub \in [Client -> Submissions] /\ SubmissionTypeOK /\ SubmissionFits(c)
  BY DEF SubmissionInv, SubmissionTypeOK, Submissions
<1>2. PICK pc \in {"record", "failed"} :
        sub' = [sub EXCEPT ![c].request = r, ![c].pc = pc]
  BY DEF SubmitMoka
<1>3. /\ sub' \in [Client -> Submissions] /\ \A d \in Client \ {c} : sub'[d] = sub[d]
      /\ sub'[c].pc = pc
  <2>1. PICK q : q = [sub[c] EXCEPT !.request = r, !.pc = pc]
    OBVIOUS
  <2>2. sub[c] \in Submissions /\ pc \in SubmitPc
    BY <1>1 DEF SubmitPc
  <2>3. q \in Submissions /\ q.pc = pc
    BY <2>1, <2>2 DEF Submissions
  <2>4. sub' = [sub EXCEPT ![c] = q]
    BY <1>1, <1>2, <2>1 DEF Submissions
  <2> QED
    BY <1>1, <2>3, <2>4
<1>4. sub[c].pc = "idle" /\ UNCHANGED <<call, cm, wf, record>>
  BY DEF SubmitMoka, SubmitAt
<1>5. SubmissionTypeOK'
  BY <1>1, <1>3, <1>4 DEF SubmissionTypeOK, Submissions
<1>6. \A m \in Map : call'[c][m] = "none"
  BY <1>1, <1>4 DEF SubmissionFits
<1>7. SubmissionFits(c)'
  BY <1>2, <1>3, <1>6 DEF SubmissionFits
<1> QED
  BY <1>3, <1>4, <1>5, <1>7, OthersFit

\* From the record of the run to the calls: nothing is in the cluster yet.
LEMMA BeforeCallsKeep ==
    ASSUME SubmissionInv, NEW c \in Client, UpsertSubmittedRunRecord(c) \/ BuildPayload(c)
    PROVE  SubmissionInv'
<1>1. sub \in [Client -> Submissions] /\ SubmissionTypeOK /\ SubmissionFits(c)
  BY DEF SubmissionInv, SubmissionTypeOK, Submissions
<1>2. CASE UpsertSubmittedRunRecord(c)
  <2>1. sub[c].pc = "record" /\ SubmitGoto(c, "payload") /\ UNCHANGED <<call, cm, wf>>
    BY <1>2 DEF UpsertSubmittedRunRecord, SubmitAt
  <2>2. PICK w \in {"none", "created", "scheduled"} : record' = [record EXCEPT ![c] = w]
    BY <1>2 DEF UpsertSubmittedRunRecord
  <2>3. /\ sub' \in [Client -> Submissions] /\ \A d \in Client \ {c} : sub'[d] = sub[d]
        /\ sub'[c].pc = "payload"
    BY <1>1, <2>1, SubmitGotoMoves DEF SubmitPc
  <2>4. SubmissionTypeOK'
    BY <1>1, <2>1, <2>2, <2>3 DEF SubmissionTypeOK, Submissions
  <2>5. SubmissionFits(c)'
    BY <1>1, <2>1, <2>3 DEF SubmissionFits
  <2> QED
    BY <2>1, <2>3, <2>4, <2>5, OthersFit
<1>3. CASE BuildPayload(c)
  <2>1. sub[c].pc = "payload" /\ UNCHANGED <<cm, wf, record>>
    BY <1>3 DEF BuildPayload, SubmitAt
  <2>2. CASE SubmitGoto(c, "failed") /\ UNCHANGED call
    <3>1. /\ sub' \in [Client -> Submissions] /\ \A d \in Client \ {c} : sub'[d] = sub[d]
          /\ sub'[c].pc = "failed"
      BY <1>1, <2>2, SubmitGotoMoves DEF SubmitPc
    <3>2. SubmissionTypeOK'
      BY <1>1, <2>1, <2>2, <3>1 DEF SubmissionTypeOK, Submissions
    <3>3. \A m \in Map : call'[c][m] = "none"
      BY <1>1, <2>1, <2>2 DEF SubmissionFits
    <3>4. SubmissionFits(c)'
      BY <3>1, <3>3 DEF SubmissionFits
    <3> QED
      BY <2>1, <2>2, <3>1, <3>2, <3>4, OthersFit
  <2>3. CASE /\ SubmitGoto(c, "maps")
             /\ call' = [call EXCEPT ![c] =
                    [m \in Map |-> IF m \in RunConfigMaps(sub[c].request) THEN "sent" ELSE "none"]]
    <3>1. /\ sub' \in [Client -> Submissions] /\ \A d \in Client \ {c} : sub'[d] = sub[d]
          /\ sub'[c].pc = "maps"
      BY <1>1, <2>3, SubmitGotoMoves DEF SubmitPc
    <3>2. /\ call' \in [Client -> [Map -> CallStates]]
          /\ \A d \in Client \ {c} : call'[d] = call[d]
      BY <1>1, <2>3 DEF SubmissionTypeOK, CallStates
    <3>3. SubmissionTypeOK'
      BY <1>1, <2>1, <3>1, <3>2 DEF SubmissionTypeOK, Submissions, CallStates
    <3>4. SubmissionFits(c)'
      BY <3>1 DEF SubmissionFits
    <3> QED
      BY <2>1, <3>1, <3>2, <3>3, <3>4, OthersFit
  <2> QED
    BY <1>3, <2>2, <2>3 DEF BuildPayload
<1> QED
  BY <1>2, <1>3

\* The calls of the maps: landing, acknowledged, failing.
LEMMA CallsKeep ==
    ASSUME SubmissionInv, NEW c \in Client, NEW m \in Map,
           CreateLands(c, m) \/ CreateAcknowledged(c, m) \/ CreateFails(c, m)
    PROVE  SubmissionInv'
<1>1. sub \in [Client -> Submissions] /\ SubmissionTypeOK /\ SubmissionFits(c)
  BY DEF SubmissionInv, SubmissionTypeOK, Submissions
<1>2. CASE CreateLands(c, m)
  <2>1. /\ call[c][m] = "sent" /\ call' = [call EXCEPT ![c][m] = "landed"]
        /\ cm' = [cm EXCEPT ![c][m] = "present"] /\ UNCHANGED <<sub, wf, record>>
    BY <1>2 DEF CreateLands
  <2>2. SubmissionTypeOK'
    BY <1>1, <2>1 DEF SubmissionTypeOK
  <2>3. \A n \in Map : /\ call'[c][n] = IF n = m THEN "landed" ELSE call[c][n]
                       /\ cm'[c][n] = IF n = m THEN "present" ELSE cm[c][n]
    BY <1>1, <2>1 DEF SubmissionTypeOK
  <2>4. \A d \in Client \ {c} : call'[d] = call[d] /\ cm'[d] = cm[d]
    BY <1>1, <2>1 DEF SubmissionTypeOK
  <2>5. SubmissionFits(c)'
    BY <1>1, <2>1, <2>3 DEF SubmissionFits
  <2> QED
    BY <2>1, <2>2, <2>4, <2>5, OthersFit
<1>3. CASE CreateAcknowledged(c, m)
  <2>1. /\ sub[c].pc = "maps" /\ call' = [call EXCEPT ![c][m] = "acked"]
        /\ SubmitGoto(c, "workflow") \/ UNCHANGED sub
        /\ UNCHANGED <<cm, wf, record>>
    BY <1>3 DEF CreateAcknowledged, SubmitAt
  <2>2. /\ sub' \in [Client -> Submissions] /\ \A d \in Client \ {c} : sub'[d] = sub[d]
        /\ sub'[c].pc \in {"maps", "workflow"}
    BY <1>1, <2>1, SubmitGotoMoves DEF SubmitPc
  <2>3. call' \in [Client -> [Map -> CallStates]] /\ \A d \in Client \ {c} : call'[d] = call[d]
    BY <1>1, <2>1 DEF SubmissionTypeOK, CallStates
  <2>4. SubmissionTypeOK'
    BY <1>1, <2>1, <2>2, <2>3 DEF SubmissionTypeOK, Submissions, CallStates
  <2>5. SubmissionFits(c)'
    BY <2>2 DEF SubmissionFits
  <2> QED
    BY <2>1, <2>2, <2>3, <2>4, <2>5, OthersFit
<1>4. CASE CreateFails(c, m)
  <2>1. /\ SubmitGoto(c, "cleanup") /\ UNCHANGED <<cm, wf, record>>
        /\ call[c][m] \in {"sent", "landed"}
    BY <1>4 DEF CreateFails
  <2>2. PICK left \in {call[c][m], "lost"} : call' = [call EXCEPT ![c][m] = left]
    BY <1>4 DEF CreateFails
  <2>3. /\ sub' \in [Client -> Submissions] /\ \A d \in Client \ {c} : sub'[d] = sub[d]
        /\ sub'[c].pc = "cleanup"
    BY <1>1, <2>1, SubmitGotoMoves DEF SubmitPc
  <2>4. call' \in [Client -> [Map -> CallStates]] /\ \A d \in Client \ {c} : call'[d] = call[d]
    BY <1>1, <2>1, <2>2 DEF SubmissionTypeOK, CallStates
  <2>5. SubmissionTypeOK'
    BY <1>1, <2>1, <2>3, <2>4 DEF SubmissionTypeOK, Submissions, CallStates
  <2>6. SubmissionFits(c)'
    BY <2>3 DEF SubmissionFits
  <2> QED
    BY <2>1, <2>3, <2>4, <2>5, <2>6, OthersFit
<1> QED
  BY <1>2, <1>3, <1>4

\* The clean-up is silent only when it deleted every map it had an answer for.
LEMMA CleanupKeeps ==
    ASSUME SubmissionInv, NEW c \in Client, CleanupRunConfigMaps(c)
    PROVE  SubmissionInv'
<1>1. sub \in [Client -> Submissions] /\ SubmissionTypeOK
  BY DEF SubmissionInv, SubmissionTypeOK, Submissions
<1>2. UNCHANGED <<call, wf, record>>
  BY DEF CleanupRunConfigMaps
<1>3. PICK deleted \in SUBSET Acknowledged(c) :
        /\ cm' = [cm EXCEPT ![c] =
                [m \in Map |-> IF m \in deleted THEN "absent" ELSE cm[c][m]]]
        /\ sub' = [sub EXCEPT ![c].pc = "failed",
                              ![c].dirty = deleted # Acknowledged(c)]
  BY DEF CleanupRunConfigMaps
<1>4. PICK b : b = (deleted # Acknowledged(c))
  OBVIOUS
<1>5. b \in BOOLEAN /\ (~b => deleted = Acknowledged(c))
  BY <1>4
<1>6. PICK q : q = [sub[c] EXCEPT !.pc = "failed", !.dirty = b]
  OBVIOUS
<1>7. sub[c] \in Submissions /\ "failed" \in SubmitPc
  BY <1>1 DEF SubmitPc
<1>8. q \in Submissions /\ q.pc = "failed" /\ q.dirty = b
  BY <1>5, <1>6, <1>7 DEF Submissions
<1>9. sub' = [sub EXCEPT ![c] = q]
  BY <1>1, <1>3, <1>4, <1>6 DEF Submissions
<1>10. /\ sub' \in [Client -> Submissions] /\ \A d \in Client \ {c} : sub'[d] = sub[d]
       /\ sub'[c] = q
  BY <1>1, <1>8, <1>9
<1>11. /\ cm' \in [Client -> [Map -> MapStates]] /\ \A d \in Client \ {c} : cm'[d] = cm[d]
       /\ \A m \in deleted : m \in Map => cm'[c][m] = "absent"
  BY <1>1, <1>3 DEF SubmissionTypeOK, MapStates
<1>12. SubmissionTypeOK'
  BY <1>1, <1>2, <1>10, <1>11 DEF SubmissionTypeOK, Submissions, MapStates
<1>13. SubmissionFits(c)'
  BY <1>2, <1>5, <1>8, <1>10, <1>11 DEF SubmissionFits, Acknowledged
<1> QED
  BY <1>2, <1>10, <1>11, <1>12, <1>13, OthersFit

\* The workflow: created, owning its maps, expired.
LEMMA WorkflowKeeps ==
    ASSUME SubmissionInv, NEW c \in Client,
           SubmitWorkflowManifest(c) \/ OwnRunConfigMaps(c) \/ WorkflowExpires(c)
    PROVE  SubmissionInv'
<1>1. sub \in [Client -> Submissions] /\ SubmissionTypeOK /\ SubmissionFits(c)
  BY DEF SubmissionInv, SubmissionTypeOK, Submissions
<1>2. CASE SubmitWorkflowManifest(c)
  <2>1. UNCHANGED <<call, cm, record>> /\ \E pc \in {"own", "cleanup"} : SubmitGoto(c, pc)
    BY <1>2 DEF SubmitWorkflowManifest
  <2>2. PICK w \in {"none", "exists"} : wf' = [wf EXCEPT ![c] = w]
    BY <1>2 DEF SubmitWorkflowManifest
  <2>3. PICK pc \in {"own", "cleanup"} : SubmitGoto(c, pc)
    BY <2>1
  <2>4. /\ sub' \in [Client -> Submissions] /\ \A d \in Client \ {c} : sub'[d] = sub[d]
        /\ sub'[c].pc = pc
    <3>1. pc \in SubmitPc
      BY DEF SubmitPc
    <3> QED
      BY <1>1, <2>3, <3>1, SubmitGotoMoves
  <2>5. SubmissionTypeOK'
    BY <1>1, <2>1, <2>2, <2>4 DEF SubmissionTypeOK, Submissions
  <2>6. SubmissionFits(c)'
    BY <2>4 DEF SubmissionFits
  <2> QED
    BY <2>1, <2>4, <2>5, <2>6, OthersFit
<1>3. CASE OwnRunConfigMaps(c)
  <2>1. SubmitGoto(c, "submitted") /\ UNCHANGED <<call, wf, record>>
    BY <1>3 DEF OwnRunConfigMaps
  <2>2. PICK patched : cm' = [cm EXCEPT ![c] = [m \in Map |->
                IF m \in patched /\ cm[c][m] = "present" THEN "owned" ELSE cm[c][m]]]
    BY <1>3 DEF OwnRunConfigMaps
  <2>3. /\ sub' \in [Client -> Submissions] /\ \A d \in Client \ {c} : sub'[d] = sub[d]
        /\ sub'[c].pc = "submitted"
    BY <1>1, <2>1, SubmitGotoMoves DEF SubmitPc
  <2>4. cm' \in [Client -> [Map -> MapStates]] /\ \A d \in Client \ {c} : cm'[d] = cm[d]
    BY <1>1, <2>2 DEF SubmissionTypeOK, MapStates
  <2>5. SubmissionTypeOK'
    BY <1>1, <2>1, <2>3, <2>4 DEF SubmissionTypeOK, Submissions, MapStates
  <2>6. SubmissionFits(c)'
    BY <2>3 DEF SubmissionFits
  <2> QED
    BY <2>1, <2>3, <2>4, <2>5, <2>6, OthersFit
<1>4. CASE WorkflowExpires(c)
  <2>1. /\ wf' = [wf EXCEPT ![c] = "gone"] /\ UNCHANGED <<sub, call, record>>
        /\ cm' = [cm EXCEPT ![c] =
                [m \in Map |-> IF cm[c][m] = "owned" THEN "absent" ELSE cm[c][m]]]
    BY <1>4 DEF WorkflowExpires
  <2>2. /\ cm' \in [Client -> [Map -> MapStates]] /\ \A d \in Client \ {c} : cm'[d] = cm[d]
        /\ \A m \in Map : cm[c][m] = "absent" => cm'[c][m] = "absent"
    BY <1>1, <2>1 DEF SubmissionTypeOK, MapStates
  <2>3. SubmissionTypeOK'
    BY <1>1, <2>1, <2>2 DEF SubmissionTypeOK, MapStates
  <2>4. SubmissionFits(c)'
    BY <1>1, <2>1, <2>2 DEF SubmissionFits
  <2> QED
    BY <2>1, <2>2, <2>3, <2>4, OthersFit
<1> QED
  BY <1>2, <1>3, <1>4

LEMMA SubmissionStepKeeps ==
    ASSUME SubmissionInv, NEW c \in Client, SubmitStep(c) \/ ClusterStep(c)
    PROVE  SubmissionInv'
  BY BeforeCallsKeep, CallsKeep, CleanupKeeps, WorkflowKeeps DEF SubmitStep, ClusterStep

----------------------------------------------------------------------------
(* Commands. *)

\* A step of one command: what the others made stands, since the backlog only grows.
LEMMA OneCommandMoves ==
    ASSUME CommandInv, NEW c \in Client, cmd' \in [Client -> Commands],
           \A d \in Client \ {c} : cmd'[d] = cmd[d],
           bl' \in Backlogs, Grows(bl, bl'), st' \in [Ticket -> Statuses],
           criteria' \in [Ticket -> SUBSET Criterion], SubmissionInv',
           Created(c)'
    PROVE  CommandInv'
<1>1. TypeOK'
  BY DEF TypeOK, SubmissionInv
<1>2. ASSUME NEW d \in Client \ {c} PROVE Created(d)'
  BY <1>2, GrowthKeeps DEF CommandInv, Created
<1> QED
  BY <1>1, <1>2 DEF CommandInv

LEMMA SubmissionStands ==
    ASSUME SubmissionInv, UNCHANGED submission
    PROVE  SubmissionInv'
  BY DEF SubmissionInv, SubmissionTypeOK, SubmissionFits, submission

LEMMA BacklogStands == ASSUME NEW b \in Backlogs PROVE Grows(b, b)
  BY DEF Grows

LEMMA NamesTyped ==
    ASSUME CommandInv, NEW c \in Client
    PROVE  /\ cmd \in [Client -> Commands] /\ cmd[c] \in Commands /\ bl \in Backlogs
           /\ cmd[c].line \in Lines /\ cmd[c].line.request \in Requests
           /\ cmd[c].line.ticket \in Ticket /\ cmd[c].line.parent \in Nat
           /\ st \in [Ticket -> Statuses] /\ criteria \in [Ticket -> SUBSET Criterion]
           /\ SubmissionInv
<1>1. cmd \in [Client -> Commands] /\ cmd[c].line \in Lines
  BY DEF CommandInv, TypeOK, Commands
<1> QED
  BY <1>1, LinesTyped DEF CommandInv, TypeOK

\* A command that fails leaves what it made, and says so.
LEMMA FailMoves ==
    ASSUME CommandInv, NEW c \in Client, Fail(c)
    PROVE  /\ cmd' \in [Client -> Commands] /\ \A d \in Client \ {c} : cmd'[d] = cmd[d]
           /\ cmd'[c] = [cmd[c] EXCEPT !.pc = "failed"] /\ cmd'[c].line = cmd[c].line
<1>1. cmd \in [Client -> Commands] /\ "failed" \in CommandPc
  BY NamesTyped DEF CommandPc
<1>2. cmd' = [cmd EXCEPT ![c].pc = "failed"]
  BY DEF Fail, Goto
<1> QED
  BY <1>1, <1>2 DEF Commands

LEMMA FailKeeps ==
    ASSUME CommandInv, NEW c \in Client, Fail(c), bl' \in Backlogs, Grows(bl, bl'),
           UNCHANGED st, criteria' \in [Ticket -> SUBSET Criterion], UNCHANGED submission
    PROVE  CommandInv'
<1>1. /\ cmd' \in [Client -> Commands] /\ \A d \in Client \ {c} : cmd'[d] = cmd[d]
      /\ cmd'[c] = [cmd[c] EXCEPT !.pc = "failed"] /\ cmd'[c].line = cmd[c].line
  BY FailMoves
<1>2. cmd[c] \in Commands /\ st' \in [Ticket -> Statuses] /\ SubmissionInv'
  BY NamesTyped, SubmissionStands
<1>3. ASSUME PlanFits(cmd[c], bl) PROVE PlanFits(cmd'[c], bl')
  <2>1. PlanFits([cmd[c] EXCEPT !.pc = "failed"], bl)
    BY <1>2, <1>3, FailingFits
  <2> QED
    BY <1>1, <2>1, GrowthKeeps
<1>4. Created(c)'
  BY <1>1, <1>3 DEF CommandInv, Created
<1> QED
  BY <1>1, <1>2, <1>4, OneCommandMoves

\* Going to another step, the backlog as it is.
LEMMA GotoKeeps ==
    ASSUME CommandInv, NEW c \in Client, NEW pc \in CommandPc, Goto(c, pc),
           UNCHANGED bl, st' \in [Ticket -> Statuses],
           criteria' \in [Ticket -> SUBSET Criterion], SubmissionInv',
           \/ cmd[c].pc \notin {"scope", "parent", "apply", "done", "failed"}
           \/ cmd[c].pc = "scope" /\ pc = "parent"
           \/ cmd[c].pc = "scope" /\ pc = "done" /\ cmd[c].line.dryRun
           \/ /\ cmd[c].pc = "apply" /\ pc = "done"
              /\ DOMAIN cmd[c].line.plan.needs \ DOMAIN cmd[c].idOf = {}
    PROVE  CommandInv'
<1>1. cmd \in [Client -> Commands] /\ cmd[c] \in Commands /\ bl \in Backlogs /\ Grows(bl, bl')
  BY NamesTyped, BacklogStands
<1>2. PICK q : q = [cmd[c] EXCEPT !.pc = pc]
  OBVIOUS
<1>3. /\ q \in Commands /\ q.pc = pc /\ q.line = cmd[c].line /\ q.parent = cmd[c].parent
      /\ q.idOf = cmd[c].idOf /\ q.created = cmd[c].created
  BY <1>1, <1>2 DEF Commands
<1>4. /\ cmd' \in [Client -> Commands] /\ \A d \in Client \ {c} : cmd'[d] = cmd[d]
      /\ cmd'[c] = q
  <2>1. cmd' = [cmd EXCEPT ![c] = q]
    BY <1>1, <1>2 DEF Goto, Commands
  <2> QED
    BY <1>1, <1>3, <2>1
<1>5. ASSUME PlanFits(cmd[c], bl) PROVE PlanFits(cmd'[c], bl)
  <2>1. cmd[c].pc \in {"scope", "parent", "apply", "done", "failed"}
    BY <1>5 DEF PlanFits
  <2> QED
    BY <1>1, <1>3, <1>4, <1>5, <2>1, AdvancingFits
<1>6. Created(c)'
  BY <1>3, <1>4, <1>5 DEF CommandInv, Created
<1> QED
  BY <1>1, <1>4, <1>6, OneCommandMoves

\* A command that is no create has no plan to fit.
LEMMA NoPlan ==
    ASSUME CommandInv, NEW c \in Client, cmd[c].pc \in {"read", "claim", "submit", "mark"},
           cmd'[c].line = cmd[c].line
    PROVE  Created(c)'
<1>1. cmd[c].line.name # "create"
  BY DEF CommandInv, Created, PlanFits
<1> QED
  BY <1>1 DEF Created

\* next, start, loop and complete: nothing but statuses and the submission changes.
LEMMA ReadSelectionKeeps ==
    ASSUME CommandInv, NEW c \in Client, ReadSelection(c)
    PROVE  CommandInv'
<1>1. /\ cmd \in [Client -> Commands] /\ cmd[c] \in Commands /\ bl \in Backlogs
      /\ st \in [Ticket -> Statuses] /\ criteria \in [Ticket -> SUBSET Criterion]
      /\ SubmissionInv
  BY NamesTyped
<1>2. cmd[c].pc = "read" /\ UNCHANGED <<bl, st, criteria>> /\ UNCHANGED submission
  BY DEF ReadSelection, At
<1>3. Grows(bl, bl') /\ SubmissionInv' /\ bl' \in Backlogs
  BY <1>1, <1>2, BacklogStands, SubmissionStands
<1>4. CASE Fail(c)
  BY <1>1, <1>2, <1>3, <1>4, FailKeeps
<1>5. CASE \E t \in Selected(cmd[c].line) \ {NoTicket} :
             cmd' = [cmd EXCEPT ![c].pc = "claim", ![c].ticket = t]
  <2>1. PICK t \in Selected(cmd[c].line) \ {NoTicket} :
             cmd' = [cmd EXCEPT ![c].pc = "claim", ![c].ticket = t]
    BY <1>5
  <2>2. t \in Ticket
    BY <1>1, <2>1 DEF Selected, SelectNextTicket, SelectReadyTickets, Backlogs
  <2>3. PICK q : q = [cmd[c] EXCEPT !.pc = "claim", !.ticket = t]
    OBVIOUS
  <2>4. q \in Commands /\ q.line = cmd[c].line
    BY <1>1, <2>2, <2>3 DEF Commands, CommandPc
  <2>5. cmd' = [cmd EXCEPT ![c] = q]
    BY <1>1, <2>1, <2>3 DEF Commands
  <2>6. /\ cmd' \in [Client -> Commands] /\ \A d \in Client \ {c} : cmd'[d] = cmd[d]
        /\ cmd'[c].line = cmd[c].line
    BY <1>1, <2>4, <2>5
  <2> QED
    BY <1>1, <1>2, <1>3, <2>6, NoPlan, OneCommandMoves
<1> QED
  BY <1>4, <1>5 DEF ReadSelection

LEMMA CompleteTicketKeeps ==
    ASSUME CommandInv, NEW c \in Client, CompleteTicket(c)
    PROVE  CommandInv'
<1>1. /\ cmd \in [Client -> Commands] /\ cmd[c] \in Commands /\ bl \in Backlogs
      /\ st \in [Ticket -> Statuses] /\ criteria \in [Ticket -> SUBSET Criterion]
      /\ SubmissionInv /\ cmd[c].line.ticket \in Ticket
  BY NamesTyped
<1>2. cmd[c].pc = "read" /\ UNCHANGED <<bl, st, criteria>> /\ UNCHANGED submission
  BY DEF CompleteTicket, At
<1>3. Grows(bl, bl') /\ SubmissionInv' /\ bl' \in Backlogs
  BY <1>1, <1>2, BacklogStands, SubmissionStands
<1>4. CASE Fail(c)
  BY <1>1, <1>2, <1>3, <1>4, FailKeeps
<1>5. CASE ~Fail(c)
  <2>1. PICK pc \in {"mark", "refused"} :
          cmd' = [cmd EXCEPT ![c].pc = pc, ![c].ticket = cmd[c].line.ticket,
                             ![c].criteria = criteria[cmd[c].line.ticket]]
    BY <1>5 DEF CompleteTicket
  <2>2. PICK q : q = [cmd[c] EXCEPT !.pc = pc, !.ticket = cmd[c].line.ticket,
                             !.criteria = criteria[cmd[c].line.ticket]]
    OBVIOUS
  <2>3. q \in Commands /\ q.line = cmd[c].line
    <3>1. criteria[cmd[c].line.ticket] \in SUBSET Criterion /\ pc \in CommandPc
      BY <1>1 DEF CommandPc
    <3> QED
      BY <1>1, <2>2, <3>1 DEF Commands
  <2>4. cmd' = [cmd EXCEPT ![c] = q]
    BY <1>1, <2>1, <2>2 DEF Commands
  <2>5. /\ cmd' \in [Client -> Commands] /\ \A d \in Client \ {c} : cmd'[d] = cmd[d]
        /\ cmd'[c].line = cmd[c].line
    BY <1>1, <2>3, <2>4
  <2> QED
    BY <1>1, <1>2, <1>3, <2>5, NoPlan, OneCommandMoves
<1> QED
  BY <1>4, <1>5

LEMMA WritingKeeps ==
    ASSUME CommandInv, NEW c \in Client,
           ClaimTicket(c) \/ MarkDone(c) \/ ReadFails(c) \/ AssertStartableBacklog(c)
    PROVE  CommandInv'
<1>1. /\ cmd \in [Client -> Commands] /\ cmd[c] \in Commands /\ bl \in Backlogs
      /\ st \in [Ticket -> Statuses] /\ criteria \in [Ticket -> SUBSET Criterion]
      /\ SubmissionInv
  BY NamesTyped
<1>2. /\ cmd[c].pc \in {"read", "claim", "mark"} /\ UNCHANGED <<bl, criteria>>
      /\ UNCHANGED submission
  BY DEF ClaimTicket, MarkDone, ReadFails, AssertStartableBacklog, At
<1>3. Grows(bl, bl') /\ SubmissionInv' /\ bl' \in Backlogs
  BY <1>1, <1>2, BacklogStands, SubmissionStands
<1>4. CASE Fail(c) /\ UNCHANGED st
  BY <1>1, <1>2, <1>3, <1>4, FailKeeps
<1>5. CASE st' \in [Ticket -> Statuses] /\ \E pc \in {"submit", "done"} : Goto(c, pc)
  <2>1. PICK pc \in {"submit", "done"} : Goto(c, pc)
    BY <1>5
  <2>2. pc \in CommandPc
    BY DEF CommandPc
  <2> QED
    BY <1>1, <1>2, <1>3, <1>5, <2>1, <2>2, GotoKeeps
<1>6. ClaimTicket(c) => (Fail(c) /\ UNCHANGED st)
        \/ (st' = [st EXCEPT ![cmd[c].ticket] = "In Progress"]
            /\ \E pc \in {"submit", "done"} : Goto(c, pc))
  BY DEF ClaimTicket
<1>7. MarkDone(c) => (Fail(c) /\ UNCHANGED st)
        \/ (st' = [st EXCEPT ![cmd[c].ticket] = "Done"]
            /\ \E pc \in {"submit", "done"} : Goto(c, pc))
  BY DEF MarkDone
<1>8. ReadFails(c) \/ AssertStartableBacklog(c) =>
        UNCHANGED st /\ (Fail(c) \/ \E pc \in {"submit", "done"} : Goto(c, pc))
  BY DEF ReadFails, AssertStartableBacklog
<1>9. \A s \in {"In Progress", "Done"} : [st EXCEPT ![cmd[c].ticket] = s] \in [Ticket -> Statuses]
  BY <1>1 DEF Statuses
<1> QED
  BY <1>1, <1>4, <1>5, <1>6, <1>7, <1>8, <1>9

LEMMA RunCommandKeeps ==
    ASSUME CommandInv, NEW c \in Client, RunCommand(c)
    PROVE  CommandInv'
<1>1. /\ bl \in Backlogs /\ st \in [Ticket -> Statuses]
      /\ criteria \in [Ticket -> SUBSET Criterion] /\ SubmissionInv
      /\ cmd[c].line.request \in Requests
  BY NamesTyped
<1>2. /\ cmd[c].pc = "submit" /\ UNCHANGED <<bl, st, criteria>> /\ Goto(c, "done")
      /\ SubmitMoka(c, cmd[c].line.request)
  BY DEF RunCommand, At
<1>3. SubmissionInv'
  BY <1>1, <1>2, SubmitMokaKeeps
<1> QED
  BY <1>1, <1>2, <1>3, GotoKeeps DEF CommandPc

\* create: the plan is scoped, its parent resolved, its tickets made.
LEMMA ScopeTicketsKeeps ==
    ASSUME CommandInv, NEW c \in Client, ScopeTickets(c)
    PROVE  CommandInv'
<1>1. /\ bl \in Backlogs /\ st \in [Ticket -> Statuses]
      /\ criteria \in [Ticket -> SUBSET Criterion] /\ SubmissionInv
  BY NamesTyped
<1>2. cmd[c].pc = "scope" /\ UNCHANGED <<bl, st, criteria>> /\ UNCHANGED submission
  BY DEF ScopeTickets, At
<1>3. Grows(bl, bl') /\ SubmissionInv' /\ bl' \in Backlogs
  BY <1>1, <1>2, BacklogStands, SubmissionStands
<1>4. CASE Fail(c)
  BY <1>1, <1>2, <1>3, <1>4, FailKeeps
<1>5. CASE cmd[c].line.dryRun /\ Goto(c, "done")
  BY <1>1, <1>2, <1>3, <1>5, GotoKeeps DEF CommandPc
<1>6. CASE Goto(c, "parent")
  BY <1>1, <1>2, <1>3, <1>6, GotoKeeps DEF CommandPc
<1> QED
  BY <1>4, <1>5, <1>6 DEF ScopeTickets

\* The backlog b with one more ticket, below p and waiting for the tickets of w.
WithTicket(b, id, w, p) ==
    [b EXCEPT !.ids = @ \cup {id}, !.deps[id] = w, !.parent[id] = p]

LEMMA TicketAdded ==
    ASSUME NEW b \in Backlogs, NEW id \in Ticket, NEW w, NEW p, NEW n, n = WithTicket(b, id, w, p)
    PROVE  n.ids = b.ids \cup {id} /\ n.deps[id] = w /\ n.parent[id] = p
<1>1. PICK I : I = b.ids \cup {id}
  OBVIOUS
<1>2. PICK D : D = [b.deps EXCEPT ![id] = w]
  OBVIOUS
<1>3. PICK U : U = [b.parent EXCEPT ![id] = p]
  OBVIOUS
<1>4. D[id] = w /\ U[id] = p
  BY <1>2, <1>3 DEF Backlogs
<1>5. n = [b EXCEPT !.ids = I, !.deps = D, !.parent = U]
  BY <1>1, <1>2, <1>3 DEF WithTicket, Backlogs
<1>6. n.ids = I /\ n.deps = D /\ n.parent = U
  BY <1>5 DEF Backlogs
<1> QED
  BY <1>1, <1>4, <1>6

\* The ticket a create call adds takes a free id, and nothing else changes.
LEMMA NewTicketGrows ==
    ASSUME NEW b \in Backlogs, NEW id \in Ticket \ b.ids, NEW w \in SUBSET Nat, NEW p \in Nat,
           NEW n, n = WithTicket(b, id, w, p)
    PROVE  n \in Backlogs /\ Grows(b, n)
<1>1. PICK I : I = b.ids \cup {id}
  OBVIOUS
<1>2. PICK D : D = [b.deps EXCEPT ![id] = w]
  OBVIOUS
<1>3. PICK U : U = [b.parent EXCEPT ![id] = p]
  OBVIOUS
<1>4. D \in [Ticket -> SUBSET Nat] /\ D[id] = w /\ \A t \in b.ids : D[t] = b.deps[t]
  BY <1>2 DEF Backlogs
<1>5. U \in [Ticket -> Nat] /\ U[id] = p /\ \A t \in b.ids : U[t] = b.parent[t]
  BY <1>3 DEF Backlogs
<1>6. n = [b EXCEPT !.ids = I, !.deps = D, !.parent = U]
  BY <1>1, <1>2, <1>3 DEF WithTicket, Backlogs
<1>7. n.ids = I /\ n.deps = D /\ n.parent = U
  BY <1>6 DEF Backlogs
<1>8. n \in Backlogs
  <2>1. I \in SUBSET Ticket /\ D \in [Ticket -> SUBSET Nat] /\ U \in [Ticket -> Nat]
    BY <1>1, <1>4, <1>5 DEF Backlogs
  <2> QED
    BY <1>6, <2>1 DEF Backlogs
<1>9. Grows(b, n)
  BY <1>1, <1>4, <1>5, <1>7 DEF Grows
<1> QED
  BY <1>8, <1>9

LEMMA ResolveParentIdKeeps ==
    ASSUME CommandInv, NEW c \in Client, ResolveParentId(c)
    PROVE  CommandInv'
<1> DEFINE line == cmd[c].line
           made == [id \in Ticket |->
                       [cmd EXCEPT ![c].pc = "apply", ![c].parent = id,
                                   ![c].created = @ \cup {id}]]
<1>1. /\ cmd \in [Client -> Commands] /\ cmd[c] \in Commands /\ bl \in Backlogs
      /\ st \in [Ticket -> Statuses] /\ criteria \in [Ticket -> SUBSET Criterion]
      /\ SubmissionInv /\ line.parent \in Nat
  BY NamesTyped
<1>2. cmd[c].pc = "parent" /\ UNCHANGED st /\ UNCHANGED submission /\ SubmissionInv'
  BY <1>1, SubmissionStands DEF ResolveParentId, At
<1>3. \/ /\ cmd' = [cmd EXCEPT ![c].pc = "apply", ![c].parent = line.parent]
         /\ UNCHANGED <<bl, criteria>>
      \/ Fail(c) /\ UNCHANGED <<bl, criteria>>
      \/ \E id \in Free :
            /\ bl' = WithTicket(bl, id, {}, NoTicket)
            /\ criteria' = [criteria EXCEPT ![id] = {}] /\ (cmd' = made[id] \/ Fail(c))
  BY DEF ResolveParentId, RunCreate, WithTicket
<1>4. CASE /\ cmd' = [cmd EXCEPT ![c].pc = "apply", ![c].parent = line.parent]
           /\ UNCHANGED <<bl, criteria>>
  <2>1. PICK q : q = [cmd[c] EXCEPT !.pc = "apply", !.parent = line.parent]
    OBVIOUS
  <2>2. /\ q \in Commands /\ q.pc = "apply" /\ q.line = line /\ q.parent = line.parent
        /\ q.idOf = cmd[c].idOf /\ q.created = cmd[c].created
    BY <1>1, <2>1 DEF Commands, CommandPc
  <2>3. cmd' = [cmd EXCEPT ![c] = q]
    BY <1>1, <1>4, <2>1 DEF Commands
  <2>4. /\ cmd' \in [Client -> Commands] /\ \A d \in Client \ {c} : cmd'[d] = cmd[d]
        /\ cmd'[c] = q
    BY <1>1, <2>2, <2>3
  <2>5. PlanFits(cmd[c], bl) => PlanFits(q, bl)
    BY <1>1, <1>2, <2>2, AdvancingFits
  <2>6. Created(c)'
    BY <1>4, <2>2, <2>4, <2>5 DEF CommandInv, Created
  <2> QED
    BY <1>1, <1>2, <1>4, <2>4, <2>6, BacklogStands, OneCommandMoves
<1>5. CASE Fail(c) /\ UNCHANGED <<bl, criteria>>
  BY <1>1, <1>2, <1>5, BacklogStands, FailKeeps
<1>6. ASSUME NEW id \in Free, bl' = WithTicket(bl, id, {}, NoTicket),
             criteria' = [criteria EXCEPT ![id] = {}], cmd' = made[id] \/ Fail(c)
      PROVE  CommandInv'
  <2> HIDE DEF made
  <2>1. id \in Ticket \ bl.ids /\ {} \in SUBSET Nat /\ NoTicket \in Nat
    BY DEF Free, NoTicket
  <2>2. /\ bl' \in Backlogs /\ Grows(bl, bl') /\ bl'.ids = bl.ids \cup {id}
        /\ bl'.deps[id] = {} /\ bl'.parent[id] = NoTicket
    <3>1. PICK w \in SUBSET Nat, p \in Nat : w = {} /\ p = NoTicket
      BY <2>1
    <3>2. PICK n : n = WithTicket(bl, id, w, p)
      OBVIOUS
    <3>3. /\ n \in Backlogs /\ Grows(bl, n) /\ n.ids = bl.ids \cup {id}
          /\ n.deps[id] = w /\ n.parent[id] = p
      BY <1>1, <2>1, <3>2, NewTicketGrows, TicketAdded
    <3>4. bl' = n
      BY <1>6, <3>1, <3>2
    <3> QED
      BY <3>1, <3>3, <3>4
  <2>3. criteria' \in [Ticket -> SUBSET Criterion]
    BY <1>1, <1>6
  <2>4. CASE Fail(c)
    BY <1>2, <2>2, <2>3, <2>4, FailKeeps
  <2>5. CASE cmd' = made[id]
    <3>2. PICK S : S = cmd[c].created \cup {id}
      OBVIOUS
    <3>3. id \in Nat /\ S \in SUBSET Ticket
      BY <1>1, <2>1, <3>2, IdsAreNumbers DEF Commands
    <3>4. PICK q : q = [cmd[c] EXCEPT !.pc = "apply", !.parent = id, !.created = S]
      OBVIOUS
    <3>5. /\ q \in Commands /\ q.pc = "apply" /\ q.line = line /\ q.parent = id
          /\ q.idOf = cmd[c].idOf /\ q.created = S
      BY <1>1, <3>3, <3>4 DEF Commands, CommandPc
    <3>6. cmd' = [cmd EXCEPT ![c] = q]
      BY <1>1, <2>1, <2>5, <3>2, <3>4 DEF Commands, made
    <3>7. /\ cmd' \in [Client -> Commands] /\ \A d \in Client \ {c} : cmd'[d] = cmd[d]
          /\ cmd'[c] = q
      BY <1>1, <3>5, <3>6
    <3>8. PlanFits(cmd[c], bl) => PlanFits(q, bl')
      BY <1>1, <1>2, <2>1, <2>2, <3>2, <3>5, EpicFits
    <3>9. Created(c)'
      BY <3>5, <3>7, <3>8 DEF CommandInv, Created
    <3> QED
      BY <1>1, <1>2, <2>2, <2>3, <3>7, <3>9, OneCommandMoves
  <2> QED
    BY <1>6, <2>4, <2>5
<1> QED
  BY <1>3, <1>4, <1>5, <1>6

LEMMA CreateChildTicketsKeeps ==
    ASSUME CommandInv, NEW c \in Client, CreateChildTickets(c)
    PROVE  CommandInv'
<1> DEFINE needs == cmd[c].line.plan.needs
           idOf == cmd[c].idOf
           waits(k) == {IF d \in DOMAIN idOf THEN idOf[d] ELSE NoTicket : d \in needs[k]}
           more(k, id) == [d \in DOMAIN idOf \cup {k} |-> IF d = k THEN id ELSE idOf[d]]
           made(k) == [id \in Ticket |->
                        [cmd EXCEPT ![c].idOf = more(k, id), ![c].created = @ \cup {id}]]
<1>1. /\ cmd \in [Client -> Commands] /\ cmd[c] \in Commands /\ bl \in Backlogs
      /\ st \in [Ticket -> Statuses] /\ criteria \in [Ticket -> SUBSET Criterion]
      /\ SubmissionInv
  BY NamesTyped
<1>2. cmd[c].pc = "apply" /\ UNCHANGED st /\ UNCHANGED submission /\ SubmissionInv'
  BY <1>1, SubmissionStands DEF CreateChildTickets, At
<1>3. \/ DOMAIN needs \ DOMAIN idOf = {} /\ Goto(c, "done") /\ UNCHANGED <<bl, criteria>>
      \/ Fail(c) /\ UNCHANGED <<bl, criteria>>
      \/ \E k \in ReadyKeys(c), id \in Free :
            /\ bl' = WithTicket(bl, id, waits(k), cmd[c].parent)
            /\ criteria' = [criteria EXCEPT ![id] = {}] /\ (cmd' = made(k)[id] \/ Fail(c))
  BY DEF CreateChildTickets, RunCreate, WithTicket, Remaining
<1>4. CASE DOMAIN needs \ DOMAIN idOf = {} /\ Goto(c, "done") /\ UNCHANGED <<bl, criteria>>
  BY <1>1, <1>2, <1>4, GotoKeeps DEF CommandPc
<1>5. CASE Fail(c) /\ UNCHANGED <<bl, criteria>>
  BY <1>1, <1>2, <1>5, BacklogStands, FailKeeps
<1>6. ASSUME NEW k \in ReadyKeys(c), NEW id \in Free,
             bl' = WithTicket(bl, id, waits(k), cmd[c].parent),
             criteria' = [criteria EXCEPT ![id] = {}], cmd' = made(k)[id] \/ Fail(c)
      PROVE  CommandInv'
  <2>1. id \in Ticket \ bl.ids /\ criteria' \in [Ticket -> SUBSET Criterion]
    BY <1>1, <1>6 DEF Free
  <2>2. /\ k \in DOMAIN needs \ DOMAIN idOf /\ needs[k] \subseteq DOMAIN idOf
        /\ k \in PlanKeys
    BY <1>1, KeysArePlanned DEF ReadyKeys, Remaining
  <2>3. DOMAIN idOf \subseteq PlanKeys /\ \A d \in DOMAIN idOf : idOf[d] \in Ticket
    BY <1>1 DEF Commands, IdMaps
  <2>4. PICK w \in SUBSET Nat : w = waits(k)
    BY <2>2, <2>3, IdsAreNumbers
  <2>5. w = {idOf[d] : d \in needs[k]}
    BY <2>2, <2>4
  <2>6. PICK p \in Nat : p = cmd[c].parent
    BY <1>1 DEF Commands
  <2>7. PICK n : n = WithTicket(bl, id, w, p)
    OBVIOUS
  <2>8. /\ n \in Backlogs /\ Grows(bl, n) /\ n.ids = bl.ids \cup {id}
        /\ n.deps[id] = w /\ n.parent[id] = p
    <3>1. bl \in Backlogs /\ id \in Ticket \ bl.ids
      BY <1>1, <2>1
    <3> HIDE DEF needs, idOf, waits, more, made
    <3>2. n \in Backlogs /\ Grows(bl, n)
      BY <2>7, <3>1, NewTicketGrows
    <3>3. n.ids = bl.ids \cup {id} /\ n.deps[id] = w /\ n.parent[id] = p
      BY <2>7, <3>1, TicketAdded
    <3> QED
      BY <3>2, <3>3
  <2>9. bl' = n
    BY <1>6, <2>4, <2>6, <2>7
  <2>10. CASE Fail(c)
    BY <1>2, <2>1, <2>8, <2>9, <2>10, FailKeeps
  <2>11. CASE cmd' = made(k)[id]
    <3>1. PICK f : f = more(k, id)
      OBVIOUS
    <3>2. /\ DOMAIN f = DOMAIN idOf \cup {k} /\ f[k] = id
          /\ \A d \in DOMAIN idOf : f[d] = idOf[d]
      BY <2>2, <3>1
    <3>3. f \in IdMaps
      <4>1. f \in [DOMAIN idOf \cup {k} -> Ticket]
        BY <2>1, <2>3, <3>1
      <4> QED
        BY <2>2, <2>3, <4>1 DEF IdMaps
    <3>4. PICK S : S = cmd[c].created \cup {id}
      OBVIOUS
    <3>5. S \in SUBSET Ticket
      BY <1>1, <2>1, <3>4 DEF Commands
    <3>6. PICK q : q = [cmd[c] EXCEPT !.idOf = f, !.created = S]
      OBVIOUS
    <3>7. /\ q \in Commands /\ q.pc = "apply" /\ q.line = cmd[c].line
          /\ q.parent = cmd[c].parent /\ q.idOf = f /\ q.created = S
      BY <1>1, <1>2, <3>3, <3>5, <3>6 DEF Commands
    <3>8. cmd' = [cmd EXCEPT ![c] = q]
      <4>1. made(k)[id] = [cmd EXCEPT ![c].idOf = more(k, id), ![c].created = @ \cup {id}]
        BY <2>1
      <4> HIDE DEF more
      <4> QED
        BY <1>1, <2>11, <3>1, <3>4, <3>6, <4>1 DEF Commands
    <3>9. /\ cmd' \in [Client -> Commands] /\ \A d \in Client \ {c} : cmd'[d] = cmd[d]
          /\ cmd'[c] = q
      BY <1>1, <3>7, <3>8
    <3>10. PlanFits(cmd[c], bl) => PlanFits(q, n)
      <4>1. /\ cmd[c] \in Commands /\ bl \in Backlogs /\ cmd[c].pc = "apply"
            /\ k \in DOMAIN cmd[c].line.plan.needs \ DOMAIN cmd[c].idOf
            /\ cmd[c].line.plan.needs[k] \subseteq DOMAIN cmd[c].idOf
            /\ id \in Ticket \ bl.ids
        BY <1>1, <1>2, <2>1, <2>2
      <4>2. /\ Grows(bl, n) /\ n.ids = bl.ids \cup {id} /\ n.parent[id] = cmd[c].parent
            /\ n.deps[id] = {cmd[c].idOf[d] : d \in cmd[c].line.plan.needs[k]}
        BY <2>5, <2>6, <2>8
      <4>3. /\ q.pc = "apply" /\ q.line = cmd[c].line /\ q.parent = cmd[c].parent
            /\ q.created = cmd[c].created \cup {id}
            /\ DOMAIN q.idOf = DOMAIN cmd[c].idOf \cup {k}
            /\ \A d \in DOMAIN cmd[c].idOf : q.idOf[d] = cmd[c].idOf[d]
            /\ q.idOf[k] = id
        BY <3>2, <3>4, <3>7
      <4> HIDE DEF needs, idOf, waits, more, made
      <4> QED
        BY <4>1, <4>2, <4>3, ChildFits
    <3>11. Created(c)'
      BY <2>9, <3>7, <3>9, <3>10 DEF CommandInv, Created
    <3> QED
      BY <1>1, <1>2, <2>1, <2>8, <2>9, <3>9, <3>11, OneCommandMoves
  <2> QED
    BY <1>6, <2>10, <2>11
<1> QED
  BY <1>3, <1>4, <1>5, <1>6


LEMMA CommandStepKeeps ==
    ASSUME CommandInv, NEW c \in Client, CommandStep(c)
    PROVE  CommandInv'
  BY ReadSelectionKeeps, WritingKeeps, RunCommandKeeps, CompleteTicketKeeps,
     ScopeTicketsKeeps, ResolveParentIdKeeps, CreateChildTicketsKeeps DEF CommandStep

\* The steps that no command takes: a submission, its cluster, or a person.
LEMMA OtherStepsKeep ==
    ASSUME CommandInv,
           \/ \E c \in Client : (SubmitStep(c) \/ ClusterStep(c)) /\ UNCHANGED commandVars
           \/ CriteriaEdited
           \/ UNCHANGED vars
    PROVE  CommandInv'
<1>1. TypeOK /\ SubmissionInv
  BY DEF CommandInv
<1>2. UNCHANGED <<bl, st, cmd>>
  BY DEF commandVars, CriteriaEdited, vars
<1>3. SubmissionInv'
  BY <1>1, SubmissionStepKeeps, SubmissionStands DEF CriteriaEdited, vars
<1>4. criteria' \in [Ticket -> SUBSET Criterion]
  <2>1. CASE UNCHANGED criteria
    BY <1>1, <2>1 DEF TypeOK
  <2>2. CASE CriteriaEdited
    BY <1>1, <2>2 DEF CriteriaEdited, TypeOK
  <2> QED
    BY <2>1, <2>2 DEF commandVars, vars
<1>5. TypeOK'
  BY <1>1, <1>2, <1>3, <1>4 DEF TypeOK, SubmissionInv
<1>6. \A c \in Client : Created(c)'
  BY <1>2 DEF CommandInv, Created
<1> QED
  BY <1>3, <1>5, <1>6 DEF CommandInv

LEMMA CommandNextKeeps ==
    ASSUME CommandInv, [Next]_vars
    PROVE  CommandInv'
  BY CommandStepKeeps, OtherStepsKeep DEF Next

\* No command has made anything, and no submission has called anything.
LEMMA InitCommands == Init => CommandInv
<1> SUFFICES ASSUME Init PROVE CommandInv
  OBVIOUS
<1>1. SubmissionTypeOK /\ \A c \in Client : SubmissionFits(c)
  BY DEF Init, SubmissionInit, SubmissionTypeOK, SubmissionFits, SubmitPc
<1>2. /\ bl \in Backlogs /\ st \in [Ticket -> Statuses]
      /\ criteria \in [Ticket -> SUBSET Criterion]
  BY BacklogTyped DEF Init, Statuses
<1>3. PICK s \in Sessions :
        cmd = [c \in Client |->
                [pc |-> IF s[c].name = "create" THEN "scope" ELSE "read", line |-> s[c],
                 ticket |-> NoTicket, criteria |-> {}, parent |-> NoTicket,
                 idOf |-> [k \in {} |-> NoTicket], created |-> {}]]
  BY DEF Init
<1>4. PICK f : f = [k \in {} |-> NoTicket]
  OBVIOUS
<1>5. DOMAIN f = {} /\ f \in IdMaps
  <2>1. {} \in SUBSET PlanKeys /\ f \in [{} -> Ticket]
    BY <1>4
  <2> QED
    BY <1>4, <2>1 DEF IdMaps
<1>6. ASSUME NEW c \in Client PROVE cmd[c] \in Commands /\ Created(c)
  <2>1. cmd[c] = [pc |-> IF s[c].name = "create" THEN "scope" ELSE "read", line |-> s[c],
                  ticket |-> NoTicket, criteria |-> {}, parent |-> NoTicket,
                  idOf |-> f, created |-> {}]
    BY <1>3, <1>4
  <2>2. s[c] \in Lines /\ NoTicket \in Nat
    BY DEF Lines, NoTicket
  <2>3. cmd[c] \in Commands
    BY <1>5, <2>1, <2>2 DEF Commands, CommandPc
  <2>4. /\ cmd[c].line = s[c] /\ cmd[c].created = {} /\ cmd[c].idOf = f
        /\ s[c].name = "create" => cmd[c].pc = "scope"
    BY <2>1
  <2>5. Created(c)
    BY <1>5, <2>4 DEF Created, PlanFits
  <2> QED
    BY <2>3, <2>5
<1>7. cmd \in [Client -> Commands]
  BY <1>3, <1>6
<1> QED
  BY <1>1, <1>2, <1>6, <1>7 DEF CommandInv, SubmissionInv, TypeOK

----------------------------------------------------------------------------
(* Theorems. *)

\* Whatever is called when, every plan fits the backlog and every submission the cluster.
THEOREM CommandsInvariant == Spec => []CommandInv
  BY InitCommands, CommandNextKeeps, PTL DEF Spec

\* The files, the commands and the submissions keep their types.
THEOREM CommandsTyped == Spec => []TypeOK
<1>1. CommandInv => TypeOK
  BY DEF CommandInv
<1> QED
  BY <1>1, CommandsInvariant, PTL

\* Ids of its own, in the backlog, below one parent, and a dependency between two of them
\* exactly where the plan has a need: whatever other commands do to the backlog meanwhile,
\* and wherever a call of the backlog tool fails (applyTicketPlanEffect).
THEOREM PlansApplyInOrder == Spec => []PlanAppliedInOrder
<1>1. CommandInv => PlanAppliedInOrder
  <2> SUFFICES ASSUME CommandInv, NEW c \in Client, Is(c, "create")
               PROVE  /\ \A id \in cmd[c].created :
                            /\ bl.deps[id] \subseteq bl.ids
                            /\ bl.parent[id] \in bl.ids \cup {NoTicket, cmd[c].line.parent}
                      /\ At(c, "done") /\ ~cmd[c].line.dryRun =>
                            /\ DOMAIN cmd[c].idOf = DOMAIN cmd[c].line.plan.needs
                            /\ \A k \in DOMAIN cmd[c].idOf :
                                bl.parent[cmd[c].idOf[k]] = cmd[c].parent
                            /\ \A k, l \in DOMAIN cmd[c].idOf :
                                /\ k # l => cmd[c].idOf[k] # cmd[c].idOf[l]
                                /\ l \in cmd[c].line.plan.needs[k] <=>
                                    cmd[c].idOf[l] \in bl.deps[cmd[c].idOf[k]]
    BY DEF PlanAppliedInOrder
  <2>1. PlanFits(cmd[c], bl)
    BY DEF CommandInv, Created, Is
  <2>2. \A k, l \in DOMAIN cmd[c].idOf : k # l => cmd[c].idOf[k] # cmd[c].idOf[l]
    BY <2>1 DEF PlanFits
  <2>3. ASSUME NEW k \in DOMAIN cmd[c].idOf, NEW l \in DOMAIN cmd[c].idOf
        PROVE  l \in cmd[c].line.plan.needs[k] <=> cmd[c].idOf[l] \in bl.deps[cmd[c].idOf[k]]
    <3>1. /\ bl.deps[cmd[c].idOf[k]] = {cmd[c].idOf[d] : d \in cmd[c].line.plan.needs[k]}
          /\ cmd[c].line.plan.needs[k] \subseteq DOMAIN cmd[c].idOf
      BY <2>1 DEF PlanFits
    <3> QED
      BY <2>2, <3>1
  <2>4. /\ \A id \in cmd[c].created :
            /\ bl.deps[id] \subseteq bl.ids
            /\ bl.parent[id] \in bl.ids \cup {NoTicket, cmd[c].line.parent}
        /\ \A k \in DOMAIN cmd[c].idOf : bl.parent[cmd[c].idOf[k]] = cmd[c].parent
        /\ At(c, "done") /\ ~cmd[c].line.dryRun =>
                DOMAIN cmd[c].idOf = DOMAIN cmd[c].line.plan.needs
    BY <2>1 DEF PlanFits, At
  <2> QED
    BY <2>2, <2>3, <2>4
<1> QED
  BY <1>1, CommandsInvariant, PTL

\* A submission that failed and reports a clean clean-up has left nothing that the
\* cluster acknowledged to it (cleanupRunConfigMapsOnFailure).
THEOREM FailedSubmissionsCleanUp == Spec => []OnlyUnacknowledgedMapsLeak
<1>1. CommandInv => OnlyUnacknowledgedMapsLeak
  BY DEF CommandInv, SubmissionInv, SubmissionFits, OnlyUnacknowledgedMapsLeak, SubmitAt,
         Acknowledged
<1> QED
  BY <1>1, CommandsInvariant, PTL
=============================================================================
