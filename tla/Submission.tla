----------------------------- MODULE Submission -----------------------------
(***************************************************************************)
(* `moka submit` (src/moka-submit.ts, src/remote/submit, src/argo-submit.ts):  *)
(* options are checked, the run is recorded, its ConfigMaps are created in     *)
(* parallel, the workflow is created, and the ConfigMaps are handed to it.     *)
(* Each client makes one submission; a submission has names of its own in the   *)
(* cluster.  Calls of the Kubernetes API may fail before or after they took     *)
(* effect, and an interrupted call may still take effect.                      *)
(***************************************************************************)
EXTENDS Integers, FiniteSets

CONSTANTS
    Client,
    Requests    \* options of submitMoka

VARIABLES
    sub,        \* a client's submission: pc, request, reported error of the clean-up
    call,       \* its createConfigMap calls
    cm,         \* its ConfigMaps in the cluster
    wf,         \* its workflow in the cluster
    record      \* its run in the run-control store

submission == <<sub, call, cm, wf, record>>

Map == {"payload", "schedule", "tasks"}
SubmitPc == {"idle", "record", "payload", "maps", "workflow", "cleanup", "own",
             "submitted", "failed"}
NoRequest == [type |-> "none"]

SubmissionTypeOK ==
    /\ sub \in [Client -> [pc : SubmitPc, request : Requests \cup {NoRequest},
                           dirty : BOOLEAN]]
    /\ call \in [Client -> [Map -> {"none", "sent", "landed", "acked", "lost"}]]
    /\ cm \in [Client -> [Map -> {"absent", "present", "owned"}]]
    /\ wf \in [Client -> {"none", "exists", "gone"}]
    /\ record \in [Client -> {"none", "created", "scheduled"}]

SubmissionInit ==
    /\ sub = [c \in Client |-> [pc |-> "idle", request |-> NoRequest, dirty |-> FALSE]]
    /\ call = [c \in Client |-> [m \in Map |-> "none"]]
    /\ cm = [c \in Client |-> [m \in Map |-> "absent"]]
    /\ wf = [c \in Client |-> "none"]
    /\ record = [c \in Client |-> "none"]

SubmitAt(c, pc) == sub[c].pc = pc
SubmitGoto(c, pc) == sub' = [sub EXCEPT ![c].pc = pc]

----------------------------------------------------------------------------
(* Options.  A request is [type, schedule, sink, url, key, clash, repository,    *)
(* worktree, remote, credentials]; schedule is "none", "good", "invalid", or     *)
(* "ungraphable" for one that Argo tasks cannot express.                        *)

\* Exactly one event sink, or an event url.
EventOptionsOk(r) == r.sink # "both" /\ (r.sink = "one" \/ r.url)

\* A hook given with the submission must not take the id of a configured one.
ConfigWithSubmitHooks(r) == ~r.clash

\* An ssh remote is rewritten for GitHub and refused for any other host.
NormalizeRepository(r) == r.remote # "ssh-other"

\* Without an explicit repository and run the git context of the worktree is read.
ResolveSubmissionContext(r) ==
    /\ r.repository \/ r.worktree
    /\ r.credentials
    /\ NormalizeRepository(r)

\* One command node, with the delivery of a pull request behind it when asked for.
CommandSchedule(r) == r.type = "command"

Dynamic(r) == r.type = "graph" /\ r.schedule = "none"

\* The plan names the workflow of a schedule that compiles.
CompileMokaSubmitPlan(r) ==
    CommandSchedule(r) \/ Dynamic(r) \/ r.schedule \in {"good", "ungraphable"}

\* The token of the event sink comes with the sink or from a mounted secret.
RunnerEvents(r) == (r.sink = "one" /\ r.tokenFile) \/ r.key

\* The payload is parsed again and its repository normalised; its workflow id is the
\* one of the plan, since both come from the same schedule or run id.
PayloadOk(r) == RunnerEvents(r) /\ NormalizeRepository(r)

\* The static path compiles the Argo graph once more, after the payload.
SubmitGraph(r) == Dynamic(r) \/ CommandSchedule(r) \/ r.schedule = "good"

RunConfigMaps(r) == IF Dynamic(r) THEN {"payload"} ELSE Map

----------------------------------------------------------------------------
(* submitMoka *)

SubmitMoka(c, r) ==
    /\ SubmitAt(c, "idle")
    /\ sub' = [sub EXCEPT ![c].request = r, ![c].pc =
            IF /\ EventOptionsOk(r) /\ ConfigWithSubmitHooks(r)
               /\ ResolveSubmissionContext(r) /\ CompileMokaSubmitPlan(r)
            THEN "record" ELSE "failed"]
    /\ UNCHANGED <<call, cm, wf, record>>

\* createRun, then publishSchedule for a static plan; no failure reaches the submit.
UpsertSubmittedRunRecord(c) ==
    /\ SubmitAt(c, "record")
    /\ \E written \in {"none", "created"} \cup
                      IF Dynamic(sub[c].request) THEN {} ELSE {"scheduled"} :
            record' = [record EXCEPT ![c] = written]
    /\ SubmitGoto(c, "payload")
    /\ UNCHANGED <<call, cm, wf>>

BuildPayload(c) ==
    /\ SubmitAt(c, "payload")
    /\ LET r == sub[c].request
       IN  IF PayloadOk(r) /\ SubmitGraph(r)
           THEN /\ SubmitGoto(c, "maps")
                /\ call' = [call EXCEPT ![c] =
                        [m \in Map |-> IF m \in RunConfigMaps(r) THEN "sent" ELSE "none"]]
           ELSE SubmitGoto(c, "failed") /\ UNCHANGED call
    /\ UNCHANGED <<cm, wf, record>>

\* The API server carries out a create, whether its caller still waits or not.
CreateLands(c, m) ==
    /\ call[c][m] = "sent"
    /\ call' = [call EXCEPT ![c][m] = "landed"]
    /\ cm' = [cm EXCEPT ![c][m] = "present"]
    /\ UNCHANGED <<sub, wf, record>>

CreateAcknowledged(c, m) ==
    /\ SubmitAt(c, "maps") /\ call[c][m] = "landed"
    /\ call' = [call EXCEPT ![c][m] = "acked"]
    /\ IF \A n \in RunConfigMaps(sub[c].request) : call'[c][n] = "acked"
       THEN SubmitGoto(c, "workflow") ELSE UNCHANGED sub
    /\ UNCHANGED <<cm, wf, record>>

FailureIgnored(c, m) ==
    /\ SubmitAt(c, "maps") /\ call[c][m] \in {"sent", "landed"}
    /\ call' = [call EXCEPT ![c][m] = "lost"]
    /\ UNCHANGED <<sub, cm, wf, record>>

\* The first failure interrupts the other calls and goes to the clean-up; a call that
\* timed out may still land.
CreateFails(c, m) ==
    /\ SubmitAt(c, "maps") /\ call[c][m] \in {"sent", "landed"}
    /\ \E left \in {call[c][m], "lost"} : call' = [call EXCEPT ![c][m] = left]
    /\ SubmitGoto(c, "cleanup")
    /\ UNCHANGED <<cm, wf, record>>

Acknowledged(c) == {m \in Map : call[c][m] = "acked"}

SubmitWorkflowManifest(c) ==
    /\ SubmitAt(c, "workflow")
    /\ \/ wf' = [wf EXCEPT ![c] = "exists"] /\ SubmitGoto(c, "own")
       \/ SubmitGoto(c, "cleanup")
          /\ \E created \in {"none", "exists"} : wf' = [wf EXCEPT ![c] = created]
    /\ UNCHANGED <<call, cm, record>>

CleanupErrorDropped(c) ==
    /\ SubmitAt(c, "cleanup")
    /\ \E deleted \in SUBSET Acknowledged(c) :
        cm' = [cm EXCEPT ![c] =
                [m \in Map |-> IF m \in deleted THEN "absent" ELSE cm[c][m]]]
    /\ SubmitGoto(c, "failed")
    /\ UNCHANGED <<call, wf, record>>

\* Only acknowledged names are deleted; a failing delete is part of the error.
CleanupRunConfigMaps(c) ==
    /\ SubmitAt(c, "cleanup")
    /\ \E deleted \in SUBSET Acknowledged(c) :
        /\ cm' = [cm EXCEPT ![c] =
                [m \in Map |-> IF m \in deleted THEN "absent" ELSE cm[c][m]]]
        /\ sub' = [sub EXCEPT ![c].pc = "failed",
                              ![c].dirty = deleted # Acknowledged(c)]
    /\ UNCHANGED <<call, wf, record>>

\* Best effort: a missing uid or a failing patch leaves maps without an owner.
OwnRunConfigMaps(c) ==
    /\ SubmitAt(c, "own")
    /\ \E patched \in SUBSET RunConfigMaps(sub[c].request) :
        cm' = [cm EXCEPT ![c] = [m \in Map |->
                IF m \in patched /\ cm[c][m] = "present" THEN "owned" ELSE cm[c][m]]]
    /\ SubmitGoto(c, "submitted")
    /\ UNCHANGED <<call, wf, record>>

\* The workflow is removed after its time to live, and what it owns with it.
WorkflowExpires(c) ==
    /\ wf[c] = "exists" /\ sub[c].pc \in {"submitted", "failed"}
    /\ wf' = [wf EXCEPT ![c] = "gone"]
    /\ cm' = [cm EXCEPT ![c] =
            [m \in Map |-> IF cm[c][m] = "owned" THEN "absent" ELSE cm[c][m]]]
    /\ UNCHANGED <<sub, call, record>>

SubmitStep(c) ==
    \/ UpsertSubmittedRunRecord(c) \/ BuildPayload(c) \/ SubmitWorkflowManifest(c)
    \/ CleanupRunConfigMaps(c) \/ OwnRunConfigMaps(c)
    \/ \E m \in Map : CreateAcknowledged(c, m) \/ CreateFails(c, m)

ClusterStep(c) == WorkflowExpires(c) \/ \E m \in Map : CreateLands(c, m)

----------------------------------------------------------------------------
(* Properties *)

\* A failed submission leaves in the cluster only what was never acknowledged to it,
\* unless its error says that the clean-up failed (cleanupRunConfigMapsOnFailure).
OnlyUnacknowledgedMapsLeak ==
    \A c \in Client : SubmitAt(c, "failed") /\ ~sub[c].dirty =>
        \A m \in Acknowledged(c) : cm[c][m] = "absent"

\* Every submission that was made ends, in a workflow or in an error.
SubmissionEnds ==
    \A c \in Client : sub[c].pc # "idle" ~> sub[c].pc \in {"submitted", "failed"}
=============================================================================
