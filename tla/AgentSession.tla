---------------------------- MODULE AgentSession ----------------------------
(***************************************************************************)
(* One call of the executor (src/runtime/opencode-session-executor.ts,        *)
(* opencode-runtime.ts, src/runner/subprocess.ts).  A node makes one call at a *)
(* time; calls of several nodes share the leased OpenCode server, the session  *)
(* registry and the worktree.  The server may be slow, silent or unreachable,  *)
(* and what a caller has given up may still take effect.                      *)
(***************************************************************************)
EXTENDS Integers, Sequences, FiniteSets

CONSTANTS
    Node,
    Model,      \* models a session may be prompted with
    Profiles    \* what the configuration says of a node, one function per run

Runner == {"opencode", "command"}

\* Usable models are enabled, available on the server and, under a budget, large enough;
\* zero is no timeout and no idle budget.
Profile ==
    [missing : BOOLEAN, unreadable : BOOLEAN, runner : Runner, repairRunner : Runner,
     models : Seq(Model), usable : SUBSET Model, budget : BOOLEAN, timeout : Nat,
     envTimeout : Nat, idle : Nat, schema : BOOLEAN, repairs : Nat, handoff : BOOLEAN,
     goal : BOOLEAN]

ASSUME ProfilesTyped == Profiles \subseteq [Node -> Profile]

VARIABLES
    prof,       \* the configuration of this run
    lease,      \* "none", "starting", "open", "failed" or "closed"
    cancelled,  \* the run's abort signal
    call,       \* a node's current call
    reg,        \* session registry, by node and key of the plan
    sess,       \* sessions on the server, by node and key
    file,       \* a protected file of the worktree
    overlap     \* two guarded subprocesses have run at once

session == <<prof, lease, cancelled, call, reg, sess, file, overlap>>

MaxTransientRetries == 2
Key == {"main", "repair", "handoff"}
CallPc == {"off", "lease", "create", "subscribe", "prompt", "process", "back", "threw"}
Exits == {"ok", "agent", "infra"}
Version == {"written", "tampered"}
NoModel == "default"

Call ==
    [pc : CallPc, key : Key, model : Model \cup {NoModel}, try : 0 .. MaxTransientRetries,
     req : {"sent", "landed"}, stream : {"none", "on", "dropped"}, aborting : BOOLEAN,
     wall : Nat, quiet : Nat, still : Nat, exit : Exits, valid : BOOLEAN, snap : Version]
Session == [turns : SUBSET (Model \cup {NoModel}), unclean : BOOLEAN]

SessionTypeOK ==
    /\ prof \in Profiles
    /\ lease \in {"none", "starting", "open", "failed", "closed"}
    /\ cancelled \in BOOLEAN
    /\ call \in [Node -> Call]
    /\ reg \in [Node -> SUBSET Key]
    /\ sess \in [Node -> [Key -> Session]]
    /\ file \in Version /\ overlap \in BOOLEAN

NoCall == [pc |-> "off", key |-> "main", model |-> NoModel, try |-> 0, req |-> "sent",
           stream |-> "none", aborting |-> FALSE, wall |-> 0, quiet |-> 0, still |-> 0,
           exit |-> "ok", valid |-> FALSE, snap |-> "written"]

SessionInit ==
    /\ prof \in Profiles
    /\ lease = "none" /\ cancelled = FALSE
    /\ call = [n \in Node |-> NoCall]
    /\ reg = [n \in Node |-> {}]
    /\ sess = [n \in Node |-> [k \in Key |-> [turns |-> {}, unclean |-> FALSE]]]
    /\ file = "written" /\ overlap = FALSE

CallAt(n, pc) == call[n].pc = pc
InSession(n) == call[n].pc \in {"create", "subscribe", "prompt"}
SetCall(n, r) == call' = [call EXCEPT ![n] = r]
KeepServer == UNCHANGED <<prof, lease, cancelled, file, overlap>>

----------------------------------------------------------------------------
(* Launch plans.  Only the call for the node itself has an output listener, the *)
(* profile's timeout and the profile's runner.                                *)

PlanRunner(n, k) ==
    IF k = "repair" THEN prof[n].repairRunner ELSE prof[n].runner

PlanTimeout(n, k) ==
    IF k = "main" /\ prof[n].timeout > 0 THEN prof[n].timeout ELSE prof[n].envTimeout

OnOutput(n) == call[n].key = "main"

ConfigUsesOpencode == \E n \in Node : "opencode" \in {prof[n].runner, prof[n].repairRunner}

ExecuteRunner(n, k, m) ==
    SetCall(n, [NoCall EXCEPT !.pc = "lease", !.key = k, !.model = m])

ResultOf(n, exit, valid) ==
    [call[n] EXCEPT !.pc = "back", !.exit = exit, !.valid = valid,
                    !.stream = "none", !.aborting = FALSE]

FailureResult(n) == ResultOf(n, "infra", FALSE)

Rejected(n) == [call[n] EXCEPT !.pc = "threw", !.stream = "none", !.aborting = FALSE]

----------------------------------------------------------------------------
(* The lease: one server for all calls, started by the first *)

EnsureExecutor(n) ==
    /\ CallAt(n, "lease") /\ ConfigUsesOpencode /\ lease = "none"
    /\ lease' = "starting"
    /\ UNCHANGED <<prof, cancelled, call, reg, sess, file, overlap>>

\* A failed start is remembered like a good one.
StartExecutor ==
    /\ lease = "starting"
    /\ lease' \in {"open", "failed"}
    /\ UNCHANGED <<prof, cancelled, call, reg, sess, file, overlap>>

ReleaseLease ==
    /\ \A n \in Node : call[n].pc \in {"off", "threw"}
    /\ lease' = "closed"
    /\ UNCHANGED <<prof, cancelled, call, reg, sess, file, overlap>>

----------------------------------------------------------------------------
(* The session of a plan *)

\* A plan of another runner type is refused; a known session is used again.
ResolveSessionId(n) ==
    /\ CallAt(n, "lease") /\ lease \in {"open", "failed"}
    /\ IF lease = "failed" \/ PlanRunner(n, call[n].key) # "opencode"
       THEN SetCall(n, Rejected(n))
       ELSE SetCall(n, [call[n] EXCEPT !.pc =
                IF call[n].key \notin reg[n] THEN "create"
                ELSE IF OnOutput(n) THEN "subscribe" ELSE "prompt"])
    /\ UNCHANGED <<reg, sess>> /\ KeepServer

\* The server takes a request; an accepted prompt is a turn of the session.
RequestLands(n) ==
    /\ call[n].pc \in {"create", "prompt"} /\ call[n].req = "sent"
    /\ SetCall(n, [call[n] EXCEPT !.req = "landed"])
    /\ sess' = IF CallAt(n, "prompt")
               THEN [sess EXCEPT ![n][call[n].key].turns = @ \cup {call[n].model},
                                 ![n][call[n].key].unclean = @ \/ call[n].aborting]
               ELSE sess
    /\ UNCHANGED reg /\ KeepServer

SessionCreated(n) ==
    /\ CallAt(n, "create") /\ call[n].req = "landed"
    /\ reg' = [reg EXCEPT ![n] = @ \cup {call[n].key}]
    /\ SetCall(n, [call[n] EXCEPT !.req = "sent", !.try = 0,
                                  !.pc = IF OnOutput(n) THEN "subscribe" ELSE "prompt"])
    /\ UNCHANGED sess /\ KeepServer

\* The idle clock starts again when the stream is attached; a failed subscribe is final.
StreamEventsToOutput(n) ==
    /\ CallAt(n, "subscribe")
    /\ \/ SetCall(n, [call[n] EXCEPT !.pc = "prompt", !.stream = "on", !.quiet = 0,
                                     !.still = 0])
       \/ SetCall(n, FailureResult(n))
    /\ UNCHANGED <<reg, sess>> /\ KeepServer

\* What was given up may run on: a create then leaves a session nobody knows, a prompt
\* leaves a turn in the session.
GivenUp(n) ==
    IF ~CallAt(n, "prompt") THEN {sess}
    ELSE {[sess EXCEPT ![n][call[n].key].turns = t,
                       ![n][call[n].key].unclean = TRUE] :
            t \in {sess[n][call[n].key].turns,
                   sess[n][call[n].key].turns \cup {call[n].model}}}

TransientTransportError(n) == call[n].try < MaxTransientRetries

\* A transport error or a 429 or 5xx status is retried on the same session; an error
\* in the answer is not.
RetryTransientTransport(n) ==
    /\ call[n].pc \in {"create", "prompt"}
    /\ \/ /\ TransientTransportError(n)
          /\ SetCall(n, [call[n] EXCEPT !.try = @ + 1, !.req = "sent"])
          /\ sess' \in GivenUp(n)
       \/ /\ SetCall(n, FailureResult(n))
          /\ sess' \in GivenUp(n) \cup
                {[sess EXCEPT ![n][call[n].key].turns = @ \ {call[n].model}]}
    /\ UNCHANGED reg /\ KeepServer

\* The answer of the prompted turn: text that fits the schema of the node or not, or an
\* assistant error that is the agent's or the provider's.
SuccessResult(n) ==
    /\ CallAt(n, "prompt") /\ call[n].req = "landed"
    /\ call[n].model \in sess[n][call[n].key].turns
    /\ \E exit \in Exits, valid \in BOOLEAN :
        SetCall(n, ResultOf(n, exit, valid /\ exit # "infra"))
    /\ sess' = [sess EXCEPT ![n][call[n].key].turns = @ \ {call[n].model}]
    /\ UNCHANGED reg /\ KeepServer

\* The prompt of a turn that the abort ended is answered with an aborted message: when
\* that is faster than the abort itself, it wins the race as an error of the agent.
AbortedAnswer(n) ==
    /\ CallAt(n, "prompt") /\ call[n].req = "landed" /\ call[n].aborting
    /\ call[n].model \notin sess[n][call[n].key].turns
    /\ SetCall(n, ResultOf(n, "agent", FALSE))
    /\ UNCHANGED <<reg, sess>> /\ KeepServer

\* A turn whose caller is gone ends; its answer goes to a fiber that was interrupted.
StrayTurnEnds(n, k) ==
    \E m \in sess[n][k].turns :
        /\ ~(CallAt(n, "prompt") /\ call[n].key = k /\ call[n].req = "landed"
             /\ call[n].model = m)
        /\ sess' = [sess EXCEPT ![n][k].turns = @ \ {m}]
        /\ UNCHANGED <<call, reg>> /\ KeepServer

----------------------------------------------------------------------------
(* Events, clocks and time-outs *)

\* Every event of the server reaches every attached stream and counts as progress, the
\* ones that are not forwarded and the ones of other sessions too.
Forwarded == {"part"}

PumpOnlyForwarded(n, kind) ==
    /\ \E k \in Key : sess[n][k].turns # {}
    /\ call' = [m \in Node |->
            [call[m] EXCEPT !.quiet = IF call[m].stream = "on" /\ kind \in Forwarded THEN 0 ELSE @,
                            !.still = IF m = n THEN 0 ELSE @]]
    /\ call' # call
    /\ UNCHANGED <<reg, sess>> /\ KeepServer

PumpEvents(n, kind) ==
    /\ \E k \in Key : sess[n][k].turns # {}
    /\ call' = [m \in Node |->
            [call[m] EXCEPT !.quiet = IF call[m].stream = "on" THEN 0 ELSE @,
                            !.still = IF m = n THEN 0 ELSE @]]
    /\ call' # call
    /\ UNCHANGED <<reg, sess>> /\ KeepServer

\* A dropped stream is reported and not attached again.
ReportStreamDrop(n) ==
    /\ call[n].stream = "on"
    /\ SetCall(n, [call[n] EXCEPT !.stream = "dropped"])
    /\ UNCHANGED <<reg, sess>> /\ KeepServer

BoundByIdle(n) ==
    /\ OnOutput(n) /\ prof[n].idle > 0
    /\ PlanTimeout(n, "main") = 0 \/ prof[n].idle < PlanTimeout(n, "main")

BoundByAgentTimeout(n) == PlanTimeout(n, call[n].key) > 0

Tick(n) ==
    /\ InSession(n)
    /\ LET up(v, limit) == IF v < limit THEN v + 1 ELSE v
       IN  SetCall(n, [call[n] EXCEPT
                !.wall = up(@, PlanTimeout(n, call[n].key)),
                !.quiet = IF BoundByIdle(n) THEN up(@, prof[n].idle) ELSE @,
                !.still = IF BoundByIdle(n) THEN up(@, prof[n].idle) ELSE @])
    /\ call' # call
    /\ UNCHANGED <<reg, sess>> /\ KeepServer

IdleWithoutAbort(n) ==
    /\ InSession(n) /\ BoundByIdle(n) /\ call[n].quiet >= prof[n].idle /\ ~call[n].aborting
    /\ SetCall(n, [call[n] EXCEPT !.aborting = TRUE])
    /\ UNCHANGED <<reg, sess>> /\ KeepServer

\* The watchdog aborts the session it knows, within a bound and ignoring any failure.
OnIdleTimeout(n) ==
    /\ InSession(n) /\ BoundByIdle(n) /\ call[n].quiet >= prof[n].idle /\ ~call[n].aborting
    /\ SetCall(n, [call[n] EXCEPT !.aborting = TRUE])
    /\ sess' \in IF "main" \notin reg[n] THEN {sess}
                 ELSE {[sess EXCEPT ![n]["main"].turns = {}],
                       [sess EXCEPT ![n]["main"].unclean = TRUE]}
    /\ UNCHANGED reg /\ KeepServer

\* The call returns when the abort is through, and a prompt still on its way may land.
IdleGivesUp(n) ==
    /\ InSession(n) /\ call[n].aborting
    /\ SetCall(n, FailureResult(n))
    /\ sess' \in IF call[n].req = "sent" THEN GivenUp(n) ELSE {sess}
    /\ UNCHANGED reg /\ KeepServer

\* The wall clock gives up without an abort.
AgentTimeout(n) ==
    /\ InSession(n) /\ BoundByAgentTimeout(n)
    /\ call[n].wall >= PlanTimeout(n, call[n].key)
    /\ SetCall(n, FailureResult(n))
    /\ sess' \in GivenUp(n)
    /\ UNCHANGED reg /\ KeepServer

Cancel ==
    /\ ~cancelled /\ cancelled' = TRUE
    /\ UNCHANGED <<prof, lease, call, reg, sess, file, overlap>>

\* The abort signal interrupts the call, whose promise is rejected.
CallInterrupted(n) ==
    /\ cancelled /\ InSession(n)
    /\ SetCall(n, Rejected(n))
    /\ sess' \in GivenUp(n)
    /\ UNCHANGED reg /\ KeepServer

----------------------------------------------------------------------------
(* Subprocess runners, guarded by a snapshot of the protected files *)

CreateProtectedPathGuard(n) ==
    /\ CallAt(n, "lease") /\ ~ConfigUsesOpencode
    /\ SetCall(n, [call[n] EXCEPT !.pc = "process", !.snap = file])
    /\ overlap' = (overlap \/ \E m \in Node \ {n} : CallAt(m, "process"))
    /\ UNCHANGED <<prof, lease, cancelled, reg, sess, file>>

AgentWrites(n) ==
    /\ CallAt(n, "process") /\ file = "written"
    /\ file' = "tampered"
    /\ UNCHANGED <<prof, lease, cancelled, call, reg, sess, overlap>>

\* A process that fails to start, is killed or exits with a code is never infrastructure.
SubprocessExits == {"ok", "agent"}

\* The process ended, was killed by its timeout or by the signal; what it changed is put
\* back and a good result becomes a failure.
FinalizeLaunchResult(n) ==
    /\ CallAt(n, "process")
    /\ \E exit \in SubprocessExits, valid \in BOOLEAN :
        SetCall(n, ResultOf(n, IF file # call[n].snap THEN "agent" ELSE exit, valid))
    /\ file' = call[n].snap
    /\ UNCHANGED <<prof, lease, cancelled, reg, sess, overlap>>

----------------------------------------------------------------------------

SessionStep(n) ==
    \/ EnsureExecutor(n) \/ ResolveSessionId(n) \/ SessionCreated(n)
    \/ StreamEventsToOutput(n) \/ OnIdleTimeout(n) \/ IdleGivesUp(n) \/ AgentTimeout(n)
    \/ CallInterrupted(n) \/ CreateProtectedPathGuard(n) \/ FinalizeLaunchResult(n)

ServerStep(n) ==
    \/ RequestLands(n) \/ RetryTransientTransport(n) \/ SuccessResult(n) \/ AbortedAnswer(n)
    \/ ReportStreamDrop(n) \/ AgentWrites(n)
    \/ \E k \in Key : StrayTurnEnds(n, k)
    \/ \E kind \in {"part", "delta"} : PumpEvents(n, kind)

----------------------------------------------------------------------------
(* Properties *)

\* The watchdog only aborts a session that was silent for the idle budget, or whose
\* stream is gone (pumpEvents, idleWatchdog).
IdleMeansSilence ==
    [][\A n \in Node : ~call[n].aborting /\ call'[n].aborting =>
            call[n].still >= prof[n].idle \/ call[n].stream # "on"]_session

\* A session still holds turns of calls that are over only if one of them was given up
\* without an abort that worked, by the wall clock, a transport error, the abort signal
\* or a failing abort, or landed behind its abort (onIdleTimeout, boundByAgentTimeout).
TurnsAreEnded ==
    \A n \in Node, k \in Key :
        call[n].pc \notin {"prompt"} /\ sess[n][k].turns # {} => sess[n][k].unclean

----------------------------------------------------------------------------
(* The inductive invariants behind the proofs (GoalLoopProofs).             *)

\* The turn a call waits for; after its watchdog fired it waits for none.
Awaited(n, k) ==
    IF /\ CallAt(n, "prompt") /\ call[n].key = k
       /\ call[n].req = "landed" /\ ~call[n].aborting
    THEN {call[n].model} ELSE {}

\* A session that nothing was given up on holds no turn but the one that is awaited.
\* The watchdog knows the session of every turn it may have to end.
TurnsFit(n) ==
    /\ call[n].pc \in {"subscribe", "prompt"} => call[n].key \in reg[n]
    /\ \A k \in Key : ~sess[n][k].unclean => sess[n][k].turns \subseteq Awaited(n, k)

TurnsInv == \A n \in Node : TurnsFit(n)

\* On an attached stream the idle clock never runs ahead of the silence.
ClocksInv == \A n \in Node : call[n].stream = "on" => call[n].quiet <= call[n].still

\* Guarded processes that never shared the worktree each took a good snapshot.
FilesInv ==
    ~overlap =>
        /\ \A m, n \in Node : CallAt(m, "process") /\ CallAt(n, "process") => m = n
        /\ \A n \in Node : CallAt(n, "process") => call[n].snap = "written"
        /\ (\A n \in Node : ~CallAt(n, "process")) => file = "written"
=============================================================================
