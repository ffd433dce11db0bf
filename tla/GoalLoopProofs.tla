---------------------------- MODULE GoalLoopProofs ----------------------------
(***************************************************************************)
(* Proofs about an agent run, from the executor's call to the goal loop, for  *)
(* every set of nodes, models and profiles and whatever the server does.      *)
(***************************************************************************)
EXTENDS GoalLoop, TLAPS

----------------------------------------------------------------------------
(* Types *)

\* Every node has a profile.
LEMMA ProfileOf == SessionTypeOK => prof \in [Node -> Profile]
BY ProfilesTyped DEF SessionTypeOK

\* A fresh call, a result and a rejection are calls.
LEMMA CallShapes ==
    /\ NoCall \in Call
    /\ SessionTypeOK => \A n \in Node :
          /\ \A exit \in Exits, valid \in BOOLEAN : ResultOf(n, exit, valid) \in Call
          /\ Rejected(n) \in Call
          /\ FailureResult(n) \in Call
<1> USE DEF Call, CallPc, Key, Exits, Version, MaxTransientRetries
<1>1. NoCall \in Call
  BY DEF NoCall
<1>2. ASSUME SessionTypeOK, NEW n \in Node
      PROVE  /\ \A exit \in Exits, valid \in BOOLEAN : ResultOf(n, exit, valid) \in Call
             /\ Rejected(n) \in Call
  <2>1. call[n] \in Call
    BY <1>2 DEF SessionTypeOK
  <2>2. Rejected(n) \in Call
    BY <2>1 DEF Rejected
  <2>3. ASSUME NEW exit \in Exits, NEW valid \in BOOLEAN
        PROVE  ResultOf(n, exit, valid) \in Call
    BY <2>1 DEF ResultOf
  <2> QED BY <2>2, <2>3
<1>3. ASSUME SessionTypeOK, NEW n \in Node
      PROVE  FailureResult(n) \in Call
  <2>1. "infra" \in Exits /\ FALSE \in BOOLEAN
    OBVIOUS
  <2> QED BY <1>2, <1>3, <2>1 DEF FailureResult
<1> QED BY <1>1, <1>2, <1>3

\* What was given up changes at most the session of the call, which is unclean then.
LEMMA GivenUpForm ==
    ASSUME SessionTypeOK, NEW n \in Node, NEW s \in GivenUp(n)
    PROVE  /\ s \in [Node -> [Key -> Session]]
           /\ \A m \in Node, k \in Key :
                 s[m][k] = sess[m][k] \/ (m = n /\ k = call[n].key /\ s[m][k].unclean)
           /\ CallAt(n, "prompt") => s[n][call[n].key].unclean
           /\ ~CallAt(n, "prompt") => s = sess
<1>1. CASE ~CallAt(n, "prompt")
  BY <1>1 DEF GivenUp, SessionTypeOK
<1>2. CASE CallAt(n, "prompt")
  <2> DEFINE key == call[n].key
  <2>1. /\ key \in Key /\ call[n].model \in Model \cup {NoModel}
        /\ sess \in [Node -> [Key -> Session]]
    BY DEF SessionTypeOK, Call
  <2>2. PICK t \in {sess[n][key].turns, sess[n][key].turns \cup {call[n].model}} :
            s = [sess EXCEPT ![n][key].turns = t, ![n][key].unclean = TRUE]
    BY <1>2 DEF GivenUp
  <2>3. t \in SUBSET (Model \cup {NoModel})
    BY <2>1 DEF Session
  <2> HIDE DEF key
  <2>4. sess[n][key] \in Session
    BY <2>1
  <2>5. [[sess[n][key] EXCEPT !.turns = t] EXCEPT !.unclean = TRUE] \in Session
    BY <2>3, <2>4 DEF Session
  <2>6. s = [sess EXCEPT ![n] = [sess[n] EXCEPT ![key] =
                [[sess[n][key] EXCEPT !.turns = t] EXCEPT !.unclean = TRUE]]]
    BY <2>1, <2>2
  <2>7. s \in [Node -> [Key -> Session]]
    BY <2>1, <2>5, <2>6
  <2>8. s[n][key] = [[sess[n][key] EXCEPT !.turns = t] EXCEPT !.unclean = TRUE]
    BY <2>1, <2>6
  <2>9. s[n][key].unclean
    BY <2>4, <2>8 DEF Session
  <2>10. \A m \in Node, k \in Key : m # n \/ k # key => s[m][k] = sess[m][k]
    BY <2>1, <2>6
  <2> QED BY <1>2, <2>7, <2>9, <2>10 DEF key
<1> QED BY <1>1, <1>2

\* What an update of one field of one session leaves of the sessions.
LEMMA SessionUpdates ==
    ASSUME SessionTypeOK, NEW n \in Node, NEW k \in Key
    PROVE  /\ \A t \in SUBSET (Model \cup {NoModel}) :
                 /\ [sess EXCEPT ![n][k].turns = t] \in [Node -> [Key -> Session]]
                 /\ [sess EXCEPT ![n][k].turns = t][n][k]
                        = [turns |-> t, unclean |-> sess[n][k].unclean]
           /\ \A u \in BOOLEAN :
                 /\ [sess EXCEPT ![n][k].unclean = u] \in [Node -> [Key -> Session]]
                 /\ [sess EXCEPT ![n][k].unclean = u][n][k]
                        = [turns |-> sess[n][k].turns, unclean |-> u]
<1>1. sess \in [Node -> [Key -> Session]] /\ sess[n][k] \in Session
  BY DEF SessionTypeOK
<1>2. ASSUME NEW t \in SUBSET (Model \cup {NoModel})
      PROVE  /\ [sess EXCEPT ![n][k].turns = t] \in [Node -> [Key -> Session]]
             /\ [sess EXCEPT ![n][k].turns = t][n][k]
                   = [turns |-> t, unclean |-> sess[n][k].unclean]
  <2>1. [sess[n][k] EXCEPT !.turns = t] \in Session
    BY <1>1 DEF Session
  <2>2. [sess[n][k] EXCEPT !.turns = t] = [turns |-> t, unclean |-> sess[n][k].unclean]
    BY <1>1 DEF Session
  <2>3. [sess EXCEPT ![n][k].turns = t]
            = [sess EXCEPT ![n] = [sess[n] EXCEPT ![k] = [sess[n][k] EXCEPT !.turns = t]]]
    OBVIOUS
  <2> QED BY <1>1, <2>1, <2>2, <2>3
<1>3. ASSUME NEW u \in BOOLEAN
      PROVE  /\ [sess EXCEPT ![n][k].unclean = u] \in [Node -> [Key -> Session]]
             /\ [sess EXCEPT ![n][k].unclean = u][n][k]
                   = [turns |-> sess[n][k].turns, unclean |-> u]
  <2>1. [sess[n][k] EXCEPT !.unclean = u] \in Session
    BY <1>1 DEF Session
  <2>2. [sess[n][k] EXCEPT !.unclean = u] = [turns |-> sess[n][k].turns, unclean |-> u]
    BY <1>1 DEF Session
  <2>3. [sess EXCEPT ![n][k].unclean = u]
            = [sess EXCEPT ![n] = [sess[n] EXCEPT ![k] = [sess[n][k] EXCEPT !.unclean = u]]]
    OBVIOUS
  <2> QED BY <1>1, <2>1, <2>2, <2>3
<1> QED BY <1>2, <1>3

\* A step of the call of one node that leaves the sessions alone.
LEMMA CallTypes ==
    ASSUME SessionTypeOK, NEW n \in Node,
           \/ EnsureExecutor(n) \/ ResolveSessionId(n) \/ SessionCreated(n)
           \/ StreamEventsToOutput(n) \/ ReportStreamDrop(n) \/ Tick(n)
           \/ CreateProtectedPathGuard(n) \/ AgentWrites(n) \/ FinalizeLaunchResult(n)
           \/ \E kind \in {"part", "delta"} : PumpEvents(n, kind)
    PROVE  SessionTypeOK'
<1>0. /\ call \in [Node -> Call] /\ call[n] \in Call
      /\ reg \in [Node -> SUBSET Key] /\ file \in Version
  BY DEF SessionTypeOK
<1>1. CASE EnsureExecutor(n)
  BY <1>1 DEF EnsureExecutor, SessionTypeOK
<1>2. CASE ResolveSessionId(n)
  <2>1. [call[n] EXCEPT !.pc = IF call[n].key \notin reg[n] THEN "create"
                               ELSE IF OnOutput(n) THEN "subscribe" ELSE "prompt"] \in Call
    BY <1>0 DEF Call, CallPc, Key, Version, MaxTransientRetries
  <2>2. Rejected(n) \in Call
    BY CallShapes
  <2>3. call' \in [Node -> Call]
    BY <1>0, <1>2, <2>1, <2>2 DEF ResolveSessionId, SetCall
  <2> QED BY <1>2, <2>3 DEF ResolveSessionId, KeepServer, SessionTypeOK
<1>3. CASE SessionCreated(n)
  <2>1. [call[n] EXCEPT !.req = "sent", !.try = 0,
                        !.pc = IF OnOutput(n) THEN "subscribe" ELSE "prompt"] \in Call
    <3> DEFINE pc == IF OnOutput(n) THEN "subscribe" ELSE "prompt"
    <3>1. pc \in CallPc /\ 0 \in 0 .. MaxTransientRetries
      BY DEF CallPc, MaxTransientRetries
    <3> HIDE DEF pc
    <3>2. [call[n] EXCEPT !.req = "sent", !.try = 0, !.pc = pc] \in Call
      BY <1>0, <3>1 DEF Call
    <3> QED BY <3>2 DEF pc
  <2>2. call' \in [Node -> Call]
    BY <1>0, <1>3, <2>1 DEF SessionCreated, SetCall
  <2>3. reg' \in [Node -> SUBSET Key]
    <3>1. call[n].key \in Key
      BY <1>0 DEF Call
    <3> QED BY <1>0, <1>3, <3>1 DEF SessionCreated
  <2> QED BY <1>3, <2>2, <2>3 DEF SessionCreated, KeepServer, SessionTypeOK
<1>4. CASE StreamEventsToOutput(n)
  <2>1. [call[n] EXCEPT !.pc = "prompt", !.stream = "on", !.quiet = 0, !.still = 0] \in Call
    BY <1>0 DEF Call, CallPc, Key, Version, MaxTransientRetries
  <2>2. call' \in [Node -> Call]
    BY <1>0, <1>4, <2>1, CallShapes DEF StreamEventsToOutput, SetCall
  <2> QED BY <1>4, <2>2 DEF StreamEventsToOutput, KeepServer, SessionTypeOK
<1>5. CASE ReportStreamDrop(n)
  <2>1. [call[n] EXCEPT !.stream = "dropped"] \in Call
    BY <1>0 DEF Call, CallPc, Key, Version, MaxTransientRetries
  <2>2. call' \in [Node -> Call]
    BY <1>0, <1>5, <2>1 DEF ReportStreamDrop, SetCall
  <2> QED BY <1>5, <2>2 DEF ReportStreamDrop, KeepServer, SessionTypeOK
<1>6. CASE Tick(n)
  <2>1. PICK w, q, s \in Nat : call' = [call EXCEPT ![n] =
                [call[n] EXCEPT !.wall = w, !.quiet = q, !.still = s]]
    <3>1. call[n].wall \in Nat /\ call[n].quiet \in Nat /\ call[n].still \in Nat
      BY <1>0 DEF Call
    <3> DEFINE up(v, limit) == IF v < limit THEN v + 1 ELSE v
    <3>2. \A limit : \A v \in Nat : up(v, limit) \in Nat
      OBVIOUS
    <3> DEFINE w == up(call[n].wall, PlanTimeout(n, call[n].key))
               q == IF BoundByIdle(n) THEN up(call[n].quiet, prof[n].idle) ELSE call[n].quiet
               s == IF BoundByIdle(n) THEN up(call[n].still, prof[n].idle) ELSE call[n].still
    <3>3. w \in Nat /\ q \in Nat /\ s \in Nat
      BY <3>1, <3>2
    <3>4. call' = [call EXCEPT ![n] = [call[n] EXCEPT !.wall = w, !.quiet = q, !.still = s]]
      BY <1>6 DEF Tick, SetCall
    <3> HIDE DEF w, q, s
    <3> QED BY <3>3, <3>4
  <2>2. [call[n] EXCEPT !.wall = w, !.quiet = q, !.still = s] \in Call
    BY <1>0, <2>1 DEF Call
  <2>3. call' \in [Node -> Call]
    BY <1>0, <2>1, <2>2
  <2> QED BY <1>6, <2>3 DEF Tick, KeepServer, SessionTypeOK
<1>7. CASE CreateProtectedPathGuard(n)
  <2>1. [call[n] EXCEPT !.pc = "process", !.snap = file] \in Call
    BY <1>0 DEF Call, CallPc, Key, Version, MaxTransientRetries
  <2>2. call' \in [Node -> Call]
    BY <1>0, <1>7, <2>1 DEF CreateProtectedPathGuard, SetCall
  <2>3. overlap' \in BOOLEAN
    BY <1>7 DEF CreateProtectedPathGuard
  <2> QED BY <1>7, <2>2, <2>3 DEF CreateProtectedPathGuard, SessionTypeOK
<1>8. CASE AgentWrites(n)
  BY <1>8 DEF AgentWrites, SessionTypeOK, Version
<1>9. CASE FinalizeLaunchResult(n)
  <2>1. PICK exit \in Exits, valid \in BOOLEAN : SetCall(n, ResultOf(n, exit, valid))
    <3>1. PICK exit \in SubprocessExits, valid \in BOOLEAN :
              SetCall(n, ResultOf(n, IF file # call[n].snap THEN "agent" ELSE exit, valid))
      BY <1>9 DEF FinalizeLaunchResult
    <3>2. (IF file # call[n].snap THEN "agent" ELSE exit) \in Exits
      BY DEF SubprocessExits, Exits
    <3> QED BY <3>1, <3>2
  <2>2. call' \in [Node -> Call]
    BY <1>0, <2>1, CallShapes DEF SetCall
  <2>3. file' \in Version
    BY <1>0, <1>9 DEF FinalizeLaunchResult, Call
  <2> QED BY <1>9, <2>2, <2>3 DEF FinalizeLaunchResult, SessionTypeOK
<1>10. ASSUME NEW kind, PumpEvents(n, kind) PROVE SessionTypeOK'
  <2>1. ASSUME NEW m \in Node PROVE call'[m] \in Call
    <3>1. call[m] \in Call
      BY <1>0
    <3> DEFINE q == IF call[m].stream = "on" THEN 0 ELSE call[m].quiet
               s == IF m = n THEN 0 ELSE call[m].still
    <3>2. call'[m] = [call[m] EXCEPT !.quiet = q, !.still = s]
      BY <1>10 DEF PumpEvents
    <3>3. q \in Nat /\ s \in Nat
      BY <3>1 DEF Call
    <3> HIDE DEF q, s
    <3> QED BY <3>1, <3>2, <3>3 DEF Call
  <2>2. call' \in [Node -> Call]
    BY <1>10, <2>1 DEF PumpEvents
  <2> QED BY <1>10, <2>2 DEF PumpEvents, KeepServer, SessionTypeOK
<1> QED BY <1>1, <1>2, <1>3, <1>4, <1>5, <1>6, <1>7, <1>8, <1>9, <1>10

\* A step of the call of one node that may change its session.
LEMMA TurnTypes ==
    ASSUME SessionTypeOK, NEW n \in Node,
           \/ RequestLands(n) \/ RetryTransientTransport(n) \/ SuccessResult(n)
           \/ AbortedAnswer(n) \/ OnIdleTimeout(n) \/ IdleGivesUp(n) \/ AgentTimeout(n)
           \/ CallInterrupted(n) \/ \E k \in Key : StrayTurnEnds(n, k)
    PROVE  SessionTypeOK'
<1> DEFINE key == call[n].key
           m == call[n].model
<1>0. /\ call \in [Node -> Call] /\ call[n] \in Call /\ key \in Key
      /\ m \in Model \cup {NoModel} /\ sess \in [Node -> [Key -> Session]]
      /\ \A k \in Key : sess[n][k].turns \in SUBSET (Model \cup {NoModel})
  BY DEF SessionTypeOK, Call, Session
<1> HIDE DEF key, m
<1>1. \A r \in Call : SetCall(n, r) => call' \in [Node -> Call]
  BY <1>0 DEF SetCall
<1>2. \A s \in GivenUp(n) : s \in [Node -> [Key -> Session]]
  BY GivenUpForm
<1>3. \A k \in Key, x \in Model \cup {NoModel} :
          [sess EXCEPT ![n][k].turns = @ \ {x}] \in [Node -> [Key -> Session]]
  <2> TAKE k \in Key, x \in Model \cup {NoModel}
  <2>1. sess[n][k].turns \ {x} \in SUBSET (Model \cup {NoModel})
    BY <1>0
  <2> QED BY <2>1, SessionUpdates
<1>4. FailureResult(n) \in Call /\ Rejected(n) \in Call
  BY CallShapes
<1>5. CASE RequestLands(n)
  <2>1. [call[n] EXCEPT !.req = "landed"] \in Call
    BY <1>0 DEF Call
  <2>2. sess' \in [Node -> [Key -> Session]]
    <3> DEFINE t == sess[n][key].turns \cup {m}
               u == sess[n][key].unclean \/ call[n].aborting
    <3>1. sess' = sess \/ sess' = [sess EXCEPT ![n] = [sess[n] EXCEPT ![key] =
              [[sess[n][key] EXCEPT !.turns = t] EXCEPT !.unclean = u]]]
      BY <1>5 DEF RequestLands, key, m
    <3>2. t \in SUBSET (Model \cup {NoModel}) /\ u \in BOOLEAN
      BY <1>0
    <3>3. sess[n][key] \in Session
      BY <1>0
    <3> HIDE DEF t, u
    <3>4. [[sess[n][key] EXCEPT !.turns = t] EXCEPT !.unclean = u] \in Session
      BY <3>2, <3>3 DEF Session
    <3> QED BY <1>0, <3>1, <3>4
  <2> QED BY <1>1, <1>5, <2>1, <2>2 DEF RequestLands, KeepServer, SessionTypeOK
<1>6. CASE RetryTransientTransport(n)
  <2>1. TransientTransportError(n) => [call[n] EXCEPT !.try = @ + 1, !.req = "sent"] \in Call
    <3> SUFFICES ASSUME TransientTransportError(n)
                 PROVE  [call[n] EXCEPT !.try = @ + 1, !.req = "sent"] \in Call
      OBVIOUS
    <3> DEFINE t == call[n].try + 1
    <3>1. call[n].try \in 0 .. 2
      BY <1>0 DEF Call, MaxTransientRetries
    <3>2. t \in 0 .. MaxTransientRetries
      BY <3>1 DEF TransientTransportError, MaxTransientRetries
    <3> HIDE DEF t
    <3>3. [call[n] EXCEPT !.try = t, !.req = "sent"] \in Call
      BY <1>0, <3>2 DEF Call
    <3> QED BY <3>3 DEF t
  <2>2. call' \in [Node -> Call]
    BY <1>1, <1>4, <1>6, <2>1 DEF RetryTransientTransport
  <2>3. sess' \in GivenUp(n) \/ sess' = [sess EXCEPT ![n][key].turns = @ \ {m}]
    BY <1>6 DEF RetryTransientTransport, key, m
  <2>4. sess' \in [Node -> [Key -> Session]]
    BY <1>0, <1>2, <1>3, <2>3
  <2> QED BY <1>6, <2>2, <2>4 DEF RetryTransientTransport, KeepServer, SessionTypeOK
<1>7. CASE SuccessResult(n)
  <2>1. PICK exit \in Exits, valid \in BOOLEAN : SetCall(n, ResultOf(n, exit, valid))
    BY <1>7 DEF SuccessResult
  <2>2. call' \in [Node -> Call]
    BY <1>1, <2>1, CallShapes
  <2>3. sess' = [sess EXCEPT ![n][key].turns = @ \ {m}]
    BY <1>7 DEF SuccessResult, key, m
  <2>4. sess' \in [Node -> [Key -> Session]]
    BY <1>0, <1>3, <2>3
  <2> QED BY <1>7, <2>2, <2>4 DEF SuccessResult, KeepServer, SessionTypeOK
<1>8. CASE AbortedAnswer(n)
  <2>1. ResultOf(n, "agent", FALSE) \in Call
    BY CallShapes DEF Exits
  <2> QED BY <1>1, <1>8, <2>1 DEF AbortedAnswer, KeepServer, SessionTypeOK
<1>9. CASE OnIdleTimeout(n)
  <2>1. [call[n] EXCEPT !.aborting = TRUE] \in Call
    BY <1>0 DEF Call
  <2>2. \/ sess' = sess
        \/ sess' = [sess EXCEPT ![n]["main"].turns = {}]
        \/ sess' = [sess EXCEPT ![n]["main"].unclean = TRUE]
    BY <1>9 DEF OnIdleTimeout
  <2>3. sess' \in [Node -> [Key -> Session]]
    <3>1. {} \in SUBSET (Model \cup {NoModel}) /\ TRUE \in BOOLEAN /\ "main" \in Key
      BY DEF Key
    <3>2. /\ [sess EXCEPT ![n]["main"].turns = {}] \in [Node -> [Key -> Session]]
          /\ [sess EXCEPT ![n]["main"].unclean = TRUE] \in [Node -> [Key -> Session]]
      BY <3>1, SessionUpdates
    <3> QED BY <1>0, <2>2, <3>2
  <2> QED BY <1>1, <1>9, <2>1, <2>3 DEF OnIdleTimeout, KeepServer, SessionTypeOK
<1>10. CASE IdleGivesUp(n) \/ AgentTimeout(n) \/ CallInterrupted(n)
  <2>1. /\ SetCall(n, FailureResult(n)) \/ SetCall(n, Rejected(n))
        /\ sess' = sess \/ sess' \in GivenUp(n)
        /\ UNCHANGED reg /\ KeepServer
    BY <1>10 DEF IdleGivesUp, AgentTimeout, CallInterrupted
  <2>2. call' \in [Node -> Call] /\ sess' \in [Node -> [Key -> Session]]
    BY <1>0, <1>1, <1>2, <1>4, <2>1
  <2> QED BY <2>1, <2>2 DEF KeepServer, SessionTypeOK
<1>11. ASSUME NEW k \in Key, StrayTurnEnds(n, k) PROVE SessionTypeOK'
  <2>1. PICK x \in sess[n][k].turns : sess' = [sess EXCEPT ![n][k].turns = @ \ {x}]
    BY <1>11 DEF StrayTurnEnds
  <2>2. sess' \in [Node -> [Key -> Session]]
    BY <1>0, <1>3, <2>1
  <2> QED BY <1>11, <2>2 DEF StrayTurnEnds, KeepServer, SessionTypeOK
<1> QED BY <1>5, <1>6, <1>7, <1>8, <1>9, <1>10, <1>11

\* No step of a call or of the server takes a variable out of its type.
LEMMA SessionTypes ==
    ASSUME SessionTypeOK, NEW n \in Node, SessionStep(n) \/ ServerStep(n) \/ Tick(n)
    PROVE  SessionTypeOK'
BY CallTypes, TurnTypes DEF SessionStep, ServerStep

----------------------------------------------------------------------------
(* Attempts *)

\* What a step of an attempt makes of the attempt r and of the call c of its node.
AttemptMove(n, r, c) ==
    /\ r \in Attempt /\ c \in Call
    /\ node' = [node EXCEPT ![n] = r] /\ call' = [call EXCEPT ![n] = c]
    /\ r.asked <= Len(prof[n].models) /\ r.repairs <= prof[n].repairs
    /\ AttemptFits(prof[n], r, c)
    /\ call[n].pc \in {"off", "back", "threw"} /\ c.pc \in {"off", "lease"}
    /\ c = call[n] \/ (c.stream = "none" /\ ~c.aborting)

\* A call of the executor starts with the lease.
LEMMA RunnerForm ==
    ASSUME NEW n \in Node, NEW k \in Key, NEW m \in Model \cup {NoModel},
           ExecuteRunner(n, k, m)
    PROVE  \E c \in Call : /\ call' = [call EXCEPT ![n] = c]
                           /\ c.pc = "lease" /\ c.stream = "none" /\ ~c.aborting
<1> DEFINE c == [NoCall EXCEPT !.pc = "lease", !.key = k, !.model = m]
<1>1. NoCall \in Call
  BY CallShapes
<1>2. c \in Call
  BY <1>1 DEF Call, CallPc
<1>3. c.pc = "lease" /\ c.stream = "none" /\ ~c.aborting
  BY DEF NoCall
<1>4. call' = [call EXCEPT ![n] = c]
  BY DEF ExecuteRunner, SetCall
<1> QED BY <1>2, <1>3, <1>4

\* A call that is over leaves no trace in the node.
LEMMA DoneForm ==
    ASSUME NEW n \in Node, CallDone(n)
    PROVE  \E c \in Call : /\ call' = [call EXCEPT ![n] = c]
                           /\ c.pc = "off" /\ c.stream = "none" /\ ~c.aborting
BY CallShapes DEF CallDone, SetCall, NoCall

\* Deriving the handoff ends the attempt, with a handoff when one is asked for, or
\* starts the finalizer.
LEMMA DeriveForm ==
    ASSUME NEW n \in Node, NEW r \in Attempt, MaybeDeriveHandoff(n, r),
           r.asked <= Len(prof[n].models), r.repairs <= prof[n].repairs,
           r.exit = "ok" /\ prof[n].schema /\ ~r.valid => r.repairs = prof[n].repairs,
           call[n].pc \in {"back", "threw"}
    PROVE  \E q \in Attempt, c \in Call : AttemptMove(n, q, c)
<1>1. PICK q \in Attempt :
          /\ node' = [node EXCEPT ![n] = q]
          /\ q.asked = r.asked /\ q.exit = r.exit /\ q.valid = r.valid /\ q.repairs = r.repairs
          /\ \/ q.pc = "returned" /\ (prof[n].handoff => q.handoff # "none") /\ CallDone(n)
             \/ q.pc = "handoff" /\ ExecuteRunner(n, "handoff", NoModel)
  <2>1. /\ [r EXCEPT !.pc = "returned"] \in Attempt
        /\ [r EXCEPT !.pc = "returned", !.handoff = "parsed"] \in Attempt
        /\ [r EXCEPT !.pc = "returned", !.handoff = "minimal"] \in Attempt
        /\ [r EXCEPT !.pc = "handoff"] \in Attempt
    BY DEF Attempt, NodePc
  <2>2. CASE ~prof[n].handoff /\ SetNode(n, [r EXCEPT !.pc = "returned"]) /\ CallDone(n)
    BY <2>1, <2>2 DEF SetNode, Attempt
  <2>3. CASE /\ SetNode(n, [r EXCEPT !.pc = "returned", !.handoff = "parsed"])
             /\ CallDone(n)
    BY <2>1, <2>3 DEF SetNode, Attempt
  <2>4. CASE /\ SetNode(n, [r EXCEPT !.pc = "returned", !.handoff = "minimal"])
             /\ CallDone(n)
    BY <2>1, <2>4 DEF SetNode, Attempt
  <2>5. CASE /\ SetNode(n, [r EXCEPT !.pc = "handoff"])
             /\ ExecuteRunner(n, "handoff", NoModel)
    BY <2>1, <2>5 DEF SetNode, Attempt
  <2> QED BY <2>2, <2>3, <2>4, <2>5 DEF MaybeDeriveHandoff
<1>2. CASE q.pc = "returned" /\ (prof[n].handoff => q.handoff # "none") /\ CallDone(n)
  <2>1. PICK c \in Call : /\ call' = [call EXCEPT ![n] = c]
                          /\ c.pc = "off" /\ c.stream = "none" /\ ~c.aborting
    BY <1>2, DoneForm
  <2>2. AttemptMove(n, q, c)
    BY <1>1, <1>2, <2>1 DEF AttemptMove, AttemptFits, Calling
  <2> QED BY <2>2
<1>3. CASE q.pc = "handoff" /\ ExecuteRunner(n, "handoff", NoModel)
  <2>1. PICK c \in Call : /\ call' = [call EXCEPT ![n] = c]
                          /\ c.pc = "lease" /\ c.stream = "none" /\ ~c.aborting
    BY <1>3, RunnerForm DEF Key
  <2>2. AttemptMove(n, q, c)
    BY <1>1, <1>3, <2>1 DEF AttemptMove, AttemptFits, Calling
  <2> QED BY <2>2
<1> QED BY <1>1, <1>2, <1>3

\* A model is asked under a call of its own.
LEMMA AskForm ==
    ASSUME NodeTypeOK, NEW n \in Node, NEW r \in Attempt, NEW i \in 0 .. Len(prof[n].models),
           RunModelAttempt(n, r, i), r.repairs = 0, call[n].pc \in {"off", "back"}
    PROVE  \E q \in Attempt, c \in Call : AttemptMove(n, q, c)
<1> DEFINE q == [r EXCEPT !.pc = "model", !.asked = i]
           m == IF i = 0 THEN NoModel ELSE prof[n].models[i]
<1>1. prof[n].models \in Seq(Model) /\ prof[n].repairs \in Nat
  BY ProfileOf DEF NodeTypeOK, Profile
<1>2. m \in Model \cup {NoModel} /\ i \in Nat /\ i <= Len(prof[n].models)
  BY <1>1
<1>3. q \in Attempt /\ q.pc = "model" /\ q.asked = i /\ q.repairs = 0
  BY <1>2 DEF Attempt, NodePc
<1>4. node' = [node EXCEPT ![n] = q] /\ ExecuteRunner(n, "main", m)
  BY DEF RunModelAttempt, SetNode
<1> HIDE DEF q, m
<1>5. PICK c \in Call : /\ call' = [call EXCEPT ![n] = c]
                        /\ c.pc = "lease" /\ c.stream = "none" /\ ~c.aborting
  BY <1>2, <1>4, RunnerForm DEF Key
<1>6. AttemptMove(n, q, c)
  BY <1>1, <1>2, <1>3, <1>4, <1>5 DEF AttemptMove, AttemptFits, Calling
<1> QED BY <1>3, <1>6

\* A repair is asked for under a call of its own.
LEMMA RepairForm ==
    ASSUME NodeTypeOK, NEW n \in Node, NEW q \in Attempt, q.pc = "repair",
           SetNode(n, q), ExecuteRunner(n, "repair", NoModel),
           q.asked <= Len(prof[n].models), q.repairs <= prof[n].repairs,
           call[n].pc = "back"
    PROVE  \E c \in Call : AttemptMove(n, q, c)
<1>1. PICK c \in Call : /\ call' = [call EXCEPT ![n] = c]
                        /\ c.pc = "lease" /\ c.stream = "none" /\ ~c.aborting
  BY RunnerForm DEF Key
<1>2. AttemptMove(n, q, c)
  BY <1>1 DEF AttemptMove, AttemptFits, Calling, SetNode
<1> QED BY <1>2

\* A step of an attempt leaves everything but its node and its call alone, and fits.
LEMMA AttemptForm ==
    ASSUME NodeTypeOK, AttemptInv, NEW n \in Node, NodeStep(n)
    PROVE  Unsent /\ \E q \in Attempt, c \in Call : AttemptMove(n, q, c)
<1>1. Unsent
  BY DEF NodeStep, ExecuteAgentNode, RunSelectedModel, FinalizeAgentOutput,
     RunOutputRepair, RunHandoffFinalizer, AttemptThrows
<1>2. /\ node[n] \in Attempt /\ call[n] \in Call /\ call \in [Node -> Call]
      /\ AttemptFits(prof[n], node[n], call[n])
      /\ node[n].asked <= Len(prof[n].models) /\ node[n].repairs <= prof[n].repairs
  BY DEF NodeTypeOK, SessionTypeOK, AttemptInv
<1>3. prof[n].models \in Seq(Model) /\ prof[n].repairs \in Nat /\ Len(prof[n].models) \in Nat
  BY ProfileOf DEF NodeTypeOK, Profile
<1>4. Fresh \in Attempt /\ Fresh.repairs = 0 /\ Fresh.asked = 0
  BY DEF Fresh, Attempt, NodePc, Exits
<1>5. CASE ExecuteAgentNode(n)
  <2>1. call[n].pc = "off"
    BY <1>2, <1>5 DEF ExecuteAgentNode, NodeAt, AttemptFits, Calling, CallAt
  <2>2. CASE \E i \in 0 .. Len(prof[n].models) : RunModelAttempt(n, Fresh, i)
    BY <1>1, <1>4, <2>1, <2>2, AskForm
  <2>3. CASE \E q \in {[Fresh EXCEPT !.pc = "refused", !.exit = "agent"],
                       [Fresh EXCEPT !.pc = "threw"]} : SetNode(n, q) /\ UNCHANGED call
    <3>1. PICK q \in {[Fresh EXCEPT !.pc = "refused", !.exit = "agent"],
                      [Fresh EXCEPT !.pc = "threw"]} : SetNode(n, q) /\ UNCHANGED call
      BY <2>3
    <3>2. /\ q \in Attempt /\ q.asked = 0 /\ q.repairs = 0
          /\ q.pc \in {"refused", "threw"}
      BY <1>4 DEF Attempt, NodePc, Exits
    <3>3. node' = [node EXCEPT ![n] = q] /\ call' = [call EXCEPT ![n] = call[n]]
      BY <1>2, <3>1 DEF SetNode
    <3>4. AttemptMove(n, q, call[n])
      BY <1>2, <1>3, <2>1, <3>2, <3>3 DEF AttemptMove, AttemptFits, Calling
    <3> QED BY <1>1, <1>2, <3>2, <3>4
  <2> QED BY <1>5, <2>2, <2>3 DEF ExecuteAgentNode
<1>6. CASE RunSelectedModel(n)
  <2>1. call[n].pc = "back" /\ node[n].pc = "model"
    BY <1>6 DEF RunSelectedModel, NodeAt, CallAt
  <2>2. node[n].repairs = 0
    BY <1>2, <2>1 DEF AttemptFits
  <2>3. PICK i \in NextCandidates(n) : RunModelAttempt(n, node[n], i)
    BY <1>6 DEF RunSelectedModel
  <2>4. i \in 0 .. Len(prof[n].models)
    BY <1>3 DEF NextCandidates, SelectNodeModelCandidates
  <2> QED BY <1>1, <1>2, <2>1, <2>2, <2>3, <2>4, AskForm
<1>7. CASE FinalizeAgentOutput(n)
  <2> DEFINE r == [node[n] EXCEPT !.exit = call[n].exit, !.valid = call[n].valid,
                                  !.empty = call[n].exit = "infra"]
  <2>1. call[n].pc = "back" /\ node[n].pc = "model"
    BY <1>7 DEF FinalizeAgentOutput, NodeAt, CallAt
  <2>2. node[n].repairs = 0
    BY <1>2, <2>1 DEF AttemptFits
  <2>3. /\ r \in Attempt /\ r.asked = node[n].asked /\ r.repairs = 0
        /\ r.exit = call[n].exit /\ r.valid = call[n].valid
    <3>1. call[n].exit \in Exits /\ call[n].valid \in BOOLEAN
      BY <1>2 DEF Call
    <3> QED BY <1>2, <2>2, <3>1 DEF Attempt
  <2>4. CASE /\ OutputRepairContext(n, r.exit, r.valid) /\ RepairAgain(n, 0)
             /\ SetNode(n, [r EXCEPT !.pc = "repair", !.repairs = 1])
             /\ ExecuteRunner(n, "repair", NoModel)
    <3> DEFINE q == [r EXCEPT !.pc = "repair", !.repairs = 1]
    <3> HIDE DEF r
    <3>1. /\ q \in Attempt /\ q.pc = "repair" /\ q.asked = r.asked /\ q.repairs = 1
      BY <2>3 DEF Attempt, NodePc
    <3>2. q.asked <= Len(prof[n].models) /\ q.repairs <= prof[n].repairs
      BY <1>2, <1>3, <2>3, <2>4, <3>1 DEF RepairAgain
    <3> HIDE DEF q
    <3>3. SetNode(n, q) /\ ExecuteRunner(n, "repair", NoModel)
      BY <2>4 DEF q
    <3> QED BY <1>1, <2>1, <3>1, <3>2, <3>3, RepairForm
  <2>5. CASE /\ ~(OutputRepairContext(n, r.exit, r.valid) /\ RepairAgain(n, 0))
             /\ MaybeDeriveHandoff(n, r)
    <3> HIDE DEF r
    <3>1. r.exit = "ok" /\ prof[n].schema /\ ~r.valid => r.repairs = prof[n].repairs
      BY <1>3, <2>3, <2>5 DEF OutputRepairContext, SelectValidStructuredOutput, RepairAgain
    <3>2. r.asked <= Len(prof[n].models) /\ r.repairs <= prof[n].repairs
      BY <1>2, <1>3, <2>3
    <3> QED BY <1>1, <2>1, <2>3, <2>5, <3>1, <3>2, DeriveForm
  <2> QED BY <1>7, <2>4, <2>5 DEF FinalizeAgentOutput
<1>8. CASE RunOutputRepair(n)
  <2> DEFINE r == [node[n] EXCEPT !.valid = call[n].valid, !.empty = call[n].exit = "infra"]
             passed == call[n].exit = "ok" /\ call[n].valid
  <2>1. call[n].pc = "back" /\ node[n].pc = "repair"
    BY <1>8 DEF RunOutputRepair, NodeAt, CallAt
  <2>2. /\ r \in Attempt /\ r.asked = node[n].asked /\ r.repairs = node[n].repairs
        /\ r.valid = call[n].valid
    <3>1. call[n].valid \in BOOLEAN
      BY <1>2 DEF Call
    <3> QED BY <1>2, <3>1 DEF Attempt
  <2>3. node[n].repairs \in Nat
    BY <1>2 DEF Attempt
  <2>4. CASE /\ ~passed /\ RepairAgain(n, node[n].repairs)
             /\ SetNode(n, [r EXCEPT !.repairs = @ + 1])
             /\ ExecuteRunner(n, "repair", NoModel)
    <3> DEFINE q == [r EXCEPT !.repairs = @ + 1]
    <3>0. r.pc = "repair"
      BY <1>2, <2>1 DEF Attempt
    <3> HIDE DEF r
    <3>1. /\ q \in Attempt /\ q.pc = "repair" /\ q.asked = r.asked
          /\ q.repairs = r.repairs + 1
      BY <2>2, <2>3, <3>0 DEF Attempt
    <3>2. q.asked <= Len(prof[n].models) /\ q.repairs <= prof[n].repairs
      BY <1>2, <1>3, <2>2, <2>3, <2>4, <3>1 DEF RepairAgain
    <3> HIDE DEF q
    <3>3. SetNode(n, q) /\ ExecuteRunner(n, "repair", NoModel)
      BY <2>4 DEF q
    <3> QED BY <1>1, <2>1, <3>1, <3>2, <3>3, RepairForm
  <2>5. CASE /\ ~(~passed /\ RepairAgain(n, node[n].repairs))
             /\ MaybeDeriveHandoff(n, r)
    <3> HIDE DEF r
    <3>1. r.exit = "ok" /\ prof[n].schema /\ ~r.valid => r.repairs = prof[n].repairs
      BY <1>2, <1>3, <2>2, <2>3, <2>5 DEF RepairAgain
    <3>2. r.asked <= Len(prof[n].models) /\ r.repairs <= prof[n].repairs
      BY <1>2, <2>2
    <3> QED BY <1>1, <2>1, <2>2, <2>5, <3>1, <3>2, DeriveForm
  <2> QED BY <1>8, <2>4, <2>5 DEF RunOutputRepair
<1>9. CASE RunHandoffFinalizer(n)
  <2>1. PICK made \in {"minimal", "parsed"} :
            node' = [node EXCEPT ![n] = [node[n] EXCEPT !.pc = "returned", !.handoff = made]]
    BY <1>9 DEF RunHandoffFinalizer, SetNode
  <2> DEFINE q == [node[n] EXCEPT !.pc = "returned", !.handoff = made]
  <2>2. /\ q \in Attempt /\ q.pc = "returned" /\ q.handoff # "none"
        /\ q.asked = node[n].asked /\ q.exit = node[n].exit
        /\ q.valid = node[n].valid /\ q.repairs = node[n].repairs
    BY <1>2, <2>1 DEF Attempt, NodePc
  <2>3. node[n].pc = "handoff" /\ call[n].pc \in {"back", "threw"} /\ CallDone(n)
    BY <1>9 DEF RunHandoffFinalizer, NodeAt
  <2> HIDE DEF q
  <2>4. PICK c \in Call : /\ call' = [call EXCEPT ![n] = c]
                          /\ c.pc = "off" /\ c.stream = "none" /\ ~c.aborting
    BY <2>3, DoneForm
  <2>5. node' = [node EXCEPT ![n] = q]
    BY <2>1 DEF q
  <2>6. AttemptMove(n, q, c)
    BY <1>2, <2>2, <2>3, <2>4, <2>5 DEF AttemptMove, AttemptFits, Calling
  <2> QED BY <1>1, <2>2, <2>6
<1>10. CASE AttemptThrows(n)
  <2> DEFINE q == [node[n] EXCEPT !.pc = "threw"]
  <2>1. /\ q \in Attempt /\ q.pc = "threw" /\ q.asked = node[n].asked
        /\ q.repairs = node[n].repairs
    BY <1>2 DEF Attempt, NodePc
  <2>2. call[n].pc = "threw" /\ CallDone(n) /\ node' = [node EXCEPT ![n] = q]
    BY <1>10 DEF AttemptThrows, CallAt, SetNode
  <2> HIDE DEF q
  <2>3. PICK c \in Call : /\ call' = [call EXCEPT ![n] = c]
                          /\ c.pc = "off" /\ c.stream = "none" /\ ~c.aborting
    BY <2>2, DoneForm
  <2>4. AttemptMove(n, q, c)
    BY <1>2, <2>1, <2>2, <2>3 DEF AttemptMove, AttemptFits, Calling
  <2> QED BY <1>1, <2>1, <2>4
<1> QED BY <1>1, <1>5, <1>6, <1>7, <1>8, <1>9, <1>10 DEF NodeStep

\* What an update d of a call c keeps: whether there is a call and whether it is a process,
\* the snapshot of the process, and the order of the clocks.
KeptAs(c, d) ==
    /\ d.pc = "off" <=> c.pc = "off"
    /\ d.pc = "process" <=> c.pc = "process"
    /\ d.pc = "process" => d.snap = c.snap
    /\ d.aborting => c.aborting
    /\ (c.stream = "on" => c.quiet <= c.still) => (d.stream = "on" => d.quiet <= d.still)

\* What a step makes of the call of node m: only the guard starts a process, only the
\* finalizer ends one, only the watchdog aborts.
Kept(m) ==
    /\ call'[m].pc = "off" <=> call[m].pc = "off"
    /\ call'[m].pc = "process" =>
          (call[m].pc = "process" /\ call'[m].snap = call[m].snap) \/ CreateProtectedPathGuard(m)
    /\ call[m].pc = "process" => call'[m].pc = "process" \/ FinalizeLaunchResult(m)
    /\ call'[m].aborting => call[m].aborting \/ OnIdleTimeout(m)
    /\ (call[m].stream = "on" => call[m].quiet <= call[m].still) =>
          (call'[m].stream = "on" => call'[m].quiet <= call'[m].still)

\* Both clocks advance to the same limit, in order.
LEMMA TickOrder ==
    ASSUME NEW v \in Nat, NEW w \in Nat, NEW limit \in Nat, v <= w
    PROVE  (IF v < limit THEN v + 1 ELSE v) <= (IF w < limit THEN w + 1 ELSE w)
OBVIOUS

\* A step of a call or of the server keeps every call, and touches no profile.
LEMMA CallsKept ==
    ASSUME SessionTypeOK, NEW n \in Node, SessionStep(n) \/ ServerStep(n) \/ Tick(n)
    PROVE  prof' = prof /\ \A m \in Node : Kept(m)
<1>0. call \in [Node -> Call] /\ call[n] \in Call
  BY DEF SessionTypeOK
<1>1. prof' = prof
  BY DEF SessionStep, ServerStep, KeepServer, EnsureExecutor, ResolveSessionId, SessionCreated,
     StreamEventsToOutput, OnIdleTimeout, IdleGivesUp, AgentTimeout, CallInterrupted,
     CreateProtectedPathGuard, FinalizeLaunchResult, RequestLands, RetryTransientTransport,
     SuccessResult, AbortedAnswer, ReportStreamDrop, AgentWrites, StrayTurnEnds, PumpEvents,
     Tick
<1>2. ASSUME NEW d, SetCall(n, d), KeptAs(call[n], d)
      PROVE  \A m \in Node : Kept(m)
  <2>1. call' = [call EXCEPT ![n] = d]
    BY <1>2 DEF SetCall
  <2>2. ASSUME NEW m \in Node PROVE KeptAs(call[m], call'[m])
    BY <1>0, <1>2, <2>1 DEF KeptAs
  <2> QED BY <2>2 DEF KeptAs, Kept
<1>3. call[n].pc \notin {"off", "process"} =>
          /\ \A exit, valid : KeptAs(call[n], ResultOf(n, exit, valid))
          /\ KeptAs(call[n], FailureResult(n)) /\ KeptAs(call[n], Rejected(n))
  <2>1. ASSUME NEW exit, NEW valid
        PROVE  /\ ResultOf(n, exit, valid).pc = "back" /\ ~ResultOf(n, exit, valid).aborting
               /\ ResultOf(n, exit, valid).stream = "none"
    BY <1>0 DEF ResultOf, Call
  <2>2. Rejected(n).pc = "threw" /\ ~Rejected(n).aborting /\ Rejected(n).stream = "none"
    BY <1>0 DEF Rejected, Call
  <2> QED BY <2>1, <2>2 DEF KeptAs, FailureResult
<1>4. CASE ResolveSessionId(n)
  <2>1. call[n].pc = "lease"
    BY <1>4 DEF ResolveSessionId, CallAt
  <2> DEFINE pc == IF call[n].key \notin reg[n] THEN "create"
                   ELSE IF OnOutput(n) THEN "subscribe" ELSE "prompt"
             c == [call[n] EXCEPT !.pc = pc]
  <2>2. KeptAs(call[n], c)
    <3>1. /\ c.pc \notin {"off", "process"} /\ c.aborting = call[n].aborting
          /\ c.stream = call[n].stream /\ c.quiet = call[n].quiet /\ c.still = call[n].still
      BY <1>0 DEF Call
    <3> QED BY <2>1, <3>1 DEF KeptAs
  <2>3. SetCall(n, Rejected(n)) \/ SetCall(n, c)
    BY <1>4 DEF ResolveSessionId
  <2> HIDE DEF c
  <2> QED BY <1>1, <1>2, <1>3, <2>1, <2>2, <2>3
<1>5. CASE SessionCreated(n)
  <2>1. call[n].pc = "create"
    BY <1>5 DEF SessionCreated, CallAt
  <2> DEFINE pc == IF OnOutput(n) THEN "subscribe" ELSE "prompt"
             c == [call[n] EXCEPT !.req = "sent", !.try = 0, !.pc = pc]
  <2>2. KeptAs(call[n], c)
    <3>1. /\ c.pc \notin {"off", "process"} /\ c.aborting = call[n].aborting
          /\ c.stream = call[n].stream /\ c.quiet = call[n].quiet /\ c.still = call[n].still
      BY <1>0 DEF Call
    <3> QED BY <2>1, <3>1 DEF KeptAs
  <2>3. SetCall(n, c)
    BY <1>5 DEF SessionCreated
  <2> HIDE DEF c
  <2> QED BY <1>1, <1>2, <2>2, <2>3
<1>6. CASE StreamEventsToOutput(n)
  <2>1. call[n].pc = "subscribe"
    BY <1>6 DEF StreamEventsToOutput, CallAt
  <2> DEFINE c == [call[n] EXCEPT !.pc = "prompt", !.stream = "on", !.quiet = 0, !.still = 0]
  <2>2. KeptAs(call[n], c)
    <3>1. /\ c.pc = "prompt" /\ c.aborting = call[n].aborting
          /\ c.quiet = 0 /\ c.still = 0
      BY <1>0 DEF Call
    <3> QED BY <2>1, <3>1 DEF KeptAs
  <2>3. SetCall(n, FailureResult(n)) \/ SetCall(n, c)
    BY <1>6 DEF StreamEventsToOutput
  <2> HIDE DEF c
  <2> QED BY <1>1, <1>2, <1>3, <2>1, <2>2, <2>3
<1>7. CASE SuccessResult(n) \/ AbortedAnswer(n)
  <2>1. call[n].pc = "prompt"
    BY <1>7 DEF SuccessResult, AbortedAnswer, CallAt
  <2>2. PICK exit, valid : SetCall(n, ResultOf(n, exit, valid))
    BY <1>7 DEF SuccessResult, AbortedAnswer
  <2> QED BY <1>1, <1>2, <1>3, <2>1, <2>2
<1>8. CASE \/ IdleGivesUp(n) \/ AgentTimeout(n) \/ CallInterrupted(n)
           \/ RetryTransientTransport(n)
  <2>1. call[n].pc \in {"create", "subscribe", "prompt"}
    BY <1>8 DEF IdleGivesUp, AgentTimeout, CallInterrupted, RetryTransientTransport, InSession
  <2> DEFINE c == [call[n] EXCEPT !.try = @ + 1, !.req = "sent"]
  <2>2. KeptAs(call[n], c)
    <3>1. /\ c.pc = call[n].pc /\ c.aborting = call[n].aborting /\ c.snap = call[n].snap
          /\ c.stream = call[n].stream /\ c.quiet = call[n].quiet /\ c.still = call[n].still
      BY <1>0 DEF Call
    <3> QED BY <3>1 DEF KeptAs
  <2>3. SetCall(n, FailureResult(n)) \/ SetCall(n, Rejected(n)) \/ SetCall(n, c)
    BY <1>8 DEF IdleGivesUp, AgentTimeout, CallInterrupted, RetryTransientTransport
  <2> HIDE DEF c
  <2> QED BY <1>1, <1>2, <1>3, <2>1, <2>2, <2>3
<1>9. CASE RequestLands(n)
  <2> DEFINE c == [call[n] EXCEPT !.req = "landed"]
  <2>1. /\ c.pc = call[n].pc /\ c.aborting = call[n].aborting /\ c.snap = call[n].snap
        /\ c.stream = call[n].stream /\ c.quiet = call[n].quiet /\ c.still = call[n].still
    BY <1>0 DEF Call
  <2>2. SetCall(n, c)
    BY <1>9 DEF RequestLands
  <2> HIDE DEF c
  <2>3. KeptAs(call[n], c)
    BY <2>1 DEF KeptAs
  <2> QED BY <1>1, <1>2, <2>2, <2>3
<1>10. CASE ReportStreamDrop(n)
  <2> DEFINE c == [call[n] EXCEPT !.stream = "dropped"]
  <2>1. /\ c.pc = call[n].pc /\ c.aborting = call[n].aborting /\ c.snap = call[n].snap
        /\ c.stream = "dropped"
    BY <1>0 DEF Call
  <2>2. SetCall(n, c)
    BY <1>10 DEF ReportStreamDrop
  <2> HIDE DEF c
  <2>3. KeptAs(call[n], c)
    BY <2>1 DEF KeptAs
  <2> QED BY <1>1, <1>2, <2>2, <2>3
<1>11. CASE Tick(n)
  <2> DEFINE up(v, limit) == IF v < limit THEN v + 1 ELSE v
             w == up(call[n].wall, PlanTimeout(n, call[n].key))
             q == IF BoundByIdle(n) THEN up(call[n].quiet, prof[n].idle) ELSE call[n].quiet
             t == IF BoundByIdle(n) THEN up(call[n].still, prof[n].idle) ELSE call[n].still
             c == [call[n] EXCEPT !.wall = w, !.quiet = q, !.still = t]
  <2>1. call[n].quiet \in Nat /\ call[n].still \in Nat /\ prof[n].idle \in Nat
    BY <1>0, ProfileOf DEF Call, Profile
  <2>2. call[n].quiet <= call[n].still => q <= t
    BY <2>1, TickOrder
  <2>3. SetCall(n, c)
    BY <1>11 DEF Tick
  <2> HIDE DEF w, q, t, up
  <2>4. /\ c.pc = call[n].pc /\ c.aborting = call[n].aborting /\ c.snap = call[n].snap
        /\ c.stream = call[n].stream /\ c.quiet = q /\ c.still = t
    BY <1>0 DEF Call
  <2> HIDE DEF c
  <2>5. KeptAs(call[n], c)
    BY <2>2, <2>4 DEF KeptAs
  <2> QED BY <1>1, <1>2, <2>3, <2>5
<1>12. CASE OnIdleTimeout(n)
  <2> DEFINE c == [call[n] EXCEPT !.aborting = TRUE]
  <2>1. /\ c.pc = call[n].pc /\ c.snap = call[n].snap
        /\ c.stream = call[n].stream /\ c.quiet = call[n].quiet /\ c.still = call[n].still
    BY <1>0 DEF Call
  <2>2. call' = [call EXCEPT ![n] = c]
    BY <1>12 DEF OnIdleTimeout, SetCall
  <2> HIDE DEF c
  <2>3. \A m \in Node : m # n => call'[m] = call[m]
    BY <1>0, <2>2
  <2>4. call'[n] = c
    BY <1>0, <2>2
  <2> QED BY <1>1, <1>12, <2>1, <2>3, <2>4 DEF Kept
<1>13. CASE CreateProtectedPathGuard(n)
  <2> DEFINE c == [call[n] EXCEPT !.pc = "process", !.snap = file]
  <2>1. /\ c.pc = "process" /\ c.aborting = call[n].aborting
        /\ c.stream = call[n].stream /\ c.quiet = call[n].quiet /\ c.still = call[n].still
    BY <1>0 DEF Call
  <2>2. call' = [call EXCEPT ![n] = c] /\ call[n].pc = "lease"
    BY <1>13 DEF CreateProtectedPathGuard, SetCall, CallAt
  <2> HIDE DEF c
  <2>3. \A m \in Node : m # n => call'[m] = call[m]
    BY <1>0, <2>2
  <2>4. call'[n] = c
    BY <1>0, <2>2
  <2> QED BY <1>1, <1>13, <2>1, <2>2, <2>3, <2>4 DEF Kept
<1>14. CASE FinalizeLaunchResult(n)
  <2>1. PICK exit, valid : SetCall(n, ResultOf(n, exit, valid))
    BY <1>14 DEF FinalizeLaunchResult
  <2> DEFINE c == ResultOf(n, exit, valid)
  <2>2. c.pc = "back" /\ ~c.aborting /\ c.stream = "none"
    BY <1>0 DEF ResultOf, Call
  <2> HIDE DEF c
  <2>3. call' = [call EXCEPT ![n] = c] /\ call[n].pc = "process"
    BY <1>14, <2>1 DEF FinalizeLaunchResult, SetCall, CallAt, c
  <2>4. \A m \in Node : m # n => call'[m] = call[m]
    BY <1>0, <2>3
  <2>5. call'[n] = c
    BY <1>0, <2>3
  <2> QED BY <1>1, <1>14, <2>2, <2>3, <2>4, <2>5 DEF Kept
<1>15. CASE \/ EnsureExecutor(n) \/ AgentWrites(n) \/ \E k \in Key : StrayTurnEnds(n, k)
  <2>1. call' = call
    BY <1>15 DEF EnsureExecutor, AgentWrites, StrayTurnEnds
  <2> QED BY <1>1, <2>1 DEF Kept
<1>16. ASSUME NEW kind, PumpEvents(n, kind), NEW m \in Node PROVE Kept(m)
  <2>1. call[m] \in Call
    BY <1>0
  <2> DEFINE q == IF call[m].stream = "on" THEN 0 ELSE call[m].quiet
             t == IF m = n THEN 0 ELSE call[m].still
             c == [call[m] EXCEPT !.quiet = q, !.still = t]
  <2>2. call'[m] = c
    BY <1>16 DEF PumpEvents
  <2>3. t \in Nat
    BY <2>1 DEF Call
  <2>4. call[m].stream = "on" => q <= t
    BY <2>3
  <2> HIDE DEF q, t
  <2>5. /\ c.pc = call[m].pc /\ c.aborting = call[m].aborting /\ c.snap = call[m].snap
        /\ c.stream = call[m].stream /\ c.quiet = q /\ c.still = t
    BY <2>1 DEF Call
  <2> HIDE DEF c
  <2> QED BY <2>2, <2>4, <2>5 DEF Kept
<1> QED BY <1>1, <1>4, <1>5, <1>6, <1>7, <1>8, <1>9, <1>10, <1>11, <1>12, <1>13, <1>14,
           <1>15, <1>16 DEF SessionStep, ServerStep

----------------------------------------------------------------------------
(* The goal loop *)

\* An event leaves the goal state a goal state, and only the verifier's PASS makes its
\* verdict PASS.
LEMMA EventTypes ==
    ASSUME NEW g \in Goal, NEW e \in Event
    PROVE  /\ ApplyGoalStateEvent(g, e) \in Goal
           /\ ApplyGoalStateEvent(g, e).attempts = g.attempts
           /\ ApplyGoalStateEvent(g, e).verdict = "PASS" =>
                 IF e.type = "output" /\ e.verifier THEN e.verdict = "PASS"
                 ELSE g.verdict = "PASS" /\ ~(e.type = "gate" /\ e.verifier /\ ~e.passed)
<1> DEFINE h == ApplyGoalStateEvent(g, e)
<1>1. CASE e.type = "output"
  <2> DEFINE x == IF e.accept = "absent" THEN g.accept ELSE e.accept
             a == [g EXCEPT !.accept = x]
             b == [a EXCEPT !.verdict = e.verdict, !.evidence = e.evidence,
                            !.violations = e.violations]
  <2>1. /\ e.verifier \in BOOLEAN /\ e.verdict \in Verdict /\ e.evidence \in 0 .. 2
        /\ e.violations \in BOOLEAN /\ e.accept \in {"absent", "met", "unmet"}
    BY <1>1, EventsTyped
  <2>2. h = IF ~e.verifier THEN a ELSE b
    BY <1>1 DEF ApplyGoalStateEvent, RecordStructuredVerdicts
  <2>3. x \in {"none", "met", "unmet"}
    BY <2>1 DEF Goal
  <2> HIDE DEF x
  <2>4. a \in Goal /\ a.attempts = g.attempts /\ a.verdict = g.verdict
    BY <2>3 DEF Goal
  <2> HIDE DEF a
  <2>5. b \in Goal /\ b.attempts = a.attempts /\ b.verdict = e.verdict
    BY <2>1, <2>4 DEF Goal
  <2> HIDE DEF b, h
  <2>6. /\ h \in Goal /\ h.attempts = g.attempts
        /\ h.verdict = IF e.verifier THEN e.verdict ELSE g.verdict
    BY <2>1, <2>2, <2>4, <2>5
  <2> QED BY <1>1, <2>6 DEF h
<1>2. CASE e.type = "gate"
  <2> DEFINE f == [g EXCEPT !.failures = @ + 1]
             b == [f EXCEPT !.verdict = "FAIL", !.evidence = 1]
  <2>1. e.verifier \in BOOLEAN /\ e.passed \in BOOLEAN
    BY <1>2, EventsTyped
  <2>2. h = IF e.passed THEN g ELSE IF e.verifier THEN b ELSE f
    BY <1>2 DEF ApplyGoalStateEvent, RecordGateAttempt
  <2>3. f \in Goal /\ f.attempts = g.attempts /\ f.verdict = g.verdict
    BY DEF Goal
  <2> HIDE DEF f
  <2>4. b \in Goal /\ b.attempts = f.attempts /\ b.verdict = "FAIL"
    <3>1. "FAIL" \in Verdict /\ 1 \in 0 .. 2
      BY DEF Verdict
    <3> QED BY <2>3, <3>1 DEF Goal
  <2> HIDE DEF b, h
  <2>5. /\ h \in Goal /\ h.attempts = g.attempts
        /\ h.verdict = IF ~e.passed /\ e.verifier THEN "FAIL" ELSE g.verdict
    BY <2>1, <2>2, <2>3, <2>4
  <2> QED BY <1>2, <2>1, <2>5 DEF h
<1>3. CASE e.type = "files"
  <2>1. h = [g EXCEPT !.changed = TRUE]
    BY <1>3 DEF ApplyGoalStateEvent
  <2> QED BY <1>3, <2>1 DEF Goal
<1> QED BY <1>1, <1>2, <1>3, EventsTyped

\* Without an outcome the loop is over only when it was cancelled.
LEMMA TerminalTypes ==
    /\ TerminalResult(goal.state) \in Terminal \cup {"none"}
    /\ TerminalResult(goal.state) = "passed" =>
          goal.state.verdict = "PASS" /\ goal.state.outcome = "PASS"
BY DEF TerminalResult, Terminal, GoalStateCompletionEvidence

\* The end of a loop.
LEMMA EndForm ==
    ASSUME goal \in Loop, LoopInv, NEW r \in Terminal, End(r),
           r = "passed" => goal.state.verdict = "PASS" /\ goal.state.outcome = "PASS"
    PROVE  goal' \in Loop /\ LoopInv' /\ goal'.pc = "done"
<1>1. CreateGoalState \in Goal /\ 0 \in 0 .. MaxEvents
  BY LoopBounds DEF CreateGoalState, Goal, Verdict
<1>2. /\ goal' \in Loop /\ goal'.pc = "done" /\ goal'.result = r
      /\ goal'.state = goal.state /\ goal'.last = goal.last
  BY <1>1 DEF End, Loop, GoalPc
<1> QED BY <1>2 DEF LoopInv

\* A step of the loop keeps its types and its own part of the invariant.
LEMMA LoopStep ==
    ASSUME goal \in Loop, LoopInv, GoalStep
    PROVE  goal' \in Loop /\ LoopInv'
<1>0. /\ goal.state \in Goal /\ goal.before \in Goal /\ goal.n \in 0 .. MaxEvents
      /\ goal.state.attempts \in 0 .. MaxContinuations
      /\ MaxContinuations \in Nat /\ MaxEvents \in Nat
  BY LoopBounds DEF Loop, Goal
<1>00. CreateGoalState \in Goal /\ 0 \in 0 .. MaxEvents
  BY LoopBounds DEF CreateGoalState, Goal, Verdict
<1>1. CASE ContinueGoalLoop
  <2>1. goal.pc = "check"
    BY <1>1 DEF ContinueGoalLoop, GoalAt
  <2>2. CASE /\ goal.state.attempts < MaxContinuations
             /\ goal' = [goal EXCEPT !.pc = "continue", !.before = goal.state]
    BY <1>0, <2>1, <2>2 DEF LoopInv, Loop, GoalPc
  <2>3. CASE /\ TerminalResult(goal.state) # "none"
             /\ End(TerminalResult(goal.state))
    BY <2>3, TerminalTypes, EndForm
  <2>4. CASE End("max_continuations_reached")
    BY <2>4, EndForm DEF Terminal
  <2> QED BY <1>0, <1>1, <2>2, <2>3, <2>4 DEF ContinueGoalLoop
<1>2. CASE RunGoalContinuation
  <2>1. goal.pc = "continue"
    BY <1>2 DEF RunGoalContinuation, GoalAt
  <2>2. CASE goal' = [goal EXCEPT !.pc = "failed"]
    BY <2>1, <2>2 DEF LoopInv, Loop, GoalPc
  <2>3. CASE goal' = [goal EXCEPT !.pc = "events", !.n = 0,
                                  !.state = StateWithContinuationAttempt(@)]
    <3> DEFINE g == StateWithContinuationAttempt(goal.state)
    <3>1. goal.state.attempts + 1 \in 0 .. MaxContinuations
      BY <1>0, <2>1 DEF LoopInv
    <3>2. g \in Goal /\ g.verdict = goal.state.verdict /\ g.outcome = goal.state.outcome
      BY <1>0, <3>1 DEF StateWithContinuationAttempt, Goal
    <3> HIDE DEF g
    <3>3. goal' = [goal EXCEPT !.pc = "events", !.n = 0, !.state = g]
      BY <2>3 DEF g
    <3>4. /\ goal' \in Loop /\ goal'.pc = "events" /\ goal'.state = g
          /\ goal'.last = goal.last /\ goal'.result = goal.result
      BY <1>00, <3>2, <3>3 DEF Loop, GoalPc
    <3> QED BY <2>1, <3>2, <3>4 DEF LoopInv
  <2> QED BY <1>2, <2>2, <2>3 DEF RunGoalContinuation
<1>3. CASE ContinuationEvent
  <2>1. goal.pc = "events" /\ goal.n < MaxEvents
    BY <1>3 DEF ContinuationEvent, GoalAt
  <2>2. PICK e \in Event : goal' = [goal EXCEPT
            !.state = ApplyGoalStateEvent(@, e), !.n = @ + 1,
            !.last = CASE e.type = "output" /\ e.verifier ->
                            IF e.verdict = "PASS" THEN "pass" ELSE "fail"
                       [] e.type = "gate" /\ e.verifier /\ ~e.passed -> "fail"
                       [] OTHER -> @]
    BY <1>3 DEF ContinuationEvent
  <2> DEFINE g == ApplyGoalStateEvent(goal.state, e)
             l == CASE e.type = "output" /\ e.verifier ->
                            IF e.verdict = "PASS" THEN "pass" ELSE "fail"
                    [] e.type = "gate" /\ e.verifier /\ ~e.passed -> "fail"
                    [] OTHER -> goal.last
  <2>3. goal.last \in {"none", "pass", "fail"}
    BY DEF Loop
  <2>4. l \in {"none", "pass", "fail"}
    BY <2>3
  <2>5. /\ g \in Goal
        /\ g.verdict = "PASS" =>
              IF e.type = "output" /\ e.verifier THEN e.verdict = "PASS"
              ELSE goal.state.verdict = "PASS" /\ ~(e.type = "gate" /\ e.verifier /\ ~e.passed)
    BY <1>0, EventTypes
  <2>6. g.verdict = "PASS" => l = "pass"
    BY <2>5 DEF LoopInv
  <2>7. goal.n + 1 \in 0 .. MaxEvents
    BY <1>0, <2>1
  <2>8. goal' = [goal EXCEPT !.state = g, !.n = goal.n + 1, !.last = l]
    BY <2>2
  <2> HIDE DEF g, l
  <2>9. /\ goal' \in Loop /\ goal'.pc = goal.pc /\ goal'.state = g
        /\ goal'.last = l /\ goal'.result = goal.result
    BY <2>4, <2>5, <2>7, <2>8 DEF Loop
  <2> QED BY <2>1, <2>6, <2>9 DEF LoopInv
<1>4. CASE ContinuationEnds
  <2>1. goal.pc = "events"
    BY <1>4 DEF ContinuationEnds, GoalAt
  <2>2. CASE goal' = [goal EXCEPT !.pc = "failed"]
    BY <2>1, <2>2 DEF LoopInv, Loop, GoalPc
  <2>3. ASSUME NEW outcome \in {"FAIL", "CANCELLED", "PASS"},
               goal' = [goal EXCEPT !.pc = "post", !.state.outcome = outcome]
        PROVE  goal' \in Loop /\ LoopInv'
    <3> DEFINE g == [goal.state EXCEPT !.outcome = outcome]
    <3>1. g \in Goal /\ g.verdict = goal.state.verdict
      BY <1>0, <2>3 DEF Goal
    <3>2. goal' = [goal EXCEPT !.pc = "post", !.state = g]
      BY <1>0, <2>3 DEF Loop
    <3> HIDE DEF g
    <3>3. /\ goal' \in Loop /\ goal'.pc = "post" /\ goal'.state = g
          /\ goal'.last = goal.last /\ goal'.result = goal.result
      BY <3>1, <3>2 DEF Loop, GoalPc
    <3> QED BY <2>1, <3>1, <3>3 DEF LoopInv
  <2> QED BY <1>4, <2>2, <2>3 DEF ContinuationEnds
<1>5. CASE PostContinuationResult
  <2>1. goal.pc = "post"
    BY <1>5 DEF PostContinuationResult, GoalAt
  <2>2. CASE goal' = [goal EXCEPT !.pc = "check", !.n = 0, !.before = CreateGoalState]
    BY <1>00, <2>1, <2>2 DEF LoopInv, Loop, GoalPc
  <2>3. CASE /\ TerminalResult(goal.state) # "none"
             /\ End(TerminalResult(goal.state))
    BY <2>3, TerminalTypes, EndForm
  <2>4. CASE End("no_progress_detected")
    BY <2>4, EndForm DEF Terminal
  <2> QED BY <1>5, <2>2, <2>3, <2>4 DEF PostContinuationResult
<1> QED BY <1>1, <1>2, <1>3, <1>4, <1>5 DEF GoalStep

----------------------------------------------------------------------------
(* Types, attempts and the goal hold together *)

Sound == TypeOK /\ AttemptInv /\ GoalInv

\* A step of an attempt.
LEMMA NodeKeeps ==
    ASSUME Sound, NEW n \in Node, NodeStep(n), n \in Driven => GoalAt("events"),
           UNCHANGED goal
    PROVE  Sound'
<1>1. Unsent /\ \E q \in Attempt, c \in Call : AttemptMove(n, q, c)
  BY AttemptForm DEF Sound, TypeOK
<1>2. PICK q \in Attempt, c \in Call : AttemptMove(n, q, c)
  BY <1>1
<1>3. /\ node' = [node EXCEPT ![n] = q] /\ call' = [call EXCEPT ![n] = c]
      /\ prof' = prof /\ node \in [Node -> Attempt] /\ call \in [Node -> Call]
  BY <1>1, <1>2 DEF AttemptMove, Unsent, Sound, TypeOK, NodeTypeOK, SessionTypeOK
<1>4. SessionTypeOK'
  BY <1>1, <1>3 DEF Unsent, Sound, TypeOK, NodeTypeOK, SessionTypeOK
<1>5. \A m \in Node : /\ node'[m].asked <= Len(prof'[m].models)
                      /\ node'[m].repairs <= prof'[m].repairs
                      /\ AttemptFits(prof'[m], node'[m], call'[m])
  <2> TAKE m \in Node
  <2>1. CASE m = n
    BY <1>2, <1>3, <2>1 DEF AttemptMove
  <2>2. CASE m # n
    BY <1>3, <2>2 DEF Sound, TypeOK, NodeTypeOK, AttemptInv
  <2> QED BY <2>1, <2>2
<1>6. TypeOK' /\ AttemptInv'
  BY <1>3, <1>4, <1>5 DEF Sound, TypeOK, NodeTypeOK, AttemptInv
<1>7. RestInv'
  BY <1>3 DEF Sound, GoalInv, RestInv, Driven, GoalAt
<1> QED BY <1>6, <1>7 DEF Sound, GoalInv, LoopInv

\* A step of a call, of the server or of a clock.
LEMMA CallKeeps ==
    ASSUME Sound, NEW n \in Node, SessionStep(n) \/ ServerStep(n) \/ Tick(n),
           UNCHANGED <<node, goal>>
    PROVE  Sound'
<1>1. SessionTypeOK' /\ prof' = prof /\ \A m \in Node : call'[m].pc = "off" <=> call[m].pc = "off"
  BY SessionTypes, CallsKept DEF Sound, TypeOK, NodeTypeOK, Kept
<1>2. TypeOK'
  BY <1>1 DEF Sound, TypeOK, NodeTypeOK
<1>3. AttemptInv'
  BY <1>1 DEF Sound, AttemptInv, AttemptFits
<1> QED BY <1>1, <1>2, <1>3 DEF Sound, GoalInv, LoopInv, RestInv, Driven

\* A step of the lease or of the abort signal.
LEMMA LeaseKeeps ==
    ASSUME Sound, StartExecutor \/ Cancel \/ ReleaseLease, UNCHANGED <<node, goal>>
    PROVE  Sound'
<1>1. UNCHANGED <<prof, call, reg, sess, file, overlap>> /\ SessionTypeOK'
  BY DEF StartExecutor, Cancel, ReleaseLease, Sound, TypeOK, NodeTypeOK, SessionTypeOK
<1> QED BY <1>1 DEF Sound, TypeOK, NodeTypeOK, AttemptInv, GoalInv, LoopInv, RestInv, Driven

\* A step of the goal loop; a driven node starts afresh only when it makes no call.
LEMMA GoalKeeps ==
    ASSUME Sound, GoalStep
    PROVE  Sound'
<1>1. goal' \in Loop /\ LoopInv'
  BY LoopStep DEF Sound, TypeOK, GoalInv
<1>2. UNCHANGED session
  BY DEF GoalStep, ContinueGoalLoop, RunGoalContinuation, ContinuationEvent, ContinuationEnds,
     PostContinuationResult, nodeVars
<1>3. SessionTypeOK' /\ prof' = prof /\ call' = call
  BY <1>2 DEF session, Sound, TypeOK, NodeTypeOK, SessionTypeOK
<1>4. CASE UNCHANGED node /\ RestInv'
  BY <1>1, <1>3, <1>4 DEF Sound, TypeOK, NodeTypeOK, AttemptInv, GoalInv
<1>5. CASE ContinueGoalLoop \/ PostContinuationResult
  <2>1. UNCHANGED node /\ goal.pc \in {"check", "post"}
    BY <1>5 DEF ContinueGoalLoop, PostContinuationResult, nodeVars, GoalAt
  <2> QED BY <1>3, <1>4, <2>1 DEF Sound, GoalInv, RestInv, Driven
<1>6. CASE ContinuationEvent
  <2>1. UNCHANGED node /\ goal.pc = "events" /\ goal'.pc = "events"
    BY <1>6 DEF ContinuationEvent, nodeVars, GoalAt, Sound, TypeOK, Loop
  <2> QED BY <1>4, <2>1 DEF RestInv
<1>7. CASE ContinuationEnds
  <2>1. UNCHANGED node /\ \A n \in Driven : ~Calling(node[n])
    BY <1>7 DEF ContinuationEnds, nodeVars, Settled, Returned, NodeAt, Calling
  <2> QED BY <1>3, <1>4, <2>1 DEF RestInv, Driven
<1>8. CASE RunGoalContinuation
  <2>1. goal.pc = "continue"
    BY <1>8 DEF RunGoalContinuation, GoalAt
  <2>2. CASE goal' = [goal EXCEPT !.pc = "failed"] /\ UNCHANGED nodeVars
    <3>1. goal'.pc = "failed" /\ UNCHANGED node
      BY <2>2 DEF nodeVars, Sound, TypeOK, Loop
    <3> QED BY <1>4, <3>1 DEF RestInv
  <2>3. ASSUME NEW n \in Driven, node' = [node EXCEPT ![n] = Fresh], goal'.pc = "events"
        PROVE  Sound'
    <3>1. n \in Node /\ ~Calling(node[n])
      BY <2>1, <2>3 DEF Driven, Sound, GoalInv, RestInv
    <3>2. AttemptFits(prof[n], node[n], call[n])
      BY <3>1 DEF Sound, AttemptInv
    <3>3. AttemptFits(prof[n], Fresh, call[n])
      BY <3>1, <3>2 DEF AttemptFits, Calling, Fresh
    <3>4. Fresh \in Attempt /\ Fresh.asked = 0 /\ Fresh.repairs = 0
      BY DEF Fresh, Attempt, NodePc, Exits
    <3>5. Len(prof[n].models) \in Nat /\ prof[n].repairs \in Nat
      BY <3>1, ProfileOf DEF Sound, TypeOK, NodeTypeOK, Profile
    <3>6. node \in [Node -> Attempt]
      BY DEF Sound, TypeOK, NodeTypeOK
    <3>7. NodeTypeOK'
      BY <1>3, <2>3, <3>1, <3>4, <3>5, <3>6 DEF Sound, TypeOK, NodeTypeOK
    <3>8. AttemptInv'
      BY <1>3, <2>3, <3>3, <3>6 DEF Sound, AttemptInv
    <3>9. RestInv'
      BY <2>3 DEF RestInv
    <3> QED BY <1>1, <3>7, <3>8, <3>9 DEF Sound, TypeOK, GoalInv
  <2>4. CASE \E n \in Driven :
            /\ goal' = [goal EXCEPT !.pc = "events", !.n = 0,
                                    !.state = StateWithContinuationAttempt(@)]
            /\ node' = [node EXCEPT ![n] = Fresh]
    <3>1. goal'.pc = "events"
      BY <2>4 DEF Sound, TypeOK, Loop
    <3> QED BY <2>3, <2>4, <3>1
  <2> QED BY <1>8, <2>2, <2>4 DEF RunGoalContinuation
<1> QED BY <1>5, <1>6, <1>7, <1>8 DEF GoalStep

\* A run starts with no call, no attempt and no verdict.
LEMMA SoundInit == Init => Sound
<1> SUFFICES ASSUME Init PROVE Sound
  OBVIOUS
<1>1. prof \in Profiles /\ prof \in [Node -> Profile]
  BY ProfilesTyped DEF Init, NodeInit, SessionInit
<1>2. SessionTypeOK
  <2>1. sess \in [Node -> [Key -> Session]]
    BY DEF Init, NodeInit, SessionInit, Session
  <2>2. call \in [Node -> Call]
    BY CallShapes DEF Init, NodeInit, SessionInit
  <2> QED BY <1>1, <2>1, <2>2 DEF Init, NodeInit, SessionInit, SessionTypeOK, Version
<1>3. /\ node = [n \in Node |-> Fresh] /\ call = [n \in Node |-> NoCall]
      /\ NoCall.pc = "off" /\ Fresh \in Attempt /\ Fresh.asked = 0
      /\ Fresh.repairs = 0 /\ Fresh.pc = "idle"
  BY DEF Init, NodeInit, SessionInit, NoCall, Fresh, Attempt, NodePc, Exits
<1>4. NodeTypeOK
  BY <1>1, <1>2, <1>3 DEF NodeTypeOK, Profile
<1>5. AttemptInv
  BY <1>3 DEF AttemptInv, AttemptFits, Calling
<1>6. CreateGoalState \in Goal /\ 0 \in 0 .. MaxEvents
  BY LoopBounds DEF CreateGoalState, Goal, Verdict
<1>7. goal \in Loop /\ goal.result = "none" /\ goal.pc \in {"off", "check"}
      /\ goal.state = CreateGoalState
  BY <1>6 DEF Init, Loop, GoalPc
<1>8. LoopInv
  BY <1>7 DEF LoopInv, CreateGoalState
<1>9. RestInv
  BY <1>3 DEF RestInv, Calling, Driven
<1> QED BY <1>4, <1>5, <1>7, <1>8, <1>9 DEF Sound, TypeOK, GoalInv

\* No step of a run takes a variable out of its type or an attempt out of its order.
LEMMA SoundNext == Sound /\ [Next]_vars => Sound'
<1> SUFFICES ASSUME Sound, [Next]_vars PROVE Sound'
  OBVIOUS
<1>1. CASE UNCHANGED vars
  BY <1>1 DEF vars, nodeVars, session, Sound, TypeOK, NodeTypeOK, SessionTypeOK, AttemptInv,
     GoalInv, LoopInv, RestInv, Driven
<1>2. ASSUME NEW n \in Node, AgentStep(n) PROVE Sound'
  BY <1>2, NodeKeeps, CallKeeps DEF AgentStep
<1>3. ASSUME NEW n \in Node, Clock(n) \/ (ServerStep(n) /\ UNCHANGED <<node, goal>>)
      PROVE  Sound'
  BY <1>3, CallKeeps DEF Clock
<1> QED BY <1>1, <1>2, <1>3, LeaseKeeps, GoalKeeps DEF Next, Release

----------------------------------------------------------------------------
(* Turns: what the server still works on *)

\* Only a prompt that landed and is not aborted is waited for.
LEMMA NotAwaited ==
    ASSUME NEW n \in Node,
           call[n].pc # "prompt" \/ call[n].req # "landed" \/ call[n].aborting
    PROVE  \A k \in Key : Awaited(n, k) = {}
BY DEF Awaited, CallAt

\* A step of one node leaves what the others wait for.
LEMMA OthersAwait ==
    ASSUME SessionTypeOK, TurnsInv, NEW n \in Node, NEW d,
           call' = [call EXCEPT ![n] = d],
           \A m \in Node : m # n => sess'[m] = sess[m] /\ reg'[m] = reg[m],
           TurnsFit(n)'
    PROVE  TurnsInv'
<1>1. ASSUME NEW m \in Node PROVE TurnsFit(m)'
  <2>1. CASE m = n
    BY <2>1
  <2>2. CASE m # n
    <3>1. call'[m] = call[m] /\ sess'[m] = sess[m] /\ reg'[m] = reg[m]
      BY <2>2 DEF SessionTypeOK
    <3> QED BY <3>1 DEF TurnsInv, TurnsFit, Awaited, CallAt
  <2> QED BY <2>1, <2>2
<1> QED BY <1>1 DEF TurnsInv

\* What a call gives up leaves only unclean sessions with turns.
LEMMA GivenUpFits ==
    ASSUME SessionTypeOK, NEW n \in Node, TurnsFit(n), NEW s \in GivenUp(n), NEW k \in Key,
           ~s[n][k].unclean
    PROVE  s[n][k].turns = {}
<1>1. CASE call[n].pc = "prompt"
  <2>1. k # call[n].key
    BY <1>1, GivenUpForm DEF CallAt
  <2>2. s[n][k] = sess[n][k]
    BY <2>1, GivenUpForm
  <2>3. Awaited(n, k) = {}
    BY <2>1 DEF Awaited
  <2> QED BY <2>2, <2>3 DEF TurnsFit
<1>2. CASE call[n].pc # "prompt"
  <2>1. s = sess
    BY <1>2, GivenUpForm DEF CallAt
  <2>2. Awaited(n, k) = {}
    BY <1>2, NotAwaited
  <2> QED BY <2>1, <2>2 DEF TurnsFit
<1> QED BY <1>1, <1>2

\* The turn that is answered, or refused, was the one that was waited for.
LEMMA AnsweredFits ==
    ASSUME SessionTypeOK, NEW n \in Node, TurnsFit(n), NEW k \in Key,
           sess' = [sess EXCEPT ![n][call[n].key].turns = @ \ {call[n].model}],
           ~sess'[n][k].unclean
    PROVE  sess'[n][k].turns = {}
<1> DEFINE key == call[n].key
           t == sess[n][key].turns \ {call[n].model}
<1>1. /\ sess \in [Node -> [Key -> Session]] /\ key \in Key
      /\ t \in SUBSET (Model \cup {NoModel})
  BY DEF SessionTypeOK, Call, Session
<1>2. sess' = [sess EXCEPT ![n][key].turns = t]
  OBVIOUS
<1>3. CASE k = key
  <2> HIDE DEF key, t
  <2>1. sess'[n][k] = [turns |-> t, unclean |-> sess[n][k].unclean]
    <3>1. [sess EXCEPT ![n][key].turns = t][n][key]
              = [turns |-> t, unclean |-> sess[n][key].unclean]
      BY <1>1, SessionUpdates
    <3> QED BY <1>2, <1>3, <3>1
  <2>2. ~sess[n][k].unclean /\ sess'[n][k].turns = t
    BY <2>1
  <2>3. sess[n][k].turns \subseteq {call[n].model}
    BY <2>2 DEF TurnsFit, Awaited
  <2> QED BY <1>3, <2>2, <2>3 DEF t
<1>4. CASE k # key
  <2> HIDE DEF t
  <2>1. sess'[n][k] = sess[n][k]
    BY <1>1, <1>2, <1>4
  <2>2. Awaited(n, k) = {}
    BY <1>4 DEF Awaited
  <2> QED BY <2>1, <2>2 DEF TurnsFit
<1> QED BY <1>3, <1>4
\* A step of a call or of the server ends a turn, starts one that is waited for, or marks
\* the session it gives up.
LEMMA TurnsStep ==
    ASSUME SessionTypeOK, TurnsInv, NEW n \in Node,
           SessionStep(n) \/ ServerStep(n) \/ Tick(n)
    PROVE  TurnsInv'
<1>0. /\ call \in [Node -> Call] /\ call[n] \in Call /\ call[n].key \in Key
      /\ sess \in [Node -> [Key -> Session]] /\ reg \in [Node -> SUBSET Key]
      /\ TurnsFit(n)
  BY DEF SessionTypeOK, Call, TurnsInv
<1>1. ASSUME NEW d, SetCall(n, d),
             \A m \in Node : m # n => sess'[m] = sess[m] /\ reg'[m] = reg[m],
             d.pc \in {"subscribe", "prompt"} => d.key \in reg'[n],
             \A k \in Key : ~sess'[n][k].unclean => sess'[n][k].turns = {}
      PROVE  TurnsInv'
  <2>1. call' = [call EXCEPT ![n] = d] /\ call'[n] = d
    BY <1>0, <1>1 DEF SetCall
  <2>2. TurnsFit(n)'
    BY <1>1, <2>1 DEF TurnsFit
  <2> QED BY <1>1, <2>1, <2>2, OthersAwait
<1>2. (call[n].pc # "prompt" \/ call[n].req # "landed" \/ call[n].aborting) =>
          \A k \in Key : ~sess[n][k].unclean => sess[n][k].turns = {}
  BY <1>0, NotAwaited DEF TurnsFit
<1>3. /\ \A exit, valid : ResultOf(n, exit, valid).pc = "back"
      /\ FailureResult(n).pc = "back" /\ Rejected(n).pc = "threw"
  BY <1>0 DEF FailureResult, ResultOf, Rejected, Call
<1>4. ASSUME NEW s \in GivenUp(n), sess' = s
      PROVE  /\ \A m \in Node : m # n => sess'[m] = sess[m]
             /\ \A k \in Key : ~sess'[n][k].unclean => sess'[n][k].turns = {}
  <2>1. ASSUME NEW m \in Node, m # n PROVE sess'[m] = sess[m]
    <3>1. /\ sess'[m] \in [Key -> Session] /\ sess[m] \in [Key -> Session]
          /\ \A k \in Key : sess'[m][k] = sess[m][k]
      BY <1>0, <1>4, <2>1, GivenUpForm
    <3> QED BY <3>1
  <2> QED BY <1>0, <1>4, <2>1, GivenUpFits
<1>5. ASSUME sess' = [sess EXCEPT ![n][call[n].key].turns = @ \ {call[n].model}]
      PROVE  /\ \A m \in Node : m # n => sess'[m] = sess[m]
             /\ \A k \in Key : ~sess'[n][k].unclean => sess'[n][k].turns = {}
  BY <1>0, <1>5, AnsweredFits
<1>6. CASE ResolveSessionId(n)
  <2>1. call[n].pc = "lease" /\ UNCHANGED <<sess, reg>>
    BY <1>6 DEF ResolveSessionId, CallAt
  <2> DEFINE pc == IF call[n].key \notin reg[n] THEN "create"
                   ELSE IF OnOutput(n) THEN "subscribe" ELSE "prompt"
             c == [call[n] EXCEPT !.pc = pc]
  <2>2. c.pc \in {"subscribe", "prompt"} => c.key \in reg[n]
    BY <1>0 DEF Call
  <2>3. SetCall(n, Rejected(n)) \/ SetCall(n, c)
    BY <1>6 DEF ResolveSessionId
  <2> HIDE DEF c
  <2> QED BY <1>1, <1>2, <1>3, <2>1, <2>2, <2>3
<1>7. CASE RequestLands(n)
  <2> DEFINE c == [call[n] EXCEPT !.req = "landed"]
  <2>1. /\ c.pc = call[n].pc /\ c.key = call[n].key /\ c.model = call[n].model
        /\ c.req = "landed" /\ c.aborting = call[n].aborting
    BY <1>0 DEF Call
  <2>2. SetCall(n, c) /\ call[n].req = "sent" /\ UNCHANGED reg
    BY <1>7 DEF RequestLands
  <2> HIDE DEF c
  <2>3. CASE call[n].pc = "create"
    <3>1. UNCHANGED sess
      BY <1>7, <2>3 DEF RequestLands, CallAt
    <3> QED BY <1>1, <1>2, <2>1, <2>2, <2>3, <3>1
  <2>4. CASE call[n].pc = "prompt"
    <3> DEFINE key == call[n].key
               t == sess[n][key].turns \cup {call[n].model}
               u == sess[n][key].unclean \/ call[n].aborting
    <3>1. sess' = [sess EXCEPT ![n] = [sess[n] EXCEPT ![key] =
              [[sess[n][key] EXCEPT !.turns = t] EXCEPT !.unclean = u]]]
      BY <1>7, <2>4 DEF RequestLands, CallAt
    <3>a. sess[n][key] \in Session
      BY <1>0
    <3> HIDE DEF t, u, key
    <3>2. /\ [[sess[n][key] EXCEPT !.turns = t] EXCEPT !.unclean = u].turns = t
          /\ [[sess[n][key] EXCEPT !.turns = t] EXCEPT !.unclean = u].unclean = u
      BY <3>a DEF Session
    <3>3. /\ \A m \in Node : m # n => sess'[m] = sess[m]
          /\ \A k \in Key : k # key => sess'[n][k] = sess[n][k]
      BY <1>0, <3>1
    <3>4. sess'[n][key].turns = t /\ sess'[n][key].unclean = u
      BY <1>0, <3>1, <3>2 DEF key
    <3>5. call' = [call EXCEPT ![n] = c] /\ call'[n] = c
      BY <1>0, <2>2 DEF SetCall
    <3>6. ASSUME NEW k \in Key, ~sess'[n][k].unclean
          PROVE  sess'[n][k].turns \subseteq Awaited(n, k)'
      <4>1. CASE k # key
        BY <1>2, <2>2, <3>3, <3>6, <4>1
      <4>2. CASE k = key
        <5>1. ~call[n].aborting /\ ~sess[n][key].unclean
          BY <3>4, <3>6, <4>2 DEF u
        <5>2. sess[n][key].turns = {}
          BY <1>2, <2>2, <4>2, <5>1
        <5>3. sess'[n][k].turns = {call[n].model}
          BY <3>4, <4>2, <5>2 DEF t
        <5>4. Awaited(n, k)' = {c.model}
          BY <2>1, <2>4, <3>5, <4>2, <5>1 DEF Awaited, CallAt, key
        <5> QED BY <2>1, <5>3, <5>4
      <4> QED BY <4>1, <4>2
    <3>7. call'[n].pc \in {"subscribe", "prompt"} => call'[n].key \in reg'[n]
      BY <1>0, <2>1, <2>2, <3>5 DEF TurnsFit
    <3>8. TurnsFit(n)'
      BY <3>6, <3>7 DEF TurnsFit
    <3> QED BY <2>2, <3>3, <3>5, <3>8, OthersAwait
  <2> QED BY <1>7, <2>3, <2>4 DEF RequestLands
<1>8. CASE SessionCreated(n)
  <2>1. call[n].pc = "create" /\ UNCHANGED sess
    BY <1>8 DEF SessionCreated, CallAt
  <2> DEFINE pc == IF OnOutput(n) THEN "subscribe" ELSE "prompt"
             c == [call[n] EXCEPT !.req = "sent", !.try = 0, !.pc = pc]
  <2>2. c.key = call[n].key
    BY <1>0 DEF Call
  <2>3. SetCall(n, c)
    BY <1>8 DEF SessionCreated
  <2>4. call[n].key \in reg'[n] /\ \A m \in Node : m # n => reg'[m] = reg[m]
    BY <1>0, <1>8 DEF SessionCreated
  <2> HIDE DEF c
  <2> QED BY <1>1, <1>2, <2>1, <2>2, <2>3, <2>4
<1>9. CASE StreamEventsToOutput(n)
  <2>1. call[n].pc = "subscribe" /\ UNCHANGED <<sess, reg>>
    BY <1>9 DEF StreamEventsToOutput, CallAt
  <2> DEFINE c == [call[n] EXCEPT !.pc = "prompt", !.stream = "on", !.quiet = 0, !.still = 0]
  <2>2. c.key = call[n].key
    BY <1>0 DEF Call
  <2>3. SetCall(n, FailureResult(n)) \/ SetCall(n, c)
    BY <1>9 DEF StreamEventsToOutput
  <2>4. call[n].key \in reg[n]
    BY <1>0, <2>1 DEF TurnsFit
  <2> HIDE DEF c
  <2> QED BY <1>1, <1>2, <1>3, <2>1, <2>2, <2>3, <2>4
<1>10. CASE RetryTransientTransport(n)
  <2> DEFINE c == [call[n] EXCEPT !.try = @ + 1, !.req = "sent"]
  <2>1. c.pc = call[n].pc /\ c.key = call[n].key
    BY <1>0 DEF Call
  <2>2. /\ SetCall(n, c) \/ SetCall(n, FailureResult(n))
        /\ \/ sess' \in GivenUp(n)
           \/ sess' = [sess EXCEPT ![n][call[n].key].turns = @ \ {call[n].model}]
        /\ UNCHANGED reg
    BY <1>10 DEF RetryTransientTransport
  <2>3. call[n].pc \in {"subscribe", "prompt"} => call[n].key \in reg[n]
    BY <1>0 DEF TurnsFit
  <2> HIDE DEF c
  <2> QED BY <1>1, <1>3, <1>4, <1>5, <2>1, <2>2, <2>3
<1>11. CASE SuccessResult(n)
  <2>1. PICK exit, valid : SetCall(n, ResultOf(n, exit, valid))
    BY <1>11 DEF SuccessResult
  <2>2. /\ sess' = [sess EXCEPT ![n][call[n].key].turns = @ \ {call[n].model}]
        /\ UNCHANGED reg
    BY <1>11 DEF SuccessResult
  <2> QED BY <1>1, <1>3, <1>5, <2>1, <2>2
<1>12. CASE AbortedAnswer(n)
  <2>1. /\ SetCall(n, ResultOf(n, "agent", FALSE)) /\ call[n].aborting
        /\ UNCHANGED <<reg, sess>>
    BY <1>12 DEF AbortedAnswer
  <2> QED BY <1>1, <1>2, <1>3, <2>1
<1>13. CASE OnIdleTimeout(n)
  <2> DEFINE c == [call[n] EXCEPT !.aborting = TRUE]
  <2>1. c.pc = call[n].pc /\ c.key = call[n].key
    BY <1>0 DEF Call
  <2>2. SetCall(n, c) /\ call[n].key = "main" /\ UNCHANGED reg
    BY <1>13 DEF OnIdleTimeout, BoundByIdle, OnOutput
  <2>3. call[n].pc \in {"subscribe", "prompt"} => call[n].key \in reg[n]
    BY <1>0 DEF TurnsFit
  <2> HIDE DEF c
  <2>4. CASE "main" \notin reg[n]
    <3>1. call[n].pc # "prompt" /\ sess' = sess
      BY <1>13, <2>2, <2>3, <2>4 DEF OnIdleTimeout
    <3> QED BY <1>1, <1>2, <2>1, <2>2, <2>3, <3>1
  <2>5. CASE "main" \in reg[n]
    <3>1. \/ sess' = [sess EXCEPT ![n]["main"].turns = {}]
          \/ sess' = [sess EXCEPT ![n]["main"].unclean = TRUE]
      BY <1>13, <2>5 DEF OnIdleTimeout
    <3>2. {} \in SUBSET (Model \cup {NoModel}) /\ TRUE \in BOOLEAN /\ "main" \in Key
      BY DEF Key
    <3>3. sess'[n]["main"].unclean \/ sess'[n]["main"].turns = {}
      <4>1. \/ sess'[n]["main"] = [sess[n]["main"] EXCEPT !.turns = {}]
            \/ sess'[n]["main"] = [sess[n]["main"] EXCEPT !.unclean = TRUE]
        BY <1>0, <3>1, <3>2
      <4>2. sess[n]["main"] \in Session
        BY <1>0, <3>2
      <4>3. /\ [sess[n]["main"] EXCEPT !.turns = {}].turns = {}
            /\ [sess[n]["main"] EXCEPT !.unclean = TRUE].unclean
        BY <4>2 DEF Session
      <4> QED BY <4>1, <4>3
    <3>4. /\ \A m \in Node : m # n => sess'[m] = sess[m]
          /\ \A k \in Key : k # "main" => sess'[n][k] = sess[n][k]
      BY <1>0, <3>1, <3>2
    <3>5. \A k \in Key : k # "main" => Awaited(n, k) = {}
      BY <2>2 DEF Awaited
    <3>6. \A k \in Key : ~sess'[n][k].unclean => sess'[n][k].turns = {}
      BY <1>0, <3>3, <3>4, <3>5 DEF TurnsFit
    <3> QED BY <1>1, <2>1, <2>2, <2>3, <3>4, <3>6
  <2> QED BY <2>4, <2>5
<1>14. CASE IdleGivesUp(n) \/ AgentTimeout(n) \/ CallInterrupted(n)
  <2>1. /\ SetCall(n, FailureResult(n)) \/ SetCall(n, Rejected(n))
        /\ sess' \in GivenUp(n) \/ (sess' = sess /\ call[n].aborting)
        /\ UNCHANGED reg
    BY <1>14 DEF IdleGivesUp, AgentTimeout, CallInterrupted
  <2> QED BY <1>1, <1>2, <1>3, <1>4, <2>1
<1>15. CASE CreateProtectedPathGuard(n) \/ FinalizeLaunchResult(n)
  <2>1. call[n].pc \in {"lease", "process"} /\ UNCHANGED <<reg, sess>>
    BY <1>15 DEF CreateProtectedPathGuard, FinalizeLaunchResult, CallAt
  <2>2. PICK d : SetCall(n, d) /\ d.pc \in {"process", "back"}
    <3>1. [call[n] EXCEPT !.pc = "process", !.snap = file].pc = "process"
      BY <1>0 DEF Call
    <3> QED BY <1>3, <1>15, <3>1 DEF CreateProtectedPathGuard, FinalizeLaunchResult
  <2> QED BY <1>1, <1>2, <2>1, <2>2
<1>16. CASE EnsureExecutor(n) \/ AgentWrites(n)
  <2>1. UNCHANGED <<call, reg, sess>>
    BY <1>16 DEF EnsureExecutor, AgentWrites
  <2> QED BY <2>1 DEF TurnsInv, TurnsFit, Awaited, CallAt
<1>17. ASSUME NEW k \in Key, StrayTurnEnds(n, k) PROVE TurnsInv'
  <2>1. PICK x \in sess[n][k].turns : sess' = [sess EXCEPT ![n][k].turns = @ \ {x}]
    BY <1>17 DEF StrayTurnEnds
  <2>2. UNCHANGED <<call, reg>>
    BY <1>17 DEF StrayTurnEnds
  <2> DEFINE t == sess[n][k].turns \ {x}
  <2>3. t \in SUBSET (Model \cup {NoModel})
    BY <1>0 DEF Session
  <2>4. sess' = [sess EXCEPT ![n][k].turns = t]
    BY <2>1
  <2> HIDE DEF t
  <2>5. sess'[n][k] = [turns |-> t, unclean |-> sess[n][k].unclean]
    BY <2>3, <2>4, SessionUpdates
  <2>6. sess'[n][k].turns = t /\ sess'[n][k].unclean = sess[n][k].unclean
    BY <2>5
  <2>7. \A m \in Node, j \in Key : m # n \/ j # k => sess'[m][j] = sess[m][j]
    BY <1>0, <2>4
  <2>8. \A m \in Node, j \in Key : /\ sess'[m][j].turns \subseteq sess[m][j].turns
                                   /\ sess'[m][j].unclean = sess[m][j].unclean
    BY <2>6, <2>7 DEF t
  <2> QED BY <2>2, <2>8 DEF TurnsInv, TurnsFit, Awaited, CallAt
<1>18. ASSUME UNCHANGED <<sess, reg>>,
              \A m \in Node : /\ call'[m].pc = call[m].pc /\ call'[m].key = call[m].key
                              /\ call'[m].req = call[m].req /\ call'[m].model = call[m].model
                              /\ call'[m].aborting = call[m].aborting
       PROVE  TurnsInv'
  BY <1>18 DEF TurnsInv, TurnsFit, Awaited, CallAt
<1>19. CASE Tick(n)
  <2>1. PICK w, q, t : SetCall(n, [call[n] EXCEPT !.wall = w, !.quiet = q, !.still = t])
    BY <1>19, Zenon DEF Tick
  <2> DEFINE d == [call[n] EXCEPT !.wall = w, !.quiet = q, !.still = t]
  <2>2. /\ d.pc = call[n].pc /\ d.key = call[n].key /\ d.req = call[n].req
        /\ d.model = call[n].model /\ d.aborting = call[n].aborting
    BY <1>0 DEF Call
  <2>3. call' = [call EXCEPT ![n] = d] /\ UNCHANGED <<reg, sess>>
    BY <1>19, <2>1 DEF SetCall, Tick
  <2> HIDE DEF d
  <2> QED BY <1>0, <1>18, <2>2, <2>3
<1>20. CASE ReportStreamDrop(n)
  <2> DEFINE d == [call[n] EXCEPT !.stream = "dropped"]
  <2>2. /\ d.pc = call[n].pc /\ d.key = call[n].key /\ d.req = call[n].req
        /\ d.model = call[n].model /\ d.aborting = call[n].aborting
    BY <1>0 DEF Call
  <2>3. call' = [call EXCEPT ![n] = d] /\ UNCHANGED <<reg, sess>>
    BY <1>20 DEF SetCall, ReportStreamDrop
  <2> HIDE DEF d
  <2> QED BY <1>0, <1>18, <2>2, <2>3
<1>21. ASSUME NEW kind, PumpEvents(n, kind) PROVE TurnsInv'
  <2>1. ASSUME NEW m \in Node
        PROVE  /\ call'[m].pc = call[m].pc /\ call'[m].key = call[m].key
               /\ call'[m].req = call[m].req /\ call'[m].model = call[m].model
               /\ call'[m].aborting = call[m].aborting
    <3>1. call[m] \in Call
      BY <1>0
    <3> DEFINE q == IF call[m].stream = "on" THEN 0 ELSE call[m].quiet
               t == IF m = n THEN 0 ELSE call[m].still
    <3>2. call'[m] = [call[m] EXCEPT !.quiet = q, !.still = t]
      BY <1>21 DEF PumpEvents
    <3> HIDE DEF q, t
    <3> QED BY <3>1, <3>2 DEF Call
  <2> QED BY <1>18, <1>21, <2>1 DEF PumpEvents
<1> QED BY <1>6, <1>7, <1>8, <1>9, <1>10, <1>11, <1>12, <1>13, <1>14, <1>15, <1>16, <1>17,
           <1>19, <1>20, <1>21 DEF SessionStep, ServerStep
----------------------------------------------------------------------------
(* The protected files and the clocks *)

\* A process starts on the good file when it is alone, and puts back what it took.
LEMMA FilesStep ==
    ASSUME SessionTypeOK, FilesInv, NEW n \in Node,
           SessionStep(n) \/ ServerStep(n) \/ Tick(n)
    PROVE  FilesInv'
<1>0. call \in [Node -> Call] /\ file \in Version /\ overlap \in BOOLEAN
  BY DEF SessionTypeOK
<1>1. ASSUME NEW m \in Node, CreateProtectedPathGuard(m) PROVE FilesInv'
  <2> DEFINE c == [call[m] EXCEPT !.pc = "process", !.snap = file]
  <2>1. c.pc = "process" /\ c.snap = file
    BY <1>0 DEF Call
  <2>2. /\ call' = [call EXCEPT ![m] = c] /\ call[m].pc = "lease" /\ file' = file
        /\ overlap' = (overlap \/ \E i \in Node \ {m} : CallAt(i, "process"))
    BY <1>1 DEF CreateProtectedPathGuard, SetCall, CallAt
  <2> HIDE DEF c
  <2>3. call'[m] = c /\ \A i \in Node : i # m => call'[i] = call[i]
    BY <1>0, <2>2
  <2> SUFFICES ASSUME ~overlap' PROVE FilesInv'
    BY DEF FilesInv
  <2>4. ~overlap /\ \A i \in Node : call[i].pc # "process"
    BY <2>2 DEF CallAt
  <2>5. file = "written"
    BY <2>4 DEF FilesInv, CallAt
  <2> QED BY <2>1, <2>2, <2>3, <2>4, <2>5 DEF FilesInv, CallAt
<1>2. ASSUME NEW m \in Node, FinalizeLaunchResult(m) PROVE FilesInv'
  <2>1. PICK exit, valid : SetCall(m, ResultOf(m, exit, valid))
    BY <1>2 DEF FinalizeLaunchResult
  <2>2. ResultOf(m, exit, valid).pc = "back"
    BY <1>0 DEF ResultOf, Call
  <2>3. call[m].pc = "process" /\ file' = call[m].snap /\ UNCHANGED overlap
    BY <1>2 DEF FinalizeLaunchResult, CallAt
  <2>4. call'[m].pc = "back" /\ \A i \in Node : i # m => call'[i] = call[i]
    BY <1>0, <2>1, <2>2 DEF SetCall
  <2> SUFFICES ASSUME ~overlap' PROVE FilesInv'
    BY DEF FilesInv
  <2>5. call[m].snap = "written"
    BY <2>3 DEF FilesInv, CallAt
  <2>6. \A i \in Node : i # m => call[i].pc # "process"
    BY <2>3 DEF FilesInv, CallAt
  <2>7. \A i \in Node : call'[i].pc # "process"
    BY <2>4, <2>6
  <2> QED BY <2>3, <2>5, <2>7 DEF FilesInv, CallAt
<1>3. CASE AgentWrites(n)
  <2>1. call[n].pc = "process" /\ UNCHANGED <<call, overlap>>
    BY <1>3 DEF AgentWrites, CallAt
  <2> QED BY <2>1 DEF FilesInv, CallAt
<1>4. CASE /\ UNCHANGED <<file, overlap>>
           /\ \A m \in Node : ~CreateProtectedPathGuard(m) /\ ~FinalizeLaunchResult(m)
  <2>1. \A m \in Node : /\ call'[m].pc = "process" <=> call[m].pc = "process"
                        /\ call'[m].pc = "process" => call'[m].snap = call[m].snap
    BY <1>4, CallsKept DEF Kept
  <2> QED BY <1>4, <2>1 DEF FilesInv, CallAt
<1>5. CASE ~AgentWrites(n) /\ ~CreateProtectedPathGuard(n) /\ ~FinalizeLaunchResult(n)
  <2>1. UNCHANGED <<file, overlap>>
    BY <1>5 DEF SessionStep, ServerStep, KeepServer, EnsureExecutor, ResolveSessionId,
       SessionCreated, StreamEventsToOutput, OnIdleTimeout, IdleGivesUp, AgentTimeout,
       CallInterrupted, RequestLands, RetryTransientTransport, SuccessResult, AbortedAnswer,
       ReportStreamDrop, StrayTurnEnds, PumpEvents, Tick
  <2> QED BY <1>1, <1>2, <1>4, <2>1
<1> QED BY <1>1, <1>2, <1>3, <1>5

\* What resets the silence resets the idle clock, and both advance together.
LEMMA ClocksStep ==
    ASSUME SessionTypeOK, ClocksInv, NEW n \in Node,
           SessionStep(n) \/ ServerStep(n) \/ Tick(n)
    PROVE  ClocksInv'
BY CallsKept DEF Kept, ClocksInv

\* The watchdog that fires has seen the silence, or lost the stream.
LEMMA AbortAfterSilence ==
    ASSUME SessionTypeOK, ClocksInv, NEW n \in Node, OnIdleTimeout(n)
    PROVE  call[n].still >= prof[n].idle \/ call[n].stream # "on"
<1>1. call[n].quiet >= prof[n].idle
  BY DEF OnIdleTimeout
<1>2. /\ call[n].quiet \in Nat /\ call[n].still \in Nat /\ prof[n].idle \in Nat
  BY ProfileOf DEF SessionTypeOK, Call, Profile
<1> QED BY <1>1, <1>2 DEF ClocksInv

----------------------------------------------------------------------------
(* The whole of a run *)

Whole == Sound /\ TurnsInv /\ ClocksInv /\ FilesInv

\* An attempt only touches a call that is not in a session and not a process.
LEMMA AttemptWhole ==
    ASSUME Whole, NEW n \in Node, NodeStep(n)
    PROVE  /\ TurnsInv' /\ ClocksInv' /\ FilesInv'
           /\ \A m \in Node : call'[m].aborting => call[m].aborting
<1>1. Unsent /\ \E q \in Attempt, c \in Call : AttemptMove(n, q, c)
  BY AttemptForm DEF Whole, Sound, TypeOK
<1>2. PICK q \in Attempt, c \in Call : AttemptMove(n, q, c)
  BY <1>1
<1>3. SessionTypeOK /\ call \in [Node -> Call]
  BY DEF Whole, Sound, TypeOK, NodeTypeOK, SessionTypeOK
<1>4. /\ call' = [call EXCEPT ![n] = c] /\ UNCHANGED <<reg, sess, file, overlap>>
      /\ call[n].pc \in {"off", "back", "threw"} /\ c.pc \in {"off", "lease"}
      /\ c = call[n] \/ (c.stream = "none" /\ ~c.aborting)
  BY <1>1, <1>2 DEF AttemptMove, Unsent
<1>5. call'[n] = c /\ \A m \in Node : m # n => call'[m] = call[m]
  BY <1>3, <1>4
<1>6. TurnsInv'
  <2>1. \A k \in Key : ~sess[n][k].unclean => sess[n][k].turns = {}
    BY <1>4, NotAwaited DEF Whole, TurnsInv, TurnsFit
  <2>2. TurnsFit(n)'
    BY <1>4, <1>5, <2>1 DEF TurnsFit
  <2> QED BY <1>3, <1>4, <2>2, OthersAwait DEF Whole
<1>7. ClocksInv'
  BY <1>4, <1>5 DEF Whole, ClocksInv
<1>8. FilesInv'
  <2>1. \A m \in Node : /\ call'[m].pc = "process" <=> call[m].pc = "process"
                        /\ call'[m].pc = "process" => call'[m].snap = call[m].snap
    BY <1>4, <1>5
  <2> QED BY <1>4, <2>1 DEF Whole, FilesInv, CallAt
<1> QED BY <1>4, <1>5, <1>6, <1>7, <1>8

\* Steps that leave the calls, the sessions and the files alone.
LEMMA StillWhole ==
    ASSUME TurnsInv, ClocksInv, FilesInv, UNCHANGED <<call, reg, sess, file, overlap>>
    PROVE  TurnsInv' /\ ClocksInv' /\ FilesInv'
BY DEF TurnsInv, TurnsFit, Awaited, ClocksInv, FilesInv, CallAt

\* A run starts without turns, clocks or processes.
LEMMA WholeInit == Init => Whole
<1> SUFFICES ASSUME Init PROVE Whole
  OBVIOUS
<1>1. /\ call = [n \in Node |-> NoCall] /\ NoCall.pc = "off" /\ NoCall.stream = "none"
      /\ sess = [n \in Node |-> [k \in Key |-> [turns |-> {}, unclean |-> FALSE]]]
      /\ file = "written"
  BY DEF Init, NodeInit, SessionInit, NoCall
<1>2. TurnsInv
  BY <1>1 DEF TurnsInv, TurnsFit
<1>3. ClocksInv /\ FilesInv
  BY <1>1 DEF ClocksInv, FilesInv, CallAt
<1> QED BY <1>2, <1>3, SoundInit DEF Whole

\* Every step keeps the invariants, and every abort was waited for.
LEMMA WholeStep ==
    ASSUME Whole, [Next]_vars
    PROVE  /\ TurnsInv' /\ ClocksInv' /\ FilesInv'
           /\ \A n \in Node : ~call[n].aborting /\ call'[n].aborting =>
                 call[n].still >= prof[n].idle \/ call[n].stream # "on"
<1>0. SessionTypeOK
  BY DEF Whole, Sound, TypeOK, NodeTypeOK
<1>1. ASSUME NEW n \in Node, SessionStep(n) \/ ServerStep(n) \/ Tick(n)
      PROVE  /\ TurnsInv' /\ ClocksInv' /\ FilesInv'
             /\ \A m \in Node : ~call[m].aborting /\ call'[m].aborting =>
                   call[m].still >= prof[m].idle \/ call[m].stream # "on"
  <2>1. \A m \in Node : call'[m].aborting => call[m].aborting \/ OnIdleTimeout(m)
    BY <1>0, <1>1, CallsKept DEF Kept
  <2> QED BY <1>0, <1>1, <2>1, TurnsStep, ClocksStep, FilesStep, AbortAfterSilence DEF Whole
<1>2. CASE UNCHANGED <<call, reg, sess, file, overlap>>
  BY <1>2, StillWhole DEF Whole
<1>3. CASE UNCHANGED vars
  BY <1>2, <1>3 DEF vars, nodeVars, session
<1>4. ASSUME NEW n \in Node, AgentStep(n)
      PROVE  /\ TurnsInv' /\ ClocksInv' /\ FilesInv'
             /\ \A m \in Node : ~call[m].aborting /\ call'[m].aborting =>
                   call[m].still >= prof[m].idle \/ call[m].stream # "on"
  BY <1>1, <1>4, AttemptWhole DEF AgentStep
<1>5. CASE StartExecutor \/ Cancel \/ Release
  BY <1>2, <1>5 DEF StartExecutor, Cancel, Release, ReleaseLease
<1>6. CASE GoalStep
  <2>1. UNCHANGED session
    BY <1>6 DEF GoalStep, ContinueGoalLoop, RunGoalContinuation, ContinuationEvent,
       ContinuationEnds, PostContinuationResult, nodeVars
  <2> QED BY <1>2, <2>1 DEF session
<1> QED BY <1>1, <1>3, <1>4, <1>5, <1>6 DEF Next, Clock

\* The inductive invariant of a run of agents.
LEMMA WholeNext == Whole /\ [Next]_vars => Whole'
BY SoundNext, WholeStep DEF Whole

\* It holds throughout.
LEMMA WholeAlways == Spec => []Whole
BY WholeInit, WholeNext, PTL DEF Spec

----------------------------------------------------------------------------

\* The values of a run of agents keep their types: the profile a call is made with, the
\* calls, sessions and attempts of the nodes and the goal (the types of
\* opencode-session-executor, agent-node and goal-state).
THEOREM AgentRunTyped == Spec => []TypeOK
<1>1. Whole => TypeOK
  BY DEF Whole, Sound
<1> QED BY <1>1, WholeAlways, PTL

\* A session of the server holds turns of a call that is over only if a call of it was
\* given up without an abort that worked (onIdleTimeout, boundByAgentTimeout).
THEOREM OnlyUncleanSessionsRunOn == Spec => []TurnsAreEnded
<1>1. Whole => TurnsAreEnded
  <2> SUFFICES ASSUME Whole, NEW n \in Node, NEW k \in Key, call[n].pc # "prompt",
                      ~sess[n][k].unclean
               PROVE  sess[n][k].turns = {}
    BY DEF TurnsAreEnded
  <2>1. Awaited(n, k) = {}
    BY NotAwaited
  <2> QED BY <2>1 DEF Whole, TurnsInv, TurnsFit
<1> QED BY <1>1, WholeAlways, PTL

\* The idle watchdog aborts a call only after its silence, or when its stream is gone
\* (pumpEvents, idleWatchdog).
THEOREM WatchdogWaitsForSilence == Spec => IdleMeansSilence
<1>1. Whole /\ [Next]_vars =>
        [\A n \in Node : ~call[n].aborting /\ call'[n].aborting =>
            call[n].still >= prof[n].idle \/ call[n].stream # "on"]_session
  BY WholeStep
<1> QED BY <1>1, WholeAlways, PTL DEF Spec, IdleMeansSilence

\* What a node returns as good fits its schema or has spent its repairs, has the handoff
\* the run asks for, and left the protected files as they were unless two guarded
\* processes shared the worktree (finalizeAgentOutput, maybeDeriveHandoff,
\* verifyAndRestore).
THEOREM AttemptsReturnSoundResults == Spec => []ReturnedResultIsSound
<1>1. Whole => ReturnedResultIsSound
  <2> SUFFICES ASSUME Whole, NEW n \in Node, NodeAt(n, "returned")
               PROVE  /\ node[n].exit = "ok" /\ prof[n].schema /\ ~node[n].valid =>
                            node[n].repairs = prof[n].repairs
                      /\ prof[n].handoff => node[n].handoff # "none"
                      /\ ~overlap /\ (\A m \in Node : ~CallAt(m, "process")) =>
                            file = "written"
    BY DEF ReturnedResultIsSound
  <2>1. AttemptFits(prof[n], node[n], call[n])
    BY DEF Whole, Sound, AttemptInv
  <2>2. FilesInv
    BY DEF Whole
  <2> QED BY <2>1, <2>2 DEF AttemptFits, FilesInv, NodeAt
<1> QED BY <1>1, WholeAlways, PTL

\* A goal passes only on a verdict of the verifier that no later gate of the verifier took
\* back (recordGateAttempt, goalStateCompletionEvidence).
THEOREM PassedGoalHasAStandingVerdict == Spec => []GoalPassedOnStandingVerdict
<1>1. Whole => GoalPassedOnStandingVerdict
  BY DEF Whole, Sound, GoalInv, LoopInv, GoalPassedOnStandingVerdict
<1> QED BY <1>1, WholeAlways, PTL
=============================================================================
