-------------------------- MODULE Providers_proofs --------------------------
(***************************************************************************)
(* Theorems about the four providers together: what each keeps of its own  *)
(* turn (Harness_proofs, ApiLoop_proofs), carried over to behaviours of    *)
(* whichever provider a turn is given.                                     *)
(***************************************************************************)
EXTENDS MCProviders, Harness_proofs, ApiLoop_proofs

-----------------------------------------------------------------------------
(* The invariant: the provider's own, and rest in the state of the others.   *)

ApiName == {"anthropic", "openai"}
CodexResting == CodexIdle /\ resuming = FALSE /\ cwd = TRUE

ProvidersInv ==
  /\ ApiInv
  /\ provider \in {"claude", "codex"} \cup ApiName
  /\ IF provider = "claude" THEN ClaudeInv ELSE ClaudeIdle
  /\ IF provider = "codex" THEN CodexInv /\ DeathState ELSE CodexResting
  /\ provider \in ApiName => SeamInit(provider)

LEMMA ProvidersInitInv == Init => ProvidersInv
<1> SUFFICES ASSUME Init PROVE ProvidersInv
  OBVIOUS
<1>1. PICK name \in {"claude", "codex", "anthropic", "openai"} : SeamInit(name)
  BY DEF Init
<1>2. provider = name /\ ClaudeIdle /\ CodexIdle /\ ApiIdle
      /\ resuming \in (IF provider = "codex" THEN BOOLEAN ELSE {FALSE})
      /\ cwd \in (IF provider = "codex" THEN BOOLEAN ELSE {TRUE})
  BY <1>1 DEF Init, SeamInit
<1>3. ApiInv
  BY <1>2, ApiIdleInv
<1>4. provider = "claude" => ClaudeInv
  BY <1>1, <1>2, ClaudeInitInv DEF ClaudeInit
<1>5. provider = "codex" => CodexInv /\ DeathState
  BY <1>1, <1>2, CodexInitInv, DeathInit DEF CodexInit
<1>6. provider # "codex" => CodexResting
  BY <1>2 DEF CodexResting
<1> QED BY <1>1, <1>2, <1>3, <1>4, <1>5, <1>6 DEF ProvidersInv, ApiName

-----------------------------------------------------------------------------
(* Steps: a provider steps in its own turn, and leaves the others alone.     *)

LEMMA ClaudeActs == ClaudeNext => provider = "claude" /\ provider' = provider
  BY DEF ClaudeNext, ClaudeStep, HarnessWrites, Writes, HarnessExits, Exits,
         HarnessOutputCloses, OutputCloses, HarnessPipesClose, PipesClose, ClaudeDeadlinePasses,
         DeadlinePasses, ProbeFails, InvocationRefused, HarnessMissing, RefusedBeforeSpawn, Spawn, ReadLine, ReadFails, EndOfFile, LeaveLoop,
         TimeOut, Reap, WaitFails, AtStage, seam_vars

LEMMA CodexActs == CodexNext => provider = "codex" /\ provider' = provider
  BY DEF CodexNext, CodexStep, ServerWrites, Writes, ServerExits, Exits,
         ServerOutputCloses, OutputCloses, ServerPipesClose, PipesClose, CodexDeadlinePasses, DeadlinePasses, VersionRefused, RequestRefused,
         SpawnFails, Refuses, SpawnServer, SendRequest, CwdFails, SendBreaks, AwaitedReply, SetAside,
         RefuseAsk, HandleNotice, HandleCompleted, ReadsTorn, Eof, GraceEnds, Finish, DropTurn,
         DriverAt, seam_vars

LEMMA ApiActs == ApiNext => provider \in ApiName /\ UNCHANGED seam_vars
<1>1. ASSUME NEW t \in Turn, ApiStep(t) PROVE provider \in ApiName /\ UNCHANGED seam_vars
  BY <1>1 DEF ApiStep, PrepareFails, TakeUp, HttpTransient, HttpRefused, HttpAccepted,
     BlockStarts, BlockStops, Stops, ResponseFrame, StreamInterrupted, StreamEnds,
     BridgeAnswers, BridgeFails, NextIteration, Streams, In, Becomes, ApiName
<1>2. ASSUME NEW t \in Turn, NEW directive, NEW bridge, Begin(t, directive, bridge)
      PROVE  provider \in ApiName /\ UNCHANGED seam_vars
  BY <1>2 DEF Begin, In, Becomes, ApiName
<1>3. ASSUME ApiRestart PROVE provider \in ApiName /\ UNCHANGED seam_vars
  BY <1>3 DEF ApiRestart, ApiName
<1> QED BY <1>1, <1>2, <1>3 DEF ApiNext

LEMMA ApiRests ==
  ASSUME ApiInv, UNCHANGED <<provider, api_vars>>
  PROVE  ApiInv'
  BY DEF ApiInv, Stored, Known, Grounded, OkTurns, Anthropic, api_vars

LEMMA ProvidersStepInv == ProvidersInv /\ [Next]_vars => ProvidersInv'
<1> SUFFICES ASSUME ProvidersInv, [Next]_vars PROVE ProvidersInv'
  OBVIOUS
<1>1. CASE Claude
  <2>1. /\ ClaudeNext /\ provider = "claude" /\ provider' = provider
        /\ UNCHANGED <<codex_vars, api_vars>>
    BY <1>1, ClaudeActs DEF Claude
  <2>2. ClaudeInv'
    BY <2>1, ClaudeStepInv DEF ProvidersInv
  <2>3. ApiInv'
    BY <2>1, ApiRests DEF ProvidersInv
  <2>4. CodexResting'
    BY <2>1 DEF ProvidersInv, CodexResting, CodexIdle, codex_vars
  <2> QED BY <2>1, <2>2, <2>3, <2>4 DEF ProvidersInv, ApiName
<1>2. CASE Codex
  <2>1. /\ CodexNext /\ provider = "codex" /\ provider' = provider
        /\ UNCHANGED <<claude_vars, api_vars>>
    BY <1>2, CodexActs DEF Codex
  <2>2. CodexInv' /\ DeathState'
    BY <2>1, CodexStepInv, DeathStep DEF ProvidersInv
  <2>3. ApiInv'
    BY <2>1, ApiRests DEF ProvidersInv
  <2>4. ClaudeIdle'
    BY <2>1 DEF ProvidersInv, ClaudeIdle, claude_vars
  <2> QED BY <2>1, <2>2, <2>3, <2>4 DEF ProvidersInv, ApiName
<1>3. CASE Api
  <2>1. /\ ApiNext /\ provider \in ApiName
        /\ UNCHANGED <<seam_vars, claude_vars, codex_vars>>
    BY <1>3, ApiActs DEF Api
  <2>2. ApiInv'
    BY <2>1, ApiStepInv DEF ProvidersInv
  <2>3. provider' = provider /\ provider \notin {"claude", "codex"}
    BY <2>1 DEF ApiName, seam_vars
  <2>4. ClaudeIdle' /\ CodexResting'
    BY <2>1, <2>3 DEF ProvidersInv, ClaudeIdle, CodexResting, CodexIdle, claude_vars, codex_vars
  <2>5. SeamInit(provider) /\ provider' \in ApiName
    BY <2>1, <2>3 DEF ProvidersInv
  <2>6. SeamInit(provider)'
    BY <2>1, <2>3, <2>5 DEF SeamInit, seam_vars
  <2> QED BY <2>2, <2>3, <2>4, <2>5, <2>6 DEF ProvidersInv
<1>4. CASE UNCHANGED vars
  <2>1. UNCHANGED <<seam_vars, claude_vars, codex_vars, api_vars>> /\ provider' = provider
    BY <1>4 DEF vars, seam_vars
  <2>2. ApiInv'
    BY <2>1, ApiRests DEF ProvidersInv
  <2>3. (IF provider = "claude" THEN ClaudeInv ELSE ClaudeIdle)'
    <3>1. CASE provider = "claude"
      BY <2>1, <3>1, ClaudeStepInv DEF ProvidersInv
    <3>2. CASE provider # "claude"
      BY <2>1, <3>2 DEF ProvidersInv, ClaudeIdle, claude_vars
    <3> QED BY <3>1, <3>2
  <2>4. (IF provider = "codex" THEN CodexInv /\ DeathState ELSE CodexResting)'
    <3>1. CASE provider = "codex"
      BY <2>1, <3>1, CodexStepInv, DeathStep DEF ProvidersInv
    <3>2. CASE provider # "codex"
      BY <2>1, <3>2 DEF ProvidersInv, CodexResting, CodexIdle, codex_vars
    <3> QED BY <3>1, <3>2
  <2>5. (provider \in ApiName => SeamInit(provider))'
    BY <2>1 DEF ProvidersInv, SeamInit, seam_vars
  <2>6. (provider \in {"claude", "codex"} \cup ApiName)'
    BY <2>1 DEF ProvidersInv
  <2> QED BY <2>2, <2>3, <2>4, <2>5, <2>6 DEF ProvidersInv
<1> QED BY <1>1, <1>2, <1>3, <1>4 DEF Next

LEMMA ProvidersInvariant == Spec => []ProvidersInv
  BY ProvidersInitInv, ProvidersStepInv, PTL DEF Spec

-----------------------------------------------------------------------------
(* Theorems. *)

(* Type correctness of the seam and of all providers' state, whichever       *)
(* provider the turn is given (provider.rs, the providers' driver state).    *)
THEOREM ProvidersTypesCorrect == Spec => []TypeOK
<1>1. ProvidersInv => TypeOK
  <2> SUFFICES ASSUME ProvidersInv PROVE TypeOK
    OBVIOUS
  <2>1. ApiTypes
    BY ApiTyped DEF ProvidersInv
  <2>2. provider \in ApiName => SeamTypes
    <3>1. NoOutcome \in Outcome
      BY MaxLinesIsNatural DEF NoOutcome, Outcome
    <3>2. Len(<<>>) = 0
      OBVIOUS
    <3>3. ASSUME SeamInit(provider) PROVE SeamTypes
      <4>1. outcome \in Outcome /\ Len(script) = 0 /\ late \in BOOLEAN /\ eof \in BOOLEAN
        BY <3>1, <3>2, <3>3 DEF SeamInit
      <4> QED BY <3>3, <4>1, MaxLinesIsNatural DEF SeamInit, SeamTypes
    <3> QED BY <3>3 DEF ProvidersInv
  <2>3. SeamTypes
    BY <2>2 DEF ProvidersInv, ClaudeInv, ClaudeTyped, CodexInv, CodexTyped
  <2>4. ClaudeTypes
    <3>1. CASE provider = "claude"
      BY <3>1 DEF ProvidersInv, ClaudeInv, ClaudeTyped
    <3>2. CASE provider # "claude"
      <4>1. ClaudeIdle /\ 0 \in 0..Len(script)
        BY <2>3, <3>2 DEF ProvidersInv, SeamTypes
      <4> QED BY <4>1 DEF ClaudeIdle, ClaudeTypes
    <3> QED BY <3>1, <3>2
  <2>5. CodexTypes
    <3>1. CASE provider = "codex"
      BY <3>1, CodexTypesHold DEF ProvidersInv
    <3>2. CASE provider # "codex"
      <4>1. CodexResting /\ 0 \in 0..Len(script)
        BY <2>3, <3>2 DEF ProvidersInv, SeamTypes
      <4>2. NoOutcome \in Outcome /\ <<>> \in Seq(1..Len(script))
        BY MaxLinesIsNatural DEF NoOutcome, Outcome
      <4>3. queue \in Seq(1..Len(script)) /\ verdict \in Outcome /\ resuming \in BOOLEAN
        BY <4>1, <4>2 DEF CodexResting, CodexIdle
      <4> QED BY <4>1, <4>3 DEF CodexResting, CodexIdle, CodexTypes
    <3> QED BY <3>1, <3>2
  <2> QED BY <2>1, <2>3, <2>4, <2>5 DEF TypeOK
<1> QED BY <1>1, ProvidersInvariant, PTL

(* However a supervised turn ends, its tracker holds the last figure that    *)
(* its subprocess told (claude/mod.rs StreamEvent::Result, codex.rs          *)
(* thread/tokenUsage/updated).                                               *)
THEOREM SpendIsReported == Spec => []SpendReported
<1>1. ProvidersInv => SpendReported
  BY ClaudeSpendHolds, CodexSpendHolds
  DEF ProvidersInv, SpendReported, ClaudeSpendReported, CodexSpendReported
<1> QED BY <1>1, ProvidersInvariant, PTL

(* A subprocess that dies in the middle of a turn is retried, unless it said *)
(* why the turn cannot go on, died in the middle of a line (Codex), could    *)
(* not be waited for (Claude), or the working directory is gone (Codex)      *)
(* (claude/mod.rs classify, codex.rs finish_driver_error).                   *)
THEOREM DeathsAreRetried == Spec => []DeathRetried
<1>1. ProvidersInv => DeathRetried
  <2> SUFFICES ASSUME ProvidersInv PROVE DeathRetried
    OBVIOUS
  <2>1. ClaudeDeathRetried
    BY DEF ProvidersInv, ClaudeInv, ClaudeDeathRetried
  <2>2. CodexDeathRetried
    BY CodexDeathHolds DEF ProvidersInv, CodexDeathRetried
  <2> QED BY <2>1, <2>2 DEF DeathRetried
<1> QED BY <1>1, ProvidersInvariant, PTL

(* The promises of each provider's own module hold of the four together: of  *)
(* reaped Claude turns and of the calls they leave, of ended Codex turns, of *)
(* the replies whose calls run and the requests they go into, and of stored  *)
(* conversations, each with the exceptions its property names.               *)
THEOREM ProvidersKeepTheirPromises ==
  Spec => /\ [](ClaudeFinishedInTime /\ PendingCallsNamed /\ CodexResultStands)
          /\ [](RequestsPaired /\ NoCutReplyRuns)
          /\ SessionsGrow
<1>1. ProvidersInv => ClaudeFinishedInTime /\ PendingCallsNamed
  BY DEF ProvidersInv, ClaudeInv, ClaudeFinishedInTime, PendingCallsNamed
<1>2. ProvidersInv => CodexResultStands
  BY CodexResultHolds DEF ProvidersInv, CodexResultStands
<1>3. ProvidersInv => RequestsPaired /\ NoCutReplyRuns
  BY ApiPaired, ApiUncut DEF ProvidersInv
<1>4. ProvidersInv /\ [Next]_vars => [SessionsStand]_<<seam_vars, api_vars>>
  <2> SUFFICES ASSUME ProvidersInv, [Next]_vars, ~UNCHANGED <<seam_vars, api_vars>>
               PROVE  SessionsStand
    OBVIOUS
  <2>1. CASE Api
    BY <2>1, ApiStepStands DEF ProvidersInv, Api
  <2>2. CASE UNCHANGED api_vars
    BY <2>2 DEF SessionsStand, api_vars
  <2> QED BY <2>1, <2>2 DEF Next, Claude, Codex, vars
<1> QED BY <1>1, <1>2, <1>3, <1>4, ProvidersInvariant, PTL DEF Spec, SessionsGrow, SessionsStand
=============================================================================
