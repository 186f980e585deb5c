---------------------------- MODULE Harness_proofs ----------------------------
(***************************************************************************)
(* Theorems about the providers that supervise a subprocess: a turn of the *)
(* Claude Code provider, for any number of lines, of bridge calls and of   *)
(* kinds of result and stderr; and a turn of the Codex app-server          *)
(* provider, for any number of lines, in any order its protocol allows.    *)
(***************************************************************************)
EXTENDS ClaudeProvider, CodexProvider, TLAPS

-----------------------------------------------------------------------------
(* Lines, the latest of some of them, and errors. *)

LEMMA AppendLine ==
  ASSUME NEW Line, NEW s \in Seq(Line), NEW line \in Line
  PROVE  /\ Append(s, line) \in Seq(Line)
         /\ Len(Append(s, line)) = Len(s) + 1
         /\ Append(s, line)[Len(s) + 1] = line
         /\ \A i \in 1..Len(s) : Append(s, line)[i] = s[i]
  OBVIOUS

LEMMA LatestIs ==
  ASSUME NEW S \in SUBSET Nat, NEW i \in S, \A j \in S : j <= i
  PROVE  Latest(S) = i
<1>1. Latest(S) = CHOOSE k \in S : \A j \in S : j <= k
  <2>1. S # {}
    OBVIOUS
  <2> QED BY <2>1 DEF Latest
<1>2. ASSUME NEW k \in S, \A j \in S : j <= k PROVE k = i
  BY <1>2
<1>3. Latest(S) \in S /\ \A j \in S : j <= Latest(S)
  BY <1>1
<1> QED BY <1>2, <1>3

LEMMA FailsType ==
  ASSUME NEW kind \in ErrorKind
  PROVE  Fails(kind) \in Outcome /\ Fails(kind).kind = kind /\ kind # "none"
  BY MaxLinesIsNatural DEF Fails, Outcome, ErrorKind

-----------------------------------------------------------------------------
(* Claude Code: the lines of its harness. *)

HarnessLine ==
  {Noise, Torn} \cup {Use(c) : c \in Call} \cup {ToolResult(c) : c \in Call}
    \cup {Result(v) : v \in Verdict}

LEMMA HarnessLineKinds ==
  /\ Noise.kind = "noise" /\ Torn.kind = "torn"
  /\ \A c : Use(c).kind = "use" /\ Use(c).id = c
  /\ \A c : ToolResult(c).kind = "tool_result" /\ ToolResult(c).id = c
  /\ \A v : Result(v).kind = "result" /\ Result(v).verdict = v
  BY DEF Noise, Torn, Use, ToolResult, Result

LEMMA HarnessLineMeaning ==
  ASSUME NEW line \in HarnessLine
  PROVE  /\ line.kind = "use" => line.id \in Call /\ line = Use(line.id)
         /\ line.kind = "tool_result" => line.id \in Call /\ line = ToolResult(line.id)
         /\ line.kind = "torn" => line = Torn
         /\ line.kind = "noise" => line = Noise
         /\ line.kind \in {"noise", "torn", "use", "tool_result", "result"}
<1>1. CASE line \in {Noise, Torn}
  BY <1>1, HarnessLineKinds
<1>2. CASE line \in {Use(c) : c \in Call}
  BY <1>2, HarnessLineKinds
<1>3. CASE line \in {ToolResult(c) : c \in Call}
  BY <1>3, HarnessLineKinds
<1>4. CASE line \in {Result(v) : v \in Verdict}
  BY <1>4, HarnessLineKinds
<1> QED BY <1>1, <1>2, <1>3, <1>4 DEF HarnessLine

-----------------------------------------------------------------------------
(* Claude Code: the invariant. *)

ClaudeTyped ==
  /\ provider = "claude"
  /\ script \in Seq(HarnessLine)
  /\ SeamTypes
  /\ ClaudeTypes

\* What a harness writes: one result, and a result for a call it announced.
ClaudeScript ==
  /\ \A i, j \in 1..Len(script) :
       script[i].kind = "result" /\ script[j].kind = "result" => i = j
  /\ \A c \in Call, i, j \in 1..Len(script) :
       script[i] = Use(c) /\ script[j] = Use(c) => i = j
  /\ \A c \in Call, i \in 1..Len(script) :
       script[i] = ToolResult(c) => \E j \in 1..i - 1 : script[j] = Use(c)

\* What the loop has made of the lines it read.
LoopState ==
  /\ pending = Unanswered
  /\ terminal # 0 => terminal \in 1..read /\ script[terminal].kind = "result"
  /\ \A i \in 1..read : script[i].kind = "result" => i = terminal
  /\ reported = terminal

\* The stages and the process.
ClaudeStages ==
  /\ stage = "probing" <=> proc = "none" /\ Undecided
  /\ proc = "none" => read = 0 /\ script = <<>> /\ ~eof
  /\ stage = "returned" => proc \in {"none", "closed"}
  /\ stage = "unjoined" => proc \notin {"none", "running"} /\ outcome.kind = "Config"
  /\ Undecided <=> stage \notin {"returned", "unjoined"}
  /\ timed_out => late
  /\ stage \in {"reaping", "returned"} /\ ~timed_out /\ proc # "none" =>
       \/ read = Len(script) /\ eof
       \/ Wrote(Torn)
  /\ in_time => eof /\ ~timed_out /\ Wrote(Result(Fine)) /\ ~Wrote(Torn)

ClaudeInv ==
  /\ ClaudeTyped /\ ClaudeScript /\ LoopState /\ ClaudeStages
  /\ ClaudeFinishedInTime /\ PendingCallsNamed /\ ClaudeDeathRetried

LEMMA ClaudeInitInv == ClaudeInit => ClaudeInv
<1> SUFFICES ASSUME ClaudeInit PROVE ClaudeInv
  OBVIOUS
<1> USE MaxLinesIsNatural DEF ClaudeInit, SeamInit, ClaudeIdle
<1>1. ClaudeTyped
  <2>1. NoOutcome \in Outcome
    BY DEF NoOutcome, Outcome
  <2>2. Len(script) = 0 /\ script \in Seq(HarnessLine)
    OBVIOUS
  <2>3. 0 \in 0..Len(script) /\ Len(script) \in 0..MaxLines
    BY <2>2
  <2>4. SeamTypes
    BY <2>1, <2>3 DEF SeamTypes
  <2>5. ClaudeTypes
    BY <2>3 DEF ClaudeTypes
  <2> QED BY <2>2, <2>4, <2>5 DEF ClaudeTyped
<1>2. ClaudeScript
  BY DEF ClaudeScript
<1>3. LoopState
  BY DEF LoopState, Unanswered
<1>4. ClaudeStages /\ ClaudeFinishedInTime /\ PendingCallsNamed /\ ClaudeDeathRetried
  BY DEF ClaudeStages, ClaudeFinishedInTime, PendingCallsNamed, ClaudeDeathRetried, Undecided,
         NoOutcome
<1> QED BY <1>1, <1>2, <1>3, <1>4 DEF ClaudeInv

(* The properties speak of a turn that has returned: other steps keep them.  *)
LEMMA UndecidedKeeps ==
  ASSUME Undecided', ClaudeStages'
  PROVE  ClaudeFinishedInTime' /\ PendingCallsNamed' /\ ClaudeDeathRetried'
  BY DEF ClaudeFinishedInTime, PendingCallsNamed, ClaudeDeathRetried, ClaudeStages

(* The harness writes only while it runs, before the turn has returned.      *)
LEMMA HarnessWritesInv ==
  ASSUME ClaudeInv, NEW line \in ClaudeLine, HarnessWrites(line)
  PROVE  ClaudeInv'
<1>1. /\ ClaudeTyped /\ ClaudeScript /\ LoopState /\ ClaudeStages
      /\ proc = "running" /\ ~eof /\ ~Wrote(Torn) /\ line \in ClaudeLine
      /\ (Written("result") => line = Noise)
      /\ script' = Append(script, line) /\ Len(script) < MaxLines
      /\ UNCHANGED <<provider, outcome, reported, late, read, eof, proc, claude_vars>>
  BY DEF ClaudeInv, HarnessWrites, Writes
<1>2. line \in HarnessLine
  BY <1>1 DEF ClaudeLine, HarnessLine
<1>3. /\ script' \in Seq(HarnessLine) /\ Len(script') = Len(script) + 1
      /\ script'[Len(script) + 1] = line
      /\ \A i \in 1..Len(script) : script'[i] = script[i]
      /\ Len(script) \in Nat /\ read \in 0..Len(script)
  BY <1>1, <1>2, AppendLine DEF ClaudeTyped, SeamTypes
<1>4. ClaudeTyped'
  BY <1>1, <1>3, MaxLinesIsNatural DEF ClaudeTyped, SeamTypes, ClaudeTypes, claude_vars
<1>5. ClaudeScript'
  <2>1. ASSUME NEW i \in 1..Len(script'), NEW j \in 1..Len(script'),
               script'[i].kind = "result", script'[j].kind = "result"
        PROVE  i = j
    BY <1>1, <1>3, <2>1, HarnessLineKinds DEF ClaudeScript, Written
  <2>2. ASSUME NEW c \in Call, NEW i \in 1..Len(script'), NEW j \in 1..Len(script'),
               script'[i] = Use(c), script'[j] = Use(c)
        PROVE  i = j
    <3>1. line = Use(c) => ~Wrote(Use(c))
      BY <1>1, HarnessLineKinds DEF ClaudeLine
    <3> QED BY <1>1, <1>3, <2>2, <3>1 DEF ClaudeScript, Wrote
  <2>3. ASSUME NEW c \in Call, NEW i \in 1..Len(script'), script'[i] = ToolResult(c)
        PROVE  \E j \in 1..i - 1 : script'[j] = Use(c)
    <3>1. line = ToolResult(c) => Wrote(Use(c))
      BY <1>1, HarnessLineKinds DEF ClaudeLine
    <3>2. CASE i \in 1..Len(script)
      BY <1>1, <1>3, <2>3, <3>2 DEF ClaudeScript
    <3>3. CASE i = Len(script) + 1
      BY <1>3, <2>3, <3>1, <3>3 DEF Wrote
    <3> QED BY <1>3, <3>2, <3>3
  <2> QED BY <2>1, <2>2, <2>3 DEF ClaudeScript
<1>6. LoopState'
  <2>1. \A i \in 1..read : script'[i] = script[i]
    BY <1>3
  <2>2. Unanswered' = Unanswered
    BY <1>1, <2>1 DEF Unanswered
  <2> QED BY <1>1, <1>3, <2>1, <2>2 DEF LoopState, claude_vars
<1>7. ClaudeStages'
  BY <1>1, <1>3 DEF ClaudeStages, claude_vars, Undecided, Wrote, ClaudeTyped, SeamTypes
<1>8. Undecided'
  BY <1>1 DEF ClaudeStages, Undecided
<1> QED BY <1>4, <1>5, <1>6, <1>7, <1>8, UndecidedKeeps DEF ClaudeInv

(* The process, its pipes and the clock, which may also come after the call. *)
LEMMA HarnessLeavesInv ==
  ASSUME ClaudeInv,
         HarnessExits \/ HarnessOutputCloses \/ HarnessPipesClose \/ ClaudeDeadlinePasses
  PROVE  ClaudeInv'
<1> USE DEF HarnessExits, HarnessOutputCloses, HarnessPipesClose, ClaudeDeadlinePasses, Exits,
            OutputCloses, PipesClose, DeadlinePasses, claude_vars
<1>1. /\ ClaudeTyped /\ ClaudeScript /\ LoopState /\ ClaudeStages
      /\ proc # "none" /\ proc' # "none"
      /\ UNCHANGED <<provider, outcome, reported, script, read, stage, terminal, pending, timed_out,
                     stderr>>
  BY DEF ClaudeInv
<1>2. ClaudeTyped'
  BY <1>1 DEF ClaudeTyped, SeamTypes, ClaudeTypes
<1>3. ClaudeScript' /\ LoopState'
  BY <1>1 DEF ClaudeScript, LoopState, Unanswered
<1>4. in_time' => \/ in_time
                  \/ ~late /\ eof' /\ Wrote(Result(Fine)) /\ ~Wrote(Torn) /\ ~eof
  OBVIOUS
<1>5. eof => eof'
  BY <1>1 DEF ClaudeTyped, SeamTypes
<1>6. ClaudeStages'
  BY <1>1, <1>4, <1>5 DEF ClaudeStages, Undecided, Wrote, ClaudeTyped, SeamTypes, ClaudeTypes
<1>7. ClaudeFinishedInTime'
  <2> SUFFICES ASSUME in_time', stage = "returned" PROVE outcome.kind = "ok"
    BY <1>1 DEF ClaudeFinishedInTime
  <2>1. in_time
    BY <1>1, <1>4 DEF ClaudeStages
  <2> QED BY <1>1, <2>1 DEF ClaudeInv, ClaudeTyped, ClaudeFinishedInTime
<1>8. PendingCallsNamed' /\ ClaudeDeathRetried'
  BY <1>1 DEF ClaudeInv, ClaudeTyped, PendingCallsNamed, ClaudeDeathRetried, Undecided,
     Unanswered, Lines
<1> QED BY <1>2, <1>3, <1>6, <1>7, <1>8 DEF ClaudeInv

LEMMA BeforeReadingInv ==
  ASSUME ClaudeInv, RefusedBeforeSpawn \/ Spawn
  PROVE  ClaudeInv'
<1>1. /\ ClaudeTyped /\ ClaudeScript /\ LoopState /\ ClaudeStages
      /\ stage = "probing" /\ provider = "claude" /\ Undecided
      /\ proc = "none" /\ read = 0 /\ ~in_time
  BY DEF ClaudeInv, RefusedBeforeSpawn, Spawn, AtStage, ClaudeStages
<1>2. UNCHANGED <<provider, reported, late, script, read, eof, terminal, pending, timed_out,
                  stderr, in_time>>
  BY DEF RefusedBeforeSpawn, Spawn
<1>3. ClaudeTyped'
  BY <1>1, <1>2, MaxLinesIsNatural DEF ClaudeTyped, SeamTypes, ClaudeTypes,
     RefusedBeforeSpawn, Spawn, Fails,
     Outcome, ErrorKind
<1>4. ClaudeScript' /\ LoopState'
  BY <1>1, <1>2 DEF ClaudeScript, LoopState, Unanswered
<1>5. ClaudeStages'
  BY <1>1, <1>2 DEF ClaudeStages, RefusedBeforeSpawn, Spawn, Fails, Undecided
<1>6. ClaudeFinishedInTime' /\ PendingCallsNamed'
  BY <1>1, <1>2 DEF ClaudeFinishedInTime, PendingCallsNamed, RefusedBeforeSpawn, Spawn, Fails,
     Undecided, Unanswered
<1>7. ClaudeDeathRetried'
  BY <1>1, <1>2 DEF ClaudeDeathRetried, RefusedBeforeSpawn, Spawn, Undecided
<1> QED BY <1>3, <1>4, <1>5, <1>6, <1>7 DEF ClaudeInv

(* Reading a line keeps `pending` the calls announced and not answered: a    *)
(* result is for a call whose one announcement came before it.               *)
LEMMA ReadLineInv ==
  ASSUME ClaudeInv, ReadLine
  PROVE  ClaudeInv'
<1> DEFINE line == script[read + 1]
<1>1. /\ ClaudeTyped /\ ClaudeScript /\ LoopState /\ ClaudeStages
      /\ stage = "reading" /\ provider = "claude"
      /\ read < Len(script) /\ line.kind # "torn"
      /\ read' = read + 1 /\ pending' = PendingAfter(line)
      /\ terminal' = IF line.kind = "result" THEN read' ELSE terminal
      /\ reported' = IF line.kind = "result" THEN read' ELSE reported
      /\ UNCHANGED <<provider, outcome, late, script, eof, proc, stage, timed_out, stderr, in_time>>
  BY DEF ClaudeInv, ReadLine, AtStage, InPipe, ClaudeTyped, SeamTypes
<1>2. read \in Nat /\ Len(script) \in Nat /\ read + 1 \in 1..Len(script)
      /\ read + 1 \in 0..Len(script) /\ line \in HarnessLine
  BY <1>1 DEF ClaudeTyped, SeamTypes
<1>3. pending' = Unanswered'
  <2>1. ASSUME NEW c \in Call PROVE c \in pending' <=> c \in Unanswered'
    <3>1. c \in pending <=> /\ \E i \in 1..read : script[i] = Use(c)
                            /\ ~\E j \in 1..read : script[j] = ToolResult(c)
      BY <1>1 DEF LoopState, Unanswered
    <3>2. c \in Unanswered' <=> /\ \E i \in 1..read + 1 : script[i] = Use(c)
                                /\ ~\E j \in 1..read + 1 : script[j] = ToolResult(c)
      BY <1>1 DEF Unanswered
    <3>3. CASE line = Use(c)
      <4>1. ~\E j \in 1..read + 1 : script[j] = ToolResult(c)
        <5> SUFFICES ASSUME NEW j \in 1..read + 1, script[j] = ToolResult(c) PROVE FALSE
          OBVIOUS
        <5>1. j # read + 1
          BY <3>3, HarnessLineKinds
        <5>2. PICK k \in 1..j - 1 : script[k] = Use(c)
          BY <1>1, <1>2 DEF ClaudeScript
        <5>3. k \in 1..Len(script) /\ k # read + 1
          BY <1>2, <5>1
        <5> QED BY <1>1, <1>2, <3>3, <5>2, <5>3 DEF ClaudeScript
      <4>2. c \in pending'
        BY <1>1, <3>3, HarnessLineKinds DEF PendingAfter
      <4> QED BY <1>2, <3>2, <3>3, <4>1, <4>2
    <3>4. CASE line = ToolResult(c)
      <4>1. c \notin pending'
        BY <1>1, <3>4, HarnessLineKinds DEF PendingAfter
      <4> QED BY <1>2, <3>2, <3>4, <4>1
    <3>5. CASE line # Use(c) /\ line # ToolResult(c)
      <4>1. c \in pending' <=> c \in pending
        BY <1>1, <1>2, <3>5, HarnessLineMeaning DEF PendingAfter
      <4>2. \A i \in 1..read + 1 : i \in 1..read \/ i = read + 1
        BY <1>2
      <4>3. \A i \in 1..read : i \in 1..read + 1
        BY <1>2
      <4> QED BY <3>1, <3>2, <3>5, <4>1, <4>2, <4>3
    <3> QED BY <3>3, <3>4, <3>5
  <2>2. pending' \subseteq Call
    BY <1>1, <1>2, HarnessLineMeaning DEF PendingAfter, ClaudeTyped, ClaudeTypes
  <2>3. Unanswered' \subseteq Call
    BY DEF Unanswered
  <2> QED BY <2>1, <2>2, <2>3
<1>4. ClaudeTyped'
  <2>1. pending' \subseteq Call
    BY <1>3 DEF Unanswered
  <2> HIDE DEF line
  <2> QED BY <1>1, <1>2, <2>1 DEF ClaudeTyped, SeamTypes, ClaudeTypes
<1>5. ClaudeScript'
  BY <1>1 DEF ClaudeScript
<1>6. LoopState'
  <2>1. terminal' # 0 => terminal' \in 1..read' /\ script'[terminal'].kind = "result"
    <3>1. CASE line.kind = "result"
      BY <1>1, <1>2, <3>1
    <3>2. CASE line.kind # "result"
      BY <1>1, <1>2, <3>2 DEF LoopState
    <3> QED BY <3>1, <3>2
  <2>2. \A i \in 1..read' : script'[i].kind = "result" => i = terminal'
    <3>1. ASSUME NEW i \in 1..read + 1, script[i].kind = "result" PROVE i = terminal'
      <4>1. CASE line.kind = "result"
        BY <1>1, <1>2, <3>1, <4>1 DEF ClaudeScript
      <4>2. CASE line.kind # "result"
        BY <1>1, <1>2, <3>1, <4>2 DEF LoopState
      <4> QED BY <4>1, <4>2
    <3> QED BY <1>1, <3>1
  <2> QED BY <1>1, <1>3, <2>1, <2>2 DEF LoopState
<1>7. ClaudeStages'
  BY <1>1 DEF ClaudeStages, Undecided, Wrote
<1>8. Undecided'
  BY <1>1 DEF ClaudeStages, Undecided
<1> QED BY <1>4, <1>5, <1>6, <1>7, <1>8, UndecidedKeeps DEF ClaudeInv

(* The three ways out of the loop.                                           *)
LEMMA LoopEndsInv ==
  ASSUME ClaudeInv, ReadFails \/ EndOfFile \/ TimeOut
  PROVE  ClaudeInv'
<1>1. /\ ClaudeTyped /\ ClaudeScript /\ LoopState /\ ClaudeStages
      /\ stage = "reading" /\ stage' = "reaping"
      /\ UNCHANGED <<provider, outcome, reported, late, script, read, eof, terminal, pending,
                     stderr, in_time>>
  BY DEF ClaudeInv, ReadFails, EndOfFile, TimeOut, LeaveLoop, AtStage, seam_vars
<1>2. ClaudeTyped'
  BY <1>1 DEF ClaudeTyped, SeamTypes, ClaudeTypes, ReadFails, EndOfFile, TimeOut,
     LeaveLoop, seam_vars, Killed
<1>3. ClaudeScript' /\ LoopState'
  BY <1>1 DEF ClaudeScript, LoopState, Unanswered
<1>4. ClaudeStages'
  <2>1. read \in 0..Len(script) /\ Len(script) \in Nat
    BY <1>1 DEF ClaudeTyped, SeamTypes
  <2>2. CASE ReadFails
    BY <1>1, <2>1, <2>2 DEF ClaudeStages, ReadFails, LeaveLoop, seam_vars, Undecided,
       Wrote, InPipe
  <2>3. CASE EndOfFile
    BY <1>1, <2>1, <2>3 DEF ClaudeStages, EndOfFile, LeaveLoop, seam_vars, Undecided,
       Wrote, InPipe
  <2>4. CASE TimeOut
    BY <1>1, <2>1, <2>4 DEF ClaudeStages, TimeOut, Killed, Undecided, Wrote
  <2> QED BY <2>2, <2>3, <2>4
<1>5. Undecided'
  BY <1>1 DEF ClaudeStages, Undecided
<1> QED BY <1>2, <1>3, <1>4, <1>5, UndecidedKeeps DEF ClaudeInv

(* The process cannot be waited for: the turn returns unclassified.          *)
LEMMA WaitFailsInv ==
  ASSUME ClaudeInv, WaitFails
  PROVE  ClaudeInv'
<1>1. /\ ClaudeTyped /\ ClaudeScript /\ LoopState /\ ClaudeStages
      /\ stage = "reaping" /\ stage' = "unjoined" /\ proc' = Killed
      /\ outcome' = Fails("Config")
      /\ UNCHANGED <<provider, reported, late, script, read, eof, terminal, pending, timed_out,
                     stderr, in_time>>
  BY DEF ClaudeInv, WaitFails, AtStage
<1>2. outcome' \in Outcome /\ outcome'.kind = "Config"
  BY <1>1, FailsType DEF ErrorKind
<1>3. ClaudeTyped'
  BY <1>1, <1>2 DEF ClaudeTyped, SeamTypes, ClaudeTypes, Killed
<1>4. ClaudeScript' /\ LoopState'
  BY <1>1 DEF ClaudeScript, LoopState, Unanswered
<1>5. ClaudeStages'
  BY <1>1, <1>2 DEF ClaudeStages, Undecided, Wrote, Killed
<1>6. ClaudeFinishedInTime' /\ PendingCallsNamed' /\ ClaudeDeathRetried'
  BY <1>1, <1>2 DEF ClaudeFinishedInTime, PendingCallsNamed, ClaudeDeathRetried
<1> QED BY <1>3, <1>4, <1>5, <1>6 DEF ClaudeInv

(* The classification.                                                       *)
LEMMA ReapInv ==
  ASSUME ClaudeInv, NEW signs \in StderrSigns, Reap(signs)
  PROVE  ClaudeInv'
<1>1. /\ ClaudeTyped /\ ClaudeScript /\ LoopState /\ ClaudeStages
      /\ stage = "reaping" /\ stage' = "returned" /\ proc = "closed"
      /\ stderr' = signs
      /\ outcome' = IF timed_out THEN Fails("Timeout") ELSE Classify(signs)
      /\ UNCHANGED <<provider, reported, late, script, read, eof, proc, terminal, pending,
                     timed_out, in_time>>
  BY DEF ClaudeInv, Reap, AtStage
<1>2. /\ read \in 0..Len(script) /\ Len(script) \in Nat /\ terminal \in 0..Len(script)
      /\ Len(script) \in 0..MaxLines
  BY <1>1 DEF ClaudeTyped, SeamTypes, ClaudeTypes
<1>3. /\ DeathOf(signs) \in {"HarnessDiedAwaitingTools", "Config", "HarnessDied"}
      /\ DeathOf(signs) = "HarnessDiedAwaitingTools" <=> pending # {}
  BY DEF DeathOf
<1>4. \A said : /\ ErrorOf(said) \in {"SessionNotFound", "Config", "Api"}
                /\ ErrorOf(said) # "Api" =>
                     said \cap {"no_conversation", "auth", "cap", "rejected"} # {}
  BY DEF ErrorOf
<1>5. /\ Classify(signs).kind \in ErrorKind \cup {"ok"} /\ Classify(signs).said \in 0..MaxLines
      /\ Classify(signs) \in Outcome
      /\ Classify(signs).kind = "HarnessDiedAwaitingTools" <=> terminal = 0 /\ pending # {}
      /\ terminal # 0 /\ script[terminal] = Result(Fine) => Classify(signs).kind = "ok"
  <2> HIDE DEF DeathOf, ErrorOf
  <2>1. CASE terminal = 0
    BY <1>3, <2>1, MaxLinesIsNatural DEF Classify, Fails, Outcome, ErrorKind
  <2>2. CASE terminal # 0 /\ script[terminal] = Result(Fine)
    BY <1>2, <2>2, MaxLinesIsNatural DEF Classify, Succeeds, Outcome
  <2>3. CASE terminal # 0 /\ script[terminal] # Result(Fine)
    <3>1. Classify(signs) = Fails(ErrorOf(script[terminal].verdict \cup signs))
      BY <2>3 DEF Classify
    <3> QED BY <1>4, <2>3, <3>1, MaxLinesIsNatural DEF Fails, Outcome, ErrorKind
  <2> QED BY <2>1, <2>2, <2>3
<1> HIDE DEF Classify
<1>6. outcome' \in Outcome /\ outcome'.kind # "none"
  <2>1. Fails("Timeout") \in Outcome /\ Fails("Timeout").kind = "Timeout"
    BY MaxLinesIsNatural DEF Fails, Outcome, ErrorKind
  <2> QED BY <1>1, <1>5, <2>1 DEF ErrorKind
<1>7. ClaudeTyped'
  BY <1>1, <1>6 DEF ClaudeTyped, SeamTypes, ClaudeTypes
<1>8. ClaudeScript' /\ LoopState'
  BY <1>1 DEF ClaudeScript, LoopState, Unanswered
<1>9. ClaudeStages'
  BY <1>1, <1>6 DEF ClaudeStages, Undecided, Wrote
<1>10. ClaudeFinishedInTime'
  <2> SUFFICES ASSUME in_time PROVE outcome'.kind = "ok"
    BY <1>1 DEF ClaudeFinishedInTime
  <2>1. ~timed_out /\ read = Len(script) /\ Wrote(Result(Fine))
    BY <1>1 DEF ClaudeStages
  <2>2. PICK i \in 1..Len(script) : script[i] = Result(Fine)
    BY <2>1 DEF Wrote
  <2>3. i = terminal /\ terminal # 0
    BY <1>1, <1>2, <2>1, <2>2, HarnessLineKinds DEF LoopState
  <2> QED BY <1>1, <1>5, <2>1, <2>2, <2>3
<1>11. PendingCallsNamed'
  <2>1. Unanswered' = pending
    BY <1>1 DEF LoopState, Unanswered
  <2>2. timed_out => outcome'.kind = "Timeout"
    BY <1>1 DEF Fails
  <2> QED BY <1>1, <1>5, <2>1, <2>2 DEF PendingCallsNamed
<1>12. ClaudeDeathRetried'
  <2> SUFFICES ASSUME outcome'.kind # "ok", ~IsRetryable(outcome'.kind)
               PROVE  \/ \E i \in Lines("result")' :
                           /\ script[i] # Result(Fine)
                           /\ (script[i].verdict \cup signs)
                                \cap {"no_conversation", "auth", "cap", "rejected"} # {}
                      \/ Lines("result")' = {} /\ Unanswered' = {} /\ "usage_error" \in signs
    BY <1>1 DEF ClaudeDeathRetried
  <2>1. Lines("result")' = Lines("result") /\ Unanswered' = pending
    BY <1>1 DEF Lines, LoopState, Unanswered
  <2>2. ~timed_out
    BY <1>1 DEF Fails, IsRetryable
  <2>3. outcome' = Classify(signs)
    BY <1>1, <2>2
  <2>4. CASE terminal = 0
    <3>1. Lines("result") = {}
      BY <1>1, <2>4 DEF LoopState, Lines
    <3>2. Classify(signs).kind = DeathOf(signs)
      BY <2>4 DEF Classify, Fails
    <3>3. pending = {} /\ "usage_error" \in signs
      BY <2>3, <3>2 DEF DeathOf, IsRetryable
    <3> QED BY <2>1, <3>1, <3>3
  <2>5. CASE terminal # 0
    <3>1. terminal \in Lines("result")
      BY <1>1, <2>5 DEF LoopState, Lines
    <3>2. script[terminal] # Result(Fine)
      BY <1>5, <2>3, <2>5
    <3>3. Classify(signs).kind = ErrorOf(script[terminal].verdict \cup signs)
      BY <2>5, <3>2 DEF Classify, Fails
    <3>4. ErrorOf(script[terminal].verdict \cup signs) # "Api"
      BY <2>3, <3>3 DEF IsRetryable
    <3>5. (script[terminal].verdict \cup signs)
             \cap {"no_conversation", "auth", "cap", "rejected"} # {}
      BY <1>4, <3>4
    <3> QED BY <2>1, <3>1, <3>2, <3>5
  <2> QED BY <2>4, <2>5
<1> QED BY <1>7, <1>8, <1>9, <1>10, <1>11, <1>12 DEF ClaudeInv

LEMMA ClaudeStepInv == ClaudeInv /\ [ClaudeNext]_<<seam_vars, claude_vars>> => ClaudeInv'
<1> SUFFICES ASSUME ClaudeInv, [ClaudeNext]_<<seam_vars, claude_vars>> PROVE ClaudeInv'
  OBVIOUS
<1>1. CASE ClaudeStep
  BY <1>1, BeforeReadingInv, ReadLineInv, LoopEndsInv, ReapInv
  DEF ClaudeStep, ProbeFails, InvocationRefused, HarnessMissing
<1>2. CASE UNCHANGED <<seam_vars, claude_vars>>
  BY <1>2 DEF ClaudeInv, ClaudeTyped, SeamTypes, ClaudeTypes, ClaudeScript, LoopState,
     ClaudeStages, Unanswered,
     ClaudeFinishedInTime, PendingCallsNamed, ClaudeDeathRetried, Lines, Undecided, Wrote,
     seam_vars, claude_vars
<1> QED BY <1>1, <1>2, HarnessWritesInv, HarnessLeavesInv, WaitFailsInv DEF ClaudeNext

LEMMA ClaudeInvariant == ClaudeSpec => []ClaudeInv
  BY ClaudeInitInv, ClaudeStepInv, PTL DEF ClaudeSpec

-----------------------------------------------------------------------------
(* Claude Code: theorems. *)

(* Type correctness of the seam and of the provider's turn.                  *)
THEOREM ClaudeTypesCorrect == ClaudeSpec => [](SeamTypes /\ ClaudeTypes)
<1>1. ClaudeInv => SeamTypes /\ ClaudeTypes
  BY DEF ClaudeInv, ClaudeTyped
<1> QED BY <1>1, ClaudeInvariant, PTL

(* A turn whose result and end of file beat the deadline succeeds once its   *)
(* process is reaped, however late they are read and however long the        *)
(* process outlives its output (claude/mod.rs: the read is polled before the *)
(* clock).  Only the wait for the process failing takes the turn away.       *)
THEOREM FinishedTurnsSucceed == ClaudeSpec => []ClaudeFinishedInTime
<1>1. ClaudeInv => ClaudeFinishedInTime
  BY DEF ClaudeInv
<1> QED BY <1>1, ClaudeInvariant, PTL

(* A reaped turn that was not cut by the deadline is said to have died       *)
(* awaiting tools exactly when it has no result and calls are left without   *)
(* theirs; a turn that could not be reaped never is (claude/mod.rs classify). *)
THEOREM PendingCallsAreNamed == ClaudeSpec => []PendingCallsNamed
<1>1. ClaudeInv => PendingCallsNamed
  BY DEF ClaudeInv
<1> QED BY <1>1, ClaudeInvariant, PTL

(* A harness that dies is retried, unless its result or this turn's stderr    *)
(* said why, this turn's stderr rejects the command line, or the wait for the *)
(* process failed (claude/mod.rs classify and the wait).                     *)
THEOREM ClaudeDeathsAreRetried == ClaudeSpec => []ClaudeDeathRetried
<1>1. ClaudeInv => ClaudeDeathRetried
  BY DEF ClaudeInv
<1> QED BY <1>1, ClaudeInvariant, PTL

LEMMA ClaudeSpendHolds == ClaudeInv => ClaudeSpendReported
<1> SUFFICES ASSUME ClaudeInv PROVE reported = Latest(Lines("result"))
  BY DEF ClaudeSpendReported
<1>1. /\ reported = terminal
      /\ terminal # 0 => terminal \in 1..read /\ script[terminal].kind = "result"
      /\ \A i \in 1..read : script[i].kind = "result" => i = terminal
      /\ read \in Nat
  BY DEF ClaudeInv, LoopState, ClaudeTyped, SeamTypes
<1>2. CASE terminal = 0
  <2>1. Lines("result") = {}
    BY <1>1, <1>2 DEF Lines
  <2> QED BY <1>1, <1>2, <2>1 DEF Latest
<1>3. CASE terminal # 0
  <2>1. Lines("result") = {terminal} /\ terminal \in Nat
    BY <1>1, <1>3 DEF Lines
  <2> QED BY <1>1, <2>1 DEF Latest
<1> QED BY <1>2, <1>3

(* Whatever ends the turn, the tracker holds the last result read            *)
(* (claude/mod.rs StreamEvent::Result).                                      *)
THEOREM ClaudeSpendIsReported == ClaudeSpec => []ClaudeSpendReported
  BY ClaudeSpendHolds, ClaudeInvariant, PTL

-----------------------------------------------------------------------------
(* Codex: the server's lines. *)

ServerLine ==
  {Reply(n, says) : n \in 1..3, says \in {"good", "bare"} \cup RpcError}
    \cup {Noise, Torn, UsageUpdated, AgentMessage}
    \cup {Ask(n) : n \in AskId} \cup {Completed(says) : says \in Completion}

LEMMA ServerLineKinds ==
  /\ Noise.kind = "noise" /\ Torn.kind = "torn"
  /\ UsageUpdated.kind = "usage" /\ AgentMessage.kind = "text"
  /\ \A n, says : /\ Reply(n, says).kind = "reply"
                  /\ Reply(n, says).id = n /\ Reply(n, says).says = says
  /\ \A n : Ask(n).kind = "ask" /\ Ask(n).id = n
  /\ \A says : Completed(says).kind = "completed" /\ Completed(says).says = says
  BY DEF Noise, Torn, UsageUpdated, AgentMessage, Reply, Ask, Completed

LEMMA ServerLineMeaning ==
  ASSUME NEW line \in ServerLine
  PROVE  /\ line.kind = "reply" =>
              line.id \in 1..3 /\ line = Reply(line.id, line.says)
         /\ line.kind = "usage" <=> line = UsageUpdated
         /\ line.kind = "text" <=> line = AgentMessage
         /\ line.kind = "torn" <=> line = Torn
         /\ line.kind \in {"reply", "noise", "torn", "usage", "text", "ask", "completed"}
<1>1. CASE line \in {Reply(n, says) : n \in 1..3, says \in {"good", "bare"} \cup RpcError}
  BY <1>1, ServerLineKinds
<1>2. CASE line \in {Noise, Torn, UsageUpdated, AgentMessage}
  BY <1>2, ServerLineKinds
<1>3. CASE line \in {Ask(n) : n \in AskId}
  BY <1>3, ServerLineKinds
<1>4. CASE line \in {Completed(says) : says \in Completion}
  BY <1>4, ServerLineKinds
<1> QED BY <1>1, <1>2, <1>3, <1>4 DEF ServerLine

-----------------------------------------------------------------------------
(* Codex: the invariant. *)

Queued == {queue[k] : k \in 1..Len(queue)}
Handled(kind) == {i \in Lines(kind) : i \notin Queued}

CodexTyped ==
  /\ provider = "codex"
  /\ script \in Seq(ServerLine)
  /\ SeamTypes
  /\ driver \in {"probing", "sending", "awaiting", "looping", "finishing", "returned"}
  /\ resuming \in BOOLEAN /\ cwd \in BOOLEAN
  /\ requests \in 0..3 /\ (driver \in {"probing", "sending"} => requests < 3)
  /\ driver = "awaiting" => requests # 0
  /\ queue \in Seq(Nat)
  /\ \A q \in Queued : q \in 1..read
  /\ final_text \in 0..read /\ reported \in 0..read
  /\ verdict \in Outcome
  /\ Undecided <=> driver # "returned"
  /\ driver = "finishing" => verdict.kind # "none"

\* A server answers what it was asked, once, and ends the turn once.
CodexScript ==
  /\ \A i \in 1..Len(script) : script[i].kind = "reply" => script[i].id \in 1..requests
  /\ \A i, j \in 1..Len(script) :
       script[i].kind = "reply" /\ script[j].kind = "reply" /\ script[i].id = script[j].id
         => i = j
  /\ \A i, j \in 1..Len(script) :
       script[i].kind = "completed" /\ script[j].kind = "completed" => i = j

\* What was set aside is in order and behind nothing that was handled; the
\* turn's end is still to come; before the turn nothing has been handled.
QueueState ==
  driver \in {"probing", "sending", "awaiting", "looping"} =>
    /\ \A k, l \in 1..Len(queue) : k < l => queue[k] < queue[l]
    /\ \A q \in Queued : script[q].kind \notin {"ask", "torn"}
    /\ \A h \in 1..read :
         script[h].kind \in {"usage", "text", "completed"} /\ h \notin Queued =>
           \A q \in Queued : h < q
    /\ Handled("completed") = {}
    /\ final_text = Latest(Handled("text"))
    /\ reported = Latest(Handled("usage"))
    /\ driver # "looping" =>
         ~Started /\ Handled("text") = {} /\ Handled("usage") = {}

\* What a turn that was started will say, or has said.
Concluded(o) ==
  Started =>
    /\ reported = Latest(Before("usage"))
    /\ \A d \in Lines("completed") :
         \/ o = Fails("Timeout")
         \/ script[d].says = "fine" /\ o = Succeeds(Latest(Before("text")))
         \/ script[d].says # "fine" /\ o = Fails(CompletionError(script[d].says))

EndState ==
  /\ driver = "finishing" => Concluded(verdict)
  /\ driver = "returned" => Concluded(outcome)

CodexInv == CodexTyped /\ CodexScript /\ QueueState /\ EndState

LEMMA CodexInitInv == CodexInit => CodexInv
<1> SUFFICES ASSUME CodexInit PROVE CodexInv
  OBVIOUS
<1>1. /\ provider = "codex" /\ outcome = NoOutcome /\ verdict = NoOutcome /\ reported = 0
      /\ late = FALSE /\ script = <<>> /\ read = 0 /\ proc = "none" /\ driver = "probing"
      /\ requests = 0 /\ queue = <<>> /\ final_text = 0 /\ resuming \in BOOLEAN
      /\ cwd \in BOOLEAN /\ eof = FALSE
  BY DEF CodexInit, SeamInit, CodexIdle
<1>2. NoOutcome \in Outcome /\ NoOutcome.kind = "none"
  BY MaxLinesIsNatural DEF NoOutcome, Outcome
<1>3. Len(script) = 0 /\ Len(queue) = 0 /\ Queued = {} /\ 0 \in 0..MaxLines /\ 0 \in 0..0
      /\ queue \in Seq(Nat) /\ script \in Seq(ServerLine)
  BY <1>1, MaxLinesIsNatural DEF Queued
<1>4. SeamTypes
  BY <1>1, <1>2, <1>3 DEF SeamTypes
<1>5. CodexTyped
  BY <1>1, <1>2, <1>3, <1>4 DEF CodexTyped, Undecided
<1>6. CodexScript
  BY <1>3 DEF CodexScript
<1>7. \A kind : Lines(kind) = {} /\ Handled(kind) = {}
  BY <1>1 DEF Lines, Handled
<1>8. QueueState
  BY <1>1, <1>3, <1>7 DEF QueueState, Latest, Started
<1> QED BY <1>1, <1>5, <1>6, <1>8 DEF CodexInv, EndState

(* What depends only on the lines read, the queue and the figures stays with *)
(* them.                                                                     *)
LEMMA LinesReadKeep ==
  ASSUME read \in Nat, read' = read, queue' = queue, \A i \in 1..read : script'[i] = script[i]
  PROVE  /\ Queued' = Queued
         /\ \A kind : Lines(kind)' = Lines(kind) /\ Handled(kind)' = Handled(kind)
         /\ \A kind : Before(kind)' = Before(kind)
         /\ Started' <=> Started
<1>1. Queued' = Queued
  BY DEF Queued
<1>2. \A kind : Lines(kind)' = Lines(kind)
  BY DEF Lines
<1>3. \A kind : Handled(kind)' = Handled(kind)
  BY <1>1, <1>2 DEF Handled
<1>4. \A kind : Before(kind)' = Before(kind)
  BY <1>2 DEF Before
<1>5. Started' <=> Started
  BY DEF Started
<1> QED BY <1>1, <1>2, <1>3, <1>4, <1>5

LEMMA StateKeeps ==
  ASSUME CodexInv, read' = read, queue' = queue, \A i \in 1..read : script'[i] = script[i],
         final_text' = final_text, reported' = reported
  PROVE  /\ driver' = driver => QueueState'
         /\ driver \in {"probing", "sending", "awaiting"} /\ driver' # "looping" => QueueState'
         /\ \A o : Concluded(o)' <=> Concluded(o)
<1>1. read \in Nat /\ (\A q \in Queued : q \in 1..read) /\ QueueState
  BY DEF CodexInv, CodexTyped, SeamTypes
<1>2. /\ Queued' = Queued
      /\ \A kind : Lines(kind)' = Lines(kind) /\ Handled(kind)' = Handled(kind)
      /\ \A kind : Before(kind)' = Before(kind)
      /\ Started' <=> Started
  BY <1>1, LinesReadKeep
<1>3. \A o : Concluded(o)' <=> Concluded(o)
  <2>1. \A d \in Lines("completed") : script'[d] = script[d]
    BY DEF Lines
  <2> QED BY <1>2, <2>1 DEF Concluded
<1>4. ASSUME driver \in {"probing", "sending", "awaiting", "looping"},
             driver # "looping" \/ driver' = "looping"
      PROVE  driver' = driver \/ driver' # "looping" => QueueState'
  <2> SUFFICES ASSUME driver' = driver \/ driver' # "looping" PROVE QueueState'
    OBVIOUS
  <2>1. driver' # "looping" => driver # "looping"
    BY <1>4
  <2>2. \A q \in Queued' : script'[q] = script[q]
    BY <1>1, <1>2
  <2> QED BY <1>1, <1>2, <1>4, <2>1, <2>2 DEF QueueState
<1> QED BY <1>3, <1>4 DEF QueueState

-----------------------------------------------------------------------------
(* Codex: the server, its process and the clock. *)

LEMMA ServerWritesInv ==
  ASSUME CodexInv, NEW line \in CodexLine, ServerWrites(line)
  PROVE  CodexInv'
<1>1. /\ CodexTyped /\ CodexScript /\ EndState
      /\ script' = Append(script, line) /\ Len(script) < MaxLines
      /\ UNCHANGED <<provider, outcome, reported, late, eof, read, proc>>
      /\ UNCHANGED <<driver, resuming, cwd, requests, queue, final_text, verdict>>
  BY DEF CodexInv, ServerWrites, Writes, codex_vars
<1>2. line \in ServerLine
  BY <1>1 DEF CodexLine, ServerLine, CodexTyped
<1>3. /\ script' \in Seq(ServerLine) /\ Len(script') = Len(script) + 1
      /\ script'[Len(script) + 1] = line
      /\ \A i \in 1..Len(script) : script'[i] = script[i]
      /\ Len(script) \in Nat /\ read \in 0..Len(script) /\ MaxLines \in Nat
  BY <1>1, <1>2, AppendLine, MaxLinesIsNatural DEF CodexTyped, SeamTypes
<1>4. \A i \in 1..read : script'[i] = script[i]
  BY <1>3
<1>5. QueueState' /\ \A o : Concluded(o)' <=> Concluded(o)
  BY <1>1, <1>4, StateKeeps
<1>6. CodexTyped'
  <2>1. SeamTypes'
    BY <1>1, <1>3 DEF CodexTyped, SeamTypes
  <2>2. Queued' = Queued /\ (Undecided' <=> Undecided)
    BY <1>1 DEF Queued, Undecided
  <2> QED BY <1>1, <1>3, <2>1, <2>2 DEF CodexTyped
<1>7. CodexScript'
  <2>1. line.kind = "reply" => line.id \in 1..requests /\ ~Replied(line.id)
    BY ServerLineKinds DEF CodexLine
  <2>2. line.kind = "completed" => ~Written("completed")
    BY ServerLineKinds DEF CodexLine
  <2>3. \A i \in 1..Len(script') : i \in 1..Len(script) \/ i = Len(script) + 1
    BY <1>3
  <2>4. \A i \in 1..Len(script') : script'[i].kind = "reply" => script'[i].id \in 1..requests'
    BY <1>1, <1>3, <2>1, <2>3 DEF CodexScript
  <2>5. ASSUME NEW i \in 1..Len(script'), NEW j \in 1..Len(script'),
               script'[i].kind = "reply", script'[j].kind = "reply",
               script'[i].id = script'[j].id
        PROVE  i = j
    BY <1>1, <1>3, <2>1, <2>3, <2>5 DEF CodexScript, Replied
  <2>6. ASSUME NEW i \in 1..Len(script'), NEW j \in 1..Len(script'),
               script'[i].kind = "completed", script'[j].kind = "completed"
        PROVE  i = j
    BY <1>1, <1>3, <2>2, <2>3, <2>6 DEF CodexScript, Written
  <2> QED BY <2>4, <2>5, <2>6 DEF CodexScript
<1>8. EndState'
  BY <1>1, <1>5 DEF EndState
<1> QED BY <1>5, <1>6, <1>7, <1>8 DEF CodexInv

(* Steps that read nothing and settle nothing: the process, the clock, the   *)
(* spawn, a request sent, the grace.                                         *)
LEMMA QuietInv ==
  ASSUME CodexInv, CodexTyped',
         UNCHANGED <<script, read, reported, queue, final_text>>,
         requests' \in Nat /\ requests <= requests',
         \/ driver' = driver /\ UNCHANGED <<outcome, verdict>>
         \/ driver \in {"probing", "sending"} /\ driver' \in {"sending", "awaiting"}
  PROVE  CodexInv'
<1>1. CodexScript'
  <2>1. CodexScript /\ requests \in Nat
    BY DEF CodexInv, CodexTyped
  <2>2. ASSUME NEW i \in 1..Len(script), script[i].kind = "reply"
        PROVE  script[i].id \in 1..requests'
    BY <2>1, <2>2 DEF CodexScript
  <2> QED BY <2>1, <2>2 DEF CodexScript
<1>2. QueueState' /\ \A o : Concluded(o)' <=> Concluded(o)
  BY StateKeeps DEF CodexInv, CodexTyped
<1>3. EndState'
  BY <1>2 DEF CodexInv, EndState
<1> QED BY <1>1, <1>2, <1>3 DEF CodexInv

LEMMA ProcessInv ==
  ASSUME CodexInv,
         \/ ServerExits \/ ServerOutputCloses \/ ServerPipesClose
         \/ CodexDeadlinePasses \/ GraceEnds
  PROVE  CodexInv'
<1> USE DEF ServerExits, ServerOutputCloses, ServerPipesClose, CodexDeadlinePasses, GraceEnds,
            Exits, OutputCloses, PipesClose, DeadlinePasses, codex_vars
<1>1. UNCHANGED <<provider, outcome, reported, script, read>>
        /\ UNCHANGED <<driver, resuming, cwd, requests, queue, final_text, verdict>>
  OBVIOUS
<1>2. /\ late' \in BOOLEAN /\ eof' \in BOOLEAN
      /\ proc' \in {"none", "running", "killed", "exited", "closed"}
  BY DEF CodexInv, CodexTyped, SeamTypes
<1>3. CodexTyped'
  BY <1>1, <1>2 DEF CodexInv, CodexTyped, SeamTypes, Queued, Undecided
<1> QED BY <1>1, <1>3, QuietInv DEF CodexInv, CodexTyped

(* The turn ends, or is given up, before it was started: nothing is promised. *)
LEMMA UnstartedInv ==
  ASSUME CodexInv, CodexTyped', CodexScript', ~Started', driver' \in {"finishing", "returned"}
  PROVE  CodexInv'
  BY DEF CodexInv, QueueState, EndState, Concluded

LEMMA StartInv ==
  ASSUME CodexInv, Refuses \/ SpawnServer \/ SendRequest \/ CwdFails \/ SendBreaks
  PROVE  CodexInv'
<1>1. /\ CodexTyped /\ CodexScript /\ QueueState /\ driver \in {"probing", "sending"} /\ ~Started
      /\ requests < 3 /\ requests \in Nat
  <2>1. CodexTyped /\ CodexScript /\ QueueState /\ driver \in {"probing", "sending"}
    BY DEF CodexInv, Refuses, SpawnServer, SendRequest, CwdFails, SendBreaks, DriverAt
  <2>2. ~Started
    BY <2>1 DEF QueueState
  <2>3. requests < 3 /\ requests \in Nat
    BY <2>1 DEF CodexTyped
  <2> QED BY <2>1, <2>2, <2>3
<1>2. UNCHANGED <<provider, reported, late, eof, script, read, resuming, cwd, queue, final_text>>
  BY DEF Refuses, SpawnServer, SendRequest, CwdFails, SendBreaks, seam_vars
<1>3. Fails("Config") \in Outcome /\ Fails("HarnessDied") \in Outcome
        /\ Fails("Config").kind = "Config" /\ Fails("HarnessDied").kind = "HarnessDied"
  BY FailsType DEF ErrorKind
<1>4. CASE Refuses
  <2>1. CodexTyped'
    BY <1>1, <1>2, <1>3, <1>4 DEF CodexTyped, SeamTypes, Queued, Undecided, Refuses
  <2> QED BY <1>1, <1>2, <1>4, <2>1, UnstartedInv DEF Refuses, CodexScript, Started
<1>5. CASE SpawnServer
  <2>1. CodexTyped'
    BY <1>1, <1>2, <1>5 DEF CodexTyped, SeamTypes, Queued, Undecided, SpawnServer
  <2> QED BY <1>1, <1>2, <1>5, <2>1, QuietInv DEF SpawnServer
<1>6. CASE SendRequest
  <2>1. CodexTyped'
    BY <1>1, <1>2, <1>6 DEF CodexTyped, SeamTypes, Queued, Undecided, SendRequest,
       seam_vars, DriverAt
  <2> QED BY <1>1, <1>2, <1>6, <2>1, QuietInv DEF SendRequest
<1>7. CASE SendBreaks
  <2>1. CodexTyped'
    BY <1>1, <1>2, <1>3, <1>7
    DEF CodexTyped, SeamTypes, Queued, Undecided, SendBreaks, Abandon, Killed, DriverAt
  <2> QED BY <1>1, <1>2, <1>7, <2>1, UnstartedInv DEF SendBreaks, Abandon, CodexScript, Started
<1>8. CASE CwdFails
  <2>1. CodexTyped'
    BY <1>1, <1>2, <1>3, <1>8
    DEF CodexTyped, SeamTypes, Queued, Undecided, CwdFails, Killed, DriverAt
  <2> QED BY <1>1, <1>2, <1>8, <2>1, UnstartedInv DEF CwdFails, CodexScript, Started
<1> QED BY <1>4, <1>5, <1>6, <1>7, <1>8

-----------------------------------------------------------------------------
(* Codex: steps that read while a reply is awaited. *)

(* A line that tells nothing of the turn leaves the figures what they were.  *)
LEMMA ReadsQuietly ==
  ASSUME CodexInv, script' = script, queue' = queue, read' = read + 1, read + 1 \in 1..Len(script),
         script[read + 1].kind \notin {"usage", "text", "completed"},
         final_text' = final_text, reported' = reported
  PROVE  /\ Queued' = Queued
         /\ \A kind \in {"usage", "text", "completed"} : Handled(kind)' = Handled(kind)
         /\ driver' \in {"probing", "sending", "awaiting", "looping"}
              /\ (driver' # "looping" => ~Started' /\ driver # "looping")
              /\ driver \in {"probing", "sending", "awaiting", "looping"}
            => QueueState'
<1>1. read \in Nat /\ \A h \in 1..read + 1 : h \in 1..read \/ h = read + 1
  BY DEF CodexInv, CodexTyped, SeamTypes
<1>2. Queued' = Queued /\ \A q \in Queued : q \in 1..read
  BY DEF Queued, CodexInv, CodexTyped
<1>3. \A kind \in {"usage", "text", "completed"} : Lines(kind)' = Lines(kind)
  BY <1>1 DEF Lines
<1>4. \A kind \in {"usage", "text", "completed"} : Handled(kind)' = Handled(kind)
  BY <1>2, <1>3 DEF Handled
<1>5. ASSUME driver' \in {"probing", "sending", "awaiting", "looping"},
             driver' # "looping" => ~Started' /\ driver # "looping",
             driver \in {"probing", "sending", "awaiting", "looping"}
      PROVE  QueueState'
  <2>1. QueueState
    BY DEF CodexInv
  <2>2. \A h \in 1..read' : script'[h].kind \in {"usage", "text", "completed"} => h \in 1..read
    BY <1>1
  <2> QED BY <1>2, <1>4, <1>5, <2>1, <2>2 DEF QueueState
<1> QED BY <1>2, <1>4, <1>5

LEMMA AwaitedReplyInv ==
  ASSUME CodexInv, AwaitedReply
  PROVE  CodexInv'
<1> DEFINE line == script[read + 1]
<1>1. /\ CodexTyped /\ CodexScript /\ QueueState /\ driver = "awaiting" /\ ~Started
      /\ read < Len(script) /\ read \in Nat /\ Len(script) \in Nat /\ read' = read + 1
      /\ read + 1 \in 1..Len(script) /\ requests \in 1..3
      /\ line.kind \in {"reply", "ask"} /\ line \in ServerLine
      /\ UNCHANGED <<provider, outcome, reported, late, eof, script, resuming, cwd, requests, queue, final_text>>
  <2>1. /\ CodexTyped /\ CodexScript /\ QueueState /\ driver = "awaiting"
        /\ InPipe > 0 /\ read' = read + 1 /\ line.kind \in {"reply", "ask"} /\ line.id = requests
        /\ UNCHANGED <<provider, outcome, reported, late, eof, script, resuming, cwd, requests, queue, final_text>>
    BY DEF CodexInv, AwaitedReply, DriverAt
  <2>2. ~Started
    BY <2>1 DEF QueueState
  <2>3. read < Len(script) /\ read \in Nat /\ Len(script) \in Nat /\ script \in Seq(ServerLine)
    BY <2>1 DEF CodexTyped, SeamTypes, InPipe
  <2>4. read + 1 \in 1..Len(script) /\ line \in ServerLine
    BY <2>3
  <2>5. requests \in 0..3
    BY <2>1 DEF CodexTyped
  <2>6. requests # 0
    BY <2>1 DEF CodexTyped
  <2> QED BY <2>1, <2>2, <2>3, <2>4, <2>5, <2>6
<1>2. CodexScript'
  BY <1>1 DEF CodexScript
<1>3. CASE line.kind = "reply" /\ line.says = "good"
  <2>1. driver' = (IF requests = 3 THEN "looping" ELSE "sending") /\ UNCHANGED <<proc, verdict>>
    BY <1>3 DEF AwaitedReply
  <2>2. CodexTyped'
    <3> HIDE DEF line
    <3>1. SeamTypes' /\ Queued' = Queued /\ (Undecided' <=> Undecided)
      BY <1>1, <2>1 DEF CodexTyped, SeamTypes, Queued, Undecided
    <3> QED BY <1>1, <2>1, <3>1 DEF CodexTyped
  <2>3. requests # 3 => ~Started'
    <3> SUFFICES ASSUME requests # 3, NEW i \in 1..read + 1, script[i] = Reply(3, "good") PROVE FALSE
      BY <1>1 DEF Started
    <3>1. script[i].id = 3 /\ script[i].kind = "reply" /\ i \in 1..Len(script)
      BY <1>1, ServerLineKinds
    <3> QED BY <1>1, <3>1 DEF CodexScript
  <2>4. QueueState'
    BY <1>1, <2>1, <2>3, ReadsQuietly
  <2> QED BY <1>2, <2>1, <2>2, <2>4 DEF CodexInv, EndState
<1>4. CASE ~(line.kind = "reply" /\ line.says = "good")
  <2>1. PICK kind \in {"Config", "Tooling", "SessionNotFound"} : Abandon(kind)
    BY <1>4 DEF AwaitedReply, RpcErrorOf
  <2>2. Fails(kind) \in Outcome /\ Fails(kind).kind # "none"
    BY FailsType DEF ErrorKind
  <2>3. CodexTyped'
    <3>1. driver' = "finishing" /\ verdict' = Fails(kind) /\ proc' = Killed
      BY <2>1 DEF Abandon
    <3>2. Killed \in {"none", "running", "killed", "exited", "closed"}
      BY <1>1 DEF Killed, CodexTyped, SeamTypes
    <3> HIDE DEF line
    <3> QED BY <1>1, <2>2, <3>1, <3>2 DEF CodexTyped, SeamTypes, Queued, Undecided
  <2>4. ~Started'
    <3>1. line # Reply(3, "good")
      BY <1>4, ServerLineKinds
    <3>2. \A i \in 1..read + 1 : i \in 1..read \/ i = read + 1
      BY <1>1
    <3> QED BY <1>1, <3>1, <3>2 DEF Started
  <2> QED BY <1>2, <2>1, <2>3, <2>4, UnstartedInv DEF Abandon
<1> QED BY <1>3, <1>4

LEMMA SetAsideInv ==
  ASSUME CodexInv, SetAside
  PROVE  CodexInv'
<1> DEFINE line == script[read + 1]
<1>1. /\ CodexTyped /\ CodexScript /\ QueueState /\ driver = "awaiting"
      /\ line.kind \notin {"ask", "torn"} /\ (line.kind = "reply" => line.id # requests)
      /\ read' = read + 1 /\ queue' = Append(queue, read + 1)
      /\ UNCHANGED <<provider, outcome, reported, late, eof, script, proc, driver>>
      /\ UNCHANGED <<resuming, cwd, requests, final_text, verdict>>
  BY DEF CodexInv, SetAside, DriverAt
<1>2. /\ read \in Nat /\ Len(script) \in Nat /\ read + 1 \in 1..Len(script) /\ requests \in 0..3
      /\ queue \in Seq(Nat) /\ Len(queue) \in Nat /\ \A q \in Queued : q \in 1..read
  BY DEF CodexInv, CodexTyped, SeamTypes, SetAside, InPipe
<1>3. /\ queue' \in Seq(Nat) /\ Len(queue') = Len(queue) + 1 /\ queue'[Len(queue) + 1] = read + 1
      /\ \A k \in 1..Len(queue) : queue'[k] = queue[k]
  BY <1>1, <1>2
<1>4. Queued' = Queued \cup {read + 1}
  <2>1. Queued' = {queue'[k] : k \in 1..Len(queue) + 1}
    BY <1>3 DEF Queued
  <2>2. \A k \in 1..Len(queue) + 1 : k \in 1..Len(queue) \/ k = Len(queue) + 1
    BY <1>2
  <2>3. \A k \in 1..Len(queue) : k \in 1..Len(queue) + 1
    BY <1>2
  <2>4. Len(queue) + 1 \in 1..Len(queue) + 1
    BY <1>2
  <2> QED BY <1>3, <2>1, <2>2, <2>3, <2>4 DEF Queued
<1>5. CodexTyped'
  BY <1>1, <1>2, <1>3, <1>4 DEF CodexTyped, SeamTypes, Undecided
<1>6. CodexScript'
  BY <1>1 DEF CodexScript
<1>7. \A kind : Handled(kind)' = Handled(kind)
  <2>1. \A h \in 1..read + 1 : h \in 1..read \/ h = read + 1
    BY <1>2
  <2>2. \A h \in 1..read : h \in 1..read + 1 /\ h # read + 1
    BY <1>2
  <2> QED BY <1>1, <1>4, <2>1, <2>2 DEF Handled, Lines
<1>8. ~Started'
  <2> SUFFICES ASSUME NEW i \in 1..read + 1, script[i] = Reply(3, "good") PROVE FALSE
    BY <1>1 DEF Started
  <2>1. script[i].id = 3 /\ script[i].kind = "reply" /\ i \in 1..Len(script)
    BY <1>2, ServerLineKinds
  <2>2. i = read + 1
    BY <1>1, <1>2 DEF QueueState, Started
  <2> QED BY <1>1, <1>2, <2>1, <2>2 DEF CodexScript
<1>9. QueueState'
  <2>1. \A k, l \in 1..Len(queue') : k < l => queue'[k] < queue'[l]
    <3>1. \A k \in 1..Len(queue) : queue[k] \in Queued
      BY DEF Queued
    <3>2. \A k \in 1..Len(queue) : queue[k] < read + 1
      BY <1>2, <3>1
    <3>3. \A k \in 1..Len(queue) + 1 : k \in 1..Len(queue) \/ k = Len(queue) + 1
      BY <1>2
    <3>4. \A k, l \in 1..Len(queue) : k < l => queue[k] < queue[l]
      BY <1>1 DEF QueueState
    <3>5. ASSUME NEW k \in 1..Len(queue) + 1, NEW l \in 1..Len(queue) + 1, k < l
          PROVE  queue'[k] < queue'[l]
      <4>1. k \in 1..Len(queue)
        BY <1>2, <3>5
      <4>2. CASE l \in 1..Len(queue)
        BY <1>3, <3>4, <3>5, <4>1, <4>2
      <4>3. CASE l = Len(queue) + 1
        BY <1>3, <3>2, <4>1, <4>3
      <4> QED BY <3>3, <4>2, <4>3
    <3> QED BY <1>3, <3>5
  <2>2. \A q \in Queued' : script'[q].kind \notin {"ask", "torn"}
    BY <1>1, <1>4 DEF QueueState
  <2>3. ASSUME NEW h \in 1..read', script'[h].kind \in {"usage", "text", "completed"},
               h \notin Queued'
        PROVE  \A q \in Queued' : h < q
    BY <1>1, <1>2, <1>4, <2>3 DEF QueueState
  <2> QED BY <1>1, <1>7, <1>8, <2>1, <2>2, <2>3 DEF QueueState
<1> QED BY <1>1, <1>5, <1>6, <1>9 DEF CodexInv, EndState

-----------------------------------------------------------------------------
(* Codex: the turn loop, and the ways a turn is given up. *)

\* With nothing set aside and the turn's end not read, any error will do.
LEMMA NothingLeftOver ==
  ASSUME CodexInv, driver = "looping", queue = <<>>
  PROVE  \A o : Concluded(o)
<1>1. Queued = {} /\ Lines("completed") = {} /\ reported = Latest(Handled("usage"))
  <2>1. Queued = {}
    BY DEF Queued
  <2> QED BY <2>1 DEF CodexInv, QueueState, Handled
<1>2. Before("usage") = Handled("usage")
  BY <1>1 DEF Before, Handled
<1> QED BY <1>1, <1>2 DEF Concluded

\* A server's request, or a torn line, is never set aside: it is the next line.
LEMMA ReadFromWire ==
  ASSUME CodexInv, driver \in {"awaiting", "looping"},
         NEW i, i = (IF driver = "awaiting" THEN read + 1 ELSE NextMessage),
         Takes(i), script[i].kind \in {"ask", "torn"}
  PROVE  /\ i = read + 1 /\ read' = read + 1 /\ queue' = queue
         /\ read + 1 \in 1..Len(script)
         /\ driver = "looping" => queue = <<>>
<1>1. read \in Nat /\ Len(script) \in Nat /\ queue \in Seq(Nat) /\ QueueState
  BY DEF CodexInv, CodexTyped, SeamTypes
<1>2. i = read + 1 /\ (driver = "looping" => queue = <<>>)
  <2>1. CASE driver = "looping" /\ queue # <<>>
    <3>1. i = queue[1] /\ 1 \in 1..Len(queue)
      BY <1>1, <2>1 DEF NextMessage
    <3>2. i \in Queued
      BY <3>1 DEF Queued
    <3> QED BY <1>1, <2>1, <3>2 DEF QueueState
  <2>2. CASE ~(driver = "looping" /\ queue # <<>>)
    BY <2>2 DEF NextMessage
  <2> QED BY <2>1, <2>2
<1>3. read + 1 > read /\ read + 1 <= Len(script)
  BY <1>1, <1>2 DEF Takes
<1>4. read' = read + 1 /\ queue' = queue
  BY <1>2, <1>3 DEF Takes
<1>5. read + 1 \in 1..Len(script)
  BY <1>1, <1>3
<1> QED BY <1>2, <1>4, <1>5

\* Giving up for an error, after a line that told nothing or none at all.
LEMMA AbandonInv ==
  ASSUME CodexInv, driver \in {"awaiting", "looping"}, driver = "looping" => queue = <<>>,
         NEW kind \in ErrorKind, Abandon(kind), script' = script, queue' = queue,
         \/ read' = read
         \/ /\ read' = read + 1 /\ read + 1 \in 1..Len(script)
            /\ script[read + 1].kind \in {"ask", "torn"},
         UNCHANGED <<provider, outcome, reported, late, eof, resuming, cwd, requests, final_text>>
  PROVE  CodexInv'
<1>1. /\ driver' = "finishing" /\ verdict' = Fails(kind) /\ proc' = Killed
      /\ Fails(kind) \in Outcome /\ Fails(kind).kind # "none"
  BY FailsType DEF Abandon
<1>2. Killed \in {"none", "running", "killed", "exited", "closed"}
  BY DEF Killed, CodexInv, CodexTyped, SeamTypes
<1>3. CodexTyped'
  BY <1>1, <1>2 DEF CodexInv, CodexTyped, SeamTypes, Queued, Undecided
<1>4. CodexScript'
  BY DEF CodexInv, CodexScript
<1>5. read \in Nat
  BY DEF CodexInv, CodexTyped, SeamTypes
<1>6. CASE driver = "awaiting"
  <2>1. ~Started
    BY <1>6 DEF CodexInv, QueueState
  <2>2. ~Started'
    <3>1. read' = read + 1 => script[read + 1] # Reply(3, "good")
      BY <1>5, ServerLineKinds
    <3>2. \A i \in 1..read + 1 : i \in 1..read \/ i = read + 1
      BY <1>5
    <3> QED BY <2>1, <3>1, <3>2 DEF Started
  <2> QED BY <1>1, <1>3, <1>4, <2>2, UnstartedInv
<1>7. CASE driver = "looping"
  <2>1. Lines("completed") = {} /\ Before("usage") = Lines("usage")
          /\ reported = Latest(Lines("usage"))
    <3>1. Queued = {}
      BY <1>7 DEF Queued
    <3>2. Handled("usage") = Lines("usage") /\ Handled("completed") = Lines("completed")
      BY <3>1 DEF Handled
    <3> QED BY <1>7, <3>2 DEF CodexInv, QueueState, Before
  <2>2. Lines("completed")' = Lines("completed") /\ Lines("usage")' = Lines("usage")
    <3>1. \A i \in 1..read + 1 : i \in 1..read \/ i = read + 1
      BY <1>5
    <3>2. \A i \in 1..read : i \in 1..read + 1
      BY <1>5
    <3> QED BY <3>1, <3>2 DEF Lines
  <2>3. Before("usage")' = Lines("usage")'
    BY <2>1, <2>2 DEF Before
  <2>4. \A o : Concluded(o)'
    BY <2>1, <2>2, <2>3 DEF Concluded
  <2> QED BY <1>1, <1>3, <1>4, <2>4 DEF CodexInv, QueueState, EndState
<1> QED BY <1>6, <1>7

LEMMA RefuseAskInv ==
  ASSUME CodexInv, RefuseAsk
  PROVE  CodexInv'
<1> DEFINE i == IF driver = "awaiting" THEN read + 1 ELSE NextMessage
<1>1. /\ driver \in {"awaiting", "looping"} /\ Takes(i) /\ script[i].kind = "ask"
      /\ UNCHANGED <<provider, outcome, reported, late, eof, script, resuming, cwd, requests, final_text>>
      /\ \/ UNCHANGED <<driver, verdict, proc>>
         \/ Abandon("HarnessDied")
  BY DEF RefuseAsk, DriverAt
<1>2. /\ i = read + 1 /\ read' = read + 1 /\ queue' = queue /\ read + 1 \in 1..Len(script)
      /\ driver = "looping" => queue = <<>>
  BY <1>1, ReadFromWire
<1> HIDE DEF i
<1>3. CASE UNCHANGED <<driver, verdict, proc>>
  <2>1. CodexTyped'
    <3>1. CodexTyped /\ read + 1 \in 0..Len(script)
      BY <1>2 DEF CodexInv, CodexTyped, SeamTypes
    <3>2. Queued' = Queued
      BY <1>2 DEF Queued
    <3> QED BY <1>1, <1>2, <1>3, <3>1, <3>2 DEF CodexTyped, SeamTypes, Undecided
  <2>2. CodexScript'
    BY <1>1 DEF CodexInv, CodexScript
  <2>3. driver # "looping" => ~Started'
    <3>1. script[read + 1] # Reply(3, "good")
      BY <1>1, <1>2, ServerLineKinds
    <3>2. \A k \in 1..read + 1 : k \in 1..read \/ k = read + 1
      BY DEF CodexInv, CodexTyped, SeamTypes
    <3> QED BY <1>1, <1>2, <3>1, <3>2 DEF Started, CodexInv, QueueState
  <2>4. QueueState'
    BY <1>1, <1>2, <1>3, <2>3, ReadsQuietly
  <2> QED BY <1>1, <1>3, <2>1, <2>2, <2>4 DEF CodexInv, EndState
<1>4. CASE Abandon("HarnessDied")
  BY <1>1, <1>2, <1>4, AbandonInv DEF ErrorKind
<1> QED BY <1>1, <1>3, <1>4

LEMMA ReadsTornInv ==
  ASSUME CodexInv, ReadsTorn
  PROVE  CodexInv'
<1> DEFINE i == IF driver = "awaiting" THEN read + 1 ELSE NextMessage
<1>1. /\ driver \in {"awaiting", "looping"} /\ Takes(i) /\ script[i].kind = "torn"
      /\ UNCHANGED <<provider, outcome, reported, late, eof, script, resuming, cwd, requests, final_text>>
      /\ Abandon("Config")
  BY ServerLineKinds DEF ReadsTorn, DriverAt
<1>2. /\ i = read + 1 /\ read' = read + 1 /\ queue' = queue /\ read + 1 \in 1..Len(script)
      /\ driver = "looping" => queue = <<>>
  BY <1>1, ReadFromWire
<1> HIDE DEF i
<1> QED BY <1>1, <1>2, AbandonInv DEF ErrorKind

LEMMA EofInv ==
  ASSUME CodexInv, Eof
  PROVE  CodexInv'
  BY AbandonInv DEF Eof, DriverAt, ErrorKind

(* The next message of a started turn: behind everything that was handled,   *)
(* ahead of everything still set aside.                                      *)
LEMMA TakesNext ==
  ASSUME CodexInv, driver = "looping", NEW i, i = NextMessage, Takes(i), script' = script
  PROVE  /\ i \in 1..Len(script) /\ i \in 1..read' /\ read <= read'
         /\ read' \in 0..Len(script) /\ queue' \in Seq(Nat)
         /\ \A k, l \in 1..Len(queue') : k < l => queue'[k] < queue'[l]
         /\ Queued' = Queued \ {i}
         /\ \A q \in Queued' : i < q
         /\ \A h \in 1..read' : h \in 1..read \/ h = i
         /\ \A h \in 1..read : script[h].kind \in {"usage", "text", "completed"}
                                 /\ h \notin Queued => h < i
         /\ \A kind \in {"usage", "text", "completed"} :
              Handled(kind)' = Handled(kind) \cup {k \in {i} : script[k].kind = kind}
<1>1. /\ read \in Nat /\ Len(script) \in Nat /\ read <= Len(script) /\ queue \in Seq(Nat)
      /\ QueueState /\ \A q \in Queued : q \in 1..read
  BY DEF CodexInv, CodexTyped, SeamTypes
<1>2. CASE queue = <<>>
  <2>1. i = read + 1 /\ i <= Len(script) /\ read' = i /\ queue' = queue /\ Queued = {}
    BY <1>1, <1>2 DEF NextMessage, Takes, Queued
  <2>2. Queued' = {}
    BY <1>2, <2>1 DEF Queued
  <2>3. \A h \in 1..read + 1 : h \in 1..read \/ h = i
    BY <1>1, <2>1
  <2>4. \A h \in 1..read : h \in 1..read + 1 /\ h < i
    BY <1>1, <2>1
  <2>5. i \in 1..Len(script) /\ i \in 1..read' /\ read <= read' /\ read' \in 0..Len(script)
    BY <1>1, <2>1
  <2>6. \A kind \in {"usage", "text", "completed"} :
          Handled(kind)' = Handled(kind) \cup {k \in {i} : script[k].kind = kind}
    <3>1. \A kind : Handled(kind)' = {h \in 1..read' : script[h].kind = kind}
      BY <2>2 DEF Handled, Lines
    <3>2. \A kind : Handled(kind) = {h \in 1..read : script[h].kind = kind}
      BY <2>1 DEF Handled, Lines
    <3>3. ASSUME NEW kind
          PROVE  {h \in 1..read + 1 : script[h].kind = kind} =
                   {h \in 1..read : script[h].kind = kind} \cup {k \in {i} : script[k].kind = kind}
      BY <1>1, <2>1, <2>3, <2>4
    <3> QED BY <2>1, <3>1, <3>2, <3>3
  <2> QED BY <1>1, <1>2, <2>1, <2>2, <2>3, <2>4, <2>5, <2>6 DEF QueueState
<1>3. CASE queue # <<>>
  <2>1. /\ i = queue[1] /\ Len(queue) \in Nat \ {0} /\ i \in Queued
    <3>1. i = queue[1] /\ Len(queue) \in Nat \ {0}
      BY <1>1, <1>3 DEF NextMessage
    <3>2. 1 \in 1..Len(queue)
      BY <3>1
    <3> QED BY <3>1, <3>2 DEF Queued
  <2>2. i \in 1..read
    BY <1>1, <2>1
  <2>3. read' = read /\ queue' = Tail(queue)
    BY <1>1, <2>2 DEF Takes
  <2>4. /\ queue' \in Seq(Nat) /\ Len(queue') = Len(queue) - 1
        /\ \A k \in 1..Len(queue) - 1 : queue'[k] = queue[k + 1]
    BY <1>1, <1>3, <2>3
  <2>5. \A k, l \in 1..Len(queue) : k < l => queue[k] < queue[l]
    BY <1>1 DEF QueueState
  <2>6. \A k, l \in 1..Len(queue') : k < l => queue'[k] < queue'[l]
    <3> SUFFICES ASSUME NEW k \in 1..Len(queue) - 1, NEW l \in 1..Len(queue) - 1, k < l
                 PROVE  queue'[k] < queue'[l]
      BY <2>4
    <3>1. k + 1 \in 1..Len(queue) /\ l + 1 \in 1..Len(queue) /\ k + 1 < l + 1
      BY <2>1
    <3> QED BY <2>4, <2>5, <3>1
  <2>7. \A q \in Queued' : i < q /\ q \in Queued
    <3> SUFFICES ASSUME NEW k \in 1..Len(queue) - 1 PROVE i < queue'[k] /\ queue'[k] \in Queued
      BY <2>4 DEF Queued
    <3>1. k + 1 \in 1..Len(queue) /\ 1 \in 1..Len(queue) /\ 1 < k + 1
      BY <2>1
    <3>2. queue'[k] = queue[k + 1]
      BY <2>4
    <3> QED BY <2>1, <2>5, <3>1, <3>2 DEF Queued
  <2>8. \A q \in Queued : q = i \/ q \in Queued'
    <3> SUFFICES ASSUME NEW k \in 1..Len(queue), k # 1 PROVE queue[k] \in Queued'
      BY <2>1 DEF Queued
    <3>1. k - 1 \in 1..Len(queue) - 1 /\ (k - 1) + 1 = k
      BY <2>1
    <3>2. queue'[k - 1] = queue[k]
      BY <2>4, <3>1
    <3> QED BY <2>4, <3>1, <3>2 DEF Queued
  <2>9. Queued' = Queued \ {i}
    <3>1. i \notin Queued'
      BY <2>2, <2>7
    <3> QED BY <2>7, <2>8, <3>1
  <2>10. \A kind \in {"usage", "text", "completed"} :
           Handled(kind)' = Handled(kind) \cup {k \in {i} : script[k].kind = kind}
    BY <2>1, <2>2, <2>3, <2>9 DEF Handled, Lines
  <2>11. i \in 1..Len(script) /\ i \in 1..read' /\ read <= read' /\ read' \in 0..Len(script)
    BY <1>1, <2>2, <2>3
  <2>12. \A h \in 1..read : script[h].kind \in {"usage", "text", "completed"}
                              /\ h \notin Queued => h < i
    BY <1>1, <2>1 DEF QueueState
  <2> QED BY <2>3, <2>4, <2>6, <2>7, <2>9, <2>10, <2>11, <2>12
<1> QED BY <1>2, <1>3

\* A figure or a text that is handled is the latest of its kind.
LEMMA LatestHandled ==
  ASSUME CodexInv, driver = "looping", NEW i \in 1..Len(script),
         NEW kind \in {"usage", "text"},
         \A h \in 1..read : script[h].kind \in {"usage", "text", "completed"}
                              /\ h \notin Queued => h < i
  PROVE  Latest(Handled(kind) \cup {i}) = i
<1>1. Handled(kind) \cup {i} \in SUBSET Nat
  BY DEF Handled, Lines
<1>2. \A j \in Handled(kind) \cup {i} : j <= i
  BY DEF Handled, Lines
<1> QED BY <1>1, <1>2, LatestIs

LEMMA HandleNoticeInv ==
  ASSUME CodexInv, HandleNotice
  PROVE  CodexInv'
<1> DEFINE i == NextMessage
<1>1. /\ CodexTyped /\ CodexScript /\ QueueState /\ driver = "looping" /\ Takes(i)
      /\ script[i].kind \in {"usage", "text", "noise", "reply"}
      /\ reported' = (IF script[i] = UsageUpdated THEN i ELSE reported)
      /\ final_text' = (IF script[i] = AgentMessage THEN i ELSE final_text)
      /\ UNCHANGED <<provider, outcome, late, eof, script, proc, driver, resuming, cwd, requests, verdict>>
  BY DEF CodexInv, HandleNotice, DriverAt
<1>2. /\ i \in 1..Len(script) /\ i \in 1..read' /\ read <= read'
      /\ read' \in 0..Len(script) /\ queue' \in Seq(Nat)
      /\ \A k, l \in 1..Len(queue') : k < l => queue'[k] < queue'[l]
      /\ Queued' = Queued \ {i}
      /\ \A q \in Queued' : i < q
      /\ \A h \in 1..read' : h \in 1..read \/ h = i
      /\ \A h \in 1..read : script[h].kind \in {"usage", "text", "completed"}
                              /\ h \notin Queued => h < i
      /\ \A kind \in {"usage", "text", "completed"} :
           Handled(kind)' = Handled(kind) \cup {k \in {i} : script[k].kind = kind}
  BY <1>1, TakesNext
<1> HIDE DEF i
<1>3. script[i] \in ServerLine /\ (script[i] = UsageUpdated <=> script[i].kind = "usage")
        /\ (script[i] = AgentMessage <=> script[i].kind = "text")
  <2>1. script[i] \in ServerLine
    BY <1>1, <1>2 DEF CodexTyped
  <2> QED BY <2>1, ServerLineMeaning
<1>4. CodexTyped'
  <2>1. read \in Nat /\ read' \in Nat /\ final_text \in 0..read /\ reported \in 0..read
          /\ \A q \in Queued : q \in 1..read
    BY <1>1, <1>2 DEF CodexTyped, SeamTypes
  <2>2. \A q \in Queued' : q \in 1..read'
    BY <1>2, <2>1
  <2>3. final_text' \in 0..read' /\ reported' \in 0..read' /\ reported' \in 0..Len(script)
    BY <1>1, <1>2, <2>1 DEF CodexTyped, SeamTypes
  <2> QED BY <1>1, <1>2, <2>2, <2>3 DEF CodexTyped, SeamTypes, Undecided
<1>5. QueueState'
  <2>1. Handled("completed")' = {}
    BY <1>1, <1>2 DEF QueueState
  <2>2. final_text' = Latest(Handled("text")')
    <3>1. CASE script[i].kind = "text"
      <4>1. Handled("text")' = Handled("text") \cup {i}
        BY <1>2, <3>1
      <4> QED BY <1>1, <1>2, <1>3, <3>1, <4>1, LatestHandled
    <3>2. CASE script[i].kind # "text"
      <4>1. Handled("text")' = Handled("text")
        BY <1>2, <3>2
      <4> QED BY <1>1, <1>3, <3>2, <4>1 DEF QueueState
    <3> QED BY <3>1, <3>2
  <2>3. reported' = Latest(Handled("usage")')
    <3>1. CASE script[i].kind = "usage"
      <4>1. Handled("usage")' = Handled("usage") \cup {i}
        BY <1>2, <3>1
      <4> QED BY <1>1, <1>2, <1>3, <3>1, <4>1, LatestHandled
    <3>2. CASE script[i].kind # "usage"
      <4>1. Handled("usage")' = Handled("usage")
        BY <1>2, <3>2
      <4> QED BY <1>1, <1>3, <3>2, <4>1 DEF QueueState
    <3> QED BY <3>1, <3>2
  <2>4. \A q \in Queued' : script'[q].kind \notin {"ask", "torn"}
    BY <1>1, <1>2 DEF QueueState
  <2>5. ASSUME NEW h \in 1..read', script'[h].kind \in {"usage", "text", "completed"},
               h \notin Queued'
        PROVE  \A q \in Queued' : h < q
    BY <1>1, <1>2, <2>5 DEF QueueState
  <2>6. Latest(Handled("text"))' = Latest(Handled("text")')
          /\ Latest(Handled("usage"))' = Latest(Handled("usage")')
    BY DEF Latest
  <2> QED BY <1>1, <1>2, <2>1, <2>2, <2>3, <2>4, <2>5, <2>6 DEF QueueState
<1>6. CodexScript' /\ EndState'
  BY <1>1 DEF CodexScript, EndState
<1> QED BY <1>4, <1>5, <1>6 DEF CodexInv

(* The turn's end: what was handled is what was written before it.           *)
LEMMA HandleCompletedInv ==
  ASSUME CodexInv, HandleCompleted
  PROVE  CodexInv'
<1> DEFINE i == NextMessage
<1>1. /\ CodexTyped /\ CodexScript /\ QueueState /\ driver = "looping" /\ Takes(i)
      /\ script[i].kind = "completed" /\ driver' = "finishing"
      /\ verdict' = (IF script[i].says = "fine" THEN Succeeds(final_text)
                     ELSE Fails(CompletionError(script[i].says)))
      /\ UNCHANGED <<provider, outcome, reported, late, eof, script, proc, resuming, cwd, requests, final_text>>
  BY DEF CodexInv, HandleCompleted, DriverAt
<1>2. /\ i \in 1..Len(script) /\ i \in 1..read' /\ read <= read'
      /\ read' \in 0..Len(script) /\ queue' \in Seq(Nat)
      /\ Queued' = Queued \ {i}
      /\ \A q \in Queued' : i < q
      /\ \A h \in 1..read' : h \in 1..read \/ h = i
      /\ \A h \in 1..read : script[h].kind \in {"usage", "text", "completed"}
                              /\ h \notin Queued => h < i
  BY <1>1, TakesNext
<1> HIDE DEF i
<1>3. read \in Nat /\ read' \in Nat /\ Len(script) \in Nat /\ Len(script) <= MaxLines
        /\ final_text \in 0..read /\ reported \in 0..read /\ \A q \in Queued : q \in 1..read
  BY <1>1, <1>2, MaxLinesIsNatural DEF CodexTyped, SeamTypes
<1>4. verdict' \in Outcome /\ verdict'.kind # "none"
  <2>1. CompletionError(script[i].says) \in {"Tooling", "Config", "Api"}
    BY DEF CompletionError
  <2>2. Fails(CompletionError(script[i].says)) \in Outcome
          /\ Fails(CompletionError(script[i].says)).kind # "none"
    BY <2>1, FailsType DEF ErrorKind
  <2>3. final_text \in 0..MaxLines
    BY <1>2, <1>3, MaxLinesIsNatural
  <2>4. Succeeds(final_text) \in Outcome /\ Succeeds(final_text).kind # "none"
    BY <2>3 DEF Succeeds, Outcome
  <2> QED BY <1>1, <2>2, <2>4
<1>5. CodexTyped'
  <2>1. \A q \in Queued' : q \in 1..read'
    BY <1>2, <1>3
  <2>2. final_text' \in 0..read' /\ reported' \in 0..read' /\ reported' \in 0..Len(script)
    BY <1>1, <1>2, <1>3
  <2> QED BY <1>1, <1>2, <1>4, <2>1, <2>2 DEF CodexTyped, SeamTypes, Undecided
<1>6. Lines("completed")' = {i}
  BY <1>1, <1>2 DEF Lines, CodexScript
<1>7. ASSUME NEW kind \in {"usage", "text"} PROVE Before(kind)' = Handled(kind)
  <2>1. Before(kind)' = {h \in 1..read' : script[h].kind = kind /\ h < i}
    BY <1>1, <1>6 DEF Before, Lines
  <2>2. ASSUME NEW h \in 1..read', script[h].kind = kind, h < i PROVE h \in Handled(kind)
    <3>1. h # i /\ h \in 1..read /\ h \notin Queued'
      BY <1>2, <2>2
    <3> QED BY <1>2, <2>2, <3>1 DEF Handled, Lines
  <2>3. ASSUME NEW h \in Handled(kind) PROVE h \in 1..read' /\ script[h].kind = kind /\ h < i
    BY <1>2, <1>3 DEF Handled, Lines
  <2>4. Handled(kind) \subseteq 1..read'
    BY <2>3
  <2> QED BY <2>1, <2>2, <2>3, <2>4
<1>8. Concluded(verdict)'
  <2>1. Latest(Before("usage"))' = reported /\ Latest(Before("text"))' = final_text
    <3>1. Latest(Before("usage"))' = Latest(Handled("usage"))
            /\ Latest(Before("text"))' = Latest(Handled("text"))
      <4>1. Before("usage")' = Handled("usage") /\ Before("text")' = Handled("text")
        BY <1>7
      <4>2. Latest(Before("usage"))' = Latest(Before("usage")')
              /\ Latest(Before("text"))' = Latest(Before("text")')
        BY DEF Latest
      <4> QED BY <4>1, <4>2
    <3> QED BY <1>1, <3>1 DEF QueueState
  <2> QED BY <1>1, <1>6, <2>1 DEF Concluded
<1>9. CodexScript' /\ QueueState' /\ EndState'
  BY <1>1, <1>8 DEF CodexScript, QueueState, EndState
<1> QED BY <1>5, <1>9 DEF CodexInv

(* The end of the turn, by the end of the process or by the deadline.        *)
LEMMA EndsInv ==
  ASSUME CodexInv, Finish \/ DropTurn
  PROVE  CodexInv'
<1>1. /\ driver' = "returned"
      /\ UNCHANGED <<provider, reported, late, eof, script, read>>
      /\ UNCHANGED <<resuming, cwd, requests, queue, final_text, verdict>>
  BY DEF Finish, DropTurn
<1>2. \A o : Concluded(o)' <=> Concluded(o)
  BY <1>1, StateKeeps
<1>3. Fails("Timeout") \in Outcome /\ Fails("Timeout").kind # "none"
  BY FailsType DEF ErrorKind
<1>4. CodexScript' /\ QueueState'
  BY <1>1 DEF CodexInv, CodexScript, QueueState
<1>5. CASE Finish
  <2>1. driver = "finishing" /\ outcome' = verdict /\ proc' = proc
    BY <1>5 DEF Finish, DriverAt
  <2>2. CodexTyped'
    BY <1>1, <2>1 DEF CodexInv, CodexTyped, SeamTypes, Queued, Undecided
  <2>3. EndState'
    BY <1>1, <1>2, <2>1 DEF CodexInv, EndState
  <2> QED BY <1>4, <2>2, <2>3 DEF CodexInv
<1>6. CASE DropTurn
  <2>1. outcome' = Fails("Timeout") /\ proc' = Killed
    BY <1>6 DEF DropTurn
  <2>2. Killed \in {"none", "running", "killed", "exited", "closed"}
    BY DEF Killed, CodexInv, CodexTyped, SeamTypes
  <2>3. CodexTyped'
    BY <1>1, <1>3, <2>1, <2>2 DEF CodexInv, CodexTyped, SeamTypes, Queued, Undecided
  <2>4. Concluded(Fails("Timeout"))
    <3>1. CASE driver = "awaiting"
      BY <3>1 DEF CodexInv, QueueState, Concluded
    <3>2. CASE driver = "looping"
      BY <1>6, <3>2, NothingLeftOver DEF DropTurn
    <3>3. CASE driver = "finishing"
      BY <3>3 DEF CodexInv, EndState, Concluded
    <3> QED BY <1>6, <3>1, <3>2, <3>3 DEF DropTurn
  <2>5. EndState'
    BY <1>1, <1>2, <2>1, <2>4 DEF EndState
  <2> QED BY <1>4, <2>3, <2>5 DEF CodexInv
<1> QED BY <1>5, <1>6

LEMMA CodexStepInv == CodexInv /\ [CodexNext]_<<seam_vars, codex_vars>> => CodexInv'
<1> SUFFICES ASSUME CodexInv, [CodexNext]_<<seam_vars, codex_vars>> PROVE CodexInv'
  OBVIOUS
<1>1. CASE CodexStep
  BY <1>1, StartInv, AwaitedReplyInv, SetAsideInv, RefuseAskInv, HandleNoticeInv,
     HandleCompletedInv, ReadsTornInv, EofInv, ProcessInv, EndsInv
  DEF CodexStep, VersionRefused, RequestRefused, SpawnFails
<1>2. CASE UNCHANGED <<seam_vars, codex_vars>>
  <2>1. CodexTyped'
    BY <1>2 DEF CodexInv, CodexTyped, SeamTypes, Queued, Undecided, seam_vars, codex_vars
  <2>2. requests \in Nat
    BY DEF CodexInv, CodexTyped
  <2> QED BY <1>2, <2>1, <2>2, QuietInv DEF seam_vars, codex_vars
<1> QED BY <1>1, <1>2, ServerWritesInv, ProcessInv DEF CodexNext

LEMMA CodexInvariant == CodexSpec => []CodexInv
  BY CodexInitInv, CodexStepInv, PTL DEF CodexSpec

-----------------------------------------------------------------------------
(* Codex: what ends a run for good.  A verdict that is not retried is owed to *)
(* a line that was read, or to the working directory.                        *)

BadLine(line) ==
  \/ line.kind = "reply" /\ line.says # "good"
  \/ line.kind = "ask" /\ line.id # 0
  \/ line = Torn
  \/ line.kind = "completed" /\ line.says \in {"unauthorized", "bad_request"}

Owed(o) ==
  o.kind # "ok" /\ ~IsRetryable(o.kind) =>
    (requests = 1 /\ ~cwd) \/ \E i \in 1..read : BadLine(script[i])

DeathState ==
  /\ driver = "probing" => proc = "none"
  /\ Owed(verdict)
  /\ ~Undecided /\ proc # "none" => Owed(outcome)

(* What has been read stays read, and without the directory there is no second *)
(* request.                                                                  *)
LEMMA OwedStays ==
  ASSUME CodexInv, [CodexNext]_<<seam_vars, codex_vars>>
  PROVE  \A o : Owed(o) => Owed(o)'
<1> USE DEF CodexNext, CodexStep, ServerExits, ServerOutputCloses, ServerPipesClose,
            CodexDeadlinePasses, Exits, OutputCloses, PipesClose, DeadlinePasses, VersionRefused,
            RequestRefused, SpawnFails, Refuses, SpawnServer, SendRequest, CwdFails, SendBreaks,
            AwaitedReply, SetAside, RefuseAsk, HandleNotice, HandleCompleted, ReadsTorn, Eof,
            GraceEnds, Finish, DropTurn, seam_vars, codex_vars
<1>1. script \in Seq(ServerLine) /\ Len(script) \in Nat /\ read \in 0..Len(script)
  BY DEF CodexInv, CodexTyped, SeamTypes
<1>2. requests = 1 /\ ~cwd => requests' = 1 /\ ~cwd'
  BY DEF ServerWrites
<1>3. \A i \in 1..read : script'[i] = script[i]
  <2>1. CASE script' = script
    BY <2>1
  <2>2. CASE \E line \in CodexLine : ServerWrites(line)
    <3>1. PICK line \in CodexLine : ServerWrites(line)
      BY <2>2
    <3>2. line \in ServerLine /\ script' = Append(script, line)
      <4>1. script' = Append(script, line)
        BY <3>1 DEF ServerWrites, Writes
      <4>2. \A k \in 1..requests : k \in 1..3
        BY DEF CodexInv, CodexTyped, CodexTypes
      <4>3. line \in ServerLine
        BY <4>2 DEF CodexLine, ServerLine
      <4> QED BY <4>1, <4>3
    <3> QED BY <1>1, <3>2, AppendLine
  <2> QED BY <2>1, <2>2
<1>4. read' \in Nat /\ read <= read'
  <2>1. NextMessage \in Nat /\ read \in Nat
    BY <1>1 DEF NextMessage, CodexInv, CodexTyped
  <2>2. ASSUME NEW i \in Nat, Takes(i) PROVE read' \in Nat /\ read <= read'
    BY <2>1, <2>2 DEF Takes
  <2>3. CASE RefuseAsk \/ ReadsTorn \/ HandleNotice \/ HandleCompleted
    BY <2>1, <2>2, <2>3
  <2>4. CASE AwaitedReply \/ SetAside
    BY <2>1, <2>4
  <2>5. CASE read' = read
    BY <2>1, <2>5
  <2> QED BY <2>3, <2>4, <2>5 DEF ServerWrites, Writes
<1>5. \A i \in 1..read : i \in 1..read'
  BY <1>1, <1>4
<1> QED BY <1>2, <1>3, <1>5 DEF Owed

(* The verdict: settled by the turn's end, or by an error that a line told or *)
(* that is retried.                                                          *)
LEMMA VerdictOwed ==
  ASSUME CodexInv, DeathState, [CodexNext]_<<seam_vars, codex_vars>>
  PROVE  Owed(verdict)'
<1>1. \A o : Owed(o) => Owed(o)'
  BY OwedStays
<1>2. CASE verdict' = verdict
  BY <1>1, <1>2 DEF DeathState, Owed
<1>3. ASSUME NEW kind, Abandon(kind), IsRetryable(kind) PROVE Owed(verdict)'
  BY <1>3 DEF Abandon, Owed, Fails
<1>4. ASSUME NEW i \in 1..read', BadLine(script[i]), script' = script
      PROVE  Owed(verdict)'
  BY <1>4 DEF Owed
<1>5. CASE AwaitedReply
  <2> DEFINE line == script[read + 1]
  <2>1. /\ driver = "awaiting" /\ read + 1 \in 1..read' /\ script' = script
        /\ line.kind \in {"reply", "ask"} /\ line.id = requests
    BY <1>5 DEF AwaitedReply, DriverAt, InPipe, CodexInv, CodexTyped, SeamTypes
  <2>2. requests # 0
    BY <2>1 DEF CodexInv, CodexTyped
  <2>3. CASE line.kind = "reply" /\ line.says = "good"
    <3>1. verdict' = verdict
      BY <1>5, <2>3 DEF AwaitedReply
    <3> QED BY <1>2, <3>1
  <2>4. CASE ~(line.kind = "reply" /\ line.says = "good")
    <3>1. BadLine(line)
      BY <2>1, <2>2, <2>4 DEF BadLine
    <3> QED BY <1>4, <2>1, <3>1
  <2> QED BY <2>3, <2>4
<1>6. CASE RefuseAsk
  BY <1>2, <1>3, <1>6 DEF RefuseAsk, IsRetryable
<1>7. CASE SendBreaks \/ Eof
  BY <1>3, <1>7 DEF SendBreaks, Eof, IsRetryable
<1>8. CASE ReadsTorn
  <2> DEFINE i == IF driver = "awaiting" THEN read + 1 ELSE NextMessage
  <2>1. /\ driver \in {"awaiting", "looping"} /\ Takes(i) /\ script[i] = Torn
        /\ script' = script
    BY <1>8 DEF ReadsTorn, DriverAt
  <2>2. script[i].kind \in {"ask", "torn"}
    BY <2>1, ServerLineKinds
  <2>3. i = read + 1 /\ read' = read + 1
    BY <2>1, <2>2, ReadFromWire
  <2>4. i \in 1..read'
    <3> HIDE DEF i
    <3> QED BY <2>3 DEF CodexInv, CodexTyped, SeamTypes
  <2>5. BadLine(script[i])
    BY <2>1 DEF BadLine
  <2> HIDE DEF i
  <2> QED BY <1>4, <2>1, <2>4, <2>5
<1>9. CASE HandleCompleted
  <2> DEFINE i == NextMessage
  <2>1. /\ driver = "looping" /\ Takes(i) /\ script' = script /\ script[i].kind = "completed"
        /\ verdict' = (IF script[i].says = "fine" THEN Succeeds(final_text)
                       ELSE Fails(CompletionError(script[i].says)))
    BY <1>9 DEF HandleCompleted, DriverAt
  <2>2. i \in 1..read'
    BY <2>1, TakesNext
  <2> HIDE DEF i
  <2>3. CASE script[i].says \in {"unauthorized", "bad_request"}
    BY <1>4, <2>1, <2>2, <2>3 DEF BadLine
  <2>4. CASE script[i].says \notin {"unauthorized", "bad_request"}
    <3>1. CompletionError(script[i].says) \in {"Tooling", "Api"}
      BY <2>4 DEF CompletionError
    <3>2. verdict'.kind = "ok" \/ IsRetryable(verdict'.kind)
      BY <2>1, <3>1 DEF Succeeds, Fails, IsRetryable
    <3> QED BY <3>2 DEF Owed
  <2> QED BY <2>3, <2>4
<1>10. \/ verdict' = verdict
       \/ AwaitedReply \/ RefuseAsk \/ SendBreaks \/ Eof \/ ReadsTorn \/ HandleCompleted
  BY DEF CodexNext, CodexStep, ServerWrites, ServerExits, ServerOutputCloses, ServerPipesClose,
         CodexDeadlinePasses, VersionRefused, RequestRefused, SpawnFails, Refuses, SpawnServer,
         SendRequest, CwdFails, SetAside, HandleNotice, GraceEnds, Finish, DropTurn, codex_vars
<1> QED BY <1>2, <1>5, <1>6, <1>7, <1>8, <1>9, <1>10

LEMMA DeathStep ==
  ASSUME CodexInv, DeathState, [CodexNext]_<<seam_vars, codex_vars>>
  PROVE  DeathState'
<1>1. Owed(verdict)'
  BY VerdictOwed
<1>2. \A o : Owed(o) => Owed(o)'
  BY OwedStays
<1>3. ~Undecided' /\ proc' # "none" => Owed(outcome)'
  <2> SUFFICES ASSUME ~Undecided', proc' # "none" PROVE Owed(outcome)'
    OBVIOUS
  <2>1. CASE outcome' = outcome
    <3>1. proc # "none" \/ SpawnServer
      BY DEF CodexNext, CodexStep, ServerWrites, Writes, ServerExits, ServerOutputCloses, ServerPipesClose,
         CodexDeadlinePasses, Exits, OutputCloses, PipesClose, DeadlinePasses, VersionRefused, RequestRefused,
         SpawnFails, Refuses, SendRequest, CwdFails, SendBreaks, AwaitedReply, SetAside, RefuseAsk,
         HandleNotice, HandleCompleted, ReadsTorn, Eof, GraceEnds, Finish, DropTurn, Abandon,
         Killed, seam_vars
    <3>2. ~SpawnServer
      BY <2>1 DEF SpawnServer, DriverAt, CodexInv, CodexTyped, Undecided
    <3>3. ~Undecided
      BY <2>1 DEF Undecided
    <3>4. Owed(outcome)
      BY <3>1, <3>2, <3>3 DEF DeathState
    <3> QED BY <1>2, <2>1, <3>4 DEF Owed
  <2>2. CASE Finish
    BY <1>2, <2>2 DEF Finish, DeathState, Owed
  <2>3. CASE DropTurn
    BY <2>3 DEF DropTurn, Owed, Fails, IsRetryable
  <2>4. CASE Refuses
    BY <2>4 DEF Refuses, DriverAt, DeathState
  <2>5. CASE CwdFails
    BY <2>5 DEF CwdFails, Owed
  <2> QED BY <2>1, <2>2, <2>3, <2>4, <2>5
    DEF CodexNext, CodexStep, ServerWrites, Writes, ServerExits, ServerOutputCloses,
        ServerPipesClose, CodexDeadlinePasses, Exits, OutputCloses, PipesClose, DeadlinePasses,
        VersionRefused, RequestRefused, SpawnFails, SpawnServer, SendRequest, SendBreaks,
        AwaitedReply, SetAside, RefuseAsk,
        HandleNotice, HandleCompleted, ReadsTorn, Eof, GraceEnds, seam_vars
<1>4. driver' = "probing" => proc' = "none"
  BY DEF DeathState, CodexNext, CodexStep, ServerWrites, Writes, ServerExits, ServerOutputCloses, ServerPipesClose,
     CodexDeadlinePasses, Exits, OutputCloses, PipesClose, DeadlinePasses, VersionRefused, RequestRefused,
     SpawnFails, Refuses, SpawnServer, SendRequest, CwdFails, SendBreaks, AwaitedReply, SetAside,
     RefuseAsk,
     HandleNotice, HandleCompleted, ReadsTorn, Eof, GraceEnds, Finish, DropTurn, DriverAt,
     Abandon, seam_vars, codex_vars
<1> QED BY <1>1, <1>3, <1>4 DEF DeathState

LEMMA DeathInit == CodexInit => DeathState
  BY DEF CodexInit, SeamInit, CodexIdle, DeathState, Owed, NoOutcome, Undecided, IsRetryable

LEMMA CodexDeathInvariant == CodexSpec => []DeathState
<1>1. CodexInv /\ DeathState /\ [CodexNext]_<<seam_vars, codex_vars>> => DeathState'
  BY DeathStep
<1> QED BY <1>1, DeathInit, CodexInvariant, PTL DEF CodexSpec

-----------------------------------------------------------------------------
(* Codex: theorems. *)

LEMMA CodexTypesHold == CodexInv => SeamTypes /\ CodexTypes
<1> SUFFICES ASSUME CodexInv PROVE SeamTypes /\ CodexTypes
  OBVIOUS
<1>1. \A k \in 1..Len(queue) : queue[k] \in 1..Len(script)
  <2>1. \A k \in 1..Len(queue) : queue[k] \in Queued
    BY DEF Queued
  <2> QED BY <2>1 DEF CodexInv, CodexTyped, SeamTypes
<1>2. queue \in Seq(1..Len(script))
  BY <1>1 DEF CodexInv, CodexTyped
<1>3. final_text \in 0..Len(script)
  BY DEF CodexInv, CodexTyped, SeamTypes
<1> QED BY <1>2, <1>3 DEF CodexInv, CodexTyped, CodexTypes

(* Type correctness of the seam and of the driver.                           *)
THEOREM CodexTypesCorrect == CodexSpec => [](SeamTypes /\ CodexTypes)
  BY CodexTypesHold, CodexInvariant, PTL

LEMMA CodexResultHolds == CodexInv => CodexResultStands
  BY DEF CodexInv, CodexTyped, EndState, Concluded, CodexResultStands

(* A turn that has ended says what its completion said, with the last text   *)
(* before it, wherever the lines were buffered (codex.rs: the complete event *)
(* stream in arrival order).                                                 *)
THEOREM EndedTurnsStand == CodexSpec => []CodexResultStands
  BY CodexResultHolds, CodexInvariant, PTL

LEMMA CodexSpendHolds == CodexInv => CodexSpendReported
  BY DEF CodexInv, CodexTyped, EndState, Concluded, CodexSpendReported

(* A started turn reports the last figure before its end, however it ends    *)
(* (codex.rs thread/tokenUsage/updated).                                     *)
THEOREM CodexSpendIsReported == CodexSpec => []CodexSpendReported
  BY CodexSpendHolds, CodexInvariant, PTL

LEMMA CodexDeathHolds == DeathState => CodexDeathRetried
  BY DEF DeathState, Owed, BadLine, CodexDeathRetried

(* A server that dies between two lines is retried: what ends the run for     *)
(* good is owed to a line that was read, a half line among them, or to a      *)
(* working directory that is gone when the second request needs it (codex.rs  *)
(* finish_driver_error and the use of current_dir).                          *)
THEOREM CodexDeathsAreRetried == CodexSpec => []CodexDeathRetried
  BY CodexDeathHolds, CodexDeathInvariant, PTL
===============================================================================
