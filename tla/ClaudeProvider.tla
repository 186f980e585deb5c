--------------------------- MODULE ClaudeProvider ---------------------------
(***************************************************************************)
(* One turn of the Claude Code provider                                    *)
(* (crates/odori-providers/src/claude/mod.rs): version probe, spawn, the   *)
(* read loop under the deadline, the wait for the process, and the         *)
(* classification of how it ended.                                         *)
(*                                                                         *)
(* tokio::time::timeout polls the read before the clock, so a line that is *)
(* in the pipe is read however late it is.  The waits after the loop, for  *)
(* the process and for the end of its stderr, are not under the deadline,  *)
(* and the first of them may fail.                                         *)
(***************************************************************************)
EXTENDS ProviderSeam

CONSTANTS
  Verdict,      \* what result events say: Fine, or the signs of an error
  Fine,
  StderrSigns   \* sets of signs that stderr may carry at the end

VARIABLES
  stage,        \* of the call: probing, reading, reaping, returned, and unjoined
                \* when it returned because the wait for the process failed
  terminal,     \* the line of the last result event read, 0 for none
  pending,      \* pending_bridge_calls
  timed_out,    \* the loop was left by the deadline
  stderr,       \* the signs that this turn's stderr ended with
  in_time       \* history: a fine result and end of file came before the deadline

claude_vars == <<stage, terminal, pending, timed_out, stderr, in_time>>

\* Lines by what they mean to the loop.  Tool uses and results are those of
\* bridge tools (mcp__*); noise stands for every other line, parsable or not,
\* and a torn line is not valid UTF-8 and fails the read.
Use(c) == [kind |-> "use", id |-> c]
ToolResult(c) == [kind |-> "tool_result", id |-> c]
Result(verdict) == [kind |-> "result", verdict |-> verdict]

ClaudeIdle ==
  /\ stage = "probing"
  /\ terminal = 0
  /\ pending = {}
  /\ timed_out = FALSE
  /\ stderr = {}
  /\ in_time = FALSE

ClaudeInit == SeamInit("claude") /\ ClaudeIdle

-----------------------------------------------------------------------------
(* The harness (external): writes, exits or dies at any point. *)

ClaudeLine ==
  {Noise, Torn}
    \cup {Use(c) : c \in {d \in Call : ~Wrote(Use(d))}}
    \cup {ToolResult(c) : c \in {d \in Call : Wrote(Use(d)) /\ ~Wrote(ToolResult(d))}}
    \cup {Result(v) : v \in Verdict}

\* One result event; what follows it is trailing noise.  What would follow a
\* torn line is never read.
HarnessWrites(line) ==
  /\ provider = "claude"
  /\ ~Wrote(Torn)
  /\ line \in ClaudeLine
  /\ Written("result") => line = Noise
  /\ Writes(line)
  /\ UNCHANGED claude_vars

HarnessExits ==
  /\ provider = "claude"
  /\ Exits
  /\ UNCHANGED claude_vars

\* It may well live on, or leave descendants: a shell or a tool of its own.
HarnessOutputCloses ==
  /\ provider = "claude"
  /\ OutputCloses
  /\ in_time' = (~late /\ Wrote(Result(Fine)) /\ ~Wrote(Torn))
  /\ UNCHANGED <<stage, terminal, pending, timed_out, stderr>>

HarnessPipesClose ==
  /\ provider = "claude"
  /\ PipesClose
  /\ UNCHANGED claude_vars

ClaudeDeadlinePasses ==
  /\ provider = "claude"
  /\ DeadlinePasses
  /\ UNCHANGED claude_vars

-----------------------------------------------------------------------------
(* execute_turn. *)

AtStage(s) == provider = "claude" /\ stage = s

RefusedBeforeSpawn ==
  /\ AtStage("probing")
  /\ outcome' = Fails("Config")
  /\ stage' = "returned"
  /\ UNCHANGED <<provider, eof, reported, late, script, read, proc, terminal, pending, timed_out, stderr, in_time>>

\* ensure_version: no binary, a failing probe, an answer without a version.
ProbeFails == RefusedBeforeSpawn

\* claude_effort, claude_schema: levels and roots the harness does not take.
InvocationRefused == RefusedBeforeSpawn

\* missing_harness: the binary was there for the probe and is not now.
HarnessMissing == RefusedBeforeSpawn

Spawn ==
  /\ AtStage("probing")
  /\ stage' = "reading"
  /\ proc' = "running"
  /\ UNCHANGED <<provider, eof, outcome, reported, late, script, read, terminal, pending, timed_out, stderr, in_time>>

\* Wrong on purpose: a call stays pending after its result.
PendingForgetting(line) ==
  IF line.kind = "use" THEN pending \cup {line.id} ELSE pending

PendingAfter(line) ==
  CASE line.kind = "use" -> pending \cup {line.id}
    [] line.kind = "tool_result" -> pending \ {line.id}
    [] OTHER -> pending

\* A result event is terminal in meaning only: the loop reads on to the end.
ReadLine ==
  LET line == script[read + 1] IN
  /\ AtStage("reading")
  /\ InPipe > 0
  /\ line.kind # "torn"
  /\ read' = read + 1
  /\ pending' = PendingAfter(line)
  /\ terminal' = IF line.kind = "result" THEN read' ELSE terminal
  /\ reported' = IF line.kind = "result" THEN read' ELSE reported
  /\ UNCHANGED <<provider, eof, outcome, late, script, proc, stage, timed_out, stderr, in_time>>

LeaveLoop ==
  /\ stage' = "reaping"
  /\ UNCHANGED <<seam_vars, terminal, pending, timed_out, stderr, in_time>>

\* A read error ends the loop like end of file, with the harness alive.
ReadFails ==
  /\ AtStage("reading")
  /\ InPipe > 0
  /\ script[read + 1] = Torn
  /\ LeaveLoop

EndOfFile ==
  /\ AtStage("reading")
  /\ InPipe = 0 /\ eof
  /\ LeaveLoop

\* Wrong on purpose: the clock is polled before the read ...
TimeOutClockFirst ==
  /\ AtStage("reading")
  /\ late
  /\ stage' = "reaping"
  /\ timed_out' = TRUE
  /\ proc' = Killed
  /\ UNCHANGED <<provider, eof, outcome, reported, late, script, read, terminal, pending, stderr, in_time>>

\* ... or the harness is left running.
TimeOutLeavingHarness ==
  /\ AtStage("reading")
  /\ late
  /\ InPipe = 0 /\ ~eof
  /\ stage' = "reaping"
  /\ timed_out' = TRUE
  /\ UNCHANGED <<seam_vars, terminal, pending, stderr, in_time>>

\* Nothing to read and the deadline gone: kill, and remember why.
TimeOut ==
  /\ AtStage("reading")
  /\ late
  /\ InPipe = 0 /\ ~eof
  /\ stage' = "reaping"
  /\ timed_out' = TRUE
  /\ proc' = Killed
  /\ UNCHANGED <<provider, eof, outcome, reported, late, script, read, terminal, pending, stderr, in_time>>

\* What a terminal error event says, most specific first; the text of the
\* event and the head of stderr are searched together.
ErrorOf(signs) ==
  CASE "no_conversation" \in signs -> "SessionNotFound"
    [] "no_conversation" \notin signs /\ signs \cap {"auth", "cap", "rejected"} # {} -> "Config"
    [] OTHER -> "Api"

\* Without a result event: calls still out, then a rejected invocation.
\* Wrong on purpose: whatever is on stderr.
DeathOfAny(signs) ==
  IF pending # {} THEN "HarnessDiedAwaitingTools" ELSE "Config"

DeathOf(signs) ==
  CASE pending # {} -> "HarnessDiedAwaitingTools"
    [] pending = {} /\ "usage_error" \in signs -> "Config"
    [] OTHER -> "HarnessDied"

Classify(signs) ==
  CASE terminal = 0 -> Fails(DeathOf(signs))
    [] terminal # 0 /\ script[terminal] = Result(Fine) -> Succeeds(terminal)
    [] OTHER -> Fails(ErrorOf(script[terminal].verdict \cup signs))

\* child.wait, then stderr to its end, then the classes.
Reap(signs) ==
  /\ AtStage("reaping")
  /\ proc = "closed"
  /\ stderr' = signs
  /\ outcome' = IF timed_out THEN Fails("Timeout") ELSE Classify(signs)
  /\ stage' = "returned"
  /\ UNCHANGED <<provider, eof, reported, late, script, read, proc, terminal, pending, timed_out, in_time>>

\* child.wait fails: whatever was read, and whatever ended the loop, is
\* dropped, and with it the harness, which is killed if it lives.
WaitFails ==
  /\ AtStage("reaping")
  /\ outcome' = Fails("Config")
  /\ stage' = "unjoined"
  /\ proc' = Killed
  /\ UNCHANGED <<provider, eof, reported, late, script, read, terminal, pending, timed_out, stderr, in_time>>

ClaudeStep ==
  \/ ProbeFails
  \/ InvocationRefused
  \/ HarnessMissing
  \/ Spawn
  \/ ReadLine
  \/ ReadFails
  \/ EndOfFile
  \/ TimeOut
  \/ \E signs \in StderrSigns : Reap(signs)

ClaudeNext ==
  \/ \E line \in ClaudeLine : HarnessWrites(line)
  \/ HarnessExits
  \/ HarnessOutputCloses
  \/ HarnessPipesClose
  \/ ClaudeDeadlinePasses
  \/ ClaudeStep
  \/ WaitFails

ClaudeSpec == ClaudeInit /\ [][ClaudeNext]_<<seam_vars, claude_vars>>

-----------------------------------------------------------------------------
(* Properties. *)

ClaudeTypes ==
  /\ stage \in {"probing", "reading", "reaping", "returned", "unjoined"}
  /\ terminal \in 0..Len(script)
  /\ pending \subseteq Call
  /\ timed_out \in BOOLEAN
  /\ stderr \in StderrSigns \cup {{}}
  /\ in_time \in BOOLEAN

\* A turn whose fine result and end of file came before the deadline is a
\* success once its process is reaped, however late the loop gets to read them,
\* however long the process lives on, and whatever calls, stderr or exit it
\* ended with (claude/mod.rs:312-326: the read is polled before the clock).
\* The one way out is the wait for the process failing, stage "unjoined".
ClaudeFinishedInTime ==
  provider = "claude" /\ in_time /\ stage = "returned" => outcome.kind = "ok"

\* Bridge calls announced among the lines read and never answered.
Unanswered ==
  {c \in Call : \E i \in 1..read :
     script[i] = Use(c) /\ ~\E j \in 1..read : script[j] = ToolResult(c)}

\* A reaped turn is classified as died awaiting tools exactly when the harness
\* closed its output without a result while calls were out: what the bridge has
\* in flight for the next attempt to replay is what decides, before anything on
\* stderr (claude/mod.rs classify; provider.rs HarnessDiedAwaitingTools).  A
\* turn whose process could not be reaped is not classified.
PendingCallsNamed ==
  provider = "claude" /\ ~Undecided =>
    (outcome.kind = "HarnessDiedAwaitingTools"
       <=> stage = "returned" /\ ~timed_out /\ terminal = 0 /\ Unanswered # {})

\* However the turn ends, by result, crash, kill or torn output, what the
\* tracker holds is the figure of the last result event read, so a failed
\* attempt's spend reaches the budget (claude/mod.rs StreamEvent::Result).
ClaudeSpendReported ==
  provider = "claude" => reported = Latest(Lines("result"))

\* A harness that dies in the middle of a turn is retried: the outcome ends
\* the run for good only if the harness never started, said why in a result or
\* beside it, was rejected at its command line according to this turn's stderr,
\* or could not be reaped (claude/mod.rs classify).
ClaudeDeathRetried ==
  provider = "claude" /\ ~Undecided /\ outcome.kind # "ok"
    /\ ~IsRetryable(outcome.kind) /\ proc # "none" =>
      \/ \E i \in Lines("result") :
           /\ script[i] # Result(Fine)
           /\ (script[i].verdict \cup stderr)
                \cap {"no_conversation", "auth", "cap", "rejected"} # {}
      \/ Lines("result") = {} /\ Unanswered = {} /\ "usage_error" \in stderr
      \/ stage = "unjoined"
=============================================================================
