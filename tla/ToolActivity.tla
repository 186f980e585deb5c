---------------------------- MODULE ToolActivity ----------------------------
(***************************************************************************)
(* One tool call as an activity: ToolActivities::execute_tool              *)
(* (crates/odori-agents/src/run.rs), its tries under the tool's policy and *)
(* what they make of the handler's answer; and the process-local span      *)
(* registries that a try looks up its parent span in                       *)
(* (crates/odori-agents/src/telemetry.rs).                                 *)
(*                                                                         *)
(* Everything here is about one workflow id.  The engine gives up on a try *)
(* when a timeout fires; the handler lives on, and so does a turn attempt  *)
(* that was replaced, with its registration.                               *)
(***************************************************************************)
EXTENDS Naturals

CONSTANTS
  Client,        \* callers of the runner in this process, each with a run span
  TurnAttempt,   \* attempts of a turn, each with a turn span
  MaxTries,      \* ToolPolicy.max_attempts, 3 by default
  NoSpan

ASSUME MaxTriesIsPositive == MaxTries \in Nat \ {0}
ASSUME SpansDiffer == Client \cap TurnAttempt = {} /\ NoSpan \notin Client \cup TurnAttempt

VARIABLES
  spans,       \* spans[s]: unopened, open, closed
  overlapped,  \* history: spans that shared their registry with another
  registry,    \* registry[tier]: the span registered for the workflow id
  tool,        \* the engine's view of the activity
  tries        \* tries[n]: the n-th execution of the handler

tool_vars == <<spans, overlapped, registry, tool, tries>>

Span == Client \cup TurnAttempt
Tier == {"run", "turn"}
TierOf(s) == IF s \in Client THEN "run" ELSE "turn"
OfTier(tier) == IF tier = "run" THEN Client ELSE TurnAttempt

\* What a handler answers: output within the size limit or over it, a failure
\* that may be retried or not; or nobody to ask.
Answer == {"fits", "too_large", "retryable", "terminal", "unknown"}

Try == [stage : {"none", "running", "over"}, parent : Span \cup {NoSpan},
        said : Answer \cup {"nothing"}]
NoTry == [stage |-> "none", parent |-> NoSpan, said |-> "nothing"]

\* `ceiling`: the policy bounds the whole call (schedule_to_close).
ToolIdle ==
  /\ spans = [s \in Span |-> "unopened"]
  /\ overlapped = {}
  /\ registry = [tier \in Tier |-> NoSpan]
  /\ tool \in [stage : {"unscheduled"}, current : {0}, ceiling : BOOLEAN, result : {"none"}]
  /\ tries = [n \in 1..MaxTries |-> NoTry]

-----------------------------------------------------------------------------
(* Spans. *)

OpenOf(tier) == {s \in OfTier(tier) : spans[s] = "open"}

\* Wrong on purpose: a turn registers where runs do.
RegistersAsRun(s) ==
  LET others == OpenOf(TierOf(s)) IN
  /\ spans[s] = "unopened"
  /\ spans' = [spans EXCEPT ![s] = "open"]
  /\ registry' = [registry EXCEPT !["run"] = s]
  /\ overlapped' = IF others = {} THEN overlapped ELSE overlapped \cup others \cup {s}
  /\ UNCHANGED <<tool, tries>>

\* RegisteredSpan::insert: the last writer wins.
Registers(s) ==
  LET others == OpenOf(TierOf(s)) IN
  /\ spans[s] = "unopened"
  /\ spans' = [spans EXCEPT ![s] = "open"]
  /\ registry' = [registry EXCEPT ![TierOf(s)] = s]
  /\ overlapped' = IF others = {} THEN overlapped ELSE overlapped \cup others \cup {s}
  /\ UNCHANGED <<tool, tries>>

\* run, run_with_config, start_conversation; a resumed one has no span.
OpenRunSpan(c) == c \in Client /\ Registers(c)

\* execute_turn of an attempt.
OpenTurnSpan(a) == a \in TurnAttempt /\ Registers(a)

\* RegisteredSpan::drop takes the id's entry out, whoever's it is.
CloseSpan(s) ==
  /\ spans[s] = "open"
  /\ spans' = [spans EXCEPT ![s] = "closed"]
  /\ registry' = [registry EXCEPT ![TierOf(s)] = NoSpan]
  /\ UNCHANGED <<overlapped, tool, tries>>

\* Wrong on purpose: the run first.
AdoptedParentRunFirst ==
  IF registry["run"] # NoSpan THEN registry["run"] ELSE registry["turn"]

\* The parent of a tool's span: the turn in flight, or the run, or none.
AdoptedParent ==
  IF registry["turn"] # NoSpan THEN registry["turn"] ELSE registry["run"]

-----------------------------------------------------------------------------
(* The activity. *)

\* tool_invoked executes an admitted call, made by the harness of an attempt.
ScheduleTool ==
  /\ tool.stage = "unscheduled"
  /\ \E a \in TurnAttempt : spans[a] # "unopened"
  /\ tool' = [tool EXCEPT !.stage = "scheduled"]
  /\ UNCHANGED <<spans, overlapped, registry, tries>>

StartTry(n) ==
  /\ tool.stage = "scheduled"
  /\ n = tool.current + 1
  /\ tool' = [tool EXCEPT !.stage = "attempting", !.current = n]
  /\ tries' = [tries EXCEPT ![n] = [stage |-> "running", parent |-> AdoptedParent,
                                    said |-> "nothing"]]
  /\ UNCHANGED <<spans, overlapped, registry>>

Settled(result) == [tool EXCEPT !.stage = "settled", !.result = result]

\* After a try that may be followed by another.
TriedAgain ==
  IF tool.current < MaxTries THEN [tool EXCEPT !.stage = "scheduled"] ELSE Settled("failed")

\* Wrong on purpose: the handler's `retryable` is taken for `non_retryable`.
AfterAnswerInverted(said) ==
  CASE said \in {"fits", "too_large"} -> Settled(said)
    [] said = "terminal" -> TriedAgain
    [] OTHER -> Settled("failed")

\* An answer too large becomes an error for the model to read: a result.  So
\* does, in tool_invoked, an activity that failed for good.
AfterAnswer(said) ==
  CASE said \in {"fits", "too_large"} -> Settled(said)
    [] said = "retryable" -> TriedAgain
    [] OTHER -> Settled("failed")

IsCurrentTry(n) == tool.stage = "attempting" /\ tool.current = n

\* The agent or the tool is not registered in this worker (unknown), or the
\* handler returned.  The engine takes the answer of its current try only.
TryAnswers(n, said) ==
  /\ tries[n].stage = "running"
  /\ tries' = [tries EXCEPT ![n].stage = "over", ![n].said = said]
  /\ tool' = IF IsCurrentTry(n) THEN AfterAnswer(said) ELSE tool
  /\ UNCHANGED <<spans, overlapped, registry>>

\* start_to_close or the heartbeat timeout; the handler lives on.
TryTimesOut ==
  /\ tool.stage = "attempting"
  /\ tool' = TriedAgain
  /\ UNCHANGED <<spans, overlapped, registry, tries>>

\* schedule_to_close.
CeilingPasses ==
  /\ tool.ceiling
  /\ tool.stage \in {"scheduled", "attempting"}
  /\ tool' = Settled("failed")
  /\ UNCHANGED <<spans, overlapped, registry, tries>>

\* The process dies: handlers, spans and registries with it.
ToolWorkerDies ==
  /\ \E s \in Span : spans[s] = "open"
  /\ spans' = [s \in Span |-> IF spans[s] = "open" THEN "closed" ELSE spans[s]]
  /\ registry' = [tier \in Tier |-> NoSpan]
  /\ tries' = [n \in 1..MaxTries |->
       IF tries[n].stage = "running" THEN [tries[n] EXCEPT !.stage = "over"] ELSE tries[n]]
  /\ UNCHANGED <<overlapped, tool>>

ToolNext ==
  \/ \E c \in Client : OpenRunSpan(c)
  \/ \E a \in TurnAttempt : OpenTurnSpan(a)
  \/ \E s \in Span : CloseSpan(s)
  \/ ScheduleTool
  \/ \E n \in 1..MaxTries : StartTry(n) \/ \E said \in Answer : TryAnswers(n, said)
  \/ TryTimesOut
  \/ CeilingPasses
  \/ ToolWorkerDies

ToolSpec == ToolIdle /\ [][ToolNext]_tool_vars

-----------------------------------------------------------------------------
(* Properties. *)

ToolTypes ==
  /\ spans \in [Span -> {"unopened", "open", "closed"}]
  /\ overlapped \subseteq Span
  /\ \A tier \in Tier : registry[tier] \in OfTier(tier) \cup {NoSpan}
  /\ tool \in [stage : {"unscheduled", "scheduled", "attempting", "settled"},
               current : 0..MaxTries, ceiling : BOOLEAN,
               result : {"none", "fits", "too_large", "failed"}]
  /\ tries \in [1..MaxTries -> Try]

\* A span of a tier that no other overlapped, and that is open.
Alone(tier) == OpenOf(tier) \ overlapped

\* A tool's span never hangs below a span that is closed; it hangs below the
\* turn in flight, and without one below the run, unless attempts or clients
\* of the id overlapped: then a zombie may have taken its successor's entry
\* out (telemetry.rs RegisteredSpan, "can at worst deregister its successor").
SpansAdopted ==
  [][\A n \in 1..MaxTries : tries[n].stage = "none" /\ tries'[n].stage = "running" =>
       LET parent == tries'[n].parent IN
       /\ parent # NoSpan => spans[parent] = "open"
       /\ Alone("turn") # {} => parent \in Alone("turn")
       /\ OpenOf("turn") = {} /\ Alone("run") # {} => parent \in Alone("run")]_tool_vars

\* A call settles with what its last try said, whatever earlier tries said too
\* late; it fails before the policy's tries are used up only if the handler
\* said so or the whole call ran out of time (run.rs tool_activity_options,
\* tool_failure, cap_result).
RetriesAsDeclared ==
  tool.stage = "settled" =>
    \/ tool.result = "failed" /\ (tool.ceiling \/ tool.current = MaxTries)
    \/ tool.result = "failed" /\ tries[tool.current].said \in {"terminal", "unknown"}
    \/ tool.result = tries[tool.current].said
=============================================================================
