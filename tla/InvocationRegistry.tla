------------------------- MODULE InvocationRegistry -------------------------
(***************************************************************************)
(* The durable invocation registry kept in the run-loop workflow's state   *)
(* (crates/odori-agents/src/invocation.rs): a pure structure that decides,  *)
(* for every presentation of a bridged tool call, whether it starts work,  *)
(* joins work in flight, is served a recorded result, or is fenced.        *)
(*                                                                         *)
(* Identity is (turn, call id).  The attempt is not part of it: it only    *)
(* moves the turn's watermark, below which unknown calls are fenced.       *)
(*                                                                         *)
(* A hash map that has no entry is a total function with the entry         *)
(* NotPresented; a turn never presented has watermark 0, the default.      *)
(***************************************************************************)
EXTENDS Naturals

CONSTANTS
  Turn,      \* zero-based turn indices
  CallId,    \* harness-assigned tool-use ids
  ToolName,  \* names a presentation may carry
  Result     \* tool results, errors included

ASSUME TurnsAreNaturals == Turn \subseteq Nat

NotPresented == [status |-> "absent"]
InFlight(attempt, tool) ==
  [status |-> "in_flight", admitted_attempt |-> attempt, tool |-> tool]
Complete(result) == [status |-> "complete", result |-> result]

InvocationState ==
  {NotPresented}
    \cup [status : {"in_flight"}, admitted_attempt : Nat, tool : ToolName]
    \cup [status : {"complete"}, result : Result]

InvocationId == [turn : Turn, attempt : Nat, call_id : CallId]

Registry ==
  [watermark : [Turn -> Nat], calls : [Turn -> [CallId -> InvocationState]]]

EmptyRegistry ==
  [watermark |-> [t \in Turn |-> 0],
   calls     |-> [t \in Turn |-> [c \in CallId |-> NotPresented]]]

Entry(reg, id) == reg.calls[id.turn][id.call_id]

Recorded(reg, id) == Entry(reg, id).status = "complete"

\* The watermark before this presentation decides: an attempt that raises it
\* is not superseded by itself.
Superseded(reg, id) == id.attempt < reg.watermark[id.turn]

-----------------------------------------------------------------------------
(* What admission answers.  Two deliberately wrong variants precede it: they *)
(* show which properties notice a registry without joins or without fences. *)

VerdictWithoutJoin(reg, id) ==
  CASE Recorded(reg, id) -> "Recorded"
    [] ~Recorded(reg, id) /\ Superseded(reg, id) -> "Fenced"
    [] OTHER -> "Execute"

VerdictWithoutFence(reg, id) ==
  CASE Recorded(reg, id) -> "Recorded"
    [] Entry(reg, id).status = "in_flight" -> "AwaitExisting"
    [] OTHER -> "Execute"

VerdictFencingEquals(reg, id) ==
  CASE Recorded(reg, id) -> "Recorded"
    [] Entry(reg, id).status = "in_flight" -> "AwaitExisting"
    [] Entry(reg, id).status = "absent" /\ id.attempt <= reg.watermark[id.turn]
         -> "Fenced"
    [] OTHER -> "Execute"

Verdict(reg, id) ==
  CASE Recorded(reg, id) -> "Recorded"
    [] Entry(reg, id).status = "in_flight" -> "AwaitExisting"
    [] Entry(reg, id).status = "absent" /\ Superseded(reg, id) -> "Fenced"
    [] OTHER -> "Execute"

\* Every presentation raises the watermark, whatever its verdict; only an
\* Execute verdict inserts an entry.
Observe(reg, id) ==
  IF id.attempt > reg.watermark[id.turn]
  THEN [reg EXCEPT !.watermark[id.turn] = id.attempt]
  ELSE reg

Put(reg, id, entry) == [reg EXCEPT !.calls[id.turn][id.call_id] = entry]

Admit(reg, id, tool) ==
  IF Verdict(reg, id) = "Execute"
  THEN Put(Observe(reg, id), id, InFlight(id.attempt, tool))
  ELSE Observe(reg, id)

\* Redeeming an execution ticket: the ticket is the identity that won.
CompleteForgetting(reg, id, result) == reg

CompleteTicket(reg, id, result) == Put(reg, id, Complete(result))
=============================================================================
