------------------------------ MODULE RunBudget ------------------------------
(***************************************************************************)
(* Run accounting and budget arithmetic: RunBudget                         *)
(* (crates/odori-agents/src/guardrail.rs), RunUsage and the budget gates   *)
(* (crates/odori-agents/src/run.rs).  Pure operators, no state.            *)
(*                                                                         *)
(* A Spend is a RunUsage together with the turn count that the run loop    *)
(* keeps beside it (budget_turns).  Input and output tokens are one        *)
(* number, since only their sum enters a decision; cost is a natural       *)
(* number of some smallest unit; the cache and reasoning detail, which     *)
(* never enters cap arithmetic, is left out.                               *)
(***************************************************************************)
EXTENDS Naturals

CONSTANTS
  NoCap,    \* a cap left unset (None)
  Unknown   \* a usage figure the provider did not report (None)

ASSUME NoCapIsNoNumber == NoCap \notin Nat
ASSUME UnknownIsNoNumber == Unknown \notin Nat

Cap == Nat \cup {NoCap}

Budget == [max_turns : Cap, max_total_tokens : Cap, max_cost_usd : Cap]

Unlimited ==
  [max_turns |-> NoCap, max_total_tokens |-> NoCap, max_cost_usd |-> NoCap]

\* tokens is Unknown when either half of a turn's token total is.
TurnUsage == [tokens : Nat \cup {Unknown}, cost : Nat \cup {Unknown}]

Spend ==
  [turns : Nat, tokens : Nat, cost : Nat,
   turns_with_unknown_tokens : Nat, turns_with_unknown_cost : Nat]

NoSpend ==
  [turns |-> 0, tokens |-> 0, cost |-> 0,
   turns_with_unknown_tokens |-> 0, turns_with_unknown_cost |-> 0]

-----------------------------------------------------------------------------
(* Accounting. *)

Known(figure) == IF figure = Unknown THEN 0 ELSE figure
Missing(figure) == IF figure = Unknown THEN 1 ELSE 0

\* One more completed turn.  An unknown figure counts as an unknown turn.
AbsorbTurn(spend, usage) ==
  [turns |-> spend.turns + 1,
   tokens |-> spend.tokens + Known(usage.tokens),
   cost |-> spend.cost + Known(usage.cost),
   turns_with_unknown_tokens |->
     spend.turns_with_unknown_tokens + Missing(usage.tokens),
   turns_with_unknown_cost |->
     spend.turns_with_unknown_cost + Missing(usage.cost)]

\* A child's whole output, field by field.
AbsorbRun(spend, child) ==
  [turns |-> spend.turns + child.turns,
   tokens |-> spend.tokens + child.tokens,
   cost |-> spend.cost + child.cost,
   turns_with_unknown_tokens |->
     spend.turns_with_unknown_tokens + child.turns_with_unknown_tokens,
   turns_with_unknown_cost |->
     spend.turns_with_unknown_cost + child.turns_with_unknown_cost]

-----------------------------------------------------------------------------
(* Caps. *)

Stricter(left, right) ==
  CASE left = NoCap -> right
    [] left # NoCap /\ right = NoCap -> left
    [] OTHER -> IF left <= right THEN left ELSE right

Intersect(left, right) ==
  [max_turns |-> Stricter(left.max_turns, right.max_turns),
   max_total_tokens |-> Stricter(left.max_total_tokens, right.max_total_tokens),
   max_cost_usd |-> Stricter(left.max_cost_usd, right.max_cost_usd)]

Reaches(spent, cap) == cap # NoCap /\ spent >= cap
Exceeds(spent, cap) == cap # NoCap /\ spent > cap

\* The gates report the first dimension that trips, in this order.
FirstTripped(turns, tokens, cost) ==
  CASE turns -> "Turns"
    [] ~turns /\ tokens -> "TotalTokens"
    [] ~turns /\ ~tokens /\ cost -> "CostUsd"
    [] OTHER -> "none"

\* Wrong on purpose: lets a turn start with its cap exactly used up.
PreTurnCapCrossed(budget, spend) ==
  FirstTripped(Exceeds(spend.turns, budget.max_turns),
               Exceeds(spend.tokens, budget.max_total_tokens),
               Exceeds(spend.cost, budget.max_cost_usd))

\* Before a turn an exhausted cap stops the run ...
PreTurnCap(budget, spend) ==
  FirstTripped(Reaches(spend.turns, budget.max_turns),
               Reaches(spend.tokens, budget.max_total_tokens),
               Reaches(spend.cost, budget.max_cost_usd))

\* ... and after one only a crossed cap does.
PostTurnCap(budget, spend) ==
  FirstTripped(Exceeds(spend.turns, budget.max_turns),
               Exceeds(spend.tokens, budget.max_total_tokens),
               Exceeds(spend.cost, budget.max_cost_usd))

\* Wrong on purpose: a subtraction that does not saturate.
LeftUnsaturated(cap, spent) == IF cap = NoCap THEN NoCap ELSE cap - spent

\* saturating_sub on a cap.
Left(cap, spent) ==
  CASE cap = NoCap -> NoCap
    [] cap # NoCap /\ cap <= spent -> 0
    [] OTHER -> cap - spent

\* Wrong on purpose: forgets the turn the parent is still running.
RemainingWithoutReserve(budget, spent) ==
  [max_turns |-> Left(budget.max_turns, spent.turns),
   max_total_tokens |-> Left(budget.max_total_tokens, spent.tokens),
   max_cost_usd |-> Left(budget.max_cost_usd, spent.cost)]

\* What a handoff child may use: the caps less the spend on record, one turn
\* held back for the parent's own turn.
RemainingBudget(budget, spent) ==
  [max_turns |-> Left(budget.max_turns, spent.turns + 1),
   max_total_tokens |-> Left(budget.max_total_tokens, spent.tokens),
   max_cost_usd |-> Left(budget.max_cost_usd, spent.cost)]

\* No turn left means no handoff; no tokens or cost left still means a child,
\* which its own gate ends before its first turn.
MayDelegate(budget, spent) == RemainingBudget(budget, spent).max_turns # 0
=============================================================================
