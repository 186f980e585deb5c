----------------------------- MODULE MCAgentRun -----------------------------
(* Small instances of AgentRun for TLC. *)
EXTENDS AgentRun, TLC

CONSTANTS root, c1, c2

Turns(cap) == [Unlimited EXCEPT !.max_turns = cap]
Tokens(cap) == [Unlimited EXCEPT !.max_total_tokens = cap]
TokensAndCost(tokens, cost) == [Tokens(tokens) EXCEPT !.max_cost_usd = cost]

\* Caps that a handful of turns reach, one alone and several together.
RootBudgetsValue == {Turns(2), Turns(3), TokensAndCost(1, 2)}

\* For the liveness run: room for both children, one below the other.
OneRootBudget == {Turns(3)}

\* Targets without caps of their own, and with a cap that stops the child.
AgentBudgetsValue == {Unlimited, Turns(0)}

\* A turn with both figures, and one with each figure missing.
TurnUsagesValue ==
  {[tokens |-> 1, cost |-> 1], [tokens |-> Unknown, cost |-> 2]}

\* Which figures a turn reports does not matter to whether a run ends.
OneUsage == {[tokens |-> 1, cost |-> Unknown]}

Children == {c1, c2}

\* Sound for the safety runs: the children are started alike.
Symmetry == Permutations(Children)
=============================================================================
