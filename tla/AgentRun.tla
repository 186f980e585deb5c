------------------------------ MODULE AgentRun ------------------------------
(***************************************************************************)
(* The run-loop workflow AgentRun (crates/odori-agents/src/run.rs) as a    *)
(* tree of runs: a root run that a client talks to through signals, and    *)
(* the handoff children that its turns, and theirs, start.  The module is  *)
(* about budgets, accounting and the end of a run.                         *)
(*                                                                         *)
(* A run's loop is atomic between two awaits.  It waits for its turn       *)
(* activity (phase "turn") or for a message (phase "waiting"); in both,    *)
(* signals and handoff calls are handled.  A turn is one step that yields  *)
(* an aggregate usage; module ToolInvoked has its attempts and tool calls. *)
(* A handoff call may also come while a run waits: ToolInvoked shows that  *)
(* a call of a past turn, from an attempt that lives on, is admitted.      *)
(*                                                                         *)
(* The transcript is its sum, and the list of delegated outputs is its sum *)
(* before and after the loop's cursor: nothing else of them is read here.  *)
(***************************************************************************)
EXTENDS RunBudget, FiniteSets, FiniteSetsExt

CONSTANTS
  Run,           \* workflow executions
  Root,          \* the run a client starts
  NoRun,         \* the parent of the root, and of a run not started
  RootBudgets,   \* effective budgets the root may have
  AgentBudgets,  \* budgets that handoff targets may carry
  TurnUsages,    \* aggregate usages a turn may report
  MaxMessages    \* bound on the user messages of a behaviour

ASSUME RootIsRun == Root \in Run
ASSUME NoRunIsNoRun == NoRun \notin Run
ASSUME BudgetsAreBudgets ==
  RootBudgets \subseteq Budget /\ AgentBudgets \subseteq Budget
ASSUME UsagesAreUsages == TurnUsages \subseteq TurnUsage
\* A figure is a machine number, and a turn can report something.
ASSUME UsagesAreFinite == IsFiniteSet(TurnUsages) /\ TurnUsages # {}
ASSUME MessagesBound == MaxMessages \in Nat

VARIABLES
  phase,       \* unused, created, turn, waiting, ended (with an output), failed
  end,         \* why a run with an output ended
  config,      \* config[r]: interactive?, and the effective budget
  parent,      \* parent[r]: the run whose handoff started r
  handoff,     \* the parent's handler for r: none, awaiting, returned, failed
  spend,       \* the loop's running totals (usage and budget_turns)
  transcript,  \* sum of the run's recorded turns
  absorbed,    \* sum of delegated[..cursor], the child outputs the loop has seen
  late,        \* sum of delegated[cursor..], those it has not
  pending,     \* number of queued user messages
  ending,      \* conversation_ended
  sent,        \* history: user messages the run accepted
  overlapped   \* history: of the handoffs of r, or of a child r had the output
               \* of, one overlapped another or outlived a turn

run_vars == <<phase, end, config, parent>>
spend_vars == <<spend, transcript, absorbed, late>>
signal_vars == <<pending, ending, sent>>
vars == <<run_vars, handoff, spend_vars, signal_vars, overlapped>>

RunEnd ==
  {"Completed", "ConversationEnded", "GuardrailBlocked",
   "Turns", "TotalTokens", "CostUsd"}

Open(r) == phase[r] \in {"created", "turn", "waiting"}
Started(r) == phase[r] \in {"turn", "waiting"}
Awaited(r) == {c \in Run : parent[c] = r /\ handoff[c] = "awaiting"}

Init ==
  /\ phase = [r \in Run |-> IF r = Root THEN "created" ELSE "unused"]
  /\ end = [r \in Run |-> "none"]
  /\ \E interactive \in BOOLEAN, budget \in RootBudgets :
       config = [r \in Run |->
         IF r = Root THEN [interactive |-> interactive, budget |-> budget]
         ELSE [interactive |-> FALSE, budget |-> Unlimited]]
  /\ parent = [r \in Run |-> NoRun]
  /\ handoff = [r \in Run |-> "none"]
  /\ spend = [r \in Run |-> NoSpend]
  /\ transcript = [r \in Run |-> NoSpend]
  /\ absorbed = [r \in Run |-> NoSpend]
  /\ late = [r \in Run |-> NoSpend]
  /\ pending = [r \in Run |-> 0]
  /\ ending = [r \in Run |-> FALSE]
  /\ sent = [r \in Run |-> 0]
  /\ overlapped = [r \in Run |-> FALSE]

-----------------------------------------------------------------------------
(* Pieces of the loop.  `s` is the loop's running total at that point. *)

Ends(r, why) ==
  /\ phase' = [phase EXCEPT ![r] = "ended"]
  /\ end' = [end EXCEPT ![r] = why]

GoesTo(r, where) ==
  /\ phase' = [phase EXCEPT ![r] = where]
  /\ UNCHANGED end

\* The head of the loop: the gate, then the turn activity is started.
HeadOfLoop(r, s) ==
  \/ PreTurnCap(config[r].budget, s) # "none"
     /\ Ends(r, PreTurnCap(config[r].budget, s))
  \/ PreTurnCap(config[r].budget, s) = "none" /\ GoesTo(r, "turn")

\* Wrong on purpose: the end signal overtakes queued messages ...
TakeNextEndingFirst(r, s) ==
  \/ /\ pending[r] > 0 /\ ~ending[r]
     /\ pending' = [pending EXCEPT ![r] = @ - 1]
     /\ HeadOfLoop(r, s)
  \/ ending[r] /\ Ends(r, "ConversationEnded") /\ UNCHANGED pending

\* ... or is never looked at.
TakeNextIgnoringEnd(r, s) ==
  /\ pending[r] > 0
  /\ pending' = [pending EXCEPT ![r] = @ - 1]
  /\ HeadOfLoop(r, s)

\* Past the wait: queued messages drain before the end signal takes effect.
TakeNext(r, s) ==
  \/ /\ pending[r] > 0
     /\ pending' = [pending EXCEPT ![r] = @ - 1]
     /\ HeadOfLoop(r, s)
  \/ /\ pending[r] = 0 /\ ending[r]
     /\ Ends(r, "ConversationEnded")
     /\ UNCHANGED pending

\* Wrong on purpose: the output guardrail is asked before the budget.
AfterTurnGuardrailFirst(r, s) ==
  \/ Ends(r, "GuardrailBlocked") /\ UNCHANGED pending
  \/ /\ PostTurnCap(config[r].budget, s) # "none"
     /\ Ends(r, PostTurnCap(config[r].budget, s))
     /\ UNCHANGED pending
  \/ /\ PostTurnCap(config[r].budget, s) = "none"
     /\ \/ ~config[r].interactive /\ Ends(r, "Completed") /\ UNCHANGED pending
        \/ config[r].interactive /\ TakeNext(r, s)
        \/ /\ config[r].interactive /\ pending[r] = 0 /\ ~ending[r]
           /\ GoesTo(r, "waiting")
           /\ UNCHANGED pending

\* From the recorded turn to the next await or to the end.
AfterTurn(r, s) ==
  \/ /\ PostTurnCap(config[r].budget, s) # "none"
     /\ Ends(r, PostTurnCap(config[r].budget, s))
     /\ UNCHANGED pending
  \/ /\ PostTurnCap(config[r].budget, s) = "none"
     /\ \/ Ends(r, "GuardrailBlocked") /\ UNCHANGED pending
        \/ ~config[r].interactive /\ Ends(r, "Completed") /\ UNCHANGED pending
        \/ config[r].interactive /\ TakeNext(r, s)
        \/ /\ config[r].interactive /\ pending[r] = 0 /\ ~ending[r]
           /\ GoesTo(r, "waiting")
           /\ UNCHANGED pending

-----------------------------------------------------------------------------
(* The run method. *)

\* First activation: unknown agent, input guardrails, then the loop.
Activate(r) ==
  /\ phase[r] = "created"
  /\ \/ r = Root /\ GoesTo(r, "failed")
     \/ Ends(r, "GuardrailBlocked")
     \/ HeadOfLoop(r, NoSpend)
  /\ UNCHANGED <<config, parent, handoff, spend_vars, signal_vars, overlapped>>

\* Wrong on purpose: the delegated cursor does not advance.
TurnCompletesCursorStuck(r, usage) ==
  LET s == AbsorbRun(AbsorbTurn(spend[r], usage), late[r]) IN
  /\ phase[r] = "turn"
  /\ spend' = [spend EXCEPT ![r] = s]
  /\ transcript' = [transcript EXCEPT ![r] = AbsorbTurn(@, usage)]
  /\ AfterTurn(r, s)
  /\ overlapped' = [overlapped EXCEPT ![r] = @ \/ Awaited(r) # {}]
  /\ UNCHANGED <<absorbed, late, config, parent, handoff, ending, sent>>

\* The turn activity succeeded: its usage, and the outputs of the children
\* that returned meanwhile, are absorbed and the turn is recorded.
TurnCompletes(r, usage) ==
  LET s == AbsorbRun(AbsorbTurn(spend[r], usage), late[r]) IN
  /\ phase[r] = "turn"
  /\ spend' = [spend EXCEPT ![r] = s]
  /\ transcript' = [transcript EXCEPT ![r] = AbsorbTurn(@, usage)]
  /\ absorbed' = [absorbed EXCEPT ![r] = AbsorbRun(@, late[r])]
  /\ late' = [late EXCEPT ![r] = NoSpend]
  /\ AfterTurn(r, s)
  /\ overlapped' = [overlapped EXCEPT ![r] = @ \/ Awaited(r) # {}]
  /\ UNCHANGED <<config, parent, handoff, ending, sent>>

WakeUp(r) ==
  /\ phase[r] = "waiting"
  /\ TakeNext(r, spend[r])
  /\ UNCHANGED <<config, parent, handoff, spend_vars, ending, sent, overlapped>>

\* The turn activity failed for good, or the run was cancelled at an await.
RunFails(r) ==
  /\ Started(r)
  /\ GoesTo(r, "failed")
  /\ UNCHANGED <<config, parent, handoff, spend_vars, signal_vars, overlapped>>

\* Signals.  An interactive run is the only one that reads them.
UserMessage(r) ==
  /\ Open(r) /\ config[r].interactive
  /\ sent[r] < MaxMessages
  /\ pending' = [pending EXCEPT ![r] = @ + 1]
  /\ sent' = [sent EXCEPT ![r] = @ + 1]
  /\ UNCHANGED <<run_vars, handoff, spend_vars, ending, overlapped>>

EndConversation(r) ==
  /\ Open(r) /\ config[r].interactive
  /\ ending' = [ending EXCEPT ![r] = TRUE]
  /\ UNCHANGED <<run_vars, handoff, spend_vars, pending, sent, overlapped>>

-----------------------------------------------------------------------------
(* Handoffs: the tool_invoked handler for a handoff tool. *)

\* Recomputed from the workflow state, not from the loop's totals.
ParentRecordedSpend(p) == AbsorbRun(AbsorbRun(transcript[p], absorbed[p]), late[p])

\* Budget read and child start are one step: there is no await between them.
\* A handoff that is refused changes nothing here.
Handoff(p, c, own) ==
  LET spent == ParentRecordedSpend(p) IN
  /\ Started(p)
  /\ phase[c] = "unused"
  /\ MayDelegate(config[p].budget, spent)
  /\ phase' = [phase EXCEPT ![c] = "created"]
  /\ config' = [config EXCEPT ![c] =
       [interactive |-> FALSE,
        budget |-> Intersect(RemainingBudget(config[p].budget, spent), own)]]
  /\ parent' = [parent EXCEPT ![c] = p]
  /\ handoff' = [handoff EXCEPT ![c] = "awaiting"]
  /\ overlapped' = [overlapped EXCEPT ![p] = @ \/ Awaited(p) # {}]
  /\ UNCHANGED <<end, spend_vars, signal_vars>>

\* The child's output reaches the handler, whatever its end.
HandoffReturns(p, c) ==
  /\ Started(p) /\ c \in Awaited(p)
  /\ phase[c] = "ended"
  /\ handoff' = [handoff EXCEPT ![c] = "returned"]
  /\ late' = [late EXCEPT ![p] = AbsorbRun(@, spend[c])]
  /\ overlapped' = [overlapped EXCEPT ![p] = @ \/ overlapped[c]]
  /\ UNCHANGED <<run_vars, spend, transcript, absorbed, signal_vars>>

\* Wrong on purpose: the handler's wait does not notice a failed child.
HandoffFailsUnnoticed(p, c) ==
  /\ Started(p) /\ c \in Awaited(p)
  /\ phase[c] = "failed" /\ end[c] # "none"
  /\ handoff' = [handoff EXCEPT ![c] = "failed"]
  /\ UNCHANGED <<run_vars, spend_vars, signal_vars, overlapped>>

\* A failed child is an error for the model and leaves no account behind.
HandoffFails(p, c) ==
  /\ Started(p) /\ c \in Awaited(p)
  /\ phase[c] = "failed"
  /\ handoff' = [handoff EXCEPT ![c] = "failed"]
  /\ UNCHANGED <<run_vars, spend_vars, signal_vars, overlapped>>

\* External: the engine's default parent-close policy terminates the children
\* of a closed run, some time after it closed.
TerminateOrphan(p, c) ==
  /\ phase[p] \in {"ended", "failed"} /\ parent[c] = p
  /\ Open(c)
  /\ GoesTo(c, "failed")
  /\ UNCHANGED <<config, parent, handoff, spend_vars, signal_vars, overlapped>>

Next ==
  \E r \in Run :
    \/ Activate(r)
    \/ \E usage \in TurnUsages : TurnCompletes(r, usage)
    \/ WakeUp(r)
    \/ RunFails(r)
    \/ UserMessage(r)
    \/ EndConversation(r)
    \/ \E c \in Run :
         \/ \E own \in AgentBudgets : Handoff(r, c, own)
         \/ HandoffReturns(r, c)
         \/ HandoffFails(r, c)
         \/ TerminateOrphan(r, c)

Spec == Init /\ [][Next]_vars

\* A turn activity has a start-to-close timeout and bounded attempts, so it
\* settles, well or badly; a worker polls, so what needs no one but the
\* workflow happens.  Nothing is assumed of the client, of failures, or of
\* the model calling a handoff.
TurnSettles(r) ==
  phase[r] = "turn" /\ (RunFails(r) \/ \E usage \in TurnUsages : TurnCompletes(r, usage))

FairSpec ==
  /\ Spec
  /\ \A r \in Run :
       /\ WF_vars(Activate(r))
       /\ WF_vars(TurnSettles(r))
       /\ WF_vars(WakeUp(r))
       /\ \A c \in Run : WF_vars(HandoffReturns(r, c) \/ HandoffFails(r, c))

-----------------------------------------------------------------------------
(* Properties. *)

\* Types of the run loop's state (run.rs AgentRun and the locals of `run`).
TypeOK ==
  /\ phase \in [Run -> {"unused", "created", "turn", "waiting", "ended", "failed"}]
  /\ end \in [Run -> RunEnd \cup {"none"}]
  /\ config \in [Run -> [interactive : BOOLEAN, budget : Budget]]
  /\ parent \in [Run -> Run \cup {NoRun}]
  /\ handoff \in [Run -> {"none", "awaiting", "returned", "failed"}]
  /\ spend \in [Run -> Spend]
  /\ transcript \in [Run -> Spend]
  /\ absorbed \in [Run -> Spend]
  /\ late \in [Run -> Spend]
  /\ pending \in [Run -> Nat]
  /\ ending \in [Run -> BOOLEAN]
  /\ sent \in [Run -> Nat]
  /\ overlapped \in [Run -> BOOLEAN]

Returned(r) == {c \in Run : parent[c] = r /\ handoff[c] = "returned"}

\* The recorded turns of r and the outputs its handlers received, in a field.
RecordedTotal(r, field) ==
  transcript[r][field] + MapThenSumSet(LAMBDA c : spend[c][field], Returned(r))

\* Whatever the order in which children return and turns end, each returned
\* child is counted exactly once, now or at the next turn's end, in every field
\* (the delegated cursor of the loop; docs/budgets-and-handoffs.md, Handoffs).
SpendConserved ==
  \A r \in Run, field \in DOMAIN NoSpend :
    spend[r][field] + late[r][field] = RecordedTotal(r, field)

\* A run that hands off one at a time, each within a turn, stays within its turn cap
\* in direct and delegated turns, if the children it hears from do; what runs beside
\* it or above it does not matter (guardrail.rs RunBudget, run.rs remaining_budget:
\* the parent's own turn is held back).
TurnCapHard ==
  \A r \in Run :
    ~overlapped[r] /\ config[r].budget.max_turns # NoCap =>
      spend[r].turns + late[r].turns <= config[r].budget.max_turns

\* The lines of runs down from r: each but r was started by another of the line,
\* and no two by the same one.
Lines(r) ==
  {line \in SUBSET Run :
     /\ r \in line
     /\ \A c \in line \ {r} : parent[c] \in line
     /\ \A c, d \in line \ {r} : parent[c] = parent[d] => c = d}

\* How many levels of delegation there are from r down, r included.
Levels(r) == Max({Cardinality(line) : line \in Lines(r)})

LargestFigure(figures) == Max({Known(figure) : figure \in figures})

WithinOvershoot(total, cap, levels, largest) ==
  cap # NoCap => total = 0 \/ total < cap + levels * largest

\* A token or cost cap is crossed by at most the turn in flight at each level of
\* delegation, never by a turn started with the cap already reached, for a run
\* whose handoffs, and those of the runs below it, do not overlap (run.rs, the
\* checks before and after a turn, and remaining_budget, which knows nothing of
\* the turn that hands off).  The docs claim less overshoot: OvershootOneTurn.
OvershootBounded ==
  \A r \in Run :
    ~overlapped[r] =>
      /\ WithinOvershoot(spend[r].tokens + late[r].tokens,
                         config[r].budget.max_total_tokens, Levels(r),
                         LargestFigure({usage.tokens : usage \in TurnUsages}))
      /\ WithinOvershoot(spend[r].cost + late[r].cost,
                         config[r].budget.max_cost_usd, Levels(r),
                         LargestFigure({usage.cost : usage \in TurnUsages}))

\* What docs/budgets-and-handoffs.md says: the recorded spend of a run that is
\* over is bounded by the cap plus one turn's aggregate usage.  The turn that
\* hands off and the child's own turn each cross the cap, handoffs one at a time.
OvershootOneTurn ==
  \A r \in Run :
    phase[r] = "ended" /\ ~overlapped[r] =>
      LET budget == config[r].budget IN
      /\ budget.max_total_tokens # NoCap =>
           spend[r].tokens <=
             budget.max_total_tokens + LargestFigure({usage.tokens : usage \in TurnUsages})
      /\ budget.max_cost_usd # NoCap =>
           spend[r].cost <=
             budget.max_cost_usd + LargestFigure({usage.cost : usage \in TurnUsages})

\* A conversation that ends by end_conversation has run a turn for its prompt
\* and for every message it accepted, however signals and turns interleave (the
\* comment at run.rs's wait: queued messages drain first).
EveryMessageAnswered ==
  \A r \in Run :
    end[r] = "ConversationEnded" => transcript[r].turns = 1 + sent[r]

\* An output that is over some cap says so: no other end hides it, not even a
\* guardrail tripped by the same turn (run.rs, order of the checks after a turn).
OverspendReported ==
  \A r \in Run :
    phase[r] = "ended" /\ PostTurnCap(config[r].budget, spend[r]) # "none"
      => end[r] = PostTurnCap(config[r].budget, spend[r])

\* What docs/budgets-and-handoffs.md says of a turn cap, with no exception for
\* handoffs that run side by side: it is the hard limit, and a nested agent
\* cannot escape it.  The code grants each of them the same remaining turns.
TurnCapAlwaysHard ==
  \A r \in Run :
    config[r].budget.max_turns # NoCap =>
      spend[r].turns + late[r].turns <= config[r].budget.max_turns

\* What RunOutput.usage is documented to be: direct turns and all handoff
\* children.  The loop absorbs children only when a turn ends, so a child that
\* returns after the last one is recorded in the state and not in the output.
OutputCountsReturnedChildren ==
  \A r \in Run, field \in DOMAIN NoSpend :
    phase[r] = "ended" => spend[r][field] = RecordedTotal(r, field)

\* Once told to end, a conversation closes after the messages it accepted.
ConversationEnds ==
  ending[Root] ~> phase[Root] \in {"ended", "failed"}

\* A handoff call is always answered, unless its run closes first: a child ends or
\* fails, and both reach the waiting handler (run.rs execute_handoff).
HandoffsSettle ==
  \A p, c \in Run :
    (parent[c] = p /\ handoff[c] = "awaiting")
      ~> (handoff[c] # "awaiting" \/ phase[p] \in {"ended", "failed"})
=============================================================================
