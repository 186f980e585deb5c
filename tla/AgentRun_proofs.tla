--------------------------- MODULE AgentRun_proofs ---------------------------
(***************************************************************************)
(* Proofs about AgentRun, for every number of runs, every budget and every *)
(* usage: type correctness, the turn cap under sequential handoffs, and    *)
(* what the end of a run says.                                             *)
(***************************************************************************)
EXTENDS AgentRun, TLAPS

-----------------------------------------------------------------------------
(* What the accounting operators compute. *)

(* The empty account is an account. *)
LEMMA NoSpendType == NoSpend \in Spend
BY DEF NoSpend, Spend

(* Absorbing a turn adds one turn. *)
LEMMA AbsorbTurnEffect ==
  ASSUME NEW s \in Spend, NEW usage \in TurnUsage
  PROVE  AbsorbTurn(s, usage) \in Spend /\ AbsorbTurn(s, usage).turns = s.turns + 1
BY UnknownIsNoNumber DEF Spend, TurnUsage, AbsorbTurn, Known, Missing

(* Absorbing a child adds its turns. *)
LEMMA AbsorbRunEffect ==
  ASSUME NEW s \in Spend, NEW child \in Spend
  PROVE  AbsorbRun(s, child) \in Spend /\ AbsorbRun(s, child).turns = s.turns + child.turns
BY DEF Spend, AbsorbRun

(* What an open gate before a turn says of the turn cap. *)
LEMMA PreTurnCapMeaning ==
  ASSUME NEW budget \in Budget, NEW s \in Spend
  PROVE  /\ PreTurnCap(budget, s) \in {"none", "Turns", "TotalTokens", "CostUsd"}
         /\ PreTurnCap(budget, s) = "none" /\ budget.max_turns # NoCap
              => s.turns < budget.max_turns
BY NoCapIsNoNumber DEF Budget, Cap, Spend, PreTurnCap, FirstTripped, Reaches

(* The gate after a turn names a dimension or none. *)
LEMMA PostTurnCapRange ==
  ASSUME NEW budget, NEW s
  PROVE  PostTurnCap(budget, s) \in {"none", "Turns", "TotalTokens", "CostUsd"}
BY DEF PostTurnCap, FirstTripped

(* A run that has spent nothing is over no cap. *)
LEMMA NothingSpentNothingCrossed ==
  ASSUME NEW budget \in Budget
  PROVE  PostTurnCap(budget, NoSpend) = "none"
BY NoCapIsNoNumber DEF Budget, Cap, NoSpend, PostTurnCap, FirstTripped, Exceeds

(* The stricter of two caps is a cap, and no looser than the first. *)
LEMMA StricterEffect ==
  ASSUME NEW left \in Cap, NEW right \in Cap
  PROVE  /\ Stricter(left, right) \in Cap
         /\ left # NoCap => Stricter(left, right) # NoCap /\ Stricter(left, right) <= left
BY NoCapIsNoNumber DEF Cap, Stricter

(* What is left of a cap is a cap. *)
LEMMA LeftEffect ==
  ASSUME NEW cap \in Cap, NEW spent \in Nat
  PROVE  /\ Left(cap, spent) \in Cap
         /\ Left(cap, spent) = NoCap <=> cap = NoCap
         /\ cap # NoCap /\ Left(cap, spent) # 0 => spent + Left(cap, spent) = cap
BY NoCapIsNoNumber DEF Cap, Left

(* A child's budget is a budget, and with the parent's own turn held back the *)
(* child's turns fit under the parent's cap.                                  *)
LEMMA DelegatedBudgetFits ==
  ASSUME NEW budget \in Budget, NEW spent \in Spend, NEW own \in Budget,
         MayDelegate(budget, spent)
  PROVE  LET given == Intersect(RemainingBudget(budget, spent), own) IN
         /\ given \in Budget
         /\ budget.max_turns # NoCap =>
              given.max_turns # NoCap /\ spent.turns + 1 + given.max_turns <= budget.max_turns
<1> DEFINE rest == RemainingBudget(budget, spent)
           given == Intersect(rest, own)
<1>1. /\ budget.max_turns \in Cap /\ budget.max_total_tokens \in Cap
      /\ budget.max_cost_usd \in Cap
      /\ own.max_turns \in Cap /\ own.max_total_tokens \in Cap /\ own.max_cost_usd \in Cap
      /\ spent.turns \in Nat /\ spent.turns + 1 \in Nat
      /\ spent.tokens \in Nat /\ spent.cost \in Nat
  BY DEF Budget, Spend
<1>2. /\ rest.max_turns = Left(budget.max_turns, spent.turns + 1)
      /\ rest.max_total_tokens = Left(budget.max_total_tokens, spent.tokens)
      /\ rest.max_cost_usd = Left(budget.max_cost_usd, spent.cost)
  BY DEF RemainingBudget
<1>3. rest.max_turns \in Cap /\ rest.max_total_tokens \in Cap /\ rest.max_cost_usd \in Cap
  BY <1>1, <1>2, LeftEffect
<1>4. /\ given.max_turns = Stricter(rest.max_turns, own.max_turns)
      /\ given = [max_turns |-> Stricter(rest.max_turns, own.max_turns),
                  max_total_tokens |-> Stricter(rest.max_total_tokens, own.max_total_tokens),
                  max_cost_usd |-> Stricter(rest.max_cost_usd, own.max_cost_usd)]
  BY DEF Intersect
<1>5. /\ Stricter(rest.max_turns, own.max_turns) \in Cap
      /\ Stricter(rest.max_total_tokens, own.max_total_tokens) \in Cap
      /\ Stricter(rest.max_cost_usd, own.max_cost_usd) \in Cap
  BY <1>1, <1>3, StricterEffect
<1>6. given \in Budget
  BY <1>4, <1>5 DEF Budget
<1>7. ASSUME budget.max_turns # NoCap
      PROVE  given.max_turns # NoCap /\ spent.turns + 1 + given.max_turns <= budget.max_turns
  <2>1. rest.max_turns # 0
    BY DEF MayDelegate
  <2>2. rest.max_turns # NoCap /\ spent.turns + 1 + rest.max_turns = budget.max_turns
    <3>1. rest.max_turns = Left(budget.max_turns, spent.turns + 1)
      BY <1>2
    <3> HIDE DEF rest
    <3> QED BY <1>1, <1>7, <2>1, <3>1, LeftEffect
  <2>3. given.max_turns # NoCap /\ given.max_turns <= rest.max_turns
    BY <1>1, <1>3, <1>4, <2>2, StricterEffect
  <2>4. rest.max_turns \in Nat /\ given.max_turns \in Nat
    BY <1>3, <1>4, <1>5, <2>2, <2>3 DEF Cap
  <2> QED BY <1>1, <2>2, <2>3, <2>4
<1> QED BY <1>6, <1>7

-----------------------------------------------------------------------------
(* The inductive invariant. *)

\* A run that has not reached its loop has spent nothing.
Fresh(r) ==
  phase[r] \in {"unused", "created"} =>
    /\ spend[r] = NoSpend /\ transcript[r] = NoSpend
    /\ absorbed[r] = NoSpend /\ late[r] = NoSpend

\* Every accepted message is in the queue, in the turn in flight or answered.
MessagesAccounted(r) ==
  /\ phase[r] = "unused" => pending[r] = 0 /\ sent[r] = 0
  /\ phase[r] = "created" => pending[r] = sent[r]
  /\ phase[r] = "turn" => transcript[r].turns + pending[r] = sent[r]
  /\ phase[r] = "waiting" => transcript[r].turns + pending[r] = 1 + sent[r]

\* The loop's running total is what ParentRecordedSpend adds up.
TurnsAccounted(r) == spend[r].turns = transcript[r].turns + absorbed[r].turns

\* How the end of a run and its totals go together.
EndAccounted(r) ==
  /\ phase[r] = "ended" <=> end[r] # "none"
  /\ phase[r] = "waiting" => PostTurnCap(config[r].budget, spend[r]) = "none"

TurnCap(r) == config[r].budget.max_turns
TurnsOnRecord(r) == spend[r].turns + late[r].turns

\* A started run has room for its next turn beside what its handoffs returned.
RoomForOwnTurn(r) ==
  TurnCap(r) # NoCap =>
    /\ TurnsOnRecord(r) <= TurnCap(r)
    /\ phase[r] = "turn" => TurnsOnRecord(r) + 1 <= TurnCap(r)
    /\ phase[r] = "waiting" /\ late[r].turns > 0 => TurnsOnRecord(r) + 1 <= TurnCap(r)

\* A child that the handler of p still awaits may use what p has left, less
\* p's own next turn, and it is the only one.
ChildFits(p, c) ==
  (Started(p) /\ c \in Awaited(p)) =>
    /\ \A d \in Awaited(p) : d = c
    /\ phase[c] # "unused"
    /\ TurnCap(p) # NoCap =>
         TurnCap(c) # NoCap /\ TurnsOnRecord(p) + 1 + TurnCap(c) <= TurnCap(p)

\* The parts of the invariant that speak of one run.
RunInv(r) ==
  /\ Fresh(r)
  /\ MessagesAccounted(r)
  /\ TurnsAccounted(r)
  /\ EndAccounted(r)
  /\ end[r] = "ConversationEnded" => transcript[r].turns = 1 + sent[r]
  /\ phase[r] = "ended" /\ PostTurnCap(config[r].budget, spend[r]) # "none"
       => end[r] = PostTurnCap(config[r].budget, spend[r])

\* A run has a parent only once it was started by a run in its loop.
ParentStarted(r) ==
  /\ phase[r] = "unused" => parent[r] = NoRun
  /\ parent[r] # NoRun => phase[parent[r]] \notin {"unused", "created"}

CapInv ==
  \A r \in Run :
    ~overlapped[r] => RoomForOwnTurn(r) /\ \A c \in Run : ChildFits(r, c)

IInv ==
  /\ TypeOK
  /\ \A r \in Run : RunInv(r) /\ ParentStarted(r)
  /\ CapInv

-----------------------------------------------------------------------------
(* What the loop does between two awaits. *)

\* Run r, with running total s, goes to `where`, for the reason `why` if that
\* is its end, and leaves `queued` messages.
Outcome(r, s, where, why, queued) ==
  /\ phase' = [phase EXCEPT ![r] = where]
  /\ end' = [end EXCEPT ![r] = why]
  /\ pending' = [pending EXCEPT ![r] = queued]
  /\ where \in {"ended", "turn", "waiting"} /\ queued \in Nat
  /\ where = "ended" =>
       /\ why \in RunEnd
       /\ PostTurnCap(config[r].budget, s) # "none"
            => why = PostTurnCap(config[r].budget, s)
       /\ why = "ConversationEnded" => pending[r] = 0
  /\ where # "ended" => why = "none" /\ PostTurnCap(config[r].budget, s) = "none"
  /\ where = "turn" =>
       PreTurnCap(config[r].budget, s) = "none" /\ pending[r] = queued + 1
  /\ where = "waiting" => queued = pending[r]

(* The head of the loop starts a turn with every cap open, or names the cap. *)
LEMMA HeadOfLoopEffect ==
  ASSUME TypeOK, NEW r \in Run, NEW s \in Spend, HeadOfLoop(r, s), end[r] = "none"
  PROVE  \/ /\ phase' = [phase EXCEPT ![r] = "turn"] /\ end' = [end EXCEPT ![r] = "none"]
            /\ PreTurnCap(config[r].budget, s) = "none"
         \/ \E why \in {"Turns", "TotalTokens", "CostUsd"} :
              phase' = [phase EXCEPT ![r] = "ended"] /\ end' = [end EXCEPT ![r] = why]
<1>1. config[r].budget \in Budget
  BY DEF TypeOK
<1>2. end = [end EXCEPT ![r] = "none"]
  BY DEF TypeOK
<1>3. PreTurnCap(config[r].budget, s) \in {"none", "Turns", "TotalTokens", "CostUsd"}
  BY <1>1, PreTurnCapMeaning
<1> QED BY <1>2, <1>3 DEF HeadOfLoop, Ends, GoesTo

(* Past the wait, with no cap crossed. *)
LEMMA TakeNextEffect ==
  ASSUME TypeOK, NEW r \in Run, NEW s \in Spend, TakeNext(r, s), end[r] = "none",
         PostTurnCap(config[r].budget, s) = "none"
  PROVE  \E where, why, queued : Outcome(r, s, where, why, queued)
<1>1. CASE /\ pending[r] > 0
           /\ pending' = [pending EXCEPT ![r] = @ - 1]
           /\ HeadOfLoop(r, s)
  <2>1. pending[r] - 1 \in Nat /\ pending[r] = (pending[r] - 1) + 1
    BY <1>1 DEF TypeOK
  <2>2. CASE /\ phase' = [phase EXCEPT ![r] = "turn"] /\ end' = [end EXCEPT ![r] = "none"]
             /\ PreTurnCap(config[r].budget, s) = "none"
    <3>1. Outcome(r, s, "turn", "none", pending[r] - 1)
      BY <1>1, <2>1, <2>2 DEF Outcome
    <3> QED BY <3>1
  <2>3. ASSUME NEW why \in {"Turns", "TotalTokens", "CostUsd"},
               phase' = [phase EXCEPT ![r] = "ended"], end' = [end EXCEPT ![r] = why]
        PROVE  Outcome(r, s, "ended", why, pending[r] - 1)
    BY <1>1, <2>1, <2>3 DEF Outcome, RunEnd
  <2> QED BY <1>1, <2>2, <2>3, HeadOfLoopEffect
<1>2. CASE /\ pending[r] = 0 /\ ending[r]
           /\ Ends(r, "ConversationEnded")
           /\ UNCHANGED pending
  <2>1. Outcome(r, s, "ended", "ConversationEnded", 0)
    BY <1>2 DEF Outcome, Ends, RunEnd, TypeOK
  <2> QED BY <2>1
<1> QED BY <1>1, <1>2 DEF TakeNext

(* From the recorded turn to the next await or to the end. *)
LEMMA AfterTurnEffect ==
  ASSUME TypeOK, NEW r \in Run, NEW s \in Spend, AfterTurn(r, s), end[r] = "none"
  PROVE  \E where, why, queued : Outcome(r, s, where, why, queued)
<1> DEFINE post == PostTurnCap(config[r].budget, s)
<1>1. post \in {"none", "Turns", "TotalTokens", "CostUsd"}
  BY PostTurnCapRange
<1>2. pending[r] \in Nat /\ pending = [pending EXCEPT ![r] = pending[r]]
  BY DEF TypeOK
<1>3. ASSUME NEW why \in RunEnd, Ends(r, why), UNCHANGED pending,
             post # "none" => why = post, why # "ConversationEnded"
      PROVE  Outcome(r, s, "ended", why, pending[r])
  BY <1>2, <1>3 DEF Outcome, Ends
<1>4. CASE post # "none" /\ Ends(r, post) /\ UNCHANGED pending
  BY <1>1, <1>3, <1>4 DEF RunEnd
<1>5. CASE post = "none" /\ Ends(r, "GuardrailBlocked") /\ UNCHANGED pending
  BY <1>3, <1>5 DEF RunEnd
<1>6. CASE post = "none" /\ Ends(r, "Completed") /\ UNCHANGED pending
  BY <1>3, <1>6 DEF RunEnd
<1>7. CASE post = "none" /\ TakeNext(r, s)
  BY <1>7, TakeNextEffect
<1>8. CASE post = "none" /\ GoesTo(r, "waiting") /\ UNCHANGED pending
  <2>1. end = [end EXCEPT ![r] = "none"]
    BY DEF TypeOK
  <2>2. Outcome(r, s, "waiting", "none", pending[r])
    BY <1>2, <1>8, <2>1 DEF Outcome, GoesTo
  <2> QED BY <2>2
<1> QED BY <1>4, <1>5, <1>6, <1>7, <1>8 DEF AfterTurn

-----------------------------------------------------------------------------
(* What steps leave alone. *)

(* A step that does not touch run q keeps what the invariant says of it. *)
LEMMA RunInvKept ==
  ASSUME NEW q, RunInv(q),
         phase'[q] = phase[q], end'[q] = end[q], config'[q] = config[q],
         spend'[q] = spend[q], transcript'[q] = transcript[q],
         absorbed'[q] = absorbed[q], late'[q] = late[q],
         pending'[q] = pending[q], sent'[q] = sent[q]
  PROVE  RunInv(q)'
BY DEF RunInv, Fresh, MessagesAccounted, TurnsAccounted, EndAccounted

(* A step that only moves run r to another phase keeps the budgets' invariant, *)
(* if r has room for what it moves to and does not start with children.       *)
LEMMA PhaseStepCap ==
  ASSUME IInv, NEW r \in Run, NEW where, where # "unused",
         phase' = [phase EXCEPT ![r] = where],
         UNCHANGED <<config, parent, handoff, spend, late, overlapped>>,
         ~overlapped[r] => RoomForOwnTurn(r)',
         where \in {"turn", "waiting"} => Started(r) \/ Awaited(r) = {}
  PROVE  CapInv'
<1> SUFFICES ASSUME NEW p \in Run, ~overlapped[p]
             PROVE  RoomForOwnTurn(p)' /\ \A c \in Run : ChildFits(p, c)'
  BY DEF CapInv
<1>1. RoomForOwnTurn(p) /\ \A c \in Run : ChildFits(p, c)
  BY DEF IInv, CapInv
<1>2. RoomForOwnTurn(p)'
  BY <1>1 DEF RoomForOwnTurn, TurnCap, TurnsOnRecord, IInv, TypeOK
<1>3. Awaited(p)' = Awaited(p)
  BY DEF Awaited
<1>4. Started(p)' => Started(p) \/ Awaited(p) = {}
  BY DEF Started, IInv, TypeOK
<1>5. ASSUME NEW c \in Run PROVE ChildFits(p, c)'
  BY <1>1, <1>3, <1>4 DEF ChildFits, TurnCap, TurnsOnRecord, IInv, TypeOK
<1> QED BY <1>2, <1>5

(* A run in its first phase has no children. *)
LEMMA NoChildrenYet ==
  ASSUME IInv, NEW r \in Run, phase[r] \in {"unused", "created"}
  PROVE  Awaited(r) = {}
BY NoRunIsNoRun DEF IInv, ParentStarted, Awaited

(* Parents stay started: no step takes a run back to its first phases. *)
LEMMA ParentsStayStarted ==
  ASSUME IInv, NEW r \in Run, NEW where, where \notin {"unused", "created"},
         phase' = [phase EXCEPT ![r] = where], phase[r] # "unused", UNCHANGED parent
  PROVE  \A q \in Run : ParentStarted(q)'
BY DEF IInv, ParentStarted, TypeOK

-----------------------------------------------------------------------------
(* The initial state, and one lemma per action. *)

(* The initial state satisfies the invariant: nothing is spent. *)
LEMMA InitInv == Init => IInv
<1> SUFFICES ASSUME Init PROVE IInv
  OBVIOUS
<1>1. TypeOK
  <2>1. \A budget \in RootBudgets : budget \in Budget
    BY BudgetsAreBudgets
  <2>2. Unlimited \in Budget
    BY DEF Unlimited, Budget, Cap
  <2>3. config \in [Run -> [interactive : BOOLEAN, budget : Budget]]
    BY <2>1, <2>2 DEF Init
  <2>4. /\ spend \in [Run -> Spend] /\ transcript \in [Run -> Spend]
        /\ absorbed \in [Run -> Spend] /\ late \in [Run -> Spend]
    BY NoSpendType DEF Init
  <2> QED BY <2>3, <2>4 DEF Init, TypeOK
<1>2. ASSUME NEW r \in Run PROVE RunInv(r) /\ ParentStarted(r)
  <2>1. spend[r] = NoSpend /\ transcript[r] = NoSpend /\ absorbed[r] = NoSpend
        /\ late[r] = NoSpend /\ end[r] = "none" /\ phase[r] \in {"unused", "created"}
        /\ pending[r] = 0 /\ sent[r] = 0 /\ parent[r] = NoRun
    BY DEF Init
  <2>2. NoSpend.turns = NoSpend.turns + NoSpend.turns
    BY DEF NoSpend
  <2> QED
    BY <2>1, <2>2 DEF RunInv, Fresh, MessagesAccounted, TurnsAccounted, EndAccounted,
       ParentStarted
<1>3. CapInv
  <2> SUFFICES ASSUME NEW r \in Run PROVE RoomForOwnTurn(r) /\ \A c \in Run : ChildFits(r, c)
    BY DEF CapInv
  <2>1. spend[r].turns = 0 /\ late[r].turns = 0 /\ phase[r] \notin {"turn", "waiting"}
    BY DEF Init, NoSpend
  <2>2. TurnCap(r) \in Cap
    BY <1>1 DEF TypeOK, Budget, TurnCap
  <2> QED BY <2>1, <2>2 DEF RoomForOwnTurn, ChildFits, Started, TurnsOnRecord, Cap
<1> QED BY <1>1, <1>2, <1>3 DEF IInv

(* The first activation: the run fails, is blocked, or meets the first gate. *)
LEMMA ActivateInv ==
  ASSUME IInv, NEW r \in Run, Activate(r)
  PROVE  IInv'
<1> USE DEF IInv
<1>1. phase[r] = "created" /\ end[r] = "none"
  BY DEF Activate, RunInv, EndAccounted
<1>2. PICK where \in {"failed", "ended", "turn"}, why \in RunEnd \cup {"none"} :
         /\ phase' = [phase EXCEPT ![r] = where] /\ end' = [end EXCEPT ![r] = why]
         /\ where = "ended" <=> why # "none"
         /\ why # "ConversationEnded"
         /\ where = "turn" => PreTurnCap(config[r].budget, NoSpend) = "none"
  <2>1. CASE GoesTo(r, "failed")
    <3>1. end = [end EXCEPT ![r] = "none"]
      BY <1>1 DEF TypeOK
    <3> QED BY <2>1, <3>1 DEF GoesTo
  <2>2. CASE Ends(r, "GuardrailBlocked")
    BY <2>2 DEF Ends, RunEnd
  <2>3. CASE HeadOfLoop(r, NoSpend)
    BY <1>1, <2>3, NoSpendType, HeadOfLoopEffect DEF RunEnd
  <2> QED BY <2>1, <2>2, <2>3 DEF Activate
<1>3. UNCHANGED <<config, parent, handoff, spend, transcript, absorbed, late,
                  pending, ending, sent, overlapped>>
  BY DEF Activate, spend_vars, signal_vars
<1>4. TypeOK'
  BY <1>2, <1>3 DEF TypeOK
<1>5. spend[r] = NoSpend /\ transcript[r] = NoSpend /\ late[r] = NoSpend
      /\ NoSpend.turns = 0 /\ pending[r] = sent[r]
  BY <1>1 DEF RunInv, Fresh, MessagesAccounted, NoSpend
<1>6. config[r].budget \in Budget
  BY DEF TypeOK
<1>7. RunInv(r)'
  <2>1. PostTurnCap(config[r].budget, spend[r]) = "none"
    BY <1>5, <1>6, NothingSpentNothingCrossed
  <2>2. phase'[r] = where /\ end'[r] = why
    BY <1>2 DEF TypeOK
  <2>3. pending[r] \in Nat
    BY DEF TypeOK
  <2> QED
    BY <1>2, <1>3, <1>5, <2>1, <2>2, <2>3
       DEF RunInv, Fresh, MessagesAccounted, TurnsAccounted, EndAccounted
<1>8. ASSUME NEW q \in Run, q # r PROVE RunInv(q)'
  BY <1>2, <1>3, <1>8, RunInvKept DEF TypeOK
<1>9. \A q \in Run : ParentStarted(q)'
  BY <1>1, <1>2, <1>3, ParentsStayStarted
<1>10. RoomForOwnTurn(r)'
  <2>1. TurnCap(r) # NoCap => TurnCap(r) \in Nat
    BY <1>6 DEF Budget, Cap, TurnCap
  <2>2. where = "turn" /\ TurnCap(r) # NoCap => 0 < TurnCap(r)
    BY <1>2, <1>5, <1>6, NoSpendType, PreTurnCapMeaning DEF TurnCap
  <2> QED
    BY <1>2, <1>3, <1>5, <2>1, <2>2 DEF RoomForOwnTurn, TurnCap, TurnsOnRecord, TypeOK
<1>11. CapInv'
  BY <1>1, <1>2, <1>3, <1>10, PhaseStepCap, NoChildrenYet
<1> QED BY <1>4, <1>7, <1>8, <1>9, <1>11

(* A turn ends: what its children returned is absorbed, and the run goes on, *)
(* waits or ends. Without an overlap no child is awaited any more.           *)
LEMMA TurnCompletesInv ==
  ASSUME IInv, NEW r \in Run, NEW usage \in TurnUsages, TurnCompletes(r, usage)
  PROVE  IInv'
<1> USE DEF IInv
<1> DEFINE s == AbsorbRun(AbsorbTurn(spend[r], usage), late[r])
<1>1. phase[r] = "turn" /\ end[r] = "none"
  BY DEF TurnCompletes, RunInv, EndAccounted
<1>2. /\ spend[r] \in Spend /\ transcript[r] \in Spend /\ absorbed[r] \in Spend
      /\ late[r] \in Spend /\ usage \in TurnUsage /\ config[r].budget \in Budget
      /\ pending[r] \in Nat /\ sent[r] \in Nat
  BY UsagesAreUsages DEF TypeOK
<1>3. /\ s \in Spend /\ s.turns = spend[r].turns + 1 + late[r].turns
      /\ AbsorbTurn(transcript[r], usage) \in Spend
      /\ AbsorbTurn(transcript[r], usage).turns = transcript[r].turns + 1
      /\ AbsorbRun(absorbed[r], late[r]) \in Spend
      /\ AbsorbRun(absorbed[r], late[r]).turns = absorbed[r].turns + late[r].turns
  BY <1>2, AbsorbTurnEffect, AbsorbRunEffect
<1>4. /\ spend' = [spend EXCEPT ![r] = s]
      /\ transcript' = [transcript EXCEPT ![r] = AbsorbTurn(transcript[r], usage)]
      /\ absorbed' = [absorbed EXCEPT ![r] = AbsorbRun(absorbed[r], late[r])]
      /\ late' = [late EXCEPT ![r] = NoSpend]
      /\ AfterTurn(r, s)
      /\ overlapped' = [overlapped EXCEPT ![r] = overlapped[r] \/ Awaited(r) # {}]
      /\ UNCHANGED <<config, parent, handoff, ending, sent>>
  BY DEF TurnCompletes
<1>5. PICK where, why, queued : Outcome(r, s, where, why, queued)
  BY <1>1, <1>3, <1>4, AfterTurnEffect
<1>6. /\ phase' = [phase EXCEPT ![r] = where] /\ end' = [end EXCEPT ![r] = why]
      /\ pending' = [pending EXCEPT ![r] = queued]
      /\ where \in {"ended", "turn", "waiting"} /\ why \in RunEnd \cup {"none"}
      /\ queued \in Nat
  BY <1>5 DEF Outcome
<1>7. TypeOK'
  <2>1. overlapped' \in [Run -> BOOLEAN]
    BY <1>4, Zenon DEF TypeOK
  <2> QED BY <1>3, <1>4, <1>6, <2>1, NoSpendType DEF TypeOK
<1>8. RunInv(r)'
  <2>1. /\ phase'[r] = where /\ end'[r] = why /\ pending'[r] = queued
        /\ spend'[r] = s /\ transcript'[r].turns = transcript[r].turns + 1
        /\ absorbed'[r].turns = absorbed[r].turns + late[r].turns
        /\ config'[r] = config[r] /\ sent'[r] = sent[r]
    BY <1>3, <1>4, <1>6 DEF TypeOK
  <2>2. Fresh(r)'
    BY <1>6, <2>1 DEF Fresh
  <2>3. /\ transcript[r].turns + pending[r] = sent[r]
        /\ spend[r].turns = transcript[r].turns + absorbed[r].turns
    BY <1>1 DEF RunInv, MessagesAccounted, TurnsAccounted
  <2>4. transcript[r].turns \in Nat /\ absorbed[r].turns \in Nat /\ late[r].turns \in Nat
    BY <1>2 DEF Spend
  <2>5. MessagesAccounted(r)'
    <3>1. /\ where = "turn" => pending[r] = queued + 1
          /\ where = "waiting" => queued = pending[r]
      BY <1>5 DEF Outcome
    <3> QED BY <1>2, <1>6, <2>1, <2>3, <2>4, <3>1 DEF MessagesAccounted
  <2>6. TurnsAccounted(r)'
    BY <1>3, <2>1, <2>3, <2>4 DEF TurnsAccounted
  <2>7. EndAccounted(r)'
    BY <1>5, <2>1 DEF EndAccounted, Outcome, RunEnd
  <2>8. why = "ConversationEnded" => transcript'[r].turns = 1 + sent[r]
    BY <1>5, <2>1, <2>3, <2>4 DEF Outcome
  <2>9. where = "ended" /\ PostTurnCap(config[r].budget, s) # "none"
          => why = PostTurnCap(config[r].budget, s)
    BY <1>5 DEF Outcome
  <2> QED BY <2>1, <2>2, <2>5, <2>6, <2>7, <2>8, <2>9 DEF RunInv
<1>9. ASSUME NEW q \in Run, q # r PROVE RunInv(q)'
  BY <1>4, <1>6, <1>9, RunInvKept DEF TypeOK
<1>10. \A q \in Run : ParentStarted(q)'
  BY <1>1, <1>4, <1>6, ParentsStayStarted
<1>11. CapInv'
  <2> SUFFICES ASSUME NEW p \in Run, ~overlapped'[p]
               PROVE  RoomForOwnTurn(p)' /\ \A c \in Run : ChildFits(p, c)'
    BY DEF CapInv
  <2>1. ~overlapped[p] /\ (p = r => Awaited(r) = {})
    BY <1>4 DEF TypeOK
  <2>2. RoomForOwnTurn(p) /\ \A c \in Run : ChildFits(p, c)
    BY <2>1 DEF CapInv
  <2>3. Awaited(p)' = Awaited(p)
    BY <1>4 DEF Awaited
  <2>4. CASE p # r
    <3>1. /\ spend'[p] = spend[p] /\ late'[p] = late[p] /\ phase'[p] = phase[p]
          /\ UNCHANGED <<TurnCap(p), TurnsOnRecord(p), Started(p)>>
      BY <1>4, <1>6, <2>4 DEF TypeOK, TurnCap, TurnsOnRecord, Started
    <3>2. \A c \in Run : UNCHANGED TurnCap(c) /\ (phase[c] # "unused" => phase'[c] # "unused")
      BY <1>4, <1>6 DEF TypeOK, TurnCap
    <3> QED BY <2>2, <2>3, <3>1, <3>2 DEF RoomForOwnTurn, ChildFits
  <2>5. CASE p = r
    <3>1. \A c \in Run : ChildFits(p, c)'
      BY <2>1, <2>3, <2>5 DEF ChildFits
    <3>2. /\ spend'[r] = s /\ late'[r].turns = 0 /\ phase'[r] = where
          /\ UNCHANGED TurnCap(r)
      BY <1>4, <1>6 DEF TypeOK, TurnCap, NoSpend
    <3>3. s.turns \in Nat /\ TurnsOnRecord(r)' = s.turns
      BY <1>3, <3>2 DEF TurnsOnRecord, Spend
    <3>4. TurnCap(r) # NoCap => TurnCap(r) \in Nat /\ s.turns <= TurnCap(r)
      <4>1. TurnCap(r) # NoCap => TurnCap(r) \in Nat /\ TurnsOnRecord(r) + 1 <= TurnCap(r)
        BY <1>1, <1>2, <2>2, <2>5 DEF RoomForOwnTurn, TurnCap, Budget, Cap
      <4>2. s.turns = TurnsOnRecord(r) + 1
        BY <1>2, <1>3 DEF TurnsOnRecord, Spend
      <4> QED BY <4>1, <4>2
    <3>5. where = "turn" /\ TurnCap(r) # NoCap => s.turns < TurnCap(r)
      BY <1>2, <1>3, <1>5, PreTurnCapMeaning DEF Outcome, TurnCap
    <3>6. RoomForOwnTurn(r)'
      BY <3>2, <3>3, <3>4, <3>5 DEF RoomForOwnTurn
    <3> QED BY <2>5, <3>1, <3>6
  <2> QED BY <2>4, <2>5
<1> QED BY <1>7, <1>8, <1>9, <1>10, <1>11

(* A waiting run takes a message or ends. *)
LEMMA WakeUpInv ==
  ASSUME IInv, NEW r \in Run, WakeUp(r)
  PROVE  IInv'
<1> USE DEF IInv
<1>1. /\ phase[r] = "waiting" /\ end[r] = "none"
      /\ PostTurnCap(config[r].budget, spend[r]) = "none"
      /\ transcript[r].turns + pending[r] = 1 + sent[r]
  BY DEF WakeUp, RunInv, EndAccounted, MessagesAccounted
<1>2. /\ spend[r] \in Spend /\ late[r] \in Spend /\ transcript[r] \in Spend
      /\ config[r].budget \in Budget /\ pending[r] \in Nat /\ sent[r] \in Nat
  BY DEF TypeOK
<1>3. UNCHANGED <<config, parent, handoff, spend, transcript, absorbed, late,
                  ending, sent, overlapped>>
  BY DEF WakeUp, spend_vars
<1>4. PICK where, why, queued : Outcome(r, spend[r], where, why, queued)
  BY <1>1, <1>2, TakeNextEffect DEF WakeUp
<1>5. /\ phase' = [phase EXCEPT ![r] = where] /\ end' = [end EXCEPT ![r] = why]
      /\ pending' = [pending EXCEPT ![r] = queued]
      /\ where \in {"ended", "turn", "waiting"} /\ why \in RunEnd \cup {"none"}
      /\ queued \in Nat
  BY <1>4 DEF Outcome
<1>6. TypeOK'
  BY <1>3, <1>5 DEF TypeOK
<1>7. RunInv(r)'
  <2>1. phase'[r] = where /\ end'[r] = why /\ pending'[r] = queued
    BY <1>5 DEF TypeOK
  <2>2. transcript[r].turns \in Nat
    BY <1>2 DEF Spend
  <2>3. Fresh(r)' /\ TurnsAccounted(r)'
    BY <1>3, <1>5, <2>1 DEF Fresh, RunInv, TurnsAccounted
  <2>4. MessagesAccounted(r)'
    BY <1>1, <1>2, <1>3, <1>4, <1>5, <2>1, <2>2 DEF MessagesAccounted, Outcome
  <2>5. EndAccounted(r)'
    BY <1>3, <1>4, <2>1 DEF EndAccounted, Outcome, RunEnd
  <2>6. why = "ConversationEnded" => transcript[r].turns = 1 + sent[r]
    BY <1>1, <1>2, <1>4, <2>2 DEF Outcome
  <2> QED BY <1>1, <1>3, <2>1, <2>3, <2>4, <2>5, <2>6 DEF RunInv
<1>8. ASSUME NEW q \in Run, q # r PROVE RunInv(q)'
  BY <1>3, <1>5, <1>8, RunInvKept DEF TypeOK
<1>9. \A q \in Run : ParentStarted(q)'
  BY <1>1, <1>3, <1>5, ParentsStayStarted
<1>10. ~overlapped[r] => RoomForOwnTurn(r)'
  <2> SUFFICES ASSUME ~overlapped[r] PROVE RoomForOwnTurn(r)'
    OBVIOUS
  <2>1. RoomForOwnTurn(r)
    BY DEF CapInv
  <2>2. phase'[r] = where
    BY <1>5 DEF TypeOK
  <2>3. where = "turn" /\ TurnCap(r) # NoCap => spend[r].turns < TurnCap(r)
    BY <1>2, <1>4, PreTurnCapMeaning DEF Outcome, TurnCap
  <2>4. spend[r].turns \in Nat /\ late[r].turns \in Nat
        /\ (TurnCap(r) # NoCap => TurnCap(r) \in Nat)
    BY <1>2 DEF Spend, Budget, Cap, TurnCap
  <2> QED
    BY <1>1, <1>3, <1>5, <2>1, <2>2, <2>3, <2>4 DEF RoomForOwnTurn, TurnCap, TurnsOnRecord
<1>11. CapInv'
  BY <1>1, <1>3, <1>5, <1>10, PhaseStepCap DEF Started
<1> QED BY <1>6, <1>7, <1>8, <1>9, <1>11

(* A run that fails, or is terminated under a closed parent, keeps its accounts. *)
LEMMA FailureInv ==
  ASSUME IInv, NEW r \in Run, Open(r), GoesTo(r, "failed"),
         UNCHANGED <<config, parent, handoff, spend_vars, signal_vars, overlapped>>
  PROVE  IInv'
<1> USE DEF IInv
<1>1. /\ phase[r] \notin {"unused", "ended"} /\ end[r] = "none"
      /\ phase' = [phase EXCEPT ![r] = "failed"]
      /\ UNCHANGED <<end, config, parent, handoff, spend, transcript, absorbed, late,
                     pending, ending, sent, overlapped>>
  BY DEF Open, GoesTo, spend_vars, signal_vars, RunInv, EndAccounted
<1>2. TypeOK'
  BY <1>1 DEF TypeOK
<1>3. RunInv(r)'
  BY <1>1 DEF RunInv, Fresh, MessagesAccounted, TurnsAccounted, EndAccounted, TypeOK
<1>4. ASSUME NEW q \in Run, q # r PROVE RunInv(q)'
  BY <1>1, <1>4, RunInvKept DEF TypeOK
<1>5. \A q \in Run : ParentStarted(q)'
  BY <1>1, ParentsStayStarted
<1>6. ~overlapped[r] => RoomForOwnTurn(r)'
  BY <1>1 DEF CapInv, RoomForOwnTurn, TurnCap, TurnsOnRecord, TypeOK
<1>7. CapInv'
  BY <1>1, <1>6, PhaseStepCap
<1> QED BY <1>2, <1>3, <1>4, <1>5, <1>7

(* A signal only queues. *)
LEMMA SignalInv ==
  ASSUME IInv, NEW r \in Run, UserMessage(r) \/ EndConversation(r)
  PROVE  IInv'
<1> USE DEF IInv
<1>1. UNCHANGED <<phase, end, config, parent, handoff, spend, transcript, absorbed,
                  late, overlapped>>
  BY DEF UserMessage, EndConversation, run_vars, spend_vars
<1>2. PICK n \in {0, 1} : /\ pending' = [pending EXCEPT ![r] = @ + n]
                          /\ sent' = [sent EXCEPT ![r] = @ + n]
  <2>1. pending = [pending EXCEPT ![r] = @ + 0] /\ sent = [sent EXCEPT ![r] = @ + 0]
    BY DEF TypeOK
  <2> QED BY <2>1 DEF UserMessage, EndConversation
<1>3. ending' \in [Run -> BOOLEAN]
  BY DEF UserMessage, EndConversation, TypeOK
<1>4. TypeOK'
  <2>1. \A m \in Nat : m + n \in Nat
    OBVIOUS
  <2>2. pending' \in [Run -> Nat] /\ sent' \in [Run -> Nat]
    BY <1>2, <2>1 DEF TypeOK
  <2> QED BY <1>1, <1>3, <2>2 DEF TypeOK
<1>5. Open(r)
  BY DEF UserMessage, EndConversation
<1>6. RunInv(r)'
  <2>1. /\ pending'[r] = pending[r] + n /\ sent'[r] = sent[r] + n
        /\ pending[r] \in Nat /\ sent[r] \in Nat /\ transcript[r].turns \in Nat
    BY <1>2 DEF TypeOK, Spend
  <2>2. MessagesAccounted(r)'
    BY <1>1, <1>5, <2>1 DEF RunInv, MessagesAccounted, Open
  <2> QED
    BY <1>1, <1>5, <2>2 DEF RunInv, Fresh, TurnsAccounted, EndAccounted, Open
<1>7. ASSUME NEW q \in Run, q # r PROVE RunInv(q)'
  BY <1>1, <1>2, <1>7, RunInvKept DEF TypeOK
<1>8. (\A q \in Run : ParentStarted(q)') /\ CapInv'
  BY <1>1 DEF ParentStarted, CapInv, RoomForOwnTurn, ChildFits, Started, Awaited,
              TurnCap, TurnsOnRecord
<1> QED BY <1>4, <1>6, <1>7, <1>8

(* A handoff starts: the child's cap fits beside the parent's own next turn. *)
LEMMA HandoffInv ==
  ASSUME IInv, NEW p \in Run, NEW c \in Run, NEW own \in AgentBudgets, Handoff(p, c, own)
  PROVE  IInv'
<1> USE DEF IInv
<1> DEFINE spent == ParentRecordedSpend(p)
           given == Intersect(RemainingBudget(config[p].budget, spent), own)
<1>1. /\ Started(p) /\ phase[c] = "unused" /\ MayDelegate(config[p].budget, spent)
      /\ phase' = [phase EXCEPT ![c] = "created"]
      /\ config' = [config EXCEPT ![c] = [interactive |-> FALSE, budget |-> given]]
      /\ parent' = [parent EXCEPT ![c] = p]
      /\ handoff' = [handoff EXCEPT ![c] = "awaiting"]
      /\ overlapped' = [overlapped EXCEPT ![p] = overlapped[p] \/ Awaited(p) # {}]
      /\ UNCHANGED <<end, spend, transcript, absorbed, late, pending, ending, sent>>
  BY DEF Handoff, spend_vars, signal_vars
<1>2. p # c /\ end[c] = "none"
  BY <1>1 DEF Started, RunInv, EndAccounted
<1>3. /\ transcript[p] \in Spend /\ absorbed[p] \in Spend /\ late[p] \in Spend
      /\ spend[p] \in Spend /\ config[p].budget \in Budget /\ own \in Budget
  BY BudgetsAreBudgets DEF TypeOK
<1>4. spent \in Spend /\ spent.turns = TurnsOnRecord(p)
  <2>1. AbsorbRun(transcript[p], absorbed[p]) \in Spend
        /\ AbsorbRun(transcript[p], absorbed[p]).turns = spend[p].turns
    BY <1>3, AbsorbRunEffect DEF RunInv, TurnsAccounted
  <2> QED BY <1>3, <2>1, AbsorbRunEffect DEF ParentRecordedSpend, TurnsOnRecord
<1>5. /\ given \in Budget
      /\ TurnCap(p) # NoCap =>
           given.max_turns # NoCap /\ TurnsOnRecord(p) + 1 + given.max_turns <= TurnCap(p)
  BY <1>1, <1>3, <1>4, DelegatedBudgetFits DEF TurnCap
<1>6. TypeOK'
  <2>1. overlapped' \in [Run -> BOOLEAN]
    BY <1>1, Zenon DEF TypeOK
  <2>2. config' \in [Run -> [interactive : BOOLEAN, budget : Budget]]
    BY <1>1, <1>5 DEF TypeOK
  <2> QED BY <1>1, <2>1, <2>2 DEF TypeOK
<1>7. RunInv(c)'
  <2>1. /\ phase'[c] = "created" /\ spend[c] = NoSpend /\ transcript[c] = NoSpend
        /\ absorbed[c] = NoSpend /\ late[c] = NoSpend /\ pending[c] = sent[c]
    BY <1>1 DEF RunInv, Fresh, MessagesAccounted, TypeOK
  <2> QED
    BY <1>1, <1>2, <2>1
       DEF RunInv, Fresh, MessagesAccounted, TurnsAccounted, EndAccounted, NoSpend
<1>8. ASSUME NEW q \in Run, q # c PROVE RunInv(q)'
  BY <1>1, <1>8, RunInvKept DEF TypeOK
<1>9. ASSUME NEW q \in Run PROVE ParentStarted(q)'
  <2>1. q # c => parent[q] # c
    BY <1>1, NoRunIsNoRun DEF ParentStarted
  <2> QED BY <1>1, <1>2, <2>1 DEF ParentStarted, Started, TypeOK
<1>10. CapInv'
  <2> SUFFICES ASSUME NEW q \in Run, ~overlapped'[q]
               PROVE  RoomForOwnTurn(q)' /\ \A d \in Run : ChildFits(q, d)'
    BY DEF CapInv
  <2>1. ~overlapped[q] /\ (q = p => Awaited(p) = {})
    BY <1>1 DEF TypeOK
  <2>2. RoomForOwnTurn(q) /\ \A d \in Run : ChildFits(q, d)
    BY <2>1 DEF CapInv
  <2>3. \A d \in Run : d # c =>
          /\ phase'[d] = phase[d] /\ UNCHANGED TurnCap(d)
          /\ parent'[d] = parent[d] /\ handoff'[d] = handoff[d]
    BY <1>1 DEF TypeOK, TurnCap
  <2>4. phase'[c] = "created" /\ TurnCap(c)' = given.max_turns
        /\ parent'[c] = p /\ handoff'[c] = "awaiting"
    BY <1>1 DEF TypeOK, TurnCap
  <2>5. parent[c] = NoRun
    BY <1>1 DEF ParentStarted
  <2>6. CASE q = c
    <3>1. spend'[c].turns = 0 /\ late'[c].turns = 0
      BY <1>1 DEF RunInv, Fresh, NoSpend
    <3>2. TurnCap(c)' # NoCap => TurnCap(c)' \in Nat
      BY <1>5, <2>4 DEF Budget, Cap
    <3> QED
      BY <2>4, <2>6, <3>1, <3>2 DEF RoomForOwnTurn, TurnsOnRecord, ChildFits, Started
  <2>7. CASE q # c /\ q # p
    <3>1. Awaited(q)' = Awaited(q)
      BY <2>3, <2>4, <2>5, <2>7, NoRunIsNoRun DEF Awaited
    <3>2. UNCHANGED <<TurnsOnRecord(q), TurnCap(q), phase[q], Started(q), late[q]>>
      BY <1>1, <2>3, <2>7 DEF TurnsOnRecord, Started
    <3>3. RoomForOwnTurn(q)'
      BY <2>2, <3>2 DEF RoomForOwnTurn
    <3>4. ASSUME NEW d \in Run PROVE ChildFits(q, d)'
      <4>1. d \in Awaited(q) => d # c
        BY <2>5, NoRunIsNoRun DEF Awaited
      <4> QED BY <2>2, <2>3, <3>1, <3>2, <4>1 DEF ChildFits
    <3> QED BY <3>3, <3>4
  <2>8. CASE q = p
    <3>1. Awaited(p)' = {c}
      BY <2>1, <2>3, <2>4, <2>8, <1>2 DEF Awaited
    <3>2. UNCHANGED <<TurnsOnRecord(p), TurnCap(p), phase[p], late[p]>>
      BY <1>1, <1>2, <2>3 DEF TurnsOnRecord
    <3>3. RoomForOwnTurn(p)'
      BY <2>2, <2>8, <3>2 DEF RoomForOwnTurn
    <3>4. ASSUME NEW d \in Run PROVE ChildFits(p, d)'
      BY <1>5, <2>4, <3>1, <3>2 DEF ChildFits
    <3> QED BY <2>8, <3>3, <3>4
  <2> QED BY <2>6, <2>7, <2>8
<1> QED BY <1>6, <1>7, <1>8, <1>9, <1>10

(* A child's output is added once; it used no more than it was given. *)
LEMMA HandoffReturnsInv ==
  ASSUME IInv, NEW p \in Run, NEW c \in Run, HandoffReturns(p, c)
  PROVE  IInv'
<1> USE DEF IInv
<1>1. /\ Started(p) /\ c \in Awaited(p) /\ phase[c] = "ended"
      /\ handoff' = [handoff EXCEPT ![c] = "returned"]
      /\ late' = [late EXCEPT ![p] = AbsorbRun(late[p], spend[c])]
      /\ overlapped' = [overlapped EXCEPT ![p] = overlapped[p] \/ overlapped[c]]
      /\ UNCHANGED <<phase, end, config, parent, spend, transcript, absorbed,
                     pending, ending, sent>>
  BY DEF HandoffReturns, run_vars, signal_vars
<1>2. /\ late[p] \in Spend /\ spend[c] \in Spend /\ spend[p] \in Spend /\ late[c] \in Spend
      /\ config[p].budget \in Budget /\ config[c].budget \in Budget
  BY DEF TypeOK
<1>3. /\ late'[p] \in Spend /\ late'[p].turns = late[p].turns + spend[c].turns
  BY <1>1, <1>2, AbsorbRunEffect DEF TypeOK
<1>4. TypeOK'
  <2>1. overlapped' \in [Run -> BOOLEAN]
    BY <1>1, Zenon DEF TypeOK
  <2> QED BY <1>1, <1>2, <2>1, AbsorbRunEffect DEF TypeOK
<1>5. RunInv(p)'
  BY <1>1 DEF RunInv, Fresh, MessagesAccounted, TurnsAccounted, EndAccounted, Started
<1>6. ASSUME NEW q \in Run, q # p PROVE RunInv(q)'
  BY <1>1, <1>6, RunInvKept DEF TypeOK
<1>7. \A q \in Run : ParentStarted(q)'
  BY <1>1 DEF ParentStarted
<1>8. CapInv'
  <2> SUFFICES ASSUME NEW q \in Run, ~overlapped'[q]
               PROVE  RoomForOwnTurn(q)' /\ \A d \in Run : ChildFits(q, d)'
    BY DEF CapInv
  <2>0. ~overlapped[q] /\ (q = p => ~overlapped[c])
    BY <1>1 DEF TypeOK
  <2>1. /\ RoomForOwnTurn(q) /\ \A d \in Run : ChildFits(q, d)
        /\ q = p => RoomForOwnTurn(c) /\ ChildFits(p, c)
    BY <2>0 DEF CapInv
  <2>2. UNCHANGED <<TurnCap(q), phase[q], Started(q)>> /\ \A d \in Run : UNCHANGED TurnCap(d)
    BY <1>1 DEF TurnCap, Started
  <2>3. CASE q # p
    <3>1. UNCHANGED <<TurnsOnRecord(q), late[q]>>
      BY <1>1, <2>3 DEF TurnsOnRecord, TypeOK
    <3>2. Awaited(q)' \subseteq Awaited(q)
      BY <1>1 DEF Awaited, TypeOK
    <3> QED BY <1>1, <2>1, <2>2, <3>1, <3>2 DEF RoomForOwnTurn, ChildFits
  <2>4. CASE q = p
    <3>1. Awaited(p)' = {}
      BY <1>1, <2>1, <2>4 DEF Awaited, ChildFits, TypeOK
    <3>2. TurnCap(p) # NoCap =>
            TurnCap(c) # NoCap /\ TurnsOnRecord(p) + 1 + TurnCap(c) <= TurnCap(p)
            /\ TurnsOnRecord(c) <= TurnCap(c)
      BY <1>1, <2>1, <2>4 DEF ChildFits, RoomForOwnTurn
    <3>3. /\ spend[p].turns \in Nat /\ late[p].turns \in Nat
          /\ spend[c].turns \in Nat /\ late[c].turns \in Nat
          /\ (TurnCap(p) # NoCap => TurnCap(p) \in Nat)
          /\ (TurnCap(c) # NoCap => TurnCap(c) \in Nat)
      BY <1>2 DEF Spend, Budget, Cap, TurnCap
    <3>4. TurnsOnRecord(p)' = TurnsOnRecord(p) + spend[c].turns
      BY <1>1, <1>3, <3>3 DEF TurnsOnRecord
    <3>5. TurnCap(p) # NoCap => TurnsOnRecord(p)' + 1 <= TurnCap(p)
      BY <3>2, <3>3, <3>4 DEF TurnsOnRecord
    <3>6. TurnsOnRecord(p)' \in Nat
      BY <3>3, <3>4 DEF TurnsOnRecord
    <3>7. RoomForOwnTurn(p)'
      BY <2>2, <2>4, <3>3, <3>5, <3>6 DEF RoomForOwnTurn
    <3>8. \A d \in Run : ChildFits(p, d)'
      BY <3>1 DEF ChildFits
    <3> QED BY <2>4, <3>7, <3>8
  <2> QED BY <2>3, <2>4
<1> QED BY <1>4, <1>5, <1>6, <1>7, <1>8

(* A failed child only stops being awaited. *)
LEMMA HandoffFailsInv ==
  ASSUME IInv, NEW p \in Run, NEW c \in Run, HandoffFails(p, c)
  PROVE  IInv'
<1> USE DEF IInv
<1>1. /\ handoff' = [handoff EXCEPT ![c] = "failed"]
      /\ UNCHANGED <<phase, end, config, parent, spend, transcript, absorbed, late,
                     pending, ending, sent, overlapped>>
  BY DEF HandoffFails, run_vars, spend_vars, signal_vars
<1>2. TypeOK'
  BY <1>1 DEF TypeOK
<1>3. ASSUME NEW q \in Run PROVE RunInv(q)' /\ ParentStarted(q)'
  BY <1>1, RunInvKept DEF ParentStarted
<1>4. \A q \in Run : Awaited(q)' \subseteq Awaited(q)
  BY <1>1 DEF Awaited, TypeOK
<1>5. CapInv'
  BY <1>1, <1>4 DEF CapInv, RoomForOwnTurn, ChildFits, Started, TurnCap, TurnsOnRecord
<1> QED BY <1>2, <1>3, <1>5

(* Every step preserves the inductive invariant. *)
LEMMA NextInv == IInv /\ [Next]_vars => IInv'
<1> SUFFICES ASSUME IInv, [Next]_vars PROVE IInv'
  OBVIOUS
<1>1. CASE UNCHANGED vars
  BY <1>1 DEF vars, run_vars, spend_vars, signal_vars, IInv, TypeOK, RunInv, Fresh,
     MessagesAccounted, TurnsAccounted, EndAccounted, ParentStarted, CapInv, RoomForOwnTurn,
     ChildFits, Started, Awaited, TurnCap, TurnsOnRecord
<1>2. CASE Next
  <2> PICK r \in Run :
        \/ Activate(r) \/ WakeUp(r) \/ RunFails(r) \/ UserMessage(r) \/ EndConversation(r)
        \/ \E usage \in TurnUsages : TurnCompletes(r, usage)
        \/ \E c \in Run : \/ \E own \in AgentBudgets : Handoff(r, c, own)
                          \/ HandoffReturns(r, c) \/ HandoffFails(r, c)
                          \/ TerminateOrphan(r, c)
    BY <1>2 DEF Next
  <2>1. CASE Activate(r)
    BY <2>1, ActivateInv
  <2>2. CASE \E usage \in TurnUsages : TurnCompletes(r, usage)
    BY <2>2, TurnCompletesInv
  <2>3. CASE WakeUp(r)
    BY <2>3, WakeUpInv
  <2>4. CASE RunFails(r)
    BY <2>4, FailureInv DEF RunFails, Started, Open
  <2>5. CASE UserMessage(r) \/ EndConversation(r)
    BY <2>5, SignalInv
  <2>6. CASE \E c \in Run, own \in AgentBudgets : Handoff(r, c, own)
    BY <2>6, HandoffInv
  <2>7. CASE \E c \in Run : HandoffReturns(r, c)
    BY <2>7, HandoffReturnsInv
  <2>8. CASE \E c \in Run : HandoffFails(r, c)
    BY <2>8, HandoffFailsInv
  <2>9. CASE \E c \in Run : TerminateOrphan(r, c)
    BY <2>9, FailureInv DEF TerminateOrphan
  <2> QED BY <2>1, <2>2, <2>3, <2>4, <2>5, <2>6, <2>7, <2>8, <2>9
<1> QED BY <1>1, <1>2

-----------------------------------------------------------------------------
(* The theorems. *)

(* IInv holds in every reachable state. *)
THEOREM Inductive == Spec => []IInv
BY InitInv, NextInv, PTL DEF Spec

(* Type correctness of the run loop's state. *)
THEOREM TypeCorrect == Spec => []TypeOK
<1>1. IInv => TypeOK
  BY DEF IInv
<1> QED BY <1>1, Inductive, PTL

(* However deep the tree of handoffs, and whatever runs beside it, one handoff at *)
(* a time within its turn never takes a run over its turn cap.                    *)
THEOREM TurnCapIsHard == Spec => []TurnCapHard
<1>1. IInv => TurnCapHard
  BY DEF IInv, CapInv, RoomForOwnTurn, TurnCapHard, TurnCap, TurnsOnRecord
<1> QED BY <1>1, Inductive, PTL

(* No accepted message is dropped by the end of a conversation. *)
THEOREM MessagesAreAnswered == Spec => []EveryMessageAnswered
<1>1. IInv => EveryMessageAnswered
  BY DEF IInv, RunInv, EveryMessageAnswered
<1> QED BY <1>1, Inductive, PTL

(* An output over a cap names a cap it is over, whatever overlaps. *)
THEOREM OverspendIsReported == Spec => []OverspendReported
<1>1. IInv => OverspendReported
  BY DEF IInv, RunInv, OverspendReported
<1> QED BY <1>1, Inductive, PTL
=============================================================================
