------------------------ MODULE AgentRunSpend_proofs ------------------------
(***************************************************************************)
(* Proofs about the money of AgentRun, for every tree of runs: that every  *)
(* returned child is counted once, how far a token or cost cap may be      *)
(* overshot, and what is left of budgets when handoffs overlap.  The sums  *)
(* of AgentRun are folds over finite sets; the facts about them come       *)
(* first, by induction in the form of a smallest counterexample.           *)
(***************************************************************************)
EXTENDS AgentRun_proofs, FiniteSetTheorems, WellFoundedInduction

-----------------------------------------------------------------------------
(* Sums over finite sets. *)

(* A set of finite subsets that is not empty has a member with no smaller one: *)
(* the form in which induction over a finite set is used below.                *)
LEMMA SmallestSet ==
  ASSUME NEW U, IsFiniteSet(U), NEW Bad, Bad \subseteq SUBSET U, Bad # {}
  PROVE  \E s \in Bad : \A t \in Bad : ~(t \subseteq s /\ t # s)
<1>1. Bad \subseteq FiniteSubsetsOf(U)
  BY FS_FiniteSubsetsOfFinite
<1>2. PICK s \in Bad : \A t \in Bad : ~(<<t, s>> \in StrictSubsetOrdering(U))
  BY <1>1, FS_StrictSubsetOrderingWellFounded, WFMin
<1>3. ASSUME NEW t \in Bad, t \subseteq s, t # s PROVE FALSE
  <2>1. <<t, s>> \in StrictSubsetOrdering(U)
    BY <1>3 DEF StrictSubsetOrdering
  <2> QED BY <1>2, <2>1
<1> QED BY <1>3

(* The same for numbers. *)
LEMMA SmallestNumber ==
  ASSUME NEW Bad, Bad \subseteq Nat, Bad # {}
  PROVE  \E n \in Bad : \A m \in Bad : n <= m
<1>1. PICK n \in Bad : \A m \in Bad : ~(<<m, n>> \in OpToRel(<, Nat))
  BY NatLessThanWellFounded, WFMin
<1>2. ASSUME NEW m \in Bad PROVE n <= m
  <2>1. m < n => <<m, n>> \in OpToRel(<, Nat)
    BY DEF OpToRel
  <2>2. ~(m < n)
    BY <1>1, <2>1, Zenon
  <2> QED BY <2>2
<1> QED BY <1>2

AnyOf(s) == CHOOSE x \in s : TRUE

\* One unfolding of the sum of w[x][f] over each set of D.
Unfold(w, f, g, D) ==
  [s \in D |-> IF s = {} THEN 0 ELSE w[AnyOf(s)][f] + g[s \ {AnyOf(s)}]]
Partial(w, f, S) == CHOOSE g : g = Unfold(w, f, g, SUBSET S)

\* The sum of w[x][f] over S.
Total(w, f, S) == MapThenSumSet(LAMBDA x : w[x][f], S)

LEMMA TotalIsPartial == \A w, f, S : Total(w, f, S) = Partial(w, f, S)[S]
BY DEF Total, Partial, Unfold, AnyOf, MapThenSumSet, MapThenFoldSet

Summable(w, f, S) == IsFiniteSet(S) /\ \A x \in S : w[x][f] \in Nat

(* The partial sums of a finite set exist, as natural numbers. *)
LEMMA PartialUnfolds ==
  ASSUME NEW w, NEW f, NEW S, Summable(w, f, S)
  PROVE  /\ Partial(w, f, S) = Unfold(w, f, Partial(w, f, S), SUBSET S)
         /\ Partial(w, f, S) \in [SUBSET S -> Nat]
<1> DEFINE Small(n) == {s \in SUBSET S : Cardinality(s) <= n}
           Bad == {n \in Nat : ~ \E g \in [Small(n) -> Nat] : g = Unfold(w, f, g, Small(n))}
<1>1. \A s \in SUBSET S : IsFiniteSet(s) /\ Cardinality(s) \in Nat
  BY FS_Subset, FS_CardinalityType DEF Summable
<1>2. \A s \in SUBSET S : s # {} => AnyOf(s) \in s
  BY DEF AnyOf
<1>3. Bad = {}
  <2> SUFFICES ASSUME Bad # {} PROVE FALSE
    OBVIOUS
  <2>1. PICK n \in Bad : \A m \in Bad : n <= m
    <3>1. Bad \subseteq Nat
      OBVIOUS
    <3> HIDE DEF Bad
    <3> QED BY <3>1, SmallestNumber
  <2>2. CASE n = 0
    <3>1. Small(0) = {{}}
      BY <1>1, FS_EmptySet
    <3> DEFINE g == [s \in {{}} |-> 0]
    <3>2. g \in [Small(0) -> Nat] /\ g = Unfold(w, f, g, Small(0))
      BY <3>1 DEF Unfold
    <3> QED BY <2>1, <2>2, <3>2
  <2>3. CASE n # 0
    <3>1. n - 1 \in Nat /\ n - 1 \notin Bad
      <4>1. n \in Nat
        BY <2>1
      <4>2. n - 1 \in Nat /\ ~(n <= n - 1)
        BY <2>3, <4>1
      <4> HIDE DEF Bad
      <4> QED BY <2>1, <4>2
    <3>2. PICK g \in [Small(n - 1) -> Nat] : g = Unfold(w, f, g, Small(n - 1))
      BY <3>1
    <3> DEFINE h == Unfold(w, f, g, Small(n))
    <3>3. ASSUME NEW s \in Small(n), s # {}
          PROVE  /\ AnyOf(s) \in S /\ w[AnyOf(s)][f] \in Nat
                 /\ s \ {AnyOf(s)} \in Small(n - 1)
      <4>1. AnyOf(s) \in s
        BY <1>2, <3>3
      <4>2. Cardinality(s \ {AnyOf(s)}) = Cardinality(s) - 1
        BY <1>1, <4>1, FS_RemoveElement
      <4> QED BY <1>1, <3>1, <4>1, <4>2 DEF Summable
    <3>4. h \in [Small(n) -> Nat]
      <4>1. ASSUME NEW s \in Small(n) PROVE h[s] \in Nat
        <5>1. CASE s = {}
          BY <5>1 DEF Unfold
        <5>2. CASE s # {}
          <6>1. h[s] = w[AnyOf(s)][f] + g[s \ {AnyOf(s)}]
            BY <5>2 DEF Unfold
          <6> QED BY <3>2, <3>3, <5>2, <6>1
        <5> QED BY <5>1, <5>2
      <4> QED BY <4>1 DEF Unfold
    <3>5. \A s \in Small(n - 1) : s \in Small(n) /\ h[s] = g[s]
      <4>1. \A s \in Small(n - 1) : s \in Small(n)
        BY <1>1, <2>1
      <4> QED BY <3>2, <4>1 DEF Unfold
    <3>6. h = Unfold(w, f, h, Small(n))
      BY <3>3, <3>5 DEF Unfold
    <3> QED BY <2>1, <3>4, <3>6
  <2> QED BY <2>2, <2>3
<1>4. Cardinality(S) \in Nat /\ Small(Cardinality(S)) = SUBSET S
  BY <1>1, FS_Subset, FS_CardinalityType DEF Summable
<1>5. PICK g \in [SUBSET S -> Nat] : g = Unfold(w, f, g, SUBSET S)
  BY <1>3, <1>4
<1>6. Partial(w, f, S) = Unfold(w, f, Partial(w, f, S), SUBSET S)
  BY <1>5 DEF Partial
<1>7. Partial(w, f, S) \in [SUBSET S -> Nat]
  <2> DEFINE p == Partial(w, f, S)
             Wrong == {s \in SUBSET S : p[s] \notin Nat}
  <2>1. Wrong = {}
    <3> SUFFICES ASSUME Wrong # {} PROVE FALSE
      OBVIOUS
    <3>0. Wrong \subseteq SUBSET S
      OBVIOUS
    <3>1. PICK s \in Wrong : \A t \in Wrong : ~(t \subseteq s /\ t # s)
      <4> HIDE DEF Wrong
      <4> QED BY <3>0, SmallestSet DEF Summable
    <3>2. s # {}
      BY <1>6, <3>1 DEF Unfold
    <3>3. p[s] = w[AnyOf(s)][f] + p[s \ {AnyOf(s)}] /\ AnyOf(s) \in S
      BY <1>2, <1>6, <3>2 DEF Unfold
    <3>4. s \ {AnyOf(s)} \notin Wrong
      BY <1>2, <3>1, <3>2
    <3> QED BY <3>1, <3>3, <3>4 DEF Summable
  <2>2. p = [s \in SUBSET S |-> p[s]]
    BY <1>6 DEF Unfold
  <2> QED BY <2>1, <2>2
<1> QED BY <1>6, <1>7

(* Partial sums do not depend on the set they are taken below. *)
LEMMA PartialIsLocal ==
  ASSUME NEW w, NEW f, NEW S, Summable(w, f, S), NEW T \in SUBSET S
  PROVE  \A s \in SUBSET T : Partial(w, f, T)[s] = Partial(w, f, S)[s]
<1> DEFINE p == Partial(w, f, S)
           q == Partial(w, f, T)
           Bad == {s \in SUBSET T : q[s] # p[s]}
<1>1. Summable(w, f, T)
  BY FS_Subset DEF Summable
<1>2. p = Unfold(w, f, p, SUBSET S) /\ q = Unfold(w, f, q, SUBSET T)
  BY <1>1, PartialUnfolds
<1> SUFFICES ASSUME Bad # {} PROVE FALSE
  OBVIOUS
<1>3. PICK s \in Bad : \A t \in Bad : ~(t \subseteq s /\ t # s)
  <2>1. Bad \subseteq SUBSET T
    OBVIOUS
  <2> HIDE DEF Bad
  <2> QED BY <1>1, <2>1, SmallestSet DEF Summable
<1>4. s # {}
  BY <1>2, <1>3 DEF Unfold
<1>5. /\ q[s] = w[AnyOf(s)][f] + q[s \ {AnyOf(s)}]
      /\ p[s] = w[AnyOf(s)][f] + p[s \ {AnyOf(s)}]
  BY <1>2, <1>3, <1>4 DEF Unfold
<1>6. s \ {AnyOf(s)} \notin Bad
  BY <1>3, <1>4 DEF AnyOf
<1> QED BY <1>3, <1>5, <1>6

(* Any element may be taken out first. *)
LEMMA PartialTakesOut ==
  ASSUME NEW w, NEW f, NEW S, Summable(w, f, S)
  PROVE  \A s \in SUBSET S : \A x \in s :
           Partial(w, f, S)[s] = w[x][f] + Partial(w, f, S)[s \ {x}]
<1> DEFINE p == Partial(w, f, S)
           Bad == {s \in SUBSET S : \E x \in s : p[s] # w[x][f] + p[s \ {x}]}
<1>1. p = Unfold(w, f, p, SUBSET S) /\ p \in [SUBSET S -> Nat]
  BY PartialUnfolds
<1> SUFFICES ASSUME Bad # {} PROVE FALSE
  OBVIOUS
<1>2. PICK s \in Bad : \A t \in Bad : ~(t \subseteq s /\ t # s)
  <2>1. Bad \subseteq SUBSET S
    OBVIOUS
  <2> HIDE DEF Bad
  <2> QED BY <2>1, SmallestSet DEF Summable
<1>3. PICK x \in s : p[s] # w[x][f] + p[s \ {x}]
  BY <1>2
<1>4. AnyOf(s) \in s /\ p[s] = w[AnyOf(s)][f] + p[s \ {AnyOf(s)}]
  BY <1>1, <1>2, <1>3 DEF Unfold, AnyOf
<1>5. PICK y \in s : p[s] = w[y][f] + p[s \ {y}]
  BY <1>4
<1>6. x # y
  BY <1>3, <1>5
<1>7. s \ {x} \notin Bad /\ s \ {y} \notin Bad
  BY <1>2, <1>3, <1>4
<1>8. p[s \ {x}] = w[y][f] + p[(s \ {x}) \ {y}] /\ p[s \ {y}] = w[x][f] + p[(s \ {y}) \ {x}]
  BY <1>2, <1>4, <1>6, <1>7
<1>9. (s \ {x}) \ {y} = (s \ {y}) \ {x} /\ (s \ {y}) \ {x} \in SUBSET S
  BY <1>2
<1>10. PICK rest \in Nat : rest = p[(s \ {y}) \ {x}]
  BY <1>1, <1>9
<1>11. w[x][f] \in Nat /\ w[y][f] \in Nat
  BY <1>2, <1>3, <1>5 DEF Summable
<1>12. p[s \ {x}] = w[y][f] + rest /\ p[s] = w[y][f] + (w[x][f] + rest)
  BY <1>5, <1>8, <1>9, <1>10, Zenon
<1>13. w[y][f] + (w[x][f] + rest) = w[x][f] + (w[y][f] + rest)
  BY <1>11
<1> QED BY <1>3, <1>12, <1>13, Zenon

(* The empty sum is zero, and every sum is a natural number. *)
LEMMA TotalOfNone == \A w, f : Total(w, f, {}) = 0
<1> SUFFICES ASSUME NEW w, NEW f PROVE Total(w, f, {}) = 0
  OBVIOUS
<1>1. Summable(w, f, {})
  BY FS_EmptySet DEF Summable
<1>2. Partial(w, f, {}) = Unfold(w, f, Partial(w, f, {}), SUBSET {})
  BY <1>1, PartialUnfolds
<1>3. Partial(w, f, {})[{}] = 0
  BY <1>2 DEF Unfold
<1> QED BY <1>3, TotalIsPartial

LEMMA TotalType ==
  ASSUME NEW w, NEW f, NEW S, Summable(w, f, S)
  PROVE  Total(w, f, S) \in Nat
<1>1. Partial(w, f, S) \in [SUBSET S -> Nat] /\ S \in SUBSET S
  BY PartialUnfolds
<1> QED BY <1>1, TotalIsPartial

(* Any element can be taken out of a sum, or added to it. *)
LEMMA TotalTakesOut ==
  ASSUME NEW w, NEW f, NEW S, Summable(w, f, S), NEW x \in S
  PROVE  Total(w, f, S) = Total(w, f, S \ {x}) + w[x][f]
<1>1. S \in SUBSET S /\ S \ {x} \in SUBSET S /\ S \ {x} \in SUBSET (S \ {x})
  OBVIOUS
<1>2. Summable(w, f, S \ {x}) /\ w[x][f] \in Nat
  BY <1>1, FS_Subset DEF Summable
<1>3. Partial(w, f, S)[S] = w[x][f] + Partial(w, f, S)[S \ {x}]
  BY <1>1, PartialTakesOut
<1>4. Partial(w, f, S \ {x})[S \ {x}] = Partial(w, f, S)[S \ {x}]
  BY <1>1, PartialIsLocal
<1>5. Total(w, f, S \ {x}) \in Nat
  BY <1>2, TotalType
<1> QED BY <1>2, <1>3, <1>4, <1>5, TotalIsPartial

LEMMA TotalOfMore ==
  ASSUME NEW w, NEW f, NEW S, NEW x, x \notin S, Summable(w, f, S \cup {x})
  PROVE  Total(w, f, S \cup {x}) = Total(w, f, S) + w[x][f]
<1>1. (S \cup {x}) \ {x} = S /\ x \in S \cup {x}
  OBVIOUS
<1>2. Total(w, f, S \cup {x}) = Total(w, f, (S \cup {x}) \ {x}) + w[x][f]
  BY <1>1, TotalTakesOut
<1> QED BY <1>1, <1>2

(* Only the weights of the elements count. *)
LEMMA TotalOfSame ==
  ASSUME NEW w, NEW v, NEW f, NEW S, Summable(w, f, S), \A x \in S : v[x][f] = w[x][f]
  PROVE  Total(v, f, S) = Total(w, f, S)
<1> DEFINE Bad == {s \in SUBSET S : Total(v, f, s) # Total(w, f, s)}
<1> SUFFICES ASSUME Bad # {} PROVE FALSE
  OBVIOUS
<1>1. PICK s \in Bad : \A t \in Bad : ~(t \subseteq s /\ t # s)
  <2>1. Bad \subseteq SUBSET S
    OBVIOUS
  <2> HIDE DEF Bad
  <2> QED BY <2>1, SmallestSet DEF Summable
<1>2. PICK x \in s : TRUE
  BY <1>1, TotalOfNone
<1>3. s \ {x} \notin Bad /\ s \ {x} \in SUBSET S
  BY <1>1, <1>2
<1>4. Summable(w, f, s) /\ Summable(v, f, s)
  BY <1>1, FS_Subset DEF Summable
<1>5. Total(w, f, s) = Total(w, f, s \ {x}) + w[x][f]
  BY <1>4, TotalTakesOut
<1>6. Total(v, f, s) = Total(v, f, s \ {x}) + v[x][f]
  BY <1>4, TotalTakesOut
<1> QED BY <1>1, <1>2, <1>3, <1>5, <1>6
-----------------------------------------------------------------------------
(* Every returned child is counted once. *)

Field == DOMAIN NoSpend

(* Accounts are added field by field. *)
LEMMA FieldEffects ==
  ASSUME NEW s \in Spend, NEW f \in Field
  PROVE  /\ s[f] \in Nat /\ NoSpend[f] = 0
         /\ \A child \in Spend : AbsorbRun(s, child)[f] = s[f] + child[f]
         /\ \A usage \in TurnUsage :
              /\ AbsorbTurn(NoSpend, usage)[f] \in Nat
              /\ AbsorbTurn(s, usage)[f] = s[f] + AbsorbTurn(NoSpend, usage)[f]
<1>1. f \in {"turns", "tokens", "cost", "turns_with_unknown_tokens", "turns_with_unknown_cost"}
  BY DEF Field, NoSpend
<1>2. s[f] \in Nat /\ NoSpend[f] = 0
  BY <1>1 DEF Spend, NoSpend
<1>3. ASSUME NEW child \in Spend PROVE AbsorbRun(s, child)[f] = s[f] + child[f]
  BY <1>1 DEF AbsorbRun
<1>4. ASSUME NEW usage \in TurnUsage
      PROVE  /\ AbsorbTurn(NoSpend, usage)[f] \in Nat
             /\ AbsorbTurn(s, usage)[f] = s[f] + AbsorbTurn(NoSpend, usage)[f]
  <2>1. /\ Known(usage.tokens) \in Nat /\ Known(usage.cost) \in Nat
        /\ Missing(usage.tokens) \in Nat /\ Missing(usage.cost) \in Nat
    BY UnknownIsNoNumber DEF TurnUsage, Known, Missing
  <2> QED BY <1>1, <2>1 DEF AbsorbTurn, NoSpend, Spend
<1> QED BY <1>2, <1>3, <1>4

\* A child whose output was received has ended: its account is closed.
ReturnedEnded == \A c \in Run : handoff[c] = "returned" => phase[c] = "ended"

\* The loop's total is its turns and what it absorbed, and what it absorbed or
\* has yet to absorb is what the returned children spent.
Accounted(r) ==
  \A f \in Field :
    /\ spend[r][f] = transcript[r][f] + absorbed[r][f]
    /\ absorbed[r][f] + late[r][f] = Total(spend, f, Returned(r))

SpendInv ==
  /\ ReturnedEnded
  /\ \A r \in Run : IsFiniteSet(Returned(r)) /\ Accounted(r)

LEMMA InitSpendInv == Init => SpendInv
<1> SUFFICES ASSUME Init PROVE SpendInv
  OBVIOUS
<1>1. \A r \in Run : Returned(r) = {}
  BY DEF Init, Returned
<1>2. ASSUME NEW r \in Run, NEW f \in Field
      PROVE  /\ spend[r][f] = transcript[r][f] + absorbed[r][f]
             /\ absorbed[r][f] + late[r][f] = Total(spend, f, Returned(r))
  <2>1. spend[r] = NoSpend /\ transcript[r] = NoSpend /\ absorbed[r] = NoSpend
        /\ late[r] = NoSpend
    BY DEF Init
  <2>2. NoSpend[f] = 0
    BY NoSpendType, FieldEffects
  <2>3. Total(spend, f, Returned(r)) = 0
    BY <1>1, TotalOfNone
  <2> QED BY <2>1, <2>2, <2>3
<1>3. ReturnedEnded
  BY DEF Init, ReturnedEnded
<1> QED BY <1>1, <1>2, <1>3, FS_EmptySet DEF SpendInv, Accounted

(* Children that returned have summable accounts. *)
LEMMA ReturnedSummable ==
  ASSUME TypeOK, SpendInv, NEW r \in Run, NEW f \in Field
  PROVE  Summable(spend, f, Returned(r))
BY FieldEffects DEF TypeOK, SpendInv, Summable, Returned

(* Steps that touch no account, and return no child. *)
LEMMA AccountsUntouched ==
  ASSUME SpendInv, UNCHANGED <<spend, transcript, absorbed, late>>,
         \A r \in Run : Returned(r)' = Returned(r), ReturnedEnded'
  PROVE  SpendInv'
BY DEF SpendInv, Accounted

LEMMA PhaseStepSpend ==
  ASSUME TypeOK, SpendInv, NEW r \in Run, NEW where, phase[r] # "ended",
         phase' = [phase EXCEPT ![r] = where],
         UNCHANGED <<parent, handoff, spend, transcript, absorbed, late>>
  PROVE  SpendInv'
<1>1. ReturnedEnded' /\ \A q \in Run : Returned(q)' = Returned(q)
  BY DEF TypeOK, SpendInv, ReturnedEnded, Returned
<1> QED BY <1>1, AccountsUntouched

LEMMA TurnCompletesSpend ==
  ASSUME IInv, SpendInv, NEW r \in Run, NEW usage \in TurnUsages, TurnCompletes(r, usage)
  PROVE  SpendInv'
<1>1. TypeOK /\ phase[r] = "turn" /\ end[r] = "none"
  BY DEF IInv, TurnCompletes, RunInv, EndAccounted
<1>2. /\ spend[r] \in Spend /\ transcript[r] \in Spend /\ absorbed[r] \in Spend
      /\ late[r] \in Spend /\ usage \in TurnUsage
  BY <1>1, UsagesAreUsages DEF TypeOK
<1> DEFINE turned == AbsorbTurn(spend[r], usage)
           s == AbsorbRun(turned, late[r])
<1>3. turned \in Spend /\ s \in Spend
  BY <1>2, AbsorbTurnEffect, AbsorbRunEffect
<1>4. /\ spend' = [spend EXCEPT ![r] = s]
      /\ transcript' = [transcript EXCEPT ![r] = AbsorbTurn(transcript[r], usage)]
      /\ absorbed' = [absorbed EXCEPT ![r] = AbsorbRun(absorbed[r], late[r])]
      /\ late' = [late EXCEPT ![r] = NoSpend]
      /\ AfterTurn(r, s) /\ UNCHANGED <<parent, handoff>>
  BY DEF TurnCompletes
<1>5. PICK where : phase' = [phase EXCEPT ![r] = where]
  BY <1>1, <1>3, <1>4, AfterTurnEffect DEF Outcome
<1>6. ReturnedEnded' /\ \A q \in Run : Returned(q)' = Returned(q) /\ r \notin Returned(q)
  BY <1>1, <1>4, <1>5 DEF TypeOK, SpendInv, ReturnedEnded, Returned
<1>7. ASSUME NEW q \in Run, NEW f \in Field
      PROVE  /\ spend'[q][f] = transcript'[q][f] + absorbed'[q][f]
             /\ absorbed'[q][f] + late'[q][f] = Total(spend', f, Returned(q)')
  <2>1. Total(spend', f, Returned(q)') = Total(spend, f, Returned(q))
    <3>1. \A c \in Returned(q) : spend'[c][f] = spend[c][f]
      BY <1>1, <1>4, <1>6 DEF TypeOK, Returned
    <3> QED BY <1>1, <1>6, <3>1, ReturnedSummable, TotalOfSame
  <2>2. /\ spend[q][f] = transcript[q][f] + absorbed[q][f]
        /\ absorbed[q][f] + late[q][f] = Total(spend, f, Returned(q))
    BY DEF SpendInv, Accounted
  <2>3. CASE q # r
    <3>1. /\ spend'[q] = spend[q] /\ transcript'[q] = transcript[q]
          /\ absorbed'[q] = absorbed[q] /\ late'[q] = late[q]
      BY <1>1, <1>4, <2>3 DEF TypeOK
    <3> QED BY <2>1, <2>2, <3>1
  <2>4. CASE q = r
    <3>1. /\ spend'[r] = s /\ transcript'[r] = AbsorbTurn(transcript[r], usage)
          /\ absorbed'[r] = AbsorbRun(absorbed[r], late[r]) /\ late'[r] = NoSpend
      BY <1>1, <1>4 DEF TypeOK
    <3> DEFINE more == AbsorbTurn(NoSpend, usage)[f]
    <3>2. /\ s[f] = turned[f] + late[r][f] /\ turned[f] = spend[r][f] + more
          /\ AbsorbTurn(transcript[r], usage)[f] = transcript[r][f] + more
          /\ AbsorbRun(absorbed[r], late[r])[f] = absorbed[r][f] + late[r][f]
          /\ NoSpend[f] = 0
      BY <1>2, <1>3, FieldEffects
    <3>3. /\ spend[r][f] \in Nat /\ transcript[r][f] \in Nat /\ absorbed[r][f] \in Nat
          /\ late[r][f] \in Nat /\ more \in Nat
      BY <1>2, FieldEffects
    <3> QED BY <2>1, <2>2, <2>4, <3>1, <3>2, <3>3
  <2> QED BY <2>3, <2>4
<1>8. \A q \in Run : IsFiniteSet(Returned(q)')
  BY <1>6 DEF SpendInv
<1> QED BY <1>6, <1>7, <1>8 DEF SpendInv, Accounted

LEMMA HandoffSpend ==
  ASSUME IInv, SpendInv, NEW p \in Run, NEW c \in Run, NEW own \in AgentBudgets,
         Handoff(p, c, own)
  PROVE  SpendInv'
<1>1. /\ phase[c] = "unused" /\ phase' = [phase EXCEPT ![c] = "created"]
      /\ parent' = [parent EXCEPT ![c] = p] /\ handoff' = [handoff EXCEPT ![c] = "awaiting"]
      /\ UNCHANGED <<spend, transcript, absorbed, late>>
  BY DEF Handoff, spend_vars
<1>2. ReturnedEnded' /\ \A q \in Run : Returned(q)' = Returned(q)
  BY <1>1 DEF IInv, TypeOK, SpendInv, ReturnedEnded, Returned
<1> QED BY <1>1, <1>2, AccountsUntouched

LEMMA HandoffReturnsSpend ==
  ASSUME IInv, SpendInv, NEW p \in Run, NEW c \in Run, HandoffReturns(p, c)
  PROVE  SpendInv'
<1>1. /\ c \in Awaited(p) /\ phase[c] = "ended"
      /\ handoff' = [handoff EXCEPT ![c] = "returned"]
      /\ late' = [late EXCEPT ![p] = AbsorbRun(late[p], spend[c])]
      /\ UNCHANGED <<phase, parent, spend, transcript, absorbed>>
  BY DEF HandoffReturns, run_vars
<1>2. TypeOK /\ late[p] \in Spend /\ spend[c] \in Spend /\ absorbed[p] \in Spend
  BY DEF IInv, TypeOK
<1>3. /\ ReturnedEnded'
      /\ Returned(p)' = Returned(p) \cup {c} /\ c \notin Returned(p)
      /\ \A q \in Run : q # p => Returned(q)' = Returned(q)
  BY <1>1, <1>2 DEF TypeOK, SpendInv, ReturnedEnded, Returned, Awaited
<1>4. \A q \in Run : IsFiniteSet(Returned(q)')
  BY <1>3, FS_AddElement DEF SpendInv
<1>5. ASSUME NEW q \in Run, NEW f \in Field
      PROVE  /\ spend[q][f] = transcript[q][f] + absorbed[q][f]
             /\ absorbed[q][f] + late'[q][f] = Total(spend, f, Returned(q)')
  <2>1. /\ spend[q][f] = transcript[q][f] + absorbed[q][f]
        /\ absorbed[q][f] + late[q][f] = Total(spend, f, Returned(q))
    BY DEF SpendInv, Accounted
  <2>2. CASE q # p
    BY <1>1, <1>2, <1>3, <2>1, <2>2 DEF TypeOK
  <2>3. CASE q = p
    <3>1. Summable(spend, f, Returned(p) \cup {c})
      <4>1. \A d \in Returned(p) \cup {c} : spend[d] \in Spend
        BY <1>2 DEF TypeOK, Returned
      <4> QED BY <1>3, <1>4, <4>1, FieldEffects DEF Summable
    <3>2. Total(spend, f, Returned(p)') = Total(spend, f, Returned(p)) + spend[c][f]
      <4>1. Total(spend, f, Returned(p) \cup {c}) = Total(spend, f, Returned(p)) + spend[c][f]
        BY <1>3, <3>1, TotalOfMore
      <4>2. Returned(p)' = Returned(p) \cup {c}
        BY <1>3
      <4> QED BY <4>1, <4>2, Zenon
    <3>3. late'[p][f] = late[p][f] + spend[c][f]
      BY <1>1, <1>2, FieldEffects DEF TypeOK
    <3>4. late[p][f] \in Nat /\ spend[c][f] \in Nat /\ absorbed[p][f] \in Nat
      BY <1>2, FieldEffects
    <3> QED BY <2>1, <2>3, <3>2, <3>3, <3>4
  <2> QED BY <2>2, <2>3
<1> QED BY <1>1, <1>3, <1>4, <1>5 DEF SpendInv, Accounted

LEMMA NextSpendInv == IInv /\ SpendInv /\ [Next]_vars => SpendInv'
<1> SUFFICES ASSUME IInv, SpendInv, [Next]_vars PROVE SpendInv'
  OBVIOUS
<1>0. TypeOK /\ \A r \in Run : end[r] = "none" => phase[r] # "ended"
  BY DEF IInv, RunInv, EndAccounted
<1>1. CASE UNCHANGED vars
  <2>1. UNCHANGED <<phase, parent, handoff, spend, transcript, absorbed, late>>
    BY <1>1 DEF vars, run_vars, spend_vars
  <2>2. ReturnedEnded' /\ \A q \in Run : Returned(q)' = Returned(q)
    BY <2>1 DEF SpendInv, ReturnedEnded, Returned
  <2> QED BY <2>1, <2>2, AccountsUntouched
<1>2. CASE Next
  <2> PICK r \in Run :
        \/ Activate(r) \/ WakeUp(r) \/ RunFails(r) \/ UserMessage(r) \/ EndConversation(r)
        \/ \E usage \in TurnUsages : TurnCompletes(r, usage)
        \/ \E c \in Run : \/ \E own \in AgentBudgets : Handoff(r, c, own)
                          \/ HandoffReturns(r, c) \/ HandoffFails(r, c)
                          \/ TerminateOrphan(r, c)
    BY <1>2 DEF Next
  <2>1. ASSUME NEW q \in Run,
               \/ Activate(q) \/ WakeUp(q) \/ RunFails(q)
               \/ \E p \in Run : TerminateOrphan(p, q)
        PROVE  SpendInv'
    <3>1. /\ phase[q] # "ended"
          /\ \E where : phase' = [phase EXCEPT ![q] = where]
          /\ UNCHANGED <<parent, handoff, spend, transcript, absorbed, late>>
      BY <2>1 DEF Activate, WakeUp, RunFails, TerminateOrphan, TakeNext, HeadOfLoop, Ends,
                  GoesTo, Started, Open, spend_vars
    <3> QED BY <1>0, <3>1, PhaseStepSpend
  <2>2. CASE \E usage \in TurnUsages : TurnCompletes(r, usage)
    BY <2>2, TurnCompletesSpend
  <2>3. CASE UserMessage(r) \/ EndConversation(r) \/ \E c \in Run : HandoffFails(r, c)
    <3>1. /\ UNCHANGED <<phase, parent, spend, transcript, absorbed, late>>
          /\ UNCHANGED handoff \/ \E c \in Awaited(r) : handoff' = [handoff EXCEPT ![c] = "failed"]
      BY <2>3 DEF UserMessage, EndConversation, HandoffFails, run_vars, spend_vars
    <3>2. \A c \in Run : handoff'[c] = "returned" <=> handoff[c] = "returned"
      BY <1>0, <3>1 DEF TypeOK, Awaited
    <3>3. ReturnedEnded' /\ \A q \in Run : Returned(q)' = Returned(q)
      BY <3>1, <3>2 DEF SpendInv, ReturnedEnded, Returned
    <3> QED BY <3>1, <3>3, AccountsUntouched
  <2>4. CASE \E c \in Run, own \in AgentBudgets : Handoff(r, c, own)
    BY <2>4, HandoffSpend
  <2>5. CASE \E c \in Run : HandoffReturns(r, c)
    BY <2>5, HandoffReturnsSpend
  <2> QED BY <2>1, <2>2, <2>3, <2>4, <2>5
<1> QED BY <1>1, <1>2

LEMMA SpendInductive == Spec => []SpendInv
BY InitSpendInv, NextSpendInv, Inductive, PTL DEF Spec

(* However returns and turns interleave, and however many children a run has, *)
(* each returned child is in its parent's account exactly once.               *)
THEOREM SpendIsConserved == Spec => []SpendConserved
<1>1. IInv /\ SpendInv => SpendConserved
  <2> SUFFICES ASSUME IInv, SpendInv, NEW r \in Run, NEW f \in Field
               PROVE  spend[r][f] + late[r][f] = RecordedTotal(r, f)
    BY DEF SpendConserved, Field
  <2>1. /\ spend[r][f] = transcript[r][f] + absorbed[r][f]
        /\ absorbed[r][f] + late[r][f] = Total(spend, f, Returned(r))
    BY DEF SpendInv, Accounted
  <2>2. transcript[r][f] \in Nat /\ absorbed[r][f] \in Nat /\ late[r][f] \in Nat
    BY FieldEffects DEF IInv, TypeOK
  <2>3. RecordedTotal(r, f) = transcript[r][f] + Total(spend, f, Returned(r))
    BY DEF RecordedTotal, Total
  <2> QED BY <2>1, <2>2, <2>3
<1> QED BY <1>1, SpendInductive, Inductive, PTL

-----------------------------------------------------------------------------
(* How far a token or cost cap is overshot: maxima, and the tree of runs. *)

(* A set of naturals with a bound has a largest member. *)
LEMMA MaxOfBounded ==
  ASSUME NEW S, S \subseteq Nat, S # {}, NEW bound \in Nat, \A n \in S : n <= bound
  PROVE  Max(S) \in S /\ \A n \in S : n <= Max(S)
<1> DEFINE Bounds == {b \in Nat : \A n \in S : n <= b}
<1>1. PICK b \in Bounds : \A other \in Bounds : b <= other
  <2>1. Bounds \subseteq Nat /\ bound \in Bounds
    OBVIOUS
  <2> HIDE DEF Bounds
  <2> QED BY <2>1, SmallestNumber
<1>2. b \in S
  <2> SUFFICES ASSUME b \notin S PROVE FALSE
    OBVIOUS
  <2>1. \A n \in S : n \in Nat /\ n <= b /\ n # b
    BY <1>1
  <2>2. PICK n \in S : TRUE
    OBVIOUS
  <2>3. b - 1 \in Nat /\ \A m \in S : m <= b - 1
    BY <1>1, <2>1, <2>2
  <2>4. b <= b - 1
    BY <1>1, <2>3
  <2> QED BY <1>1, <2>4
<1>3. \A n \in S : b >= n
  BY <1>1
<1>4. Max(S) = CHOOSE x \in S : \A y \in S : x >= y
  BY DEF Max
<1>5. Max(S) \in S /\ \A y \in S : Max(S) >= y
  BY <1>2, <1>3, <1>4
<1> QED BY <1>5

\* A dimension of a budget that may be overshot: a field of the account, its cap.
Dimension ==
  {[field |-> "tokens", cap |-> "max_total_tokens"],
   [field |-> "cost", cap |-> "max_cost_usd"]}

Largest(d) == LargestFigure({usage[d.field] : usage \in TurnUsages})

(* No turn reports more than the largest figure. *)
LEMMA LargestBounds ==
  ASSUME NEW d \in Dimension
  PROVE  /\ Largest(d) \in Nat
         /\ \A usage \in TurnUsages :
              Known(usage[d.field]) \in Nat /\ Known(usage[d.field]) <= Largest(d)
<1> DEFINE Of(usage) == Known(usage[d.field])
           Top(U) == \E u \in U : \A v \in U : Of(v) <= Of(u)
           Bad == {U \in SUBSET TurnUsages : U # {} /\ ~Top(U)}
<1>1. \A usage \in TurnUsages : Of(usage) \in Nat
  BY UsagesAreUsages, UnknownIsNoNumber DEF TurnUsage, Known, Dimension
<1>2. Bad = {}
  <2> SUFFICES ASSUME Bad # {} PROVE FALSE
    OBVIOUS
  <2>1. PICK s \in Bad : \A t \in Bad : ~(t \subseteq s /\ t # s)
    <3>1. Bad \subseteq SUBSET TurnUsages
      OBVIOUS
    <3> HIDE DEF Bad
    <3> QED BY <3>1, SmallestSet, UsagesAreFinite
  <2>2. PICK u \in s : TRUE
    BY <2>1
  <2>3. s \ {u} = {} \/ Top(s \ {u})
    <3>1. s \ {u} \in SUBSET TurnUsages /\ s \ {u} \subseteq s /\ s \ {u} # s
      BY <2>1, <2>2
    <3>2. s \ {u} \notin Bad
      BY <2>1, <3>1, Zenon
    <3> HIDE DEF Top
    <3> QED BY <3>1, <3>2
  <2>4. ASSUME NEW w \in s, \A v \in s \ {u} : Of(v) <= Of(w) PROVE Top(s)
    <3>1. Of(u) <= Of(w) \/ Of(w) <= Of(u)
      BY <1>1, <2>1, <2>2, <2>4
    <3>2. CASE Of(u) <= Of(w)
      <4>1. \A v \in s : Of(v) <= Of(w)
        BY <2>4, <3>2
      <4> QED BY <4>1
    <3>3. CASE Of(w) <= Of(u)
      <4>1. \A v \in s : Of(v) <= Of(u)
        <5>1. \A v \in s : Of(v) \in Nat
          BY <1>1, <2>1
        <5> HIDE DEF Of
        <5> QED BY <2>2, <2>4, <3>3, <5>1
      <4> QED BY <2>2, <4>1
    <3> QED BY <3>1, <3>2, <3>3
  <2>5. CASE s \ {u} = {}
    BY <2>2, <2>4, <2>5
  <2>6. CASE Top(s \ {u})
    BY <2>4, <2>6
  <2>7. Top(s)
    BY <2>3, <2>5, <2>6
  <2> QED BY <2>1, <2>7
<1>3. PICK top \in TurnUsages : \A usage \in TurnUsages : Of(usage) <= Of(top)
  BY <1>2, UsagesAreFinite
<1> DEFINE Figures == {Known(figure) : figure \in {usage[d.field] : usage \in TurnUsages}}
<1>4. /\ \A n \in Figures : \E usage \in TurnUsages : n = Of(usage)
      /\ \A usage \in TurnUsages : Of(usage) \in Figures
  OBVIOUS
<1>5. Figures \subseteq Nat /\ Figures # {} /\ Of(top) \in Nat /\ \A n \in Figures : n <= Of(top)
  BY <1>1, <1>3, <1>4
<1>6. Max(Figures) \in Figures /\ \A n \in Figures : n <= Max(Figures)
  <2> HIDE DEF Figures
  <2> QED BY <1>5, MaxOfBounded
<1>7. Largest(d) = Max(Figures)
  BY DEF Largest, LargestFigure
<1> QED BY <1>1, <1>4, <1>5, <1>6, <1>7

\* The lines down from r, and how many levels they have, for any parents.
LinesOf(up, r) ==
  {line \in SUBSET Run :
     /\ r \in line
     /\ \A c \in line \ {r} : up[c] \in line
     /\ \A c, d \in line \ {r} : up[c] = up[d] => c = d}
LevelsOf(up, r) == Max({Cardinality(line) : line \in LinesOf(up, r)})

LEMMA LevelsAre == \A r : Levels(r) = LevelsOf(parent, r)
BY DEF Levels, Lines, LevelsOf, LinesOf

\* Finitely many runs have a parent, and they can be ranked below it.
IsForest(up) ==
  /\ IsFiniteSet({c \in Run : up[c] # NoRun})
  /\ \E rank \in [Run -> Nat] : \A c \in Run : up[c] \in Run => rank[up[c]] < rank[c]

(* In a forest the levels below a run are a number, and no line is longer. *)
LEMMA LevelsBound ==
  ASSUME NEW up, IsForest(up), NEW r \in Run
  PROVE  /\ LevelsOf(up, r) \in Nat /\ LevelsOf(up, r) >= 1
         /\ \A line \in LinesOf(up, r) :
              IsFiniteSet(line) /\ Cardinality(line) <= LevelsOf(up, r)
         /\ \E line \in LinesOf(up, r) : Cardinality(line) = LevelsOf(up, r)
<1> DEFINE All == {c \in Run : up[c] # NoRun} \cup {r}
           Sizes == {Cardinality(line) : line \in LinesOf(up, r)}
<1>1. IsFiniteSet(All) /\ Cardinality(All) \in Nat
  BY FS_AddElement, FS_CardinalityType DEF IsForest
<1>2. ASSUME NEW line \in LinesOf(up, r)
      PROVE  IsFiniteSet(line) /\ Cardinality(line) \in Nat /\ Cardinality(line) <= Cardinality(All)
  <2>1. line \in SUBSET All
    BY NoRunIsNoRun DEF LinesOf
  <2> HIDE DEF All
  <2> QED BY <1>1, <2>1, FS_Subset, FS_CardinalityType
<1>3. {r} \in LinesOf(up, r) /\ Cardinality({r}) = 1
  BY FS_Singleton DEF LinesOf
<1>4. Sizes \subseteq Nat /\ 1 \in Sizes /\ \A n \in Sizes : n <= Cardinality(All)
  BY <1>2, <1>3
<1>5. Max(Sizes) \in Sizes /\ \A n \in Sizes : n <= Max(Sizes)
  <2>1. Cardinality(All) \in Nat /\ Sizes # {}
    BY <1>1, <1>4
  <2> HIDE DEF Sizes, All
  <2> QED BY <1>4, <2>1, MaxOfBounded
<1>6. LevelsOf(up, r) = Max(Sizes)
  BY DEF LevelsOf
<1> QED BY <1>2, <1>4, <1>5, <1>6

(* A child has fewer levels below it than its parent. *)
LEMMA LevelsBelow ==
  ASSUME NEW up, IsForest(up), NEW p \in Run, NEW c \in Run, up[c] = p
  PROVE  LevelsOf(up, c) + 1 <= LevelsOf(up, p)
<1>1. PICK line \in LinesOf(up, c) : Cardinality(line) = LevelsOf(up, c)
  BY LevelsBound
<1>2. PICK rank \in [Run -> Nat] : \A d \in Run : up[d] \in Run => rank[up[d]] < rank[d]
  BY DEF IsForest
<1>3. p \notin line
  <2> DEFINE Lower == {n \in Nat : \E d \in line : n = rank[d] /\ n < rank[c]}
  <2> SUFFICES ASSUME p \in line PROVE FALSE
    OBVIOUS
  <2>1. rank[p] < rank[c] /\ rank[p] \in Nat
    BY <1>2
  <2>2. Lower \subseteq Nat /\ rank[p] \in Lower
    BY <2>1
  <2>3. PICK n \in Lower : \A m \in Lower : n <= m
    <3> HIDE DEF Lower
    <3> QED BY <2>2, SmallestNumber
  <2>4. PICK d \in line : n = rank[d] /\ n < rank[c]
    BY <2>3
  <2>5. d # c /\ d \in Run /\ up[d] \in line /\ up[d] \in Run
    BY <1>2, <2>4 DEF LinesOf
  <2>6. rank[up[d]] < rank[d] /\ rank[up[d]] \in Nat /\ rank[d] \in Nat /\ rank[c] \in Nat
    BY <1>2, <2>5
  <2>7. rank[up[d]] \in Lower
    BY <2>4, <2>5, <2>6
  <2> QED BY <2>3, <2>4, <2>6, <2>7
<1>4. line \cup {p} \in LinesOf(up, p)
  <2>1. /\ line \in SUBSET Run /\ c \in line /\ up[c] = p
        /\ \A d \in line \ {c} : up[d] \in line
        /\ \A d, e \in line \ {c} : up[d] = up[e] => d = e
    BY DEF LinesOf
  <2>2. \A d \in line : up[d] = p => d = c
    BY <1>3, <2>1
  <2>3. \A d \in line : up[d] \in line \cup {p}
    BY <2>1
  <2>4. \A d, e \in line : up[d] = up[e] => d = e
    BY <2>1, <2>2
  <2> QED BY <1>3, <2>1, <2>3, <2>4 DEF LinesOf
<1>5. IsFiniteSet(line) /\ Cardinality(line \cup {p}) = Cardinality(line) + 1
  BY <1>1, <1>3, LevelsBound, FS_AddElement
<1>6. Cardinality(line \cup {p}) <= LevelsOf(up, p)
  BY <1>4, LevelsBound
<1> QED BY <1>1, <1>5, <1>6

(* A new child under a run takes no level away, and the forest stays one. *)
LEMMA ForestGrows ==
  ASSUME NEW up \in [Run -> Run \cup {NoRun}], IsForest(up), NEW p \in Run, NEW c \in Run,
         p # c, up[c] = NoRun, \A d \in Run : up[d] # c,
         NEW new, new = [up EXCEPT ![c] = p]
  PROVE  /\ IsForest(new)
         /\ \A r \in Run : LevelsOf(up, r) <= LevelsOf(new, r)
<1>1. IsForest(new)
  <2>1. {d \in Run : new[d] # NoRun} = {d \in Run : up[d] # NoRun} \cup {c}
    BY NoRunIsNoRun
  <2>2. IsFiniteSet({d \in Run : new[d] # NoRun})
    <3>1. IsFiniteSet({d \in Run : up[d] # NoRun})
      BY DEF IsForest
    <3>2. IsFiniteSet({d \in Run : up[d] # NoRun} \cup {c})
      BY <3>1, FS_AddElement
    <3> QED BY <2>1, <3>2
  <2>3. PICK rank \in [Run -> Nat] : \A d \in Run : up[d] \in Run => rank[up[d]] < rank[d]
    BY DEF IsForest
  <2> DEFINE ranked == [rank EXCEPT ![c] = rank[p] + 1]
  <2>4. ranked \in [Run -> Nat]
    <3>1. rank[p] + 1 \in Nat
      <4>1. rank[p] \in Nat
        OBVIOUS
      <4>2. \A n \in Nat : n + 1 \in Nat
        OBVIOUS
      <4> QED BY <4>1, <4>2, Zenon
    <3>2. [rank EXCEPT ![c] = rank[p] + 1] \in [Run -> Nat]
      BY <3>1, Zenon
    <3> QED BY <3>2
  <2>5. ASSUME NEW d \in Run, new[d] \in Run PROVE ranked[new[d]] < ranked[d]
    <3>1. new[d] # c /\ ranked[new[d]] = rank[new[d]] /\ rank[new[d]] \in Nat
      BY <2>3, <2>5
    <3>2. CASE d = c
      <4>1. ranked[c] = rank[p] + 1 /\ new[c] = p
        OBVIOUS
      <4>2. rank[p] \in Nat
        OBVIOUS
      <4> QED BY <3>1, <3>2, <4>1, <4>2
    <3>3. CASE d # c
      BY <2>3, <2>5, <3>1, <3>3
    <3> QED BY <3>2, <3>3
  <2> QED BY <2>2, <2>4, <2>5 DEF IsForest
<1>2. ASSUME NEW r \in Run PROVE LevelsOf(up, r) <= LevelsOf(new, r)
  <2>1. PICK line \in LinesOf(up, r) : Cardinality(line) = LevelsOf(up, r)
    BY LevelsBound
  <2>2. \A d \in line \ {r} : d # c /\ new[d] = up[d]
    BY <2>1, NoRunIsNoRun DEF LinesOf
  <2>3. line \in LinesOf(new, r)
    BY <2>1, <2>2 DEF LinesOf
  <2> QED BY <1>1, <2>1, <2>3, LevelsBound
<1> QED BY <1>1, <1>2

-----------------------------------------------------------------------------
(* How far a token or cost cap is overshot: the invariant. *)

Limit(r, d) == config[r].budget[d.cap]
Used(r, d) == spend[r][d.field] + late[r][d.field]
Slack(levels, d) == levels * Largest(d)

(* More levels are more slack, by the largest figure each. *)
LEMMA SlackGrows ==
  ASSUME NEW d \in Dimension
  PROVE  /\ \A n \in Nat : Slack(n, d) \in Nat /\ Slack(n + 1, d) = Slack(n, d) + Largest(d)
         /\ \A m, n \in Nat : m <= n => Slack(m, d) <= Slack(n, d)
<1>1. PICK top \in Nat : top = Largest(d)
  BY LargestBounds
<1>2. \A n \in Nat : n * top \in Nat /\ (n + 1) * top = n * top + top
  OBVIOUS
<1>3. ASSUME NEW m \in Nat, NEW n \in Nat, m <= n PROVE m * top <= n * top
  <2>1. PICK k \in Nat : n = m + k
    <3>1. n - m \in Nat /\ n = m + (n - m)
      BY <1>3
    <3> QED BY <3>1
  <2>2. n * top = m * top + k * top /\ k * top \in Nat /\ m * top \in Nat
    BY <2>1
  <2> QED BY <2>2
<1> QED BY <1>1, <1>2, <1>3 DEF Slack

(* The figures of a run in one dimension. *)
LEMMA FigureTypes ==
  ASSUME TypeOK, NEW r \in Run, NEW d \in Dimension
  PROVE  /\ spend[r] \in Spend /\ late[r] \in Spend /\ d.field \in Field
         /\ spend[r][d.field] \in Nat /\ late[r][d.field] \in Nat /\ Used(r, d) \in Nat
         /\ config[r].budget \in Budget /\ Limit(r, d) \in Cap
         /\ Limit(r, d) # NoCap => Limit(r, d) \in Nat
<1>1. spend[r] \in Spend /\ late[r] \in Spend /\ config[r].budget \in Budget
  BY DEF TypeOK
<1>2. d.field \in Field
  BY DEF Dimension, Field, NoSpend
<1>3. spend[r][d.field] \in Nat /\ late[r][d.field] \in Nat
  BY <1>1, <1>2, FieldEffects
<1>4. Limit(r, d) \in Cap
  BY <1>1 DEF Limit, Dimension, Budget
<1> QED BY <1>1, <1>2, <1>3, <1>4 DEF Used, Cap

(* What an open gate before a turn says of a dimension. *)
LEMMA OpenGateMeaning ==
  ASSUME NEW budget \in Budget, NEW s \in Spend, NEW d \in Dimension,
         PreTurnCap(budget, s) = "none", budget[d.cap] # NoCap
  PROVE  s[d.field] < budget[d.cap]
BY NoCapIsNoNumber DEF Budget, Cap, Spend, Dimension, PreTurnCap, FirstTripped, Reaches

(* A child may spend what its parent has left, or nothing. *)
LEMMA DelegatedDimensionFits ==
  ASSUME NEW budget \in Budget, NEW spent \in Spend, NEW own \in Budget, NEW d \in Dimension,
         budget[d.cap] # NoCap
  PROVE  LET given == Intersect(RemainingBudget(budget, spent), own)[d.cap] IN
           /\ given \in Nat
           /\ given = 0 \/ given + spent[d.field] <= budget[d.cap]
<1> DEFINE rest == Left(budget[d.cap], spent[d.field])
<1>1. /\ budget[d.cap] \in Nat /\ own[d.cap] \in Cap /\ spent[d.field] \in Nat
  BY DEF Budget, Spend, Cap, Dimension
<1>2. Intersect(RemainingBudget(budget, spent), own)[d.cap] = Stricter(rest, own[d.cap])
  BY DEF Dimension, Intersect, RemainingBudget
<1>3. rest \in Nat /\ (rest = 0 \/ rest + spent[d.field] = budget[d.cap])
  BY <1>1, NoCapIsNoNumber DEF Left
<1> HIDE DEF rest
<1>4. Stricter(rest, own[d.cap]) \in Nat /\ Stricter(rest, own[d.cap]) <= rest
  BY <1>1, <1>3, NoCapIsNoNumber DEF Stricter, Cap
<1> QED BY <1>1, <1>2, <1>3, <1>4

\* Each level of delegation, one's own included, adds at most one turn's figure
\* to a cap; while a turn is to come, one's own level has added nothing yet, and
\* a cap of nothing is never spent from.
WithinLevels(r, d) ==
  Limit(r, d) # NoCap =>
    /\ Limit(r, d) = 0 => ~Started(r) /\ Used(r, d) = 0
    /\ Used(r, d) = 0 \/ Used(r, d) < Limit(r, d) + Slack(Levels(r), d)
    /\ phase[r] = "turn" => Used(r, d) < Limit(r, d) + Slack(Levels(r) - 1, d)
    /\ phase[r] = "waiting" /\ (late[r][d.field] # 0 \/ spend[r][d.field] < Limit(r, d))
         => Used(r, d) < Limit(r, d) + Slack(Levels(r) - 1, d)

\* The child that p awaits was given what p has left.
GivenFits(p, c, d) ==
  Started(p) /\ c \in Awaited(p) /\ Limit(p, d) # NoCap =>
    /\ Limit(c, d) # NoCap
    /\ Limit(c, d) = 0 \/ Limit(c, d) + Used(p, d) <= Limit(p, d)

OvershootInv ==
  \A d \in Dimension, r \in Run :
    ~overlapped[r] => WithinLevels(r, d) /\ \A c \in Run : GivenFits(r, c, d)

TreeInv == IsForest(parent)

LEMMA LevelsType ==
  ASSUME TreeInv, NEW r \in Run
  PROVE  Levels(r) \in Nat /\ Levels(r) - 1 \in Nat /\ Levels(r) >= 1
<1>1. LevelsOf(parent, r) \in Nat /\ LevelsOf(parent, r) >= 1
  BY LevelsBound DEF TreeInv
<1>2. Levels(r) = LevelsOf(parent, r)
  BY LevelsAre
<1> QED BY <1>1, <1>2

(* A handoff only ever starts a run that was nowhere in the tree. *)
LEMMA TreeStep ==
  ASSUME IInv, TreeInv, [Next]_vars
  PROVE  /\ TreeInv'
         /\ \A r \in Run : Levels(r) <= Levels(r)'
         /\ \A r \in Run : Levels(r)' \in Nat /\ Levels(r)' - 1 \in Nat
<1>1. /\ TreeInv'
      /\ \A r \in Run : LevelsOf(parent, r) <= LevelsOf(parent', r)
  <2>1. CASE parent' = parent
    <3>1. \A r \in Run : LevelsOf(parent, r) <= LevelsOf(parent', r)
      BY <2>1, LevelsBound DEF TreeInv
    <3> QED BY <2>1, <3>1 DEF TreeInv
  <2>2. CASE parent' # parent
    <3>1. PICK p \in Run, c \in Run, own \in AgentBudgets : Handoff(p, c, own)
      BY <2>2 DEF Next, vars, run_vars, Activate, TurnCompletes, WakeUp, RunFails, UserMessage,
                  EndConversation, HandoffReturns, HandoffFails, TerminateOrphan
    <3>2. /\ p # c /\ parent[c] = NoRun /\ parent' = [parent EXCEPT ![c] = p]
          /\ \A d \in Run : parent[d] # c /\ parent \in [Run -> Run \cup {NoRun}]
      BY <3>1, NoRunIsNoRun DEF IInv, TypeOK, Handoff, Started, ParentStarted
    <3> QED BY <3>2, ForestGrows DEF TreeInv
  <2> QED BY <2>1, <2>2
<1>2. ASSUME NEW r \in Run
      PROVE  /\ LevelsOf(parent', r) \in Nat /\ LevelsOf(parent', r) >= 1
             /\ Levels(r)' = LevelsOf(parent', r)
  <2>1. Levels(r)' = LevelsOf(parent', r)
    BY DEF Levels, Lines, LevelsOf, LinesOf
  <2> QED BY <1>1, <2>1, LevelsBound DEF TreeInv
<1> QED BY <1>1, <1>2, LevelsAre

(* What a step must keep of a run for its figures to stay within its levels. *)
LEMMA WithinLevelsKept ==
  ASSUME IInv, TreeInv, [Next]_vars, NEW r \in Run, NEW d \in Dimension, WithinLevels(r, d),
         config'[r] = config[r], spend'[r] = spend[r], late'[r] = late[r],
         phase'[r] = phase[r] \/ phase'[r] \notin {"turn", "waiting"}
  PROVE  WithinLevels(r, d)'
<1>1. /\ Levels(r) \in Nat /\ Levels(r) - 1 \in Nat
      /\ Levels(r)' \in Nat /\ Levels(r)' - 1 \in Nat /\ Levels(r) <= Levels(r)'
  BY LevelsType, TreeStep
<1>2. /\ Slack(Levels(r), d) <= Slack(Levels(r)', d)
      /\ Slack(Levels(r) - 1, d) <= Slack(Levels(r)' - 1, d)
      /\ Slack(Levels(r), d) \in Nat /\ Slack(Levels(r) - 1, d) \in Nat
      /\ Slack(Levels(r)', d) \in Nat /\ Slack(Levels(r)' - 1, d) \in Nat
  <2>1. Levels(r) - 1 <= Levels(r)' - 1
    BY <1>1
  <2> QED BY <1>1, <2>1, SlackGrows
<1>3. TypeOK
  BY DEF IInv
<1>4. /\ Used(r, d) \in Nat /\ (Limit(r, d) # NoCap => Limit(r, d) \in Nat)
      /\ Used(r, d)' = Used(r, d) /\ Limit(r, d)' = Limit(r, d)
  BY <1>3, FigureTypes DEF Used, Limit
<1>5. /\ Slack(Levels(r), d)' = Slack(Levels(r)', d)
      /\ Slack(Levels(r) - 1, d)' = Slack(Levels(r)' - 1, d)
  BY DEF Slack, Largest, LargestFigure, Known
<1> HIDE DEF Slack
<1>6. CASE phase'[r] = phase[r]
  BY <1>2, <1>4, <1>5, <1>6 DEF WithinLevels, Started
<1>7. CASE phase'[r] \notin {"turn", "waiting"}
  BY <1>2, <1>4, <1>5, <1>7 DEF WithinLevels, Started
<1> QED BY <1>6, <1>7

(* A step that only moves run r to another phase, or stops awaiting a child. *)
LEMMA QuietOvershoot ==
  ASSUME IInv, TreeInv, OvershootInv, [Next]_vars, NEW r \in Run,
         UNCHANGED <<config, parent, spend, late, overlapped>>,
         \A q \in Run : q # r => phase'[q] = phase[q],
         \A q \in Run : Awaited(q)' \subseteq Awaited(q),
         Started(r)' => Started(r) \/ Awaited(r) = {},
         ~overlapped[r] => \A d \in Dimension : WithinLevels(r, d)'
  PROVE  OvershootInv'
<1> SUFFICES ASSUME NEW d \in Dimension, NEW q \in Run, ~overlapped[q]
             PROVE  WithinLevels(q, d)' /\ \A c \in Run : GivenFits(q, c, d)'
  BY DEF OvershootInv
<1>1. WithinLevels(q, d) /\ \A c \in Run : GivenFits(q, c, d)
  BY DEF OvershootInv
<1>2. WithinLevels(q, d)'
  BY <1>1, WithinLevelsKept
<1>3. Started(q)' => Started(q) \/ Awaited(q) = {}
  BY DEF Started
<1>4. ASSUME NEW c \in Run PROVE GivenFits(q, c, d)'
  <2>1. Limit(c, d)' = Limit(c, d) /\ Limit(q, d)' = Limit(q, d) /\ Used(q, d)' = Used(q, d)
    BY DEF Limit, Used
  <2> QED BY <1>1, <1>3, <2>1 DEF GivenFits
<1> QED BY <1>2, <1>4

(* The first activation: nothing is spent, and an open gate has room. *)
LEMMA ActivateOvershoot ==
  ASSUME IInv, TreeInv, OvershootInv, [Next]_vars, NEW r \in Run, Activate(r)
  PROVE  OvershootInv'
<1>1. /\ phase[r] = "created" /\ end[r] = "none" /\ TypeOK
      /\ spend[r] = NoSpend /\ late[r] = NoSpend
  BY DEF Activate, IInv, RunInv, EndAccounted, Fresh
<1>2. UNCHANGED <<config, parent, handoff, spend, late, overlapped>>
  BY DEF Activate, spend_vars
<1>3. PICK where \in {"failed", "ended", "turn"} :
         /\ phase' = [phase EXCEPT ![r] = where]
         /\ where = "turn" => PreTurnCap(config[r].budget, NoSpend) = "none"
  BY <1>1, NoSpendType, HeadOfLoopEffect DEF Activate, GoesTo, Ends
<1>4. phase'[r] = where /\ \A q \in Run : q # r => phase'[q] = phase[q]
  BY <1>1, <1>3 DEF TypeOK
<1>5. Awaited(r) = {} /\ \A q \in Run : Awaited(q)' = Awaited(q)
  BY <1>1, <1>2, NoChildrenYet DEF Awaited
<1>6. ASSUME NEW d \in Dimension, ~overlapped[r] PROVE WithinLevels(r, d)'
  <2>1. WithinLevels(r, d)
    BY <1>6 DEF OvershootInv
  <2>2. CASE where # "turn"
    BY <1>2, <1>4, <2>1, <2>2, WithinLevelsKept
  <2>3. CASE where = "turn"
    <3>1. Used(r, d)' = 0 /\ Limit(r, d)' = Limit(r, d)
      <4>1. NoSpend[d.field] = 0
        BY NoSpendType, FieldEffects, FigureTypes, <1>1
      <4> QED BY <1>1, <1>2, <4>1 DEF Used, Limit
    <3>2. Limit(r, d) # NoCap => Limit(r, d) \in Nat /\ 0 < Limit(r, d)
      <4>1. NoSpend[d.field] = 0
        BY NoSpendType, FieldEffects, FigureTypes, <1>1
      <4> QED BY <1>1, <1>3, <2>3, <4>1, NoSpendType, FigureTypes, OpenGateMeaning DEF Limit
    <3>3. Slack(Levels(r)' - 1, d) \in Nat /\ Slack(Levels(r) - 1, d)' = Slack(Levels(r)' - 1, d)
      BY TreeStep, SlackGrows DEF Slack, Largest, LargestFigure, Known
    <3> QED BY <1>4, <2>3, <3>1, <3>2, <3>3 DEF WithinLevels
  <2> QED BY <2>2, <2>3
<1> QED BY <1>2, <1>4, <1>5, <1>6, QuietOvershoot

(* A waiting run that goes on has a total under its cap; what came late, while it *)
(* waited, is within the levels below it.                                         *)
LEMMA WakeUpOvershoot ==
  ASSUME IInv, TreeInv, OvershootInv, [Next]_vars, NEW r \in Run, WakeUp(r)
  PROVE  OvershootInv'
<1>1. /\ phase[r] = "waiting" /\ end[r] = "none" /\ TypeOK
      /\ PostTurnCap(config[r].budget, spend[r]) = "none"
  BY DEF WakeUp, IInv, RunInv, EndAccounted
<1>2. UNCHANGED <<config, parent, handoff, spend, late, overlapped>>
  BY DEF WakeUp, spend_vars
<1>3. spend[r] \in Spend /\ config[r].budget \in Budget
  BY <1>1 DEF TypeOK
<1>4. PICK where, why, queued : Outcome(r, spend[r], where, why, queued)
  BY <1>1, <1>3, TakeNextEffect DEF WakeUp
<1>5. /\ phase'[r] = where /\ where \in {"ended", "turn", "waiting"}
      /\ \A q \in Run : q # r => phase'[q] = phase[q]
      /\ where = "turn" => PreTurnCap(config[r].budget, spend[r]) = "none"
  BY <1>1, <1>4 DEF Outcome, TypeOK
<1>6. Started(r) /\ \A q \in Run : Awaited(q)' = Awaited(q)
  BY <1>1, <1>2 DEF Awaited, Started
<1>7. ASSUME NEW d \in Dimension, ~overlapped[r] PROVE WithinLevels(r, d)'
  <2>1. WithinLevels(r, d)
    BY <1>7 DEF OvershootInv
  <2>2. CASE where # "turn"
    BY <1>1, <1>2, <1>5, <2>1, <2>2, WithinLevelsKept
  <2>3. CASE where = "turn"
    <3>1. Limit(r, d) # NoCap => spend[r][d.field] < Limit(r, d)
      BY <1>3, <1>5, <2>3, OpenGateMeaning DEF Limit
    <3>2. Limit(r, d) # NoCap =>
            /\ Used(r, d) < Limit(r, d) + Slack(Levels(r) - 1, d)
            /\ Used(r, d) = 0 \/ Used(r, d) < Limit(r, d) + Slack(Levels(r), d)
            /\ Limit(r, d) # 0
      BY <1>1, <2>1, <3>1 DEF WithinLevels, Started
    <3>3. /\ Slack(Levels(r) - 1, d) <= Slack(Levels(r)' - 1, d)
          /\ Slack(Levels(r), d) <= Slack(Levels(r)', d)
          /\ Slack(Levels(r), d) \in Nat /\ Slack(Levels(r) - 1, d) \in Nat
          /\ Slack(Levels(r)', d) \in Nat /\ Slack(Levels(r)' - 1, d) \in Nat
      <4>1. /\ Levels(r) \in Nat /\ Levels(r) - 1 \in Nat
            /\ Levels(r)' \in Nat /\ Levels(r)' - 1 \in Nat /\ Levels(r) <= Levels(r)'
        BY LevelsType, TreeStep
      <4>2. Levels(r) - 1 <= Levels(r)' - 1
        BY <4>1
      <4> QED BY <4>1, <4>2, SlackGrows
    <3>4. /\ Slack(Levels(r), d)' = Slack(Levels(r)', d)
          /\ Slack(Levels(r) - 1, d)' = Slack(Levels(r)' - 1, d)
          /\ Used(r, d)' = Used(r, d) /\ Limit(r, d)' = Limit(r, d)
      BY <1>2 DEF Slack, Largest, LargestFigure, Known, Used, Limit
    <3>5. Used(r, d) \in Nat /\ (Limit(r, d) # NoCap => Limit(r, d) \in Nat)
      BY <1>1, FigureTypes
    <3> HIDE DEF Slack
    <3> QED BY <1>5, <2>3, <3>2, <3>3, <3>4, <3>5 DEF WithinLevels
  <2> QED BY <2>2, <2>3
<1> QED BY <1>2, <1>5, <1>6, <1>7, QuietOvershoot

(* Failures, signals and failed children move no figure. *)
LEMMA StillOvershoot ==
  ASSUME IInv, TreeInv, OvershootInv, [Next]_vars, NEW r \in Run,
         UNCHANGED <<config, parent, spend, late, overlapped>>,
         \A q \in Run : q # r => phase'[q] = phase[q],
         phase'[r] = phase[r] \/ phase'[r] = "failed",
         \A q \in Run : Awaited(q)' \subseteq Awaited(q)
  PROVE  OvershootInv'
<1>1. ASSUME NEW d \in Dimension, ~overlapped[r] PROVE WithinLevels(r, d)'
  <2>1. WithinLevels(r, d)
    BY <1>1 DEF OvershootInv
  <2> QED BY <2>1, WithinLevelsKept
<1>2. Started(r)' => Started(r)
  BY DEF Started
<1> QED BY <1>1, <1>2, QuietOvershoot

(* A turn ends.  It began with room in every dimension, so it crosses a cap by *)
(* its own figure at most, on top of what the levels below had added.          *)
LEMMA TurnCompletesOvershoot ==
  ASSUME IInv, TreeInv, OvershootInv, [Next]_vars, NEW r \in Run,
         NEW usage \in TurnUsages, TurnCompletes(r, usage)
  PROVE  OvershootInv'
<1> DEFINE turned == AbsorbTurn(spend[r], usage)
           s == AbsorbRun(turned, late[r])
<1>1. phase[r] = "turn" /\ end[r] = "none" /\ TypeOK
  BY DEF TurnCompletes, IInv, RunInv, EndAccounted
<1>2. /\ spend[r] \in Spend /\ late[r] \in Spend /\ usage \in TurnUsage
      /\ turned \in Spend /\ s \in Spend
  BY <1>1, UsagesAreUsages, AbsorbTurnEffect, AbsorbRunEffect DEF TypeOK
<1>3. /\ spend' = [spend EXCEPT ![r] = s] /\ late' = [late EXCEPT ![r] = NoSpend]
      /\ AfterTurn(r, s)
      /\ overlapped' = [overlapped EXCEPT ![r] = overlapped[r] \/ Awaited(r) # {}]
      /\ UNCHANGED <<config, parent, handoff>>
  BY DEF TurnCompletes
<1>4. PICK where, why, queued : Outcome(r, s, where, why, queued)
  BY <1>1, <1>2, <1>3, AfterTurnEffect
<1>5. /\ phase'[r] = where /\ where \in {"ended", "turn", "waiting"}
      /\ \A q \in Run : q # r => phase'[q] = phase[q]
      /\ where = "turn" => PreTurnCap(config[r].budget, s) = "none"
  BY <1>1, <1>4 DEF Outcome, TypeOK
<1> SUFFICES ASSUME NEW d \in Dimension, NEW q \in Run, ~overlapped'[q]
             PROVE  WithinLevels(q, d)' /\ \A c \in Run : GivenFits(q, c, d)'
  BY DEF OvershootInv
<1>6. ~overlapped[q] /\ (q = r => Awaited(r) = {}) /\ Awaited(q)' = Awaited(q)
  BY <1>1, <1>3 DEF TypeOK, Awaited
<1>7. WithinLevels(q, d) /\ \A c \in Run : GivenFits(q, c, d)
  BY <1>6 DEF OvershootInv
<1>8. ASSUME NEW c \in Run PROVE GivenFits(q, c, d)'
  <2>1. CASE q = r
    BY <1>6, <2>1 DEF GivenFits
  <2>2. CASE q # r
    <3>1. /\ Limit(c, d)' = Limit(c, d) /\ Limit(q, d)' = Limit(q, d)
          /\ Used(q, d)' = Used(q, d) /\ Started(q)' = Started(q)
      BY <1>1, <1>3, <1>5, <2>2 DEF Limit, Used, Started, TypeOK
    <3> QED BY <1>6, <1>7, <3>1 DEF GivenFits
  <2> QED BY <2>1, <2>2
<1>9. CASE q # r
  <2>1. /\ config'[q] = config[q] /\ spend'[q] = spend[q] /\ late'[q] = late[q]
        /\ phase'[q] = phase[q]
    BY <1>1, <1>3, <1>5, <1>9 DEF TypeOK
  <2> QED BY <1>7, <1>8, <2>1, WithinLevelsKept
<1>10. CASE q = r
  <2>1. spend'[r] = s /\ late'[r] = NoSpend
    BY <1>1, <1>3 DEF TypeOK
  <2>2. /\ d.field \in Field /\ NoSpend[d.field] = 0
        /\ s[d.field] = turned[d.field] + late[r][d.field]
        /\ turned[d.field] = spend[r][d.field] + Known(usage[d.field])
    <3>1. d.field \in Field
      BY <1>1, FigureTypes
    <3>2. AbsorbTurn(NoSpend, usage)[d.field] = Known(usage[d.field])
      <4>1. Known(usage[d.field]) \in Nat
        BY LargestBounds
      <4> QED BY <4>1 DEF AbsorbTurn, NoSpend, Dimension
    <3> QED BY <1>2, <3>1, <3>2, FieldEffects
  <2>3. /\ Known(usage[d.field]) \in Nat /\ Known(usage[d.field]) <= Largest(d)
        /\ Largest(d) \in Nat
    BY LargestBounds
  <2>4. /\ spend[r][d.field] \in Nat /\ late[r][d.field] \in Nat
        /\ Used(r, d) = spend[r][d.field] + late[r][d.field]
        /\ (Limit(r, d) # NoCap => Limit(r, d) \in Nat)
    BY <1>1, FigureTypes DEF Used
  <2>5. /\ Used(r, d)' = Used(r, d) + Known(usage[d.field]) /\ spend'[r][d.field] = Used(r, d)'
        /\ late'[r][d.field] = 0 /\ Limit(r, d)' = Limit(r, d)
    <3>1. Used(r, d)' = s[d.field] + 0
      BY <2>1, <2>2 DEF Used
    <3>2. Limit(r, d)' = Limit(r, d)
      BY <1>3 DEF Limit
    <3> QED BY <2>1, <2>2, <2>3, <2>4, <3>1, <3>2
  <2>6. /\ Levels(r) - 1 \in Nat /\ Levels(r)' - 1 \in Nat /\ Levels(r)' \in Nat
        /\ Levels(r) <= Levels(r)' /\ Levels(r) \in Nat
    BY LevelsType, TreeStep
  <2>7. /\ Slack(Levels(r) - 1, d) + Largest(d) = Slack(Levels(r), d)
        /\ Slack(Levels(r), d) <= Slack(Levels(r)', d)
        /\ Slack(Levels(r) - 1, d) \in Nat /\ Slack(Levels(r), d) \in Nat
        /\ Slack(Levels(r)' - 1, d) \in Nat /\ Slack(Levels(r)', d) \in Nat
    <3>1. Slack((Levels(r) - 1) + 1, d) = Slack(Levels(r) - 1, d) + Largest(d)
          /\ (Levels(r) - 1) + 1 = Levels(r)
      BY <2>6, SlackGrows
    <3> QED BY <2>6, <3>1, SlackGrows
  <2>8. /\ Slack(Levels(r), d)' = Slack(Levels(r)', d)
        /\ Slack(Levels(r) - 1, d)' = Slack(Levels(r)' - 1, d)
    BY DEF Slack, Largest, LargestFigure, Known
  <2>9. Limit(r, d) # NoCap =>
          Limit(r, d) # 0 /\ Used(r, d) < Limit(r, d) + Slack(Levels(r) - 1, d)
    BY <1>1, <1>7, <1>10 DEF WithinLevels, Started
  <2>10. where = "turn" /\ Limit(r, d) # NoCap => Used(r, d)' < Limit(r, d)
    BY <1>1, <1>2, <1>5, <2>1, <2>5, FigureTypes, OpenGateMeaning DEF Limit
  <2> HIDE DEF Slack
  <2>11. WithinLevels(r, d)'
    <3> SUFFICES ASSUME Limit(r, d) # NoCap
                 PROVE  /\ Limit(r, d) # 0
                        /\ Used(r, d)' < Limit(r, d) + Slack(Levels(r)', d)
                        /\ where = "turn" \/ Used(r, d)' < Limit(r, d)
                             => Used(r, d)' < Limit(r, d) + Slack(Levels(r)' - 1, d)
      BY <1>5, <2>5, <2>8 DEF WithinLevels
    <3>1. Used(r, d)' < Limit(r, d) + Slack(Levels(r)', d)
      BY <2>3, <2>4, <2>5, <2>7, <2>9
    <3>2. Used(r, d)' \in Nat
      BY <2>3, <2>4, <2>5
    <3> QED BY <2>4, <2>7, <2>9, <2>10, <3>1, <3>2
  <2> QED BY <1>8, <1>10, <2>11
<1> QED BY <1>9, <1>10

(* A child starts with nothing spent, and with no more than its parent has left. *)
LEMMA HandoffOvershoot ==
  ASSUME IInv, SpendInv, TreeInv, OvershootInv, [Next]_vars,
         NEW p \in Run, NEW c \in Run, NEW own \in AgentBudgets, Handoff(p, c, own)
  PROVE  OvershootInv'
<1> DEFINE spent == ParentRecordedSpend(p)
           given == Intersect(RemainingBudget(config[p].budget, spent), own)
<1>1. /\ Started(p) /\ phase[c] = "unused" /\ TypeOK
      /\ phase' = [phase EXCEPT ![c] = "created"]
      /\ config' = [config EXCEPT ![c] = [interactive |-> FALSE, budget |-> given]]
      /\ parent' = [parent EXCEPT ![c] = p]
      /\ handoff' = [handoff EXCEPT ![c] = "awaiting"]
      /\ overlapped' = [overlapped EXCEPT ![p] = overlapped[p] \/ Awaited(p) # {}]
      /\ UNCHANGED <<spend, late>>
  BY DEF Handoff, spend_vars, IInv
<1>2. /\ p # c /\ parent[c] = NoRun /\ spend[c] = NoSpend /\ late[c] = NoSpend
      /\ parent'[c] = p
  BY <1>1 DEF IInv, Started, RunInv, Fresh, ParentStarted, TypeOK
<1>3. /\ transcript[p] \in Spend /\ absorbed[p] \in Spend /\ late[p] \in Spend
      /\ spend[p] \in Spend /\ config[p].budget \in Budget /\ own \in Budget
  BY <1>1, BudgetsAreBudgets DEF TypeOK
<1>4. spent \in Spend /\ \A d \in Dimension : spent[d.field] = Used(p, d)
  <2>1. AbsorbRun(transcript[p], absorbed[p]) \in Spend /\ spent \in Spend
    BY <1>3, AbsorbRunEffect DEF ParentRecordedSpend
  <2>2. ASSUME NEW d \in Dimension PROVE spent[d.field] = Used(p, d)
    <3>1. d.field \in Field
      BY <1>1, FigureTypes
    <3>2. spend[p][d.field] = transcript[p][d.field] + absorbed[p][d.field]
      BY <3>1 DEF SpendInv, Accounted
    <3>3. spent[d.field] = AbsorbRun(transcript[p], absorbed[p])[d.field] + late[p][d.field]
      BY <1>3, <2>1, <3>1, FieldEffects DEF ParentRecordedSpend
    <3>4. AbsorbRun(transcript[p], absorbed[p])[d.field]
            = transcript[p][d.field] + absorbed[p][d.field]
      BY <1>3, <3>1, FieldEffects
    <3> QED BY <3>2, <3>3, <3>4 DEF Used
  <2> QED BY <2>1, <2>2
<1> SUFFICES ASSUME NEW d \in Dimension, NEW q \in Run, ~overlapped'[q]
             PROVE  WithinLevels(q, d)' /\ \A e \in Run : GivenFits(q, e, d)'
  BY DEF OvershootInv
<1>5. ~overlapped[q] /\ (q = p => Awaited(p) = {})
  BY <1>1 DEF TypeOK
<1>6. WithinLevels(q, d) /\ \A e \in Run : GivenFits(q, e, d)
  BY <1>5 DEF OvershootInv
<1>7. /\ phase'[c] = "created" /\ Limit(c, d)' = given[d.cap]
      /\ \A e \in Run : Used(e, d)' = Used(e, d)
      /\ \A e \in Run : e # c =>
           /\ phase'[e] = phase[e] /\ Limit(e, d)' = Limit(e, d) /\ config'[e] = config[e]
           /\ parent'[e] = parent[e] /\ handoff'[e] = handoff[e]
  BY <1>1 DEF TypeOK, Limit, Used
<1>8. WithinLevels(q, d)'
  <2>1. CASE q # c
    BY <1>1, <1>6, <1>7, <2>1, WithinLevelsKept
  <2>2. CASE q = c
    <3>1. Used(c, d)' = 0
      <4>1. NoSpend[d.field] = 0
        BY <1>1, NoSpendType, FieldEffects, FigureTypes
      <4> QED BY <1>1, <1>2, <4>1 DEF Used
    <3> QED BY <1>7, <2>2, <3>1 DEF WithinLevels, Started
  <2> QED BY <2>1, <2>2
<1>9. ASSUME NEW e \in Run PROVE GivenFits(q, e, d)'
  <2>1. CASE q = c
    BY <1>7, <2>1 DEF GivenFits, Started
  <2>2. CASE q # c /\ q # p
    <3>1. e \in Awaited(q)' => e # c /\ e \in Awaited(q)
      BY <1>2, <1>7, <2>2 DEF Awaited
    <3>2. Started(q)' = Started(q) /\ Limit(q, d)' = Limit(q, d) /\ Used(q, d)' = Used(q, d)
      BY <1>7, <2>2 DEF Started
    <3> QED BY <1>6, <1>7, <3>1, <3>2 DEF GivenFits
  <2>3. CASE q = p
    <3>1. e \in Awaited(p)' => e = c
      BY <1>5, <1>7, <2>3 DEF Awaited
    <3>2. Limit(p, d)' = Limit(p, d) /\ Used(p, d)' = Used(p, d)
      BY <1>2, <1>7
    <3>3. Limit(p, d) # NoCap =>
            given[d.cap] \in Nat /\ (given[d.cap] = 0 \/ given[d.cap] + Used(p, d) <= Limit(p, d))
      BY <1>3, <1>4, DelegatedDimensionFits DEF Limit
    <3> QED BY <1>7, <2>3, <3>1, <3>2, <3>3, NoCapIsNoNumber DEF GivenFits
  <2> QED BY <2>1, <2>2, <2>3
<1> QED BY <1>8, <1>9

(* A child returns: it used what it was given, and what the levels from it down *)
(* may add; those are fewer than the levels from its parent down.               *)
LEMMA HandoffReturnsOvershoot ==
  ASSUME IInv, TreeInv, OvershootInv, [Next]_vars, NEW p \in Run, NEW c \in Run,
         HandoffReturns(p, c)
  PROVE  OvershootInv'
<1>1. /\ Started(p) /\ c \in Awaited(p) /\ phase[c] = "ended" /\ TypeOK
      /\ handoff' = [handoff EXCEPT ![c] = "returned"]
      /\ late' = [late EXCEPT ![p] = AbsorbRun(late[p], spend[c])]
      /\ overlapped' = [overlapped EXCEPT ![p] = overlapped[p] \/ overlapped[c]]
      /\ UNCHANGED <<phase, config, parent, spend>>
  BY DEF HandoffReturns, run_vars, IInv
<1> SUFFICES ASSUME NEW d \in Dimension, NEW q \in Run, ~overlapped'[q]
             PROVE  WithinLevels(q, d)' /\ \A e \in Run : GivenFits(q, e, d)'
  BY DEF OvershootInv
<1>0. ~overlapped[q] /\ (q = p => ~overlapped[c])
  BY <1>1 DEF TypeOK
<1>2. /\ WithinLevels(q, d) /\ \A e \in Run : GivenFits(q, e, d)
      /\ q = p => WithinLevels(c, d) /\ GivenFits(p, c, d) /\ WithinLevels(p, d)
      /\ q = p => \A e \in Awaited(p) : e = c
  <2>1. WithinLevels(q, d) /\ \A e \in Run : GivenFits(q, e, d)
    BY <1>0 DEF OvershootInv
  <2>2. q = p => WithinLevels(c, d)
    BY <1>0 DEF OvershootInv
  <2>3. q = p => \A e \in Awaited(p) : e = c
    BY <1>0, <1>1 DEF IInv, CapInv, ChildFits
  <2> QED BY <2>1, <2>2, <2>3
<1>3. \A e \in Run : Limit(e, d)' = Limit(e, d) /\ Started(e)' = Started(e)
  BY <1>1 DEF Limit, Started
<1>4. CASE q # p
  <2>1. Used(q, d)' = Used(q, d) /\ Awaited(q)' \subseteq Awaited(q) /\ late'[q] = late[q]
    BY <1>1, <1>4 DEF Used, Awaited, TypeOK
  <2> QED BY <1>1, <1>2, <1>3, <2>1, WithinLevelsKept DEF GivenFits
<1>5. CASE q = p
  <2>1. Awaited(p)' = {}
    BY <1>1, <1>2, <1>5 DEF Awaited, TypeOK
  <2>2. late'[p][d.field] = late[p][d.field] + spend[c][d.field]
    <3>1. late[p] \in Spend /\ spend[c] \in Spend /\ d.field \in Field
      BY <1>1, FigureTypes
    <3>2. AbsorbRun(late[p], spend[c])[d.field] = late[p][d.field] + spend[c][d.field]
      BY <3>1, FieldEffects
    <3> QED BY <1>1, <3>2 DEF TypeOK
  <2>3. /\ spend[p][d.field] \in Nat /\ late[p][d.field] \in Nat
        /\ spend[c][d.field] \in Nat /\ late[c][d.field] \in Nat
        /\ (Limit(p, d) # NoCap => Limit(p, d) \in Nat)
        /\ (Limit(c, d) # NoCap => Limit(c, d) \in Nat)
    BY <1>1, FigureTypes
  <2>4. Used(p, d)' = Used(p, d) + spend[c][d.field] /\ spend[c][d.field] <= Used(c, d)
        /\ Used(p, d) \in Nat /\ Used(c, d) \in Nat
    BY <1>1, <2>2, <2>3 DEF Used
  <2>5. /\ Slack(Levels(c), d) <= Slack(Levels(p) - 1, d)
        /\ Slack(Levels(p) - 1, d) <= Slack(Levels(p), d)
        /\ Slack(Levels(c), d) \in Nat /\ Slack(Levels(p) - 1, d) \in Nat
        /\ Slack(Levels(p), d) \in Nat
    <3>1. /\ Levels(c) \in Nat /\ Levels(p) \in Nat /\ Levels(p) - 1 \in Nat
      BY LevelsType
    <3>2. Levels(c) + 1 <= Levels(p)
      <4>1. parent[c] = p
        BY <1>1 DEF Awaited
      <4>2. LevelsOf(parent, c) + 1 <= LevelsOf(parent, p)
        BY <4>1, LevelsBelow DEF TreeInv
      <4> QED BY <4>2, LevelsAre
    <3>3. Levels(c) <= Levels(p) - 1 /\ Levels(p) - 1 <= Levels(p)
      BY <3>1, <3>2
    <3> QED BY <3>1, <3>3, SlackGrows
  <2>6. /\ Slack(Levels(p), d)' = Slack(Levels(p), d)
        /\ Slack(Levels(p) - 1, d)' = Slack(Levels(p) - 1, d)
    BY <1>1 DEF Slack, Largest, LargestFigure, Known, Levels, Lines
  <2> HIDE DEF Slack
  <2>7. CASE spend[c][d.field] = 0
    <3>1. Used(p, d)' = Used(p, d) /\ late'[p][d.field] = late[p][d.field]
      BY <2>2, <2>3, <2>4, <2>7
    <3>2. WithinLevels(p, d)'
      BY <1>1, <1>2, <1>3, <1>5, <2>6, <3>1 DEF WithinLevels
    <3> QED BY <1>5, <2>1, <3>2 DEF GivenFits
  <2>8. CASE spend[c][d.field] # 0
    <3>1. Limit(p, d) # NoCap =>
            Used(p, d)' < Limit(p, d) + Slack(Levels(p) - 1, d)
      <4> SUFFICES ASSUME Limit(p, d) # NoCap
                   PROVE  Used(p, d)' < Limit(p, d) + Slack(Levels(p) - 1, d)
        OBVIOUS
      <4>1. Limit(c, d) # NoCap /\ (Limit(c, d) = 0 \/ Limit(c, d) + Used(p, d) <= Limit(p, d))
        BY <1>1, <1>2, <1>5 DEF GivenFits
      <4>2. Used(c, d) # 0
        BY <2>3, <2>4, <2>8
      <4>3. Limit(c, d) # 0 /\ Used(c, d) < Limit(c, d) + Slack(Levels(c), d)
        BY <1>2, <1>5, <4>1, <4>2 DEF WithinLevels
      <4> QED BY <2>3, <2>4, <2>5, <4>1, <4>3
    <3>2. Limit(p, d) # NoCap => Limit(p, d) # 0
      BY <1>1, <1>2, <1>5 DEF WithinLevels
    <3>3. Used(p, d)' \in Nat
      BY <2>3, <2>4
    <3>4. Limit(p, d) # NoCap => Used(p, d)' < Limit(p, d) + Slack(Levels(p), d)
      BY <2>3, <2>5, <3>1, <3>3
    <3>5. WithinLevels(p, d)'
      BY <1>3, <2>6, <3>1, <3>2, <3>4 DEF WithinLevels
    <3> QED BY <1>5, <2>1, <3>5 DEF GivenFits
  <2> QED BY <2>7, <2>8
<1> QED BY <1>4, <1>5

LEMMA NextOvershoot ==
  IInv /\ SpendInv /\ TreeInv /\ OvershootInv /\ [Next]_vars => TreeInv' /\ OvershootInv'
<1> SUFFICES ASSUME IInv, SpendInv, TreeInv, OvershootInv, [Next]_vars PROVE OvershootInv'
  BY TreeStep
<1>0. TypeOK
  BY DEF IInv
<1>1. CASE UNCHANGED vars
  <2>1. /\ UNCHANGED <<phase, config, parent, handoff, spend, late, overlapped>>
        /\ \A q \in Run : Awaited(q)' = Awaited(q)
    BY <1>1 DEF vars, run_vars, spend_vars, Awaited
  <2> QED BY <2>1, RootIsRun, StillOvershoot
<1>2. CASE Next
  <2> PICK r \in Run :
        \/ Activate(r) \/ WakeUp(r) \/ RunFails(r) \/ UserMessage(r) \/ EndConversation(r)
        \/ \E usage \in TurnUsages : TurnCompletes(r, usage)
        \/ \E c \in Run : \/ \E own \in AgentBudgets : Handoff(r, c, own)
                          \/ HandoffReturns(r, c) \/ HandoffFails(r, c)
                          \/ TerminateOrphan(r, c)
    BY <1>2 DEF Next
  <2>1. CASE Activate(r)
    BY <2>1, ActivateOvershoot
  <2>2. CASE \E usage \in TurnUsages : TurnCompletes(r, usage)
    BY <2>2, TurnCompletesOvershoot
  <2>3. CASE WakeUp(r)
    BY <2>3, WakeUpOvershoot
  <2>4. ASSUME NEW q \in Run, RunFails(q) \/ \E p \in Run : TerminateOrphan(p, q)
        PROVE  OvershootInv'
    <3>1. /\ UNCHANGED <<config, parent, handoff, spend, late, overlapped>>
          /\ phase' = [phase EXCEPT ![q] = "failed"]
      BY <2>4 DEF RunFails, TerminateOrphan, GoesTo, spend_vars
    <3>2. phase'[q] = "failed" /\ \A e \in Run : e # q => phase'[e] = phase[e]
      BY <1>0, <3>1 DEF TypeOK
    <3>3. \A e \in Run : Awaited(e)' = Awaited(e)
      BY <3>1 DEF Awaited
    <3> QED BY <3>1, <3>2, <3>3, StillOvershoot
  <2>5. CASE UserMessage(r) \/ EndConversation(r)
    <3>1. /\ UNCHANGED <<phase, config, parent, handoff, spend, late, overlapped>>
          /\ \A q \in Run : Awaited(q)' = Awaited(q)
      BY <2>5 DEF UserMessage, EndConversation, run_vars, spend_vars, Awaited
    <3> QED BY <3>1, StillOvershoot
  <2>6. CASE \E c \in Run, own \in AgentBudgets : Handoff(r, c, own)
    BY <2>6, HandoffOvershoot
  <2>7. CASE \E c \in Run : HandoffReturns(r, c)
    BY <2>7, HandoffReturnsOvershoot
  <2>8. CASE \E c \in Run : HandoffFails(r, c)
    <3>1. UNCHANGED <<phase, config, parent, spend, late, overlapped>>
      BY <2>8 DEF HandoffFails, run_vars, spend_vars
    <3>2. \A q \in Run : Awaited(q)' \subseteq Awaited(q)
      BY <1>0, <2>8 DEF HandoffFails, run_vars, Awaited, TypeOK
    <3> QED BY <3>1, <3>2, StillOvershoot
  <2> QED BY <2>1, <2>2, <2>3, <2>4, <2>5, <2>6, <2>7, <2>8
<1> QED BY <1>1, <1>2

LEMMA InitOvershoot == Init => TreeInv /\ OvershootInv
<1> SUFFICES ASSUME Init PROVE TreeInv /\ OvershootInv
  OBVIOUS
<1>1. TreeInv
  <2>1. {c \in Run : parent[c] # NoRun} = {}
    BY DEF Init
  <2>2. \A c \in Run : parent[c] \notin Run
    BY NoRunIsNoRun DEF Init
  <2>3. [c \in Run |-> 0] \in [Run -> Nat]
    OBVIOUS
  <2> QED BY <2>1, <2>2, <2>3, FS_EmptySet DEF TreeInv, IsForest
<1>2. ASSUME NEW d \in Dimension, NEW r \in Run
      PROVE  WithinLevels(r, d) /\ \A c \in Run : GivenFits(r, c, d)
  <2>1. ~Started(r) /\ phase[r] \notin {"turn", "waiting"}
    BY DEF Init, Started
  <2>2. Used(r, d) = 0
    <3>1. spend[r] = NoSpend /\ late[r] = NoSpend /\ NoSpend[d.field] = 0
      BY DEF Init, Dimension, NoSpend
    <3> QED BY <3>1 DEF Used
  <2> QED BY <2>1, <2>2 DEF WithinLevels, GivenFits
<1> QED BY <1>1, <1>2 DEF OvershootInv

(* With a run's handoffs one at a time, and its children's, a token or cost cap is *)
(* crossed by less than one turn's figure for each level of delegation, however    *)
(* deep and wide the tree and whatever runs beside it.                             *)
THEOREM OvershootIsBounded == Spec => []OvershootBounded
<1> DEFINE Inv == IInv /\ SpendInv /\ TreeInv /\ OvershootInv
<1>1. Init => Inv
  BY InitInv, InitSpendInv, InitOvershoot
<1>2. Inv /\ [Next]_vars => Inv'
  BY NextInv, NextSpendInv, NextOvershoot
<1>3. Inv => OvershootBounded
  <2> SUFFICES ASSUME Inv, NEW r \in Run, ~overlapped[r]
               PROVE  /\ WithinOvershoot(spend[r].tokens + late[r].tokens,
                           config[r].budget.max_total_tokens, Levels(r),
                           LargestFigure({usage.tokens : usage \in TurnUsages}))
                      /\ WithinOvershoot(spend[r].cost + late[r].cost,
                           config[r].budget.max_cost_usd, Levels(r),
                           LargestFigure({usage.cost : usage \in TurnUsages}))
    BY DEF OvershootBounded
  <2>1. ASSUME NEW d \in Dimension
        PROVE  WithinOvershoot(Used(r, d), Limit(r, d), Levels(r), Largest(d))
    BY DEF OvershootInv, WithinLevels, WithinOvershoot, Slack
  <2>2. WithinOvershoot(spend[r].tokens + late[r].tokens,
          config[r].budget.max_total_tokens, Levels(r),
          LargestFigure({usage.tokens : usage \in TurnUsages}))
    <3> DEFINE d == [field |-> "tokens", cap |-> "max_total_tokens"]
    <3>1. d \in Dimension
      BY DEF Dimension
    <3>2. WithinOvershoot(Used(r, d), Limit(r, d), Levels(r), Largest(d))
      BY <2>1, <3>1
    <3> QED BY <3>2 DEF Used, Limit, Largest
  <2>3. WithinOvershoot(spend[r].cost + late[r].cost,
          config[r].budget.max_cost_usd, Levels(r),
          LargestFigure({usage.cost : usage \in TurnUsages}))
    <3> DEFINE d == [field |-> "cost", cap |-> "max_cost_usd"]
    <3>1. d \in Dimension
      BY DEF Dimension
    <3>2. WithinOvershoot(Used(r, d), Limit(r, d), Levels(r), Largest(d))
      BY <2>1, <3>1
    <3> QED BY <3>2 DEF Used, Limit, Largest
  <2> QED BY <2>2, <2>3
<1>4. Spec => []Inv
  <2> HIDE DEF Inv
  <2> QED BY <1>1, <1>2, PTL DEF Spec
<1> QED BY <1>3, <1>4, PTL

-----------------------------------------------------------------------------
(* What handoffs may not do even when they overlap: the code grants each of    *)
(* them the same remaining turns, so the turns of a tree have no bound, but    *)
(* each child's own budget, and how deep the tree may grow, have one.          *)

\* A child's caps are set where its parent's are, and are no looser; its turn cap
\* is lower, and its parent had a turn of its own besides.
BudgetsNarrow ==
  \A c \in Run : parent[c] # NoRun =>
    /\ TurnCap(parent[c]) # NoCap =>
         /\ TurnCap(c) # NoCap /\ TurnCap(c) < TurnCap(parent[c])
         /\ 1 < TurnCap(parent[c])
    /\ \A d \in Dimension :
         Limit(parent[c], d) # NoCap =>
           Limit(c, d) # NoCap /\ Limit(c, d) <= Limit(parent[c], d)

(* What a handoff grants is narrower than the budget it is granted from. *)
LEMMA GrantNarrows ==
  ASSUME NEW budget \in Budget, NEW spent \in Spend, NEW own \in Budget,
         MayDelegate(budget, spent)
  PROVE  LET given == Intersect(RemainingBudget(budget, spent), own) IN
         /\ budget.max_turns # NoCap =>
              /\ given.max_turns # NoCap /\ given.max_turns < budget.max_turns
              /\ 1 < budget.max_turns
         /\ \A d \in Dimension :
              budget[d.cap] # NoCap => given[d.cap] # NoCap /\ given[d.cap] <= budget[d.cap]
<1> DEFINE given == Intersect(RemainingBudget(budget, spent), own)
<1>1. ASSUME budget.max_turns # NoCap
      PROVE  /\ given.max_turns # NoCap /\ given.max_turns < budget.max_turns
             /\ 1 < budget.max_turns
  <2> DEFINE rest == Left(budget.max_turns, spent.turns + 1)
  <2>1. budget.max_turns \in Nat /\ spent.turns \in Nat /\ own.max_turns \in Cap
    BY <1>1 DEF Budget, Cap, Spend
  <2>2. rest # 0 /\ given.max_turns = Stricter(rest, own.max_turns)
    BY DEF MayDelegate, RemainingBudget, Intersect
  <2>3. rest \in Nat /\ spent.turns + 1 + rest = budget.max_turns
    BY <1>1, <2>1, <2>2 DEF Left
  <2> HIDE DEF rest, given
  <2>4. given.max_turns # NoCap /\ given.max_turns \in Nat /\ given.max_turns <= rest
    BY <2>1, <2>2, <2>3, NoCapIsNoNumber DEF Stricter, Cap
  <2> QED BY <2>1, <2>2, <2>3, <2>4
<1>2. ASSUME NEW d \in Dimension, budget[d.cap] # NoCap
      PROVE  given[d.cap] # NoCap /\ given[d.cap] <= budget[d.cap]
  <2>1. given[d.cap] \in Nat /\ (given[d.cap] = 0 \/ given[d.cap] + spent[d.field] <= budget[d.cap])
    BY <1>2, DelegatedDimensionFits
  <2>2. budget[d.cap] \in Nat /\ spent[d.field] \in Nat
    BY <1>2 DEF Budget, Cap, Spend, Dimension
  <2> HIDE DEF given
  <2> QED BY <2>1, <2>2, NoCapIsNoNumber
<1> QED BY <1>1, <1>2

LEMMA NextBudgetsNarrow == IInv /\ BudgetsNarrow /\ [Next]_vars => BudgetsNarrow'
<1> SUFFICES ASSUME IInv, BudgetsNarrow, [Next]_vars PROVE BudgetsNarrow'
  OBVIOUS
<1>1. CASE UNCHANGED <<config, parent>>
  BY <1>1 DEF BudgetsNarrow, TurnCap, Limit
<1>2. CASE ~UNCHANGED <<config, parent>>
  <2>1. PICK p \in Run, c \in Run, own \in AgentBudgets : Handoff(p, c, own)
    BY <1>2 DEF Next, vars, run_vars, Activate, TurnCompletes, WakeUp, RunFails, UserMessage,
                EndConversation, HandoffReturns, HandoffFails, TerminateOrphan
  <2> DEFINE spent == ParentRecordedSpend(p)
             given == Intersect(RemainingBudget(config[p].budget, spent), own)
  <2>2. /\ Started(p) /\ phase[c] = "unused" /\ TypeOK
        /\ MayDelegate(config[p].budget, spent)
        /\ config' = [config EXCEPT ![c] = [interactive |-> FALSE, budget |-> given]]
        /\ parent' = [parent EXCEPT ![c] = p]
    BY <2>1 DEF Handoff, IInv
  <2>3. /\ transcript[p] \in Spend /\ absorbed[p] \in Spend /\ late[p] \in Spend
        /\ config[p].budget \in Budget /\ own \in Budget
    BY <2>2, BudgetsAreBudgets DEF TypeOK
  <2>4. spent \in Spend
    <3>1. AbsorbRun(transcript[p], absorbed[p]) \in Spend
      BY <2>3, AbsorbRunEffect
    <3> QED BY <2>3, <3>1, AbsorbRunEffect DEF ParentRecordedSpend
  <2>5. /\ p # c /\ parent'[c] = p /\ config'[c].budget = given /\ config'[p] = config[p]
        /\ \A q \in Run : q # c => parent'[q] = parent[q] /\ config'[q] = config[q]
        /\ \A q \in Run : parent[q] # c /\ parent[q] \in Run \cup {NoRun}
    BY <2>2, NoRunIsNoRun DEF IInv, TypeOK, Started, ParentStarted
  <2> HIDE DEF spent, given
  <2>6. ASSUME NEW q \in Run, parent'[q] # NoRun
        PROVE  /\ TurnCap(parent[q])' # NoCap =>
                    /\ TurnCap(q)' # NoCap /\ TurnCap(q)' < TurnCap(parent[q])'
                    /\ 1 < TurnCap(parent[q])'
               /\ \A d \in Dimension :
                    Limit(parent[q], d)' # NoCap =>
                      Limit(q, d)' # NoCap /\ Limit(q, d)' <= Limit(parent[q], d)'
    <3>1. CASE q = c
      <4>1. /\ TurnCap(parent[q])' = config[p].budget.max_turns
            /\ TurnCap(q)' = given.max_turns
            /\ \A d \in Dimension : Limit(parent[q], d)' = config[p].budget[d.cap]
            /\ \A d \in Dimension : Limit(q, d)' = given[d.cap]
        BY <2>5, <3>1 DEF TurnCap, Limit
      <4>2. /\ config[p].budget.max_turns # NoCap =>
                 /\ given.max_turns # NoCap /\ given.max_turns < config[p].budget.max_turns
                 /\ 1 < config[p].budget.max_turns
            /\ \A d \in Dimension :
                 config[p].budget[d.cap] # NoCap =>
                   given[d.cap] # NoCap /\ given[d.cap] <= config[p].budget[d.cap]
        BY <2>2, <2>3, <2>4, GrantNarrows DEF given
      <4> QED BY <4>1, <4>2
    <3>2. CASE q # c
      <4>1. parent'[q] = parent[q] /\ parent[q] \in Run /\ config'[q] = config[q]
            /\ config'[parent[q]] = config[parent[q]]
        BY <2>5, <2>6, <3>2
      <4> QED BY <2>6, <4>1 DEF BudgetsNarrow, TurnCap, Limit
    <3> QED BY <3>1, <3>2
  <2> QED BY <2>6 DEF BudgetsNarrow
<1> QED BY <1>1, <1>2

LEMMA InitBudgetsNarrow == Init => BudgetsNarrow
BY DEF Init, BudgetsNarrow

(* A nested agent cannot escape the parent's budget by delegating                  *)
(* (docs/budgets-and-handoffs.md): however handoffs overlap, no child is ever      *)
(* granted a cap that its parent does not have more of (run.rs remaining_budget).  *)
THEOREM DelegationNarrows == Spec => []BudgetsNarrow
BY InitBudgetsNarrow, NextBudgetsNarrow, Inductive, PTL DEF Spec

\* How many levels a turn cap leaves room for: a run that may not take a turn is
\* still one.
LevelsFor(cap) == IF cap = 0 THEN 1 ELSE cap

\* A tree is no deeper below a run than the turns the run may use.
DepthWithinTurns ==
  \A r \in Run : TurnCap(r) # NoCap => Levels(r) <= LevelsFor(TurnCap(r))

(* What is left of a line below its first run is a line below the second. *)
LEMMA LineShortens ==
  ASSUME NEW up, IsForest(up), NEW r \in Run, NEW line \in LinesOf(up, r), line # {r}
  PROVE  \E c \in line \ {r} : up[c] = r /\ line \ {r} \in LinesOf(up, c)
<1>1. PICK rank \in [Run -> Nat] : \A d \in Run : up[d] \in Run => rank[up[d]] < rank[d]
  BY DEF IsForest
<1>2. /\ line \in SUBSET Run /\ r \in line
      /\ \A d \in line \ {r} : up[d] \in line
      /\ \A d, e \in line \ {r} : up[d] = up[e] => d = e
  BY DEF LinesOf
<1> DEFINE Ranks == {rank[d] : d \in line \ {r}}
<1>3. PICK n \in Ranks : \A m \in Ranks : n <= m
  <2>1. Ranks \subseteq Nat /\ Ranks # {}
    BY <1>2
  <2> HIDE DEF Ranks
  <2> QED BY <2>1, SmallestNumber
<1>4. PICK c \in line \ {r} : \A d \in line \ {r} : rank[c] <= rank[d]
  BY <1>3
<1>5. up[c] = r
  <2>1. up[c] \in line /\ up[c] \in Run /\ rank[up[c]] < rank[c]
    BY <1>1, <1>2
  <2>2. rank[up[c]] \in Nat /\ rank[c] \in Nat
    BY <1>2, <2>1
  <2> QED BY <1>4, <2>1, <2>2
<1>6. \A d \in (line \ {r}) \ {c} : up[d] \in line \ {r}
  BY <1>2, <1>5
<1>7. line \ {r} \in LinesOf(up, c)
  BY <1>2, <1>6 DEF LinesOf
<1> QED BY <1>5, <1>7

(* Each level of delegation takes at least one turn off the cap. *)
LEMMA NarrowIsShallow ==
  ASSUME TypeOK, TreeInv, BudgetsNarrow
  PROVE  DepthWithinTurns
<1> DEFINE Bad == {n \in Nat : \E r \in Run : \E line \in LinesOf(parent, r) :
                     TurnCap(r) = n /\ LevelsFor(n) < Cardinality(line)}
<1>1. \A r \in Run : TurnCap(r) # NoCap => TurnCap(r) \in Nat
  BY DEF TypeOK, TurnCap, Budget, Cap
<1>2. ASSUME NEW r \in Run, NEW line \in LinesOf(parent, r)
      PROVE  IsFiniteSet(line) /\ Cardinality(line) \in Nat
  BY LevelsBound, FS_CardinalityType DEF TreeInv
<1>3. Bad = {}
  <2> SUFFICES ASSUME Bad # {} PROVE FALSE
    OBVIOUS
  <2>1. PICK n \in Bad : \A m \in Bad : n <= m
    <3>1. Bad \subseteq Nat
      OBVIOUS
    <3> HIDE DEF Bad
    <3> QED BY <3>1, SmallestNumber
  <2>1a. PICK r \in Run : \E line \in LinesOf(parent, r) :
          n \in Nat /\ TurnCap(r) = n /\ LevelsFor(n) < Cardinality(line)
    BY <2>1
  <2>2. PICK line \in LinesOf(parent, r) :
          n \in Nat /\ TurnCap(r) = n /\ LevelsFor(n) < Cardinality(line)
    BY <2>1a
  <2>3. line # {r}
    <3>1. Cardinality({r}) = 1
      BY FS_Singleton
    <3>2. LevelsFor(n) \in Nat /\ 1 <= LevelsFor(n)
      BY <2>2 DEF LevelsFor
    <3> QED BY <2>2, <3>1, <3>2
  <2>4. PICK c \in line \ {r} : parent[c] = r /\ line \ {r} \in LinesOf(parent, c)
    BY <2>3, LineShortens DEF TreeInv
  <2>5. c \in Run /\ r \in line /\ parent[c] # NoRun
    BY <2>2, <2>4, NoRunIsNoRun DEF LinesOf
  <2>6. TurnCap(r) # NoCap
    BY <2>2, NoCapIsNoNumber
  <2>7. TurnCap(c) \in Nat /\ TurnCap(c) < n /\ 1 < n
    BY <1>1, <2>2, <2>4, <2>5, <2>6 DEF BudgetsNarrow
  <2>8. TurnCap(c) \notin Bad
    <3> HIDE DEF Bad
    <3> QED BY <2>1, <2>2, <2>7
  <2>9. Cardinality(line \ {r}) = Cardinality(line) - 1 /\ Cardinality(line) \in Nat
    BY <1>2, <2>5, FS_RemoveElement
  <2>10. Cardinality(line \ {r}) <= LevelsFor(TurnCap(c))
    BY <1>2, <2>4, <2>5, <2>7, <2>8 DEF LevelsFor
  <2> QED BY <2>2, <2>7, <2>9, <2>10 DEF LevelsFor
<1>4. ASSUME NEW r \in Run, TurnCap(r) # NoCap PROVE Levels(r) <= LevelsFor(TurnCap(r))
  <2>1. PICK line \in LinesOf(parent, r) : Cardinality(line) = Levels(r)
    BY LevelsBound, LevelsAre DEF TreeInv
  <2> QED BY <1>1, <1>2, <1>3, <1>4, <2>1 DEF LevelsFor
<1> QED BY <1>4 DEF DepthWithinTurns

LEMMA TreeInductive == Spec => []TreeInv
<1>1. Init => TreeInv
  BY InitOvershoot
<1>2. IInv /\ TreeInv /\ [Next]_vars => TreeInv'
  BY TreeStep
<1> QED BY <1>1, <1>2, Inductive, PTL DEF Spec

(* However many handoffs a model calls, and however they overlap, delegation under *)
(* a turn cap is no deeper than the cap: the turn that run.rs remaining_budget     *)
(* holds back for the parent is one that no level below it can use.                *)
THEOREM DelegationIsShallow == Spec => []DepthWithinTurns
BY DelegationNarrows, TreeInductive, NarrowIsShallow, TypeCorrect, PTL

\* A run never starts a turn beyond its cap, whatever its children spent or when
\* they returned, so the turns of its own are within it.
OwnTurnsWithin(r) ==
  TurnCap(r) # NoCap =>
    /\ transcript[r].turns <= TurnCap(r)
    /\ phase[r] = "turn" => spend[r].turns < TurnCap(r)
OwnTurnsWithinCap == \A r \in Run : OwnTurnsWithin(r)

(* A run whose account and budget a step leaves alone, and that starts no turn. *)
LEMMA OwnTurnsKept ==
  ASSUME NEW q, OwnTurnsWithin(q), config'[q] = config[q], spend'[q] = spend[q],
         transcript'[q] = transcript[q], phase'[q] = phase[q] \/ phase'[q] # "turn"
  PROVE  OwnTurnsWithin(q)'
BY DEF OwnTurnsWithin, TurnCap

(* A run that passes the gate before a turn has room for the turn. *)
LEMMA GatedOwnTurns ==
  ASSUME TypeOK, NEW r \in Run, NEW s \in Spend, config' = config, spend'[r] = s,
         TurnCap(r) # NoCap => transcript'[r].turns <= TurnCap(r),
         phase'[r] = "turn" => PreTurnCap(config[r].budget, s) = "none"
  PROVE  OwnTurnsWithin(r)'
<1>1. config[r].budget \in Budget
  BY DEF TypeOK
<1>2. phase'[r] = "turn" /\ TurnCap(r) # NoCap => s.turns < TurnCap(r)
  BY <1>1, PreTurnCapMeaning DEF TurnCap
<1> QED BY <1>2 DEF OwnTurnsWithin, TurnCap

LEMMA NextOwnTurns == IInv /\ OwnTurnsWithinCap /\ [Next]_vars => OwnTurnsWithinCap'
<1> SUFFICES ASSUME IInv, OwnTurnsWithinCap, [Next]_vars, NEW q \in Run
             PROVE  OwnTurnsWithin(q)'
  BY DEF OwnTurnsWithinCap
<1>0. /\ TypeOK /\ OwnTurnsWithin(q)
      /\ spend[q] \in Spend /\ transcript[q] \in Spend /\ absorbed[q] \in Spend
      /\ late[q] \in Spend /\ config[q].budget \in Budget
  BY DEF IInv, TypeOK, OwnTurnsWithinCap
<1>1. CASE UNCHANGED vars
  BY <1>0, <1>1, OwnTurnsKept DEF vars, run_vars, spend_vars
<1>2. CASE Next
  <2> PICK r \in Run :
        \/ Activate(r) \/ WakeUp(r) \/ RunFails(r) \/ UserMessage(r) \/ EndConversation(r)
        \/ \E usage \in TurnUsages : TurnCompletes(r, usage)
        \/ \E c \in Run : \/ \E own \in AgentBudgets : Handoff(r, c, own)
                          \/ HandoffReturns(r, c) \/ HandoffFails(r, c)
                          \/ TerminateOrphan(r, c)
    BY <1>2 DEF Next
  <2>1. CASE Activate(r)
    <3>1. /\ phase[r] = "created" /\ end[r] = "none" /\ spend[r] = NoSpend
          /\ UNCHANGED <<config, spend, transcript>>
      BY <2>1 DEF Activate, spend_vars, IInv, RunInv, EndAccounted, Fresh
    <3>2. PICK where \in {"failed", "ended", "turn"} :
             /\ phase' = [phase EXCEPT ![r] = where]
             /\ where = "turn" => PreTurnCap(config[r].budget, NoSpend) = "none"
      BY <1>0, <2>1, <3>1, NoSpendType, HeadOfLoopEffect DEF Activate, GoesTo, Ends
    <3>3. CASE q = r
      BY <1>0, <3>1, <3>2, <3>3, GatedOwnTurns DEF OwnTurnsWithin, TypeOK
    <3>4. CASE q # r
      BY <1>0, <3>1, <3>2, <3>4, OwnTurnsKept DEF TypeOK
    <3> QED BY <3>3, <3>4
  <2>2. ASSUME NEW usage \in TurnUsages, TurnCompletes(r, usage) PROVE OwnTurnsWithin(q)'
    <3> DEFINE s == AbsorbRun(AbsorbTurn(spend[r], usage), late[r])
    <3>1. /\ phase[r] = "turn" /\ end[r] = "none" /\ config' = config /\ AfterTurn(r, s)
          /\ spend' = [spend EXCEPT ![r] = s]
          /\ transcript' = [transcript EXCEPT ![r] = AbsorbTurn(transcript[r], usage)]
      BY <2>2 DEF TurnCompletes, IInv, RunInv, EndAccounted
    <3>2. /\ spend[r] \in Spend /\ transcript[r] \in Spend /\ absorbed[r] \in Spend
          /\ late[r] \in Spend /\ config[r].budget \in Budget /\ usage \in TurnUsage
      BY <1>0, UsagesAreUsages DEF TypeOK
    <3>3. s \in Spend /\ AbsorbTurn(transcript[r], usage).turns = transcript[r].turns + 1
      BY <3>2, AbsorbTurnEffect, AbsorbRunEffect
    <3> HIDE DEF s
    <3>4. PICK where, why, queued : Outcome(r, s, where, why, queued)
      BY <1>0, <3>1, <3>3, AfterTurnEffect
    <3>5. /\ phase' = [phase EXCEPT ![r] = where]
          /\ where = "turn" => PreTurnCap(config[r].budget, s) = "none"
      BY <3>4 DEF Outcome
    <3>6. CASE q = r
      <4>1. TurnCap(r) # NoCap => transcript[r].turns + 1 <= TurnCap(r)
        <5>1. /\ spend[r].turns = transcript[r].turns + absorbed[r].turns
              /\ TurnCap(r) # NoCap => spend[r].turns < TurnCap(r)
          BY <3>1 DEF IInv, RunInv, TurnsAccounted, OwnTurnsWithinCap, OwnTurnsWithin
        <5>2. /\ spend[r].turns \in Nat /\ transcript[r].turns \in Nat
              /\ absorbed[r].turns \in Nat /\ (TurnCap(r) # NoCap => TurnCap(r) \in Nat)
          BY <3>2 DEF Spend, Budget, Cap, TurnCap
        <5> QED BY <5>1, <5>2
      <4>2. spend'[r] = s /\ transcript'[r].turns = transcript[r].turns + 1
            /\ phase'[r] = where
        BY <1>0, <3>1, <3>3, <3>5 DEF TypeOK
      <4> QED BY <1>0, <3>1, <3>3, <3>5, <3>6, <4>1, <4>2, GatedOwnTurns
    <3>7. CASE q # r
      BY <1>0, <3>1, <3>5, <3>7, OwnTurnsKept DEF TypeOK
    <3> QED BY <3>6, <3>7
  <2>3. CASE WakeUp(r)
    <3>1. /\ phase[r] = "waiting" /\ end[r] = "none" /\ spend[r] \in Spend
          /\ PostTurnCap(config[r].budget, spend[r]) = "none" /\ TakeNext(r, spend[r])
          /\ UNCHANGED <<config, spend, transcript>>
      BY <1>0, <2>3 DEF WakeUp, spend_vars, IInv, RunInv, EndAccounted, TypeOK
    <3>2. PICK where, why, queued : Outcome(r, spend[r], where, why, queued)
      BY <1>0, <3>1, TakeNextEffect
    <3>3. /\ phase' = [phase EXCEPT ![r] = where]
          /\ where = "turn" => PreTurnCap(config[r].budget, spend[r]) = "none"
      BY <3>2 DEF Outcome
    <3>4. CASE q = r
      BY <1>0, <3>1, <3>3, <3>4, GatedOwnTurns DEF OwnTurnsWithin, TypeOK
    <3>5. CASE q # r
      BY <1>0, <3>1, <3>3, <3>5, OwnTurnsKept DEF TypeOK
    <3> QED BY <3>4, <3>5
  <2>4. ASSUME NEW c \in Run, RunFails(r) \/ TerminateOrphan(r, c) \/ UserMessage(r)
               \/ EndConversation(r) \/ HandoffReturns(r, c) \/ HandoffFails(r, c)
        PROVE  OwnTurnsWithin(q)'
    <3>1. /\ UNCHANGED <<config, spend, transcript>>
          /\ phase' = phase \/ \E e \in Run : phase' = [phase EXCEPT ![e] = "failed"]
      BY <2>4 DEF RunFails, TerminateOrphan, GoesTo, UserMessage, EndConversation,
                  HandoffReturns, HandoffFails, run_vars, spend_vars
    <3>2. phase'[q] = phase[q] \/ phase'[q] # "turn"
      BY <1>0, <3>1 DEF TypeOK
    <3> QED BY <1>0, <3>1, <3>2, OwnTurnsKept
  <2>5. ASSUME NEW c \in Run, NEW own \in AgentBudgets, Handoff(r, c, own)
        PROVE  OwnTurnsWithin(q)'
    <3> DEFINE given == Intersect(RemainingBudget(config[r].budget, ParentRecordedSpend(r)), own)
    <3>1. /\ phase[c] = "unused" /\ phase' = [phase EXCEPT ![c] = "created"]
          /\ config' = [config EXCEPT ![c] = [interactive |-> FALSE, budget |-> given]]
          /\ UNCHANGED <<spend, transcript>>
      BY <2>5 DEF Handoff, spend_vars
    <3> HIDE DEF given
    <3>2. CASE q = c
      <4>1. TypeOK'
        BY <2>5, HandoffInv DEF IInv
      <4>2. TurnCap(c)' # NoCap => TurnCap(c)' \in Nat
        BY <4>1 DEF TypeOK, TurnCap, Budget, Cap
      <4>3. phase'[c] = "created" /\ transcript'[c].turns = 0
        BY <1>0, <3>1 DEF IInv, RunInv, Fresh, NoSpend, TypeOK
      <4> QED BY <3>2, <4>2, <4>3 DEF OwnTurnsWithin
    <3>3. CASE q # c
      BY <1>0, <3>1, <3>3, OwnTurnsKept DEF TypeOK
    <3> QED BY <3>2, <3>3
  <2> QED BY <2>1, <2>2, <2>3, <2>4, <2>5, RootIsRun
<1> QED BY <1>1, <1>2

LEMMA InitOwnTurns == Init => OwnTurnsWithinCap
<1> SUFFICES ASSUME Init, NEW r \in Run PROVE OwnTurnsWithin(r)
  BY DEF OwnTurnsWithinCap
<1>1. TypeOK
  BY InitInv DEF IInv
<1>2. TurnCap(r) # NoCap => TurnCap(r) \in Nat
  BY <1>1 DEF TypeOK, TurnCap, Budget, Cap
<1>3. transcript[r].turns = 0 /\ phase[r] # "turn"
  BY DEF Init, NoSpend
<1> QED BY <1>2, <1>3 DEF OwnTurnsWithin

(* A turn cap is a hard limit on a run's own turns whatever its handoffs do: those *)
(* that run side by side may overspend it together, the run itself may not.        *)
THEOREM OwnTurnsAreCapped == Spec => []OwnTurnsWithinCap
BY InitOwnTurns, NextOwnTurns, Inductive, PTL DEF Spec
=============================================================================
