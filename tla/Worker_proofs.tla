---------------------------- MODULE Worker_proofs ----------------------------
(***************************************************************************)
(* Theorems about a worker process: its bridge, for any number of workflow *)
(* ids, tokens, requests, runs and restarts and for every stream capacity; *)
(* its clients; its tool activity, for any policy and any set of clients   *)
(* and turn attempts; its runtime; and the process that they make up.      *)
(***************************************************************************)
EXTENDS MCWorker, TLAPS

-----------------------------------------------------------------------------
(* Types. *)

(* A token that has been handed to an attempt keeps its context. *)
LEMMA AttemptMoves ==
  ASSUME NEW a \in Attempt, a.stage # "unused",
         NEW s \in {"dispatched", "minted", "attached", "bare", "dead"}
  PROVE  /\ a.context \in Context
         /\ [a EXCEPT !.stage = s] \in Attempt
         /\ [a EXCEPT !.stage = s].stage = s
BY DEF Attempt

LEMMA WatcherMoves ==
  ASSUME NEW o \in Watcher, o.stage # "none",
         NEW s \in {"waiting", "outcome", "evicted", "done"}, NEW r \in Run
  PROVE  /\ o.workflow \in Workflow /\ o.bound \in Run
         /\ [o EXCEPT !.stage = s] \in Watcher
         /\ [o EXCEPT !.stage = s].stage = s
         /\ [o EXCEPT !.stage = s].workflow = o.workflow
         /\ [o EXCEPT !.stage = s].bound = o.bound
         /\ [o EXCEPT !.bound = r] \in Watcher
         /\ [o EXCEPT !.bound = r].stage = o.stage
         /\ [o EXCEPT !.bound = r].workflow = o.workflow
<1>1. o \in [stage : {"waiting", "outcome", "evicted", "done"}, workflow : Workflow, bound : Run]
  BY DEF Watcher
<1>2. [o EXCEPT !.stage = s] \in
        [stage : {"waiting", "outcome", "evicted", "done"}, workflow : Workflow, bound : Run]
  BY <1>1
<1>3. [o EXCEPT !.bound = r] \in
        [stage : {"waiting", "outcome", "evicted", "done"}, workflow : Workflow, bound : Run]
  BY <1>1
<1> QED BY <1>1, <1>2, <1>3 DEF Watcher

(* Steps of the engine, the attachments and the observers keep the types. *)
LEMMA RunTypes ==
  ASSUME TypeOK, NEW w \in Workflow, StartRun(w) \/ CloseRun(w)
  PROVE  TypeOK'
<1> USE BoundsAreNaturals DEF TypeOK
<1>0. run[w] \in [no : Run, open : BOOLEAN] /\ run[w].no \in Run
  OBVIOUS
<1>1. CASE StartRun(w)
  <2>1. run[w].no + 1 \in Run
    BY <1>1, <1>0 DEF StartRun, Run
  <2>2. run' \in [Workflow -> [no : Run, open : BOOLEAN]]
    BY <1>1, <2>1 DEF StartRun
  <2> QED BY <1>1, <2>2 DEF StartRun, token_vars
<1>2. CASE CloseRun(w)
  BY <1>2, <1>0 DEF CloseRun, token_vars
<1> QED BY <1>1, <1>2

LEMMA AttachTypes ==
  ASSUME TypeOK, NEW w \in Workflow, NEW t \in Token,
         DispatchAttempt(w, t) \/ AttachNothing(t) \/ Mint(t) \/ WatchTerminal(t)
  PROVE  TypeOK'
<1> USE DEF TypeOK
<1>0. run[w] \in [no : Run, open : BOOLEAN] /\ run[w].no \in Run
  OBVIOUS
<1>3. CASE DispatchAttempt(w, t)
  <2>1. [stage |-> "dispatched", context |-> [workflow |-> w, run |-> run[w].no]] \in Attempt
    BY <1>0 DEF Attempt, Context
  <2> QED BY <1>3, <2>1 DEF DispatchAttempt
<1>4. CASE AttachNothing(t)
  <2>1. [attempt[t] EXCEPT !.stage = "bare"] \in Attempt
    BY <1>4, AttemptMoves DEF AttachNothing
  <2> QED BY <1>4, <2>1 DEF AttachNothing
<1>5. CASE Mint(t)
  <2>1. [attempt[t] EXCEPT !.stage = "minted"] \in Attempt
    BY <1>5, AttemptMoves DEF Mint
  <2> QED BY <1>5, <2>1 DEF Mint
<1>6. CASE WatchTerminal(t)
  <2>1. [attempt[t] EXCEPT !.stage = "attached"] \in Attempt /\ attempt[t].context \in Context
    BY <1>6, AttemptMoves DEF WatchTerminal
  <2>2. attempt[t].context.workflow \in Workflow
    BY <2>1 DEF Context
  <2>3. [stage |-> "waiting", workflow |-> attempt[t].context.workflow,
         bound |-> run[attempt[t].context.workflow].no] \in Watcher
    BY <2>2 DEF Watcher
  <2>4. attempt' \in [Token -> Attempt]
    BY <1>6, <2>1 DEF WatchTerminal
  <2>5. watcher' \in [Token -> Watcher]
    BY <1>6, <2>3 DEF WatchTerminal
  <2> QED BY <1>6, <2>2, <2>4, <2>5 DEF WatchTerminal
<1> QED BY <1>3, <1>4, <1>5, <1>6

LEMMA ObserverTypes ==
  ASSUME TypeOK, NEW t \in Token, Observer(t)
  PROVE  TypeOK'
<1> USE DEF TypeOK
<1>0. watcher[t] \in Watcher /\ watcher[t].stage # "none"
  BY DEF Observer, Moves, ObserveOutcome, ObserveError, Evict, Unwatch
<1>1. watcher[t].workflow \in Workflow
  BY <1>0 DEF Watcher
<1>2. CASE ObserveOutcome(t)
  BY <1>2, <1>0, [watcher[t] EXCEPT !.stage = "outcome"] \in Watcher DEF ObserveOutcome,
     Moves, Watcher
<1>3. CASE ObserveError(t)
  <2>1. run[watcher[t].workflow].no \in Run
    BY <1>1
  <2>2. [watcher[t] EXCEPT !.bound = run[watcher[t].workflow].no] \in Watcher
    BY <1>0, <2>1, WatcherMoves
  <2> QED BY <1>3, <2>2 DEF ObserveError
<1>4. CASE Evict(t)
  <2>1. [watcher[t] EXCEPT !.stage = "evicted"] \in Watcher
    BY <1>0 DEF Watcher
  <2> QED BY <1>4, <2>1 DEF Evict, Moves
<1>5. CASE Unwatch(t)
  <2>1. [watcher[t] EXCEPT !.stage = "done"] \in Watcher
    BY <1>0 DEF Watcher
  <2> QED BY <1>5, <2>1 DEF Unwatch, Moves
<1> QED BY <1>2, <1>3, <1>4, <1>5 DEF Observer

(* A request's step gives it a state of the type; nothing else moves. *)
LEMMA StepTypes ==
  ASSUME TypeOK, NEW c \in Call, NEW old, NEW new \in CallState, Step(c, old, new)
  PROVE  TypeOK'
BY DEF TypeOK, Step, token_vars

(* A request past the bearer gate has the context its token resolved to. *)
AuthorisedContext ==
  \A c \in Call : call[c].stage = "authorised" => call[c].context \in Context

LEMMA RequestTypes ==
  ASSUME TypeOK, AuthorisedContext, NEW c \in Call, Request(c)
  PROVE  TypeOK'
<1> USE BoundsAreNaturals
<1>0. call[c] \in CallState
  BY DEF TypeOK
<1>1. ASSUME NEW t \in Token, Authorise(c, t) PROVE TypeOK'
  <2>1. attempt[t] \in Attempt /\ attempt[t].context \in Context
    BY <1>1, AttemptMoves DEF TypeOK, Authorise
  <2>2. [call[c] EXCEPT !.stage = "authorised", !.context = attempt[t].context] \in CallState
    BY <1>0, <2>1 DEF CallState
  <2>3. [call[c] EXCEPT !.stage = "closed", !.http = "unauthorized"] \in CallState
    BY <1>0 DEF CallState
  <2> QED BY <1>1, <2>2, <2>3, StepTypes DEF Authorise
<1>2. CASE AnswerPlainly(c)
  BY <1>0, <1>2, StepTypes, [call[c] EXCEPT !.stage = "closed",
     !.http = "answered"] \in CallState
  DEF AnswerPlainly, CallState
<1>3. CASE Submit(c)
  <2>1. [call[c] EXCEPT !.stage = "pending", !.http = "stream",
           !.delivered = run[call[c].context.workflow].no] \in CallState
    <3>1. call[c].context \in Context
      BY <1>3 DEF Submit, AuthorisedContext
    <3>2. run[call[c].context.workflow].no \in Run
      BY <3>1 DEF TypeOK, Context
    <3> QED BY <1>0, <3>2 DEF CallState
  <2> QED BY <1>3, <2>1, StepTypes DEF Submit
<1>4. CASE SubmitFails(c)
  <2>1. [call[c] EXCEPT !.stage = "settled", !.http = "stream", !.outcome = "failure"] \in CallState
    BY <1>0 DEF CallState, Final
  <2> QED BY <1>4, <2>1, StepTypes DEF SubmitFails
<1>5. ASSUME NEW o \in Final, UpdateCompletes(c, o) PROVE TypeOK'
  <2>1. [call[c] EXCEPT !.stage = "settled", !.outcome = o] \in CallState
    BY <1>0, <1>5 DEF CallState
  <2> QED BY <1>5, <2>1, StepTypes DEF UpdateCompletes
<1>6. CASE UpdateFails(c)
  <2>1. [call[c] EXCEPT !.stage = "settled", !.outcome = "failure"] \in CallState
    BY <1>0 DEF CallState, Final
  <2> QED BY <1>6, <2>1, StepTypes DEF UpdateFails
<1>7. CASE Keepalive(c)
  <2>1. call[c].queued + 1 \in 0..Capacity
    BY <1>0, <1>7 DEF Keepalive, CallState
  <2>2. [call[c] EXCEPT !.queued = call[c].queued + 1] \in CallState
    BY <1>0, <2>1 DEF CallState
  <2> QED BY <1>7, <2>2, StepTypes DEF Keepalive
<1>8. CASE SendFinal(c)
  <2>1. [call[c] EXCEPT !.stage = "closed", !.sent = call[c].connected] \in CallState
    BY <1>0 DEF CallState
  <2> QED BY <1>8, <2>1, StepTypes DEF SendFinal
<1>9. CASE HarnessReads(c)
  <2>1. ASSUME call[c].queued > 0 PROVE [call[c] EXCEPT !.queued = call[c].queued - 1] \in CallState
    <3>1. call[c].queued - 1 \in 0..Capacity
      BY <1>0, <2>1 DEF CallState
    <3> QED BY <1>0, <3>1 DEF CallState
  <2>2. [call[c] EXCEPT !.got = call[c].outcome] \in CallState
    BY <1>0 DEF CallState
  <2> QED BY <1>9, <2>1, <2>2, StepTypes DEF HarnessReads
<1>10. CASE HarnessHangsUp(c)
  <2>1. [call[c] EXCEPT !.connected = FALSE, !.queued = 0] \in CallState
    BY <1>0, 0 \in 0..Capacity DEF CallState
  <2> QED BY <1>10, <2>1, StepTypes DEF HarnessHangsUp
<1> QED BY <1>1, <1>2, <1>3, <1>4, <1>5, <1>6, <1>7, <1>8, <1>9, <1>10 DEF Request

LEMMA RestartTypes ==
  ASSUME TypeOK, Restart
  PROVE  TypeOK'
<1> USE BoundsAreNaturals
<1>1. attempt' \in [Token -> Attempt]
  <2>1. ASSUME NEW t \in Token, attempt[t].stage # "unused"
        PROVE  [attempt[t] EXCEPT !.stage = "dead"] \in Attempt
    BY <2>1, AttemptMoves DEF TypeOK
  <2>2. Unused \in Attempt
    BY DEF Unused, Attempt
  <2> QED BY <2>1, <2>2 DEF Restart
<1>2. watcher' \in [Token -> Watcher]
  BY DEF NoTask, Watcher, Restart
<1>3. call' \in [Call -> CallState]
  <2>1. ASSUME NEW c \in Call
        PROVE  [call[c] EXCEPT !.stage = "closed", !.connected = FALSE, !.queued = 0] \in CallState
    <3>1. call[c] \in CallState
      BY <2>1 DEF TypeOK
    <3>2. 0 \in 0..Capacity
      BY BoundsAreNaturals
    <3> QED BY <3>1, <3>2 DEF CallState
  <2>2. ASSUME NEW c \in Call PROVE call'[c] \in CallState
    <3>1. call'[c] = IF call[c].stage \in {"idle", "closed"} THEN call[c]
                     ELSE [call[c] EXCEPT !.stage = "closed", !.connected = FALSE, !.queued = 0]
      BY DEF Restart
    <3> QED BY <3>1, <2>1 DEF TypeOK
  <2>3. call' = [c \in Call |-> call'[c]]
    BY DEF Restart
  <2> QED BY <2>2, <2>3
<1>4. restarts' \in 0..MaxRestarts
  <2>1. restarts \in 0..MaxRestarts /\ restarts < MaxRestarts
    BY DEF Restart, TypeOK
  <2>2. restarts + 1 \in 0..MaxRestarts
    BY <2>1
  <2> QED BY <2>2 DEF Restart
<1>5. run' \in [Workflow -> [no : Run, open : BOOLEAN]] /\ directory' \subseteq Token
      /\ terminal_watchers' \subseteq Workflow
  BY DEF Restart, TypeOK
<1> QED BY <1>1, <1>2, <1>3, <1>4, <1>5 DEF TypeOK

-----------------------------------------------------------------------------
(* The inductive invariant: types, one observer per id, an observer belongs  *)
(* to an attachment that was made in this life of the process, and one that  *)
(* has seen an outcome saw a run that is closed for good.                    *)

ObserverAttached ==
  \A t \in Token : attempt[t].stage \notin {"attached"} => watcher[t] = NoTask

OutcomeSeen ==
  \A t \in Token :
    watcher[t].stage \in {"outcome", "evicted"} =>
      ClosedRun(watcher[t].workflow, watcher[t].bound)

IInv == TypeOK /\ AuthorisedContext /\ OneObserver /\ ObserverAttached /\ OutcomeSeen

LEMMA InitInv == Init => IInv
<1> SUFFICES ASSUME Init PROVE IInv
  OBVIOUS
<1> USE BoundsAreNaturals DEF Init
<1>1. TypeOK
  <2>1. IdleCall \in CallState
    BY DEF IdleCall, CallState, Final, Run
  <2> QED BY <2>1 DEF TypeOK, Attempt, Watcher, Unused, NoTask, Run
<1>2. AuthorisedContext /\ OneObserver /\ ObserverAttached /\ OutcomeSeen
  BY DEF AuthorisedContext, IdleCall, OneObserver, Observing, ObserverAttached,
     OutcomeSeen, NoTask
<1> QED BY <1>1, <1>2 DEF IInv

LEMMA StepTypeOK == TypeOK /\ AuthorisedContext /\ [Next]_vars => TypeOK'
<1> SUFFICES ASSUME TypeOK, AuthorisedContext, [Next]_vars PROVE TypeOK'
  OBVIOUS
<1>1. CASE UNCHANGED vars
  BY <1>1 DEF TypeOK, vars
<1>2. ASSUME NEW w \in Workflow, StartRun(w) \/ CloseRun(w) PROVE TypeOK'
  BY <1>2, RunTypes
<1>3. ASSUME NEW w \in Workflow, NEW t \in Token, DispatchAttempt(w, t) PROVE TypeOK'
  BY <1>3, AttachTypes
<1>4. ASSUME NEW t \in Token, AttachNothing(t) \/ Mint(t) \/ WatchTerminal(t) PROVE TypeOK'
  <2>1. attempt[t].context.workflow \in Workflow
    BY <1>4, AttemptMoves DEF TypeOK, AttachNothing, Mint, WatchTerminal, Context
  <2> QED BY <1>4, <2>1, AttachTypes
<1>5. ASSUME NEW t \in Token, Observer(t) PROVE TypeOK'
  BY <1>5, ObserverTypes
<1>6. ASSUME NEW c \in Call, Request(c) PROVE TypeOK'
  BY <1>6, RequestTypes
<1>7. CASE Restart
  BY <1>7, RestartTypes
<1> QED BY <1>1, <1>2, <1>3, <1>4, <1>5, <1>6, <1>7 DEF Next

(* A closed run stays closed: ids only get later runs. *)
LEMMA ClosedStaysClosed ==
  ASSUME TypeOK, NEW w \in Workflow, NEW r \in Run, ClosedRun(w, r),
         \/ UNCHANGED run
         \/ \E v \in Workflow : StartRun(v) \/ CloseRun(v)
  PROVE  ClosedRun(w, r)'
<1> USE BoundsAreNaturals DEF TypeOK, ClosedRun, Run
<1>1. CASE UNCHANGED run
  BY <1>1
<1>2. ASSUME NEW v \in Workflow, StartRun(v) PROVE ClosedRun(w, r)'
  BY <1>2 DEF StartRun
<1>3. ASSUME NEW v \in Workflow, CloseRun(v) PROVE ClosedRun(w, r)'
  BY <1>3 DEF CloseRun
<1> QED BY <1>1, <1>2, <1>3

-----------------------------------------------------------------------------
(* Observers. *)

(* OneObserver, id by id. *)
Watches(t, w) == Observing(t) /\ watcher[t].workflow = w

EachWatchedOnce ==
  \A w \in Workflow :
    /\ w \in terminal_watchers <=> \E t \in Token : Watches(t, w)
    /\ \A t, u \in Token : Watches(t, w) /\ Watches(u, w) => t = u

LEMMA IdById == TypeOK => (OneObserver <=> EachWatchedOnce)
<1> SUFFICES ASSUME TypeOK PROVE OneObserver <=> EachWatchedOnce
  OBVIOUS
<1>1. \A t \in Token : Observing(t) => watcher[t].workflow \in Workflow
  BY DEF TypeOK, Observing, Watcher
<1>2. terminal_watchers \subseteq Workflow
  BY DEF TypeOK
<1>3. ASSUME OneObserver PROVE EachWatchedOnce
  BY <1>3 DEF OneObserver, EachWatchedOnce, Watches
<1>4. ASSUME EachWatchedOnce PROVE OneObserver
  <2>1. terminal_watchers = {watcher[t].workflow : t \in {u \in Token : Observing(u)}}
    BY <1>1, <1>2, <1>4 DEF EachWatchedOnce, Watches
  <2>2. \A t, u \in Token :
          Observing(t) /\ Observing(u) /\ watcher[t].workflow = watcher[u].workflow => t = u
    BY <1>1, <1>4 DEF EachWatchedOnce, Watches
  <2> QED BY <2>1, <2>2 DEF OneObserver
<1> QED BY <1>3, <1>4

LEMMA StepInv == IInv /\ [Next]_vars => IInv'
<1> SUFFICES ASSUME IInv, [Next]_vars PROVE IInv'
  OBVIOUS
<1>0. TypeOK /\ TypeOK' /\ OneObserver /\ ObserverAttached /\ OutcomeSeen
  BY StepTypeOK DEF IInv
<1>a. EachWatchedOnce /\ (EachWatchedOnce' => OneObserver')
  <2>1. (TypeOK => (OneObserver <=> EachWatchedOnce))'
    BY IdById, PTL
  <2> QED BY <1>0, <2>1, IdById
<1>b. \A t \in Token : Observing(t) => watcher[t].workflow \in Workflow
  BY <1>0 DEF TypeOK, Observing, Watcher
<1> DEFINE Rest == OneObserver' /\ ObserverAttached' /\ OutcomeSeen'
<1>1. ASSUME UNCHANGED <<terminal_watchers, watcher>>,
             \A t \in Token : attempt[t].stage = "attached" => attempt'[t].stage = "attached",
             UNCHANGED run \/ \E v \in Workflow : StartRun(v) \/ CloseRun(v)
      PROVE  Rest
  <2>1. OneObserver'
    BY <1>0, <1>1 DEF OneObserver, Observing
  <2>2. ObserverAttached'
    BY <1>0, <1>1 DEF ObserverAttached
  <2>3. OutcomeSeen'
    <3> SUFFICES ASSUME NEW t \in Token, watcher[t].stage \in {"outcome", "evicted"}
                 PROVE  ClosedRun(watcher[t].workflow, watcher[t].bound)'
      BY <1>1 DEF OutcomeSeen
    <3>1. watcher[t].workflow \in Workflow /\ watcher[t].bound \in Run
      BY <1>0 DEF TypeOK, Watcher
    <3>2. ClosedRun(watcher[t].workflow, watcher[t].bound)
      BY <1>0 DEF OutcomeSeen
    <3>3. \A w \in Workflow, r \in Run : ClosedRun(w, r) => ClosedRun(w, r)'
      BY <1>0, <1>1, ClosedStaysClosed
    <3> QED BY <1>1, <3>1, <3>2, <3>3 DEF ClosedRun
  <2> QED BY <2>1, <2>2, <2>3
<1>2. ASSUME UNCHANGED vars PROVE Rest
  BY <1>1, <1>2 DEF vars
<1>3. ASSUME NEW w \in Workflow, StartRun(w) \/ CloseRun(w) PROVE Rest
  BY <1>1, <1>3 DEF StartRun, CloseRun, token_vars
<1>4. ASSUME NEW w \in Workflow, NEW t \in Token, DispatchAttempt(w, t) PROVE Rest
  BY <1>0, <1>1, <1>4 DEF DispatchAttempt, Unused, TypeOK
<1>5. ASSUME NEW t \in Token, AttachNothing(t) \/ Mint(t) PROVE Rest
  BY <1>0, <1>1, <1>5 DEF AttachNothing, Mint, TypeOK
<1>6. ASSUME NEW t \in Token, WatchTerminal(t) PROVE Rest
  <2> DEFINE w == attempt[t].context.workflow
  <2>0. watcher[t] = NoTask /\ attempt'[t].stage = "attached"
    <3>1. attempt[t].stage = "minted" /\ attempt[t] \in Attempt
      BY <1>0, <1>6 DEF WatchTerminal, TypeOK
    <3>2. [attempt[t] EXCEPT !.stage = "attached"].stage = "attached"
      BY <3>1, AttemptMoves
    <3> QED BY <1>0, <1>6, <3>1, <3>2 DEF ObserverAttached, WatchTerminal, TypeOK
  <2>1. OneObserver'
    <3>1. CASE w \in terminal_watchers
      <4>1. UNCHANGED <<terminal_watchers, watcher>>
        BY <1>0, <1>6, <3>1 DEF WatchTerminal, TypeOK
      <4> QED BY <1>0, <4>1 DEF OneObserver, Observing
    <3>2. CASE w \notin terminal_watchers
      <4>1. /\ watcher'[t] = [stage |-> "waiting", workflow |-> w, bound |-> run[w].no]
            /\ \A u \in Token \ {t} : watcher'[u] = watcher[u]
            /\ terminal_watchers' = terminal_watchers \cup {w}
        BY <1>0, <1>6, <3>2 DEF WatchTerminal, TypeOK
      <4>2. Observing(t)' /\ ~Observing(t) /\ \A u \in Token \ {t} : Observing(u)' = Observing(u)
        BY <2>0, <4>1 DEF Observing, NoTask
      <4>3. \A u \in Token, v \in Workflow :
              Watches(u, v)' <=> Watches(u, v) \/ (u = t /\ v = w)
        BY <4>1, <4>2 DEF Watches
      <4>4. w \in Workflow
        BY <1>0, <1>6, AttemptMoves DEF TypeOK, WatchTerminal, Context
      <4>5. \A v \in Workflow : v \in terminal_watchers' <=> \E u \in Token : Watches(u, v)'
        <5> SUFFICES ASSUME NEW v \in Workflow
                     PROVE  v \in terminal_watchers' <=> \E u \in Token : Watches(u, v)'
          OBVIOUS
        <5>1. v \in terminal_watchers <=> \E u \in Token : Watches(u, v)
          BY <1>a DEF EachWatchedOnce
        <5>2. v \in terminal_watchers' <=> v \in terminal_watchers \/ v = w
          BY <4>1
        <5>3. (\E u \in Token : Watches(u, v)') <=> (\E u \in Token : Watches(u, v)) \/ v = w
          BY <4>3
        <5> QED BY <5>1, <5>2, <5>3
      <4>6. ASSUME NEW v \in Workflow, NEW a \in Token, NEW b \in Token,
                   Watches(a, v)', Watches(b, v)'
            PROVE  a = b
        <5>1. CASE v = w
          <6>1. ~Watches(a, v) /\ ~Watches(b, v)
            BY <1>a, <3>2, <5>1 DEF EachWatchedOnce
          <6> QED BY <4>3, <4>6, <6>1
        <5>2. CASE v # w
          <6>1. Watches(a, v) /\ Watches(b, v)
            BY <4>3, <4>6, <5>2
          <6> QED BY <1>a, <6>1 DEF EachWatchedOnce
        <5> QED BY <5>1, <5>2
      <4>7. EachWatchedOnce'
        BY <4>5, <4>6 DEF EachWatchedOnce
      <4> QED BY <1>a, <4>7
    <3> QED BY <3>1, <3>2
  <2>2. ObserverAttached'
    BY <1>0, <1>6, <2>0 DEF WatchTerminal, ObserverAttached, TypeOK
  <2>3. OutcomeSeen'
    BY <1>0, <1>6 DEF WatchTerminal, OutcomeSeen, ClosedRun, TypeOK
  <2> QED BY <2>1, <2>2, <2>3
<1>7. ASSUME NEW t \in Token, Observer(t) PROVE Rest
  <2>0. watcher[t] \in Watcher /\ watcher[t].stage # "none" /\ watcher[t] # NoTask
    BY <1>0, <1>7 DEF TypeOK, Observer, ObserveOutcome, ObserveError, Evict, Unwatch,
       Moves, NoTask
  <2>1. /\ watcher'[t].workflow = watcher[t].workflow
        /\ \A u \in Token \ {t} : watcher'[u] = watcher[u]
        /\ attempt' = attempt /\ run' = run
    <3>1. watcher[t].workflow \in Workflow /\ watcher[t].bound \in Run
      BY <2>0 DEF Watcher
    <3>2. run[watcher[t].workflow].no \in Run
      BY <1>0, <3>1 DEF TypeOK
    <3>3. ASSUME NEW from, NEW to \in {"outcome", "evicted", "done"}, Moves(t, from, to)
          PROVE  /\ watcher'[t].workflow = watcher[t].workflow
                 /\ \A u \in Token \ {t} : watcher'[u] = watcher[u]
      <4>1. [watcher[t] EXCEPT !.stage = to].workflow = watcher[t].workflow
        BY <2>0, <3>1, WatcherMoves
      <4> QED BY <1>0, <3>3, <4>1 DEF Moves, TypeOK
    <3>4. CASE ObserveOutcome(t) \/ Evict(t) \/ Unwatch(t)
      BY <3>3, <3>4 DEF ObserveOutcome, Evict, Unwatch
    <3>5. CASE ObserveError(t)
      <4>1. [watcher[t] EXCEPT !.bound = run[watcher[t].workflow].no].workflow = watcher[t].workflow
        BY <2>0, <3>2, WatcherMoves
      <4> QED BY <1>0, <3>5, <4>1 DEF ObserveError, TypeOK
    <3> QED BY <1>7, <3>4, <3>5 DEF Observer
  <2>2. ObserverAttached'
    <3>1. attempt[t].stage = "attached"
      BY <1>0, <2>0 DEF ObserverAttached
    <3>2. ASSUME NEW u \in Token, attempt'[u].stage \notin {"attached"} PROVE watcher'[u] = NoTask
      <4>1. u # t /\ attempt[u].stage \notin {"attached"}
        BY <2>1, <3>1, <3>2
      <4>2. watcher[u] = NoTask
        BY <1>0, <4>1 DEF ObserverAttached
      <4> QED BY <2>1, <4>1, <4>2
    <3> QED BY <3>2 DEF ObserverAttached
  <2>3. OutcomeSeen'
    <3>1. watcher'[t].stage \in {"outcome", "evicted"} =>
            ClosedRun(watcher'[t].workflow, watcher'[t].bound)
      <4>1. CASE ObserveOutcome(t)
        BY <1>0, <4>1, <2>0, WatcherMoves DEF ObserveOutcome, Moves, TypeOK
      <4>2. CASE ObserveError(t)
        BY <1>0, <4>2, <2>0 DEF ObserveError, TypeOK
      <4>3. CASE Evict(t)
        BY <1>0, <4>3, <2>0 DEF Evict, Moves, TypeOK, OutcomeSeen
      <4>4. CASE Unwatch(t)
        BY <1>0, <4>4, <2>0 DEF Unwatch, Moves, TypeOK
      <4> QED BY <1>7, <4>1, <4>2, <4>3, <4>4 DEF Observer
    <3>2. ASSUME NEW u \in Token, watcher'[u].stage \in {"outcome", "evicted"}
          PROVE  ClosedRun(watcher'[u].workflow, watcher'[u].bound)
      <4>1. CASE u = t
        BY <3>1, <3>2, <4>1
      <4>2. CASE u # t
        <5>1. watcher'[u] = watcher[u]
          BY <2>1, <4>2
        <5> QED BY <1>0, <3>2, <5>1 DEF OutcomeSeen
      <4> QED BY <4>1, <4>2
    <3>3. ASSUME NEW u \in Token, ClosedRun(watcher'[u].workflow, watcher'[u].bound)
          PROVE  ClosedRun(watcher[u].workflow, watcher[u].bound)'
      <4>1. run' = run
        BY <2>1
      <4> QED BY <3>3, <4>1 DEF ClosedRun
    <3> QED BY <3>2, <3>3 DEF OutcomeSeen
  <2>4. OneObserver'
    <3>1. CASE ObserveOutcome(t) \/ ObserveError(t) \/ Evict(t)
      <4>1. UNCHANGED terminal_watchers
        BY <3>1 DEF ObserveOutcome, ObserveError, Evict
      <4>2. Observing(t) /\ Observing(t)'
        <5>1. CASE ObserveOutcome(t)
          BY <1>0, <5>1, <2>0, WatcherMoves, watcher'[t].stage = "outcome"
          DEF ObserveOutcome, Moves, Observing, TypeOK
        <5>2. CASE ObserveError(t)
          BY <1>0, <5>2, <2>0, watcher'[t].stage = "waiting" DEF ObserveError, Observing,
             TypeOK, Watcher
        <5>3. CASE Evict(t)
          BY <1>0, <5>3, <2>0, watcher'[t].stage = "evicted" DEF Evict, Moves, Observing, TypeOK
        <5> QED BY <3>1, <5>1, <5>2, <5>3
      <4>3. \A u \in Token, v \in Workflow : Watches(u, v)' <=> Watches(u, v)
        BY <2>1, <4>2 DEF Watches, Observing
      <4>4. EachWatchedOnce'
        BY <1>a, <4>1, <4>3 DEF EachWatchedOnce
      <4> QED BY <1>a, <4>4
    <3>2. CASE Unwatch(t)
      <4>1. Observing(t) /\ ~Observing(t)' /\ \A u \in Token \ {t} : Observing(u)' = Observing(u)
        BY <1>0, <2>0, <2>1, <3>2 DEF Unwatch, Moves, Observing, TypeOK
      <4>2. terminal_watchers' = terminal_watchers \ {watcher[t].workflow}
        BY <3>2 DEF Unwatch
      <4>3. \A u \in Token, v \in Workflow : Watches(u, v)' <=> Watches(u, v) /\ u # t
        BY <2>1, <4>1 DEF Watches
      <4>4. EachWatchedOnce'
        BY <1>a, <1>b, <4>1, <4>2, <4>3 DEF EachWatchedOnce, Watches
      <4> QED BY <1>a, <4>4
    <3> QED BY <1>7, <3>1, <3>2 DEF Observer
  <2> QED BY <2>2, <2>3, <2>4
<1>8. ASSUME NEW c \in Call, Request(c) PROVE Rest
  <2>1. UNCHANGED <<run, attempt, terminal_watchers, watcher>>
    BY <1>8 DEF Request, Authorise, AnswerPlainly, Submit, SubmitFails, UpdateCompletes,
                UpdateFails, Keepalive, SendFinal, HarnessReads, HarnessHangsUp, Step,
                token_vars
  <2> QED BY <1>1, <2>1
<1>9. ASSUME Restart PROVE Rest
  <2>1. \A t \in Token : watcher'[t] = NoTask /\ ~Observing(t)'
    BY <1>9 DEF Restart, Observing, NoTask
  <2>2. terminal_watchers' = {}
    BY <1>9 DEF Restart
  <2>3. EachWatchedOnce'
    BY <2>1, <2>2 DEF EachWatchedOnce, Watches
  <2> QED BY <1>a, <2>1, <2>3 DEF ObserverAttached, OutcomeSeen, NoTask
<1>10. Rest
  BY <1>2, <1>3, <1>4, <1>5, <1>6, <1>7, <1>8, <1>9 DEF Next
<1>11. AuthorisedContext'
  <2>1. ASSUME NEW c \in Call, call'[c].stage = "authorised", Next PROVE call'[c].context \in Context
    <3>1. ASSUME NEW d \in Call, NEW t \in Token, Authorise(d, t) PROVE call'[c].context \in Context
      <4>1. attempt[t].context \in Context
        BY <1>0, <3>1, AttemptMoves DEF Authorise, TypeOK
      <4>2. CASE d = c
        <5>1. call[c].stage = "idle" /\ call[c] \in CallState
          BY <1>0, <3>1, <4>2 DEF Authorise, Step, TypeOK
        <5>2. [call[c] EXCEPT !.stage = "authorised", !.context = attempt[t].context].context
                = attempt[t].context
          BY <5>1 DEF CallState
        <5>3. [call[c] EXCEPT !.stage = "closed", !.http = "unauthorized"].stage = "closed"
          BY <5>1 DEF CallState
        <5>4. call'[c] = IF t \in directory
                         THEN [call[c] EXCEPT !.stage = "authorised", !.context = attempt[t].context]
                         ELSE [call[c] EXCEPT !.stage = "closed", !.http = "unauthorized"]
          BY <1>0, <3>1, <4>2 DEF Authorise, Step, TypeOK
        <5> QED BY <2>1, <4>1, <5>2, <5>3, <5>4
      <4>3. CASE d # c
        BY <1>0, <2>1, <3>1, <4>3 DEF Authorise, Step, TypeOK, IInv, AuthorisedContext
      <4> QED BY <4>2, <4>3
    <3>2. ASSUME NEW d \in Call, Request(d), \A t \in Token : ~Authorise(d, t)
          PROVE  call'[c].stage = call[c].stage /\ call'[c].context = call[c].context
      <4>0. call[d] \in CallState
        BY <1>0 DEF TypeOK
      <4>1. ASSUME NEW old, NEW new, Step(d, old, new),
                   new.stage = "authorised" => new.stage = call[d].stage /\ new.context = call[d].context
            PROVE  call'[c].stage = call[c].stage /\ call'[c].context = call[c].context
        BY <1>0, <2>1, <4>1 DEF Step, TypeOK
      <4>2. CASE HarnessReads(d) \/ HarnessHangsUp(d)
        BY <4>0, <4>1, <4>2 DEF HarnessReads, HarnessHangsUp, CallState
      <4>3. CASE AnswerPlainly(d) \/ Submit(d) \/ SubmitFails(d)
        BY <4>0, <4>1, <4>3 DEF AnswerPlainly, Submit, SubmitFails, CallState
      <4>4. CASE UpdateFails(d) \/ SendFinal(d)
        BY <4>0, <4>1, <4>4 DEF UpdateFails, SendFinal, CallState
      <4>5. ASSUME NEW o \in Final, UpdateCompletes(d, o)
            PROVE  call'[c].stage = call[c].stage /\ call'[c].context = call[c].context
        BY <4>0, <4>1, <4>5 DEF UpdateCompletes, CallState
      <4>6. CASE Keepalive(d)
        <5>1. call[d].stage = "pending"
          BY <4>6 DEF Keepalive, Step
        <5> QED BY <4>0, <4>1, <4>6, <5>1 DEF Keepalive, CallState
      <4> QED BY <3>2, <4>2, <4>3, <4>4, <4>5, <4>6 DEF Request
    <3>3. CASE Restart
      <4>1. call[c] \in CallState
        BY <1>0 DEF TypeOK
      <4>2. [call[c] EXCEPT !.stage = "closed", !.connected = FALSE, !.queued = 0].stage = "closed"
        BY <4>1 DEF CallState
      <4>3. call'[c] = IF call[c].stage \in {"idle", "closed"} THEN call[c]
                       ELSE [call[c] EXCEPT !.stage = "closed", !.connected = FALSE, !.queued = 0]
        BY <3>3 DEF Restart
      <4> QED BY <2>1, <4>2, <4>3
    <3>4. CASE call' = call
      BY <2>1, <3>4 DEF IInv, AuthorisedContext
    <3>5. CASE Next /\ ~Restart /\ \A d \in Call : ~Request(d)
      BY <3>4, <3>5 DEF Next, StartRun, CloseRun, DispatchAttempt, AttachNothing, Mint,
             WatchTerminal, Observer, ObserveOutcome, ObserveError, Evict, Unwatch
    <3> QED BY <2>1, <3>1, <3>2, <3>3, <3>5 DEF IInv, AuthorisedContext
  <2> QED BY <2>1 DEF IInv, AuthorisedContext, vars
<1> QED BY <1>0, <1>10, <1>11 DEF IInv

LEMMA Invariant == Spec => []IInv
BY InitInv, StepInv, PTL DEF Spec

-----------------------------------------------------------------------------
(* Theorems. *)

(* Type correctness; no stream buffers more frames than its capacity. *)
THEOREM TypeCorrect == Spec => []TypeOK
<1>1. IInv => TypeOK
  BY DEF IInv
<1> QED BY <1>1, Invariant, PTL

(* One observer per workflow id at a time, whatever attempts attach and       *)
(* whenever runs of the id close.                                            *)
THEOREM OneObserverPerRun == Spec => []OneObserver
<1>1. IInv => OneObserver
  BY DEF IInv
<1> QED BY <1>1, Invariant, PTL

(* A live run loses a token only to a late observer of an earlier run of its  *)
(* id, or with the worker.                                                   *)
THEOREM LiveTokensStay == Spec => EvictsLateOnly
<1> DEFINE LateOnly ==
      \A t \in directory \ directory' :
        RunIsOpen(attempt[t].context) =>
          \/ restarts' # restarts
          \/ \E u \in Token :
               /\ watcher[u].stage = "outcome"
               /\ watcher[u].workflow = attempt[t].context.workflow
               /\ watcher[u].bound < attempt[t].context.run
<1>1. IInv /\ [Next]_vars => [LateOnly]_vars
  <2> SUFFICES ASSUME IInv, Next, NEW t \in directory \ directory',
                      RunIsOpen(attempt[t].context), restarts' = restarts
               PROVE  \E u \in Token :
                        /\ watcher[u].stage = "outcome"
                        /\ watcher[u].workflow = attempt[t].context.workflow
                        /\ watcher[u].bound < attempt[t].context.run
    OBVIOUS
  <2>1. PICK u \in Token : Evict(u)
    <3>1. ~Restart
      <4>1. restarts \in Nat /\ restarts # restarts + 1
        BY BoundsAreNaturals DEF IInv, TypeOK
      <4> QED BY <4>1 DEF Restart
    <3>2. \A u \in Token : Observer(u) => Evict(u)
      BY DEF Observer, ObserveOutcome, ObserveError, Unwatch
    <3>3. \A w \in Workflow : StartRun(w) \/ CloseRun(w) => FALSE
      BY DEF StartRun, CloseRun, token_vars
    <3>4. \A w \in Workflow, u \in Token : DispatchAttempt(w, u) => FALSE
      BY DEF DispatchAttempt
    <3>5. \A u \in Token : AttachNothing(u) \/ Mint(u) \/ WatchTerminal(u) => FALSE
      BY DEF AttachNothing, Mint, WatchTerminal
    <3>6. \A c \in Call : Request(c) => FALSE
      BY DEF Request, Authorise, AnswerPlainly, Submit, SubmitFails, UpdateCompletes,
             UpdateFails, Keepalive, SendFinal, HarnessReads, HarnessHangsUp, Step, token_vars
    <3> QED BY <3>1, <3>2, <3>3, <3>4, <3>5, <3>6 DEF Next
  <2>2. watcher[u].stage = "outcome" /\ watcher[u].workflow = attempt[t].context.workflow
    BY <2>1 DEF Evict, Moves
  <2>3. ClosedRun(watcher[u].workflow, watcher[u].bound)
    BY <2>2 DEF IInv, OutcomeSeen
  <2>4. watcher[u].bound < attempt[t].context.run
    BY <2>2, <2>3 DEF RunIsOpen, ClosedRun
  <2> QED BY <2>2, <2>4
<1>2. Spec => [][LateOnly]_vars
  BY <1>1, Invariant, PTL DEF Spec
<1> QED BY <1>2 DEF EvictsLateOnly

-----------------------------------------------------------------------------
(* The tries of a tool call. *)

\* A try that has said something is over.
AnswersAreFinal ==
  \A n \in 1..MaxTries : tries[n].said # "nothing" => tries[n].stage = "over"

\* Only a call that ran out of time may have had no try.
HasTry ==
  \/ tool.stage = "attempting"
  \/ tool.stage = "settled" /\ ~(tool.ceiling /\ tool.result = "failed")
    => tool.current # 0

ToolInv == ToolTypes /\ AnswersAreFinal /\ HasTry /\ RetriesAsDeclared


LEMMA ToolInitInv == ToolIdle => ToolInv
<1> SUFFICES ASSUME ToolIdle PROVE ToolInv
  OBVIOUS
<1> USE MaxTriesIsPositive DEF ToolIdle
<1>1. ToolTypes
  BY DEF ToolTypes, NoTry, Try
<1>2. AnswersAreFinal
  <2>1. \A n \in 1..MaxTries : tries[n].said = "nothing"
    BY DEF NoTry
  <2> QED BY <2>1 DEF AnswersAreFinal
<1>3. HasTry /\ RetriesAsDeclared
  BY DEF HasTry, RetriesAsDeclared
<1> QED BY <1>1, <1>2, <1>3 DEF ToolInv

(* Spans come and go beside the call. *)
LEMMA SpanStepInv ==
  ASSUME ToolInv,
         (\E c \in Client : OpenRunSpan(c)) \/ (\E a \in TurnAttempt : OpenTurnSpan(a))
           \/ (\E s \in Span : CloseSpan(s))
  PROVE  ToolInv'
<1>1. tool' = tool /\ tries' = tries
  BY DEF OpenRunSpan, OpenTurnSpan, Registers, CloseSpan
<1>2. ToolTypes'
  <2>1. CASE \E s \in Span : Registers(s)
    BY <1>1, <2>1 DEF ToolInv, ToolTypes, Registers, OpenOf, OfTier, Tier, TierOf, Span
  <2>2. CASE \E s \in Span : CloseSpan(s)
    BY <1>1, <2>2 DEF ToolInv, ToolTypes, CloseSpan, OfTier, Tier, TierOf, Span
  <2> QED BY <2>1, <2>2 DEF OpenRunSpan, OpenTurnSpan, Span
<1> QED BY <1>1, <1>2 DEF ToolInv, AnswersAreFinal, HasTry, RetriesAsDeclared

LEMMA ToolStepInv == ToolInv /\ [ToolNext]_tool_vars => ToolInv'
<1> SUFFICES ASSUME ToolInv, [ToolNext]_tool_vars PROVE ToolInv'
  OBVIOUS
<1> USE MaxTriesIsPositive
<1>0. ToolTypes /\ AnswersAreFinal /\ HasTry /\ RetriesAsDeclared
  BY DEF ToolInv
<1>1. CASE ScheduleTool
  BY <1>0, <1>1 DEF ToolInv, ScheduleTool, ToolTypes, AnswersAreFinal, HasTry, RetriesAsDeclared
<1>2. ASSUME NEW n \in 1..MaxTries, StartTry(n) PROVE ToolInv'
  <2>1. AdoptedParent \in Span \cup {NoSpan}
    BY <1>0 DEF AdoptedParent, ToolTypes, Tier, OfTier, Span
  <2>2. ToolTypes'
    <3>1. [stage |-> "running", parent |-> AdoptedParent, said |-> "nothing"] \in Try
      BY <2>1 DEF Try
    <3>2. tries' \in [1..MaxTries -> Try]
      BY <1>0, <1>2, <3>1 DEF StartTry, ToolTypes
    <3>b. n \in 0..MaxTries
      OBVIOUS
    <3>3. [tool EXCEPT !.stage = "attempting", !.current = n] \in
            [stage : {"unscheduled", "scheduled", "attempting", "settled"},
             current : 0..MaxTries, ceiling : BOOLEAN,
             result : {"none", "fits", "too_large", "failed"}]
      BY <1>0, <3>b DEF ToolTypes
    <3> QED BY <1>0, <1>2, <3>2, <3>3 DEF StartTry, ToolTypes
  <2>3. AnswersAreFinal'
    BY <1>0, <1>2 DEF StartTry, ToolTypes, AnswersAreFinal
  <2>4. HasTry' /\ RetriesAsDeclared'
    BY <1>0, <1>2 DEF StartTry, ToolTypes, HasTry, RetriesAsDeclared
  <2> QED BY <2>2, <2>3, <2>4 DEF ToolInv
<1>3. ASSUME NEW n \in 1..MaxTries, NEW said \in Answer, TryAnswers(n, said) PROVE ToolInv'
  <2>1. ToolTypes'
    <3>0. tries[n] \in Try
      BY <1>0 DEF ToolTypes
    <3>a. [tries[n] EXCEPT !.stage = "over", !.said = said] \in Try
      BY <3>0 DEF Try
    <3>1. tries' \in [1..MaxTries -> Try]
      BY <1>0, <1>3, <3>a DEF TryAnswers, ToolTypes
    <3>2. tool' \in [stage : {"unscheduled", "scheduled", "attempting", "settled"},
                     current : 0..MaxTries, ceiling : BOOLEAN,
                     result : {"none", "fits", "too_large", "failed"}]
      BY <1>0, <1>3 DEF TryAnswers, ToolTypes, AfterAnswer, TriedAgain, Settled, Answer
    <3> QED BY <1>0, <1>3, <3>1, <3>2 DEF TryAnswers, ToolTypes
  <2>2. AnswersAreFinal'
    BY <1>0, <1>3 DEF TryAnswers, ToolTypes, AnswersAreFinal, Try
  <2>3. HasTry' /\ RetriesAsDeclared'
    <3>1. CASE IsCurrentTry(n)
      <4>1. tries'[n].said = said /\ tool' = AfterAnswer(said) /\ tool.current = n
        BY <1>0, <1>3, <3>1 DEF TryAnswers, ToolTypes, Try, IsCurrentTry
      <4> QED BY <1>0, <4>1 DEF HasTry, RetriesAsDeclared, AfterAnswer, TriedAgain, Settled,
                                ToolTypes, Answer
    <3>2. CASE ~IsCurrentTry(n)
      <4>1. tool' = tool /\ tries[n].said = "nothing"
        BY <1>0, <1>3, <3>2 DEF TryAnswers, AnswersAreFinal
      <4>2. \A k \in 1..MaxTries : k # n => tries'[k] = tries[k]
        BY <1>0, <1>3 DEF TryAnswers, ToolTypes
      <4> QED BY <1>0, <4>1, <4>2 DEF HasTry, RetriesAsDeclared, ToolTypes
    <3> QED BY <3>1, <3>2
  <2> QED BY <2>1, <2>2, <2>3 DEF ToolInv
<1>4. CASE TryTimesOut
  <2>1. tool' = TriedAgain /\ tries' = tries
    BY <1>4 DEF TryTimesOut
  <2>2. ToolTypes'
    BY <1>0, <1>4 DEF TryTimesOut, TriedAgain, Settled, ToolTypes
  <2>3. HasTry' /\ RetriesAsDeclared'
    BY <1>0, <1>4 DEF TryTimesOut, TriedAgain, Settled, ToolTypes, HasTry, RetriesAsDeclared
  <2> QED BY <1>0, <2>1, <2>2, <2>3 DEF ToolInv, AnswersAreFinal
<1>5. CASE CeilingPasses
  BY <1>0, <1>5 DEF ToolInv, CeilingPasses, Settled, ToolTypes, AnswersAreFinal,
                    HasTry, RetriesAsDeclared
<1>6. CASE ToolWorkerDies
  <2>0. \A n \in 1..MaxTries : tries[n] \in Try /\ [tries[n] EXCEPT !.stage = "over"] \in Try
    BY <1>0 DEF ToolTypes, Try
  <2>1. \A n \in 1..MaxTries : tries'[n].said = tries[n].said /\ tries'[n] \in Try
    BY <1>6, <2>0 DEF ToolWorkerDies, Try
  <2>2. ToolTypes'
    BY <1>0, <1>6, <2>1 DEF ToolWorkerDies, ToolTypes
  <2>3. AnswersAreFinal'
    BY <1>0, <1>6 DEF ToolWorkerDies, ToolTypes, AnswersAreFinal, Try
  <2>4. HasTry' /\ RetriesAsDeclared'
    BY <1>0, <1>6, <2>1 DEF ToolWorkerDies, ToolTypes, HasTry, RetriesAsDeclared
  <2> QED BY <2>2, <2>3, <2>4 DEF ToolInv
<1>7. CASE UNCHANGED tool_vars
  BY <1>0, <1>7 DEF tool_vars, ToolInv, ToolTypes, AnswersAreFinal, HasTry, RetriesAsDeclared
<1> QED BY <1>1, <1>2, <1>3, <1>4, <1>5, <1>6, <1>7, SpanStepInv DEF ToolNext

LEMMA ToolInvariant == ToolSpec => []ToolInv
BY ToolInitInv, ToolStepInv, PTL DEF ToolSpec

(* Types of the spans, their registries, the call and its tries. *)
THEOREM ToolTypesCorrect == ToolSpec => []ToolTypes
<1>1. ToolInv => ToolTypes
  BY DEF ToolInv
<1> QED BY <1>1, ToolInvariant, PTL

(* A call settles with its last try's answer, and fails early only for a      *)
(* reason the policy or the handler gave, whatever late tries say.           *)
THEOREM RetriesFollowThePolicy == ToolSpec => []RetriesAsDeclared
<1>1. ToolInv => RetriesAsDeclared
  BY DEF ToolInv
<1> QED BY <1>1, ToolInvariant, PTL

-----------------------------------------------------------------------------
(* The spans of a tool's parents. *)

\* What is registered is open, and in its own tier.
RegisteredOpen == \A tier \in Tier : registry[tier] # NoSpan => registry[tier] \in OpenOf(tier)

\* Open spans of one tier have overlapped; one that has not is registered.
OverlapsMarked ==
  \A tier \in Tier : \A s, u \in OpenOf(tier) : s # u => s \in overlapped
AloneRegistered == \A tier \in Tier : \A s \in Alone(tier) : registry[tier] = s

SpanInv ==
  /\ spans \in [Span -> {"unopened", "open", "closed"}]
  /\ registry = [tier \in Tier |-> registry[tier]]
  /\ RegisteredOpen
  /\ OverlapsMarked
  /\ AloneRegistered

(* A span has one tier, which is its registry's. *)
LEMMA TierOfSpan ==
  /\ \A s \in Span : TierOf(s) \in Tier /\ s \in OfTier(TierOf(s)) /\ s # NoSpan
  /\ \A tier \in Tier : OfTier(tier) \subseteq Span
  /\ \A tier \in Tier : \A s \in OfTier(tier) : TierOf(s) = tier
BY SpansDiffer DEF Span, Tier, TierOf, OfTier

LEMMA SpanInitInv == ToolIdle => SpanInv
<1> SUFFICES ASSUME ToolIdle PROVE SpanInv
  OBVIOUS
<1>1. \A tier \in Tier : OpenOf(tier) = {}
  BY TierOfSpan DEF ToolIdle, OpenOf
<1> QED BY <1>1 DEF ToolIdle, SpanInv, RegisteredOpen, OverlapsMarked, AloneRegistered, Alone

LEMMA SpanKept == ASSUME SpanInv, spans' = spans, registry' = registry, overlapped' = overlapped
                  PROVE  SpanInv'
BY DEF SpanInv, RegisteredOpen, OverlapsMarked, AloneRegistered, Alone, OpenOf

LEMMA RegistersInv == ASSUME SpanInv, NEW s \in Span, Registers(s) PROVE SpanInv'
<1> DEFINE tier == TierOf(s)
<1>1. /\ tier \in Tier /\ s \in OfTier(tier) /\ s # NoSpan
      /\ \A other \in Tier : other # tier => s \notin OfTier(other)
  BY TierOfSpan
<1>2. /\ spans' \in [Span -> {"unopened", "open", "closed"}]
      /\ spans'[s] = "open" /\ \A u \in Span : u # s => spans'[u] = spans[u]
      /\ spans[s] = "unopened"
  BY DEF SpanInv, Registers
<1>3. /\ registry' = [r \in Tier |-> registry'[r]]
      /\ registry'[tier] = s
      /\ \A other \in Tier : other # tier => registry'[other] = registry[other]
  BY <1>1 DEF SpanInv, Registers
<1>4. /\ OpenOf(tier)' = OpenOf(tier) \cup {s} /\ s \notin OpenOf(tier)
      /\ \A other \in Tier : other # tier => OpenOf(other)' = OpenOf(other)
  BY <1>1, <1>2, TierOfSpan DEF OpenOf
<1>5. /\ overlapped \subseteq overlapped'
      /\ OpenOf(tier) # {} => OpenOf(tier) \cup {s} \subseteq overlapped'
      /\ \A u : u \in overlapped' => u \in overlapped \/ u \in OpenOf(tier) \/ u = s
  BY DEF Registers
<1>6. RegisteredOpen'
  BY <1>1, <1>3, <1>4 DEF SpanInv, RegisteredOpen
<1>7. OverlapsMarked'
  <2> SUFFICES ASSUME NEW r \in Tier, NEW x \in OpenOf(r)', NEW y \in OpenOf(r)', x # y
               PROVE  x \in overlapped'
    BY DEF OverlapsMarked
  <2>1. CASE r = tier
    BY <2>1, <1>4, <1>5
  <2>2. CASE r # tier
    BY <2>2, <1>4, <1>5 DEF SpanInv, OverlapsMarked
  <2> QED BY <2>1, <2>2
<1>8. AloneRegistered'
  <2> SUFFICES ASSUME NEW r \in Tier, NEW x \in OpenOf(r)', x \notin overlapped'
               PROVE  registry'[r] = x
    BY DEF AloneRegistered, Alone
  <2>1. CASE r = tier
    BY <2>1, <1>3, <1>4, <1>5
  <2>2. CASE r # tier
    BY <2>2, <1>3, <1>4, <1>5 DEF SpanInv, AloneRegistered, Alone
  <2> QED BY <2>1, <2>2
<1> QED BY <1>2, <1>3, <1>6, <1>7, <1>8 DEF SpanInv

LEMMA CloseInv == ASSUME SpanInv, NEW s \in Span, CloseSpan(s) PROVE SpanInv'
<1> DEFINE tier == TierOf(s)
<1>1. /\ tier \in Tier /\ s \in OfTier(tier) /\ s # NoSpan
      /\ \A other \in Tier : other # tier => s \notin OfTier(other)
  BY TierOfSpan
<1>2. /\ spans' \in [Span -> {"unopened", "open", "closed"}]
      /\ spans'[s] = "closed" /\ \A u \in Span : u # s => spans'[u] = spans[u]
      /\ spans[s] = "open" /\ overlapped' = overlapped
  BY DEF SpanInv, CloseSpan
<1>3. /\ registry' = [r \in Tier |-> registry'[r]]
      /\ registry'[tier] = NoSpan
      /\ \A other \in Tier : other # tier => registry'[other] = registry[other]
  BY <1>1 DEF SpanInv, CloseSpan
<1>4. /\ OpenOf(tier)' = OpenOf(tier) \ {s} /\ s \in OpenOf(tier)
      /\ \A other \in Tier : other # tier => OpenOf(other)' = OpenOf(other)
  BY <1>1, <1>2, TierOfSpan DEF OpenOf
<1>5. RegisteredOpen'
  BY <1>3, <1>4 DEF SpanInv, RegisteredOpen
<1>6. OverlapsMarked'
  BY <1>2, <1>4 DEF SpanInv, OverlapsMarked
<1>7. AloneRegistered'
  <2> SUFFICES ASSUME NEW r \in Tier, NEW x \in OpenOf(r)', x \notin overlapped
               PROVE  registry'[r] = x
    BY <1>2 DEF AloneRegistered, Alone
  <2>1. CASE r = tier
    BY <2>1, <1>4 DEF SpanInv, OverlapsMarked
  <2>2. CASE r # tier
    BY <2>2, <1>3, <1>4 DEF SpanInv, AloneRegistered, Alone
  <2> QED BY <2>1, <2>2
<1> QED BY <1>2, <1>3, <1>5, <1>6, <1>7 DEF SpanInv

LEMMA DeathInv == ASSUME SpanInv, ToolWorkerDies PROVE SpanInv'
<1>1. /\ spans' \in [Span -> {"unopened", "open", "closed"}]
      /\ \A s \in Span : spans'[s] # "open"
  BY DEF SpanInv, ToolWorkerDies
<1>2. \A tier \in Tier : OpenOf(tier)' = {} /\ registry'[tier] = NoSpan
  BY <1>1, TierOfSpan DEF OpenOf, ToolWorkerDies
<1>3. registry' = [tier \in Tier |-> registry'[tier]]
  BY DEF ToolWorkerDies
<1> QED BY <1>1, <1>2, <1>3 DEF SpanInv, RegisteredOpen, OverlapsMarked, AloneRegistered, Alone

LEMMA SpanInvariant == ToolSpec => []SpanInv
<1>1. SpanInv /\ [ToolNext]_tool_vars => SpanInv'
  <2> SUFFICES ASSUME SpanInv, [ToolNext]_tool_vars PROVE SpanInv'
    OBVIOUS
  <2>1. CASE \/ ScheduleTool \/ TryTimesOut \/ CeilingPasses \/ UNCHANGED tool_vars
             \/ \E n \in 1..MaxTries : StartTry(n) \/ \E said \in Answer : TryAnswers(n, said)
    BY <2>1, SpanKept DEF ScheduleTool, TryTimesOut, CeilingPasses, StartTry, TryAnswers,
       tool_vars
  <2>2. CASE \E s \in Span : CloseSpan(s)
    BY <2>2, CloseInv
  <2>3. CASE (\E c \in Client : OpenRunSpan(c)) \/ (\E a \in TurnAttempt : OpenTurnSpan(a))
    BY <2>3, RegistersInv DEF OpenRunSpan, OpenTurnSpan, Span
  <2>4. CASE ToolWorkerDies
    BY <2>4, DeathInv
  <2> QED BY <2>1, <2>2, <2>3, <2>4 DEF ToolNext
<1> QED BY <1>1, SpanInitInv, PTL DEF ToolSpec

(* A tool's span hangs below an open span, the turn's before the run's,       *)
(* unless attempts or clients of the id overlapped.                          *)
THEOREM ToolSpansAdopted == ToolSpec => SpansAdopted
<1> DEFINE Adopted ==
      \A n \in 1..MaxTries : tries[n].stage = "none" /\ tries'[n].stage = "running" =>
        LET parent == tries'[n].parent IN
        /\ parent # NoSpan => spans[parent] = "open"
        /\ Alone("turn") # {} => parent \in Alone("turn")
        /\ OpenOf("turn") = {} /\ Alone("run") # {} => parent \in Alone("run")
<1>1. ToolTypes /\ SpanInv /\ [ToolNext]_tool_vars => [Adopted]_tool_vars
  <2> SUFFICES ASSUME ToolTypes, SpanInv, ToolNext,
                      NEW n \in 1..MaxTries, tries[n].stage = "none", tries'[n].stage = "running"
               PROVE  LET parent == tries'[n].parent IN
                      /\ parent # NoSpan => spans[parent] = "open"
                      /\ Alone("turn") # {} => parent \in Alone("turn")
                      /\ OpenOf("turn") = {} /\ Alone("run") # {} => parent \in Alone("run")
    OBVIOUS
  <2>1. tries'[n].parent = AdoptedParent
    <3>1. CASE \E k \in 1..MaxTries : StartTry(k)
      BY <3>1 DEF ToolTypes, StartTry
    <3>2. CASE \E k \in 1..MaxTries, said \in Answer : TryAnswers(k, said)
      BY <3>2 DEF ToolTypes, TryAnswers, Try
    <3>3. CASE ToolWorkerDies
      BY <3>3 DEF ToolTypes, ToolWorkerDies
    <3>4. CASE tries' = tries
      BY <3>4
    <3> QED BY <3>1, <3>2, <3>3, <3>4 DEF ToolNext, OpenRunSpan, OpenTurnSpan, Registers,
                                          CloseSpan, ScheduleTool, TryTimesOut, CeilingPasses
  <2>2. "turn" \in Tier /\ "run" \in Tier
    BY DEF Tier
  <2>3. AdoptedParent # NoSpan => spans[AdoptedParent] = "open"
    BY <2>2 DEF SpanInv, RegisteredOpen, AdoptedParent, OpenOf
  <2>4. Alone("turn") # {} => AdoptedParent \in Alone("turn")
    BY <2>2, TierOfSpan DEF SpanInv, AloneRegistered, AdoptedParent, Alone, OpenOf
  <2>5. OpenOf("turn") = {} /\ Alone("run") # {} => AdoptedParent \in Alone("run")
    BY <2>2 DEF SpanInv, RegisteredOpen, AloneRegistered, AdoptedParent
  <2> QED BY <2>1, <2>3, <2>4, <2>5
<1>2. ToolSpec => [][Adopted]_tool_vars
  BY <1>1, ToolTypesCorrect, SpanInvariant, PTL DEF ToolSpec
<1> QED BY <1>2 DEF SpansAdopted

-----------------------------------------------------------------------------
(* The runtime. *)

\* Where the starter is says whether there is a thread; what a thread ended
\* with is known once it has.
ThreadState ==
  /\ starter \in {"building", "connected", "bridged"} => worker = "none"
  /\ starter \in {"stopping", "running"} => ready = "sent"
  /\ ready = "dropped" => worker = "ended"
  /\ worker = "none" => worker_result = "none" /\ ready = "empty"

RuntimeInv == RuntimeTypes /\ ThreadState /\ NoWorkerLeft

LEMMA RuntimeInvariant == RuntimeSpec => []RuntimeInv
<1>1. RuntimeIdle => RuntimeInv
  BY DEF RuntimeIdle, RuntimeInv, RuntimeTypes, ThreadState, NoWorkerLeft, Ended
<1>2. RuntimeInv /\ [RuntimeNext]_runtime_vars => RuntimeInv'
  <2> SUFFICES ASSUME RuntimeInv, [RuntimeNext]_runtime_vars PROVE RuntimeInv'
    OBVIOUS
  <2> USE DEF RuntimeInv, RuntimeTypes, ThreadState, NoWorkerLeft, Ended
  <2>1. CASE \/ ConnectFails \/ Connects \/ BridgeRefused \/ SpawnWorkerFails \/ SpawnWorker
             \/ ReceivesReady \/ ReadyLost \/ Abandons
             \/ \E configured \in BOOLEAN : Attaches(configured)
    BY <2>1 DEF ConnectFails, Connects, BridgeRefused, SpawnWorkerFails, SpawnWorker,
                ReceivesReady, ReadyLost, Abandons, Attaches, StarterGoes
  <2>2. CASE \/ AssembleFails \/ WorkerReady \/ NobodyToServe \/ WorkerFails \/ WorkerPanics
             \/ WorkerDrains
    BY <2>2 DEF AssembleFails, WorkerReady, NobodyToServe, WorkerFails, WorkerPanics,
                WorkerDrains, WorkerEnds
  <2>3. CASE AsksToStop \/ JoinsWorker
    BY <2>3 DEF AsksToStop, JoinsWorker
  <2>4. CASE UNCHANGED runtime_vars
    BY <2>4 DEF runtime_vars
  <2> QED BY <2>1, <2>2, <2>3, <2>4 DEF RuntimeNext
<1> QED BY <1>1, <1>2, PTL DEF RuntimeSpec

(* A start that failed and a shutdown that returned leave no worker serving,  *)
(* and the shutdown's result is the worker's.                                *)
THEOREM NoWorkerIsLeft == RuntimeSpec => []NoWorkerLeft
<1>1. RuntimeInv => NoWorkerLeft
  BY DEF RuntimeInv
<1> QED BY <1>1, RuntimeInvariant, PTL
-----------------------------------------------------------------------------
(* The clients. *)

CallerState ==
  [stage : {"idle", "talking", "told", "awaiting", "done"},
   workflow : Workflow, bound : Run, told : Run,
   got : RunResult \cup {"none", "client error"}]

ChatState == [interactive : BOOLEAN, queued : 0..MaxQueued, ending : BOOLEAN]

LEMMA RunnerTypesAre ==
  RunnerTypes <=> /\ chat \in [Workflow -> ChatState]
                  /\ ended \in [Workflow -> [Run -> RunResult \cup {"none"}]]
                  /\ caller \in [Caller -> CallerState]
BY DEF RunnerTypes, ChatState, CallerState

LEMMA RunnerInitTypes == RunnerIdle => RunnerTypes
<1> SUFFICES ASSUME RunnerIdle PROVE RunnerTypes
  OBVIOUS
<1>1. (CHOOSE w \in Workflow : TRUE) \in Workflow
  BY CallersHaveIds
<1>2. IdleCaller \in CallerState
  BY <1>1, BoundsAreNaturals DEF IdleCaller, CallerState, Run
<1>3. [interactive |-> FALSE, queued |-> 0, ending |-> FALSE] \in ChatState
  BY CallersHaveIds DEF ChatState
<1> QED BY <1>2, <1>3, RunnerTypesAre DEF RunnerIdle

(* A client's step is a step of the bridge's engine, or none of the bridge's. *)
LEMMA RunnerStepIsBridgeStep == RunnerNext => [Next]_vars
<1> SUFFICES ASSUME RunnerNext PROVE Next \/ UNCHANGED vars
  OBVIOUS
<1>1. \/ \E w \in Workflow : StartRun(w) \/ CloseRun(w)
      \/ UNCHANGED vars
  BY DEF RunnerNext, RunOnce, StartConversation, ResumeConversation, CallFails, Send, End,
         AwaitResult, GetResult, FetchFails, TakesMessage, RunEnds, StartOrJoin
<1> QED BY <1>1 DEF Next

(* What a client's step makes of the caller that takes it. *)
LEMMA GoesTypes ==
  ASSUME RunnerTypes, NEW u \in Caller, NEW new \in CallerState, Goes(u, new),
         chat' \in [Workflow -> ChatState], ended' = ended
  PROVE  RunnerTypes'
<1>1. caller' \in [Caller -> CallerState]
  BY RunnerTypesAre DEF Goes
<1> QED BY <1>1 DEF RunnerTypes, ChatState, CallerState

LEMMA StartTypes ==
  ASSUME RunnerTypes, NEW w \in Workflow, NEW i \in BOOLEAN, StartOrJoin(w, i)
  PROVE  chat' \in [Workflow -> ChatState]
<1>1. [interactive |-> i, queued |-> 0, ending |-> FALSE] \in ChatState
  BY CallersHaveIds DEF ChatState
<1> QED BY <1>1, RunnerTypesAre DEF StartOrJoin

LEMMA RunnerStepTypes == TypeOK /\ TypeOK' /\ RunnerTypes /\ RunnerNext => RunnerTypes'
<1> SUFFICES ASSUME TypeOK, TypeOK', RunnerTypes, RunnerNext PROVE RunnerTypes'
  OBVIOUS
<1>0. /\ chat \in [Workflow -> ChatState] /\ caller \in [Caller -> CallerState]
      /\ ended \in [Workflow -> [Run -> RunResult \cup {"none"}]]
      /\ \A w \in Workflow : run[w].no \in Run /\ run'[w].no \in Run
  BY RunnerTypesAre DEF TypeOK
<1>1. ASSUME NEW u \in Caller, NEW w \in Workflow, NEW i \in BOOLEAN, RunOnce(u, w, i)
      PROVE  RunnerTypes'
  <2>1. [caller[u] EXCEPT !.stage = "awaiting", !.workflow = w, !.bound = run'[w].no]
          \in CallerState
    BY <1>0 DEF CallerState
  <2> QED BY <1>1, <2>1, StartTypes, GoesTypes DEF RunOnce
<1>2. ASSUME NEW u \in Caller, NEW w \in Workflow, StartConversation(u, w)
      PROVE  RunnerTypes'
  <2>1. [caller[u] EXCEPT !.stage = "talking", !.workflow = w] \in CallerState
    BY <1>0 DEF CallerState
  <2>2. chat' \in [Workflow -> ChatState]
    BY <1>2, StartTypes DEF StartConversation
  <2> QED BY <1>2, <2>1, <2>2, GoesTypes DEF StartConversation
<1>3. ASSUME NEW u \in Caller, NEW w \in Workflow, ResumeConversation(u, w)
      PROVE  RunnerTypes'
  <2>1. [caller[u] EXCEPT !.stage = "talking", !.workflow = w] \in CallerState
    BY <1>0 DEF CallerState
  <2> QED BY <1>0, <1>3, <2>1, GoesTypes DEF ResumeConversation
<1>4. ASSUME NEW u \in Caller, CallFails(u) PROVE RunnerTypes'
  <2>1. [caller[u] EXCEPT !.stage = "done", !.got = "client error"] \in CallerState
    BY <1>0 DEF CallerState
  <2> QED BY <1>0, <1>4, <2>1, GoesTypes DEF CallFails, ClientError
<1>5. ASSUME NEW u \in Caller, Send(u) PROVE RunnerTypes'
  <2> DEFINE w == caller[u].workflow
  <2>1. w \in Workflow /\ chat[w] \in ChatState
    BY <1>0 DEF CallerState
  <2>2. chat[w].queued + 1 \in 0..MaxQueued
    BY <2>1, <1>5, CallersHaveIds DEF Send, ChatState
  <2>3. [chat[w] EXCEPT !.queued = chat[w].queued + 1] \in ChatState
    BY <2>1, <2>2 DEF ChatState
  <2>4. chat' \in [Workflow -> ChatState]
    BY <1>0, <1>5, <2>3 DEF Send
  <2> QED BY <1>5, <2>4 DEF Send, RunnerTypes, ChatState
<1>6. ASSUME NEW u \in Caller, End(u) PROVE RunnerTypes'
  <2> DEFINE w == caller[u].workflow
  <2>1. w \in Workflow /\ chat[w] \in ChatState
    BY <1>0 DEF CallerState
  <2>2. /\ [caller[u] EXCEPT !.stage = "told", !.told = run[w].no] \in CallerState
        /\ [caller[u] EXCEPT !.stage = "done", !.got = "client error"] \in CallerState
    BY <1>0, <2>1 DEF CallerState
  <2>3. [chat[w] EXCEPT !.ending = TRUE] \in ChatState
    BY <2>1 DEF ChatState
  <2>4. chat' \in [Workflow -> ChatState]
    BY <1>0, <1>6, <2>3 DEF End
  <2> QED BY <1>6, <2>2, <2>4, GoesTypes DEF End, ClientError
<1>7. ASSUME NEW u \in Caller, AwaitResult(u) PROVE RunnerTypes'
  <2>1. caller[u].workflow \in Workflow
    BY <1>0 DEF CallerState
  <2>2. [caller[u] EXCEPT !.stage = "awaiting", !.bound = run[caller[u].workflow].no]
          \in CallerState
    BY <1>0, <2>1 DEF CallerState
  <2> QED BY <1>0, <1>7, <2>2, GoesTypes DEF AwaitResult
<1>8. ASSUME NEW u \in Caller, GetResult(u) PROVE RunnerTypes'
  <2> DEFINE result == ended[caller[u].workflow][caller[u].bound]
  <2>1. caller[u].workflow \in Workflow /\ caller[u].bound \in Run
    BY <1>0 DEF CallerState
  <2>2. result \in RunResult \cup {"none"}
    BY <1>0, <2>1
  <2>3. [caller[u] EXCEPT !.stage = "done", !.got = result] \in CallerState
    BY <1>0, <2>2 DEF CallerState
  <2> QED BY <1>0, <1>8, <2>3, GoesTypes DEF GetResult
<1>8a. ASSUME NEW u \in Caller, FetchFails(u) PROVE RunnerTypes'
  <2>1. [caller[u] EXCEPT !.stage = "done", !.got = "failed"] \in CallerState
    BY <1>0 DEF CallerState, RunResult
  <2> QED BY <1>0, <1>8a, <2>1, GoesTypes DEF FetchFails
<1>9. ASSUME NEW w \in Workflow, TakesMessage(w) PROVE RunnerTypes'
  <2>1. chat[w] \in ChatState
    BY <1>0
  <2>2. chat[w].queued - 1 \in 0..MaxQueued
    BY <2>1, <1>9, CallersHaveIds DEF TakesMessage, ChatState
  <2>3. [chat[w] EXCEPT !.queued = chat[w].queued - 1] \in ChatState
    BY <2>1, <2>2 DEF ChatState
  <2>4. chat' \in [Workflow -> ChatState]
    BY <1>0, <1>9, <2>3 DEF TakesMessage
  <2> QED BY <1>9, <2>4 DEF TakesMessage, RunnerTypes, ChatState
<1>10. ASSUME NEW w \in Workflow, NEW result \in RunResult, RunEnds(w, result)
       PROVE  RunnerTypes'
  <2>1. [ended[w] EXCEPT ![run[w].no] = result] \in [Run -> RunResult \cup {"none"}]
    BY <1>0
  <2>2. ended' \in [Workflow -> [Run -> RunResult \cup {"none"}]]
    BY <1>0, <1>10, <2>1 DEF RunEnds
  <2> QED BY <1>10, <2>2 DEF RunEnds, RunnerTypes
<1> QED BY <1>1, <1>2, <1>3, <1>4, <1>5, <1>6, <1>7, <1>8, <1>8a, <1>9, <1>10 DEF RunnerNext

-----------------------------------------------------------------------------
(* The process.  Each scene is a step of its own component, and leaves the    *)
(* others as they are; the clients' scene is a step of the bridge's engine.  *)

WorkerInv == IInv /\ RunnerTypes /\ ToolInv /\ RuntimeInv

LEMMA SceneSteps ==
  [MCNext]_all_vars =>
    /\ [Next]_vars /\ [ToolNext]_tool_vars /\ [RuntimeNext]_runtime_vars
    /\ RunnerNext \/ UNCHANGED runner_vars
<1> SUFFICES ASSUME [MCNext]_all_vars
             PROVE  /\ [Next]_vars /\ [ToolNext]_tool_vars /\ [RuntimeNext]_runtime_vars
                    /\ RunnerNext \/ UNCHANGED runner_vars
  OBVIOUS
<1>1. CASE BridgeScene
  BY <1>1 DEF BridgeScene
<1>2. CASE ClientScene
  BY <1>2, RunnerStepIsBridgeStep DEF ClientScene
<1>3. CASE ToolScene
  BY <1>3 DEF ToolScene, bridge_vars
<1>4. CASE RuntimeScene
  BY <1>4 DEF RuntimeScene, bridge_vars
<1>5. CASE UNCHANGED all_vars
  BY <1>5 DEF all_vars, bridge_vars
<1> QED BY <1>1, <1>2, <1>3, <1>4, <1>5 DEF MCNext

(* Whatever the process does is what its bridge, its tool activity and its    *)
(* runtime may do by themselves: their theorems are theorems of the process. *)
THEOREM WorkerIsItsParts == MCSpec => Spec /\ ToolSpec /\ RuntimeSpec
<1>1. MCInit => Init /\ ToolIdle /\ RuntimeIdle
  BY DEF MCInit, RunnerInit
<1>2. [MCNext]_all_vars => [Next]_vars /\ [ToolNext]_tool_vars /\ [RuntimeNext]_runtime_vars
  BY SceneSteps
<1> QED BY <1>1, <1>2, PTL DEF MCSpec, Spec, ToolSpec, RuntimeSpec

LEMMA WorkerInvariant == MCSpec => []WorkerInv
<1>1. MCInit => RunnerTypes
  BY RunnerInitTypes DEF MCInit, RunnerInit
<1>2. IInv /\ IInv' /\ RunnerTypes /\ [MCNext]_all_vars => RunnerTypes'
  <2> SUFFICES ASSUME IInv, IInv', RunnerTypes, RunnerNext \/ UNCHANGED runner_vars
               PROVE  RunnerTypes'
    BY SceneSteps
  <2>1. CASE RunnerNext
    BY <2>1, RunnerStepTypes DEF IInv
  <2>2. CASE UNCHANGED runner_vars
    BY <2>2 DEF runner_vars, RunnerTypes
  <2> QED BY <2>1, <2>2
<1>3. MCSpec => []IInv /\ []ToolInv /\ []RuntimeInv
  BY WorkerIsItsParts, Invariant, ToolInvariant, RuntimeInvariant, PTL
<1>4. MCSpec => []RunnerTypes
  BY <1>1, <1>2, <1>3, PTL DEF MCSpec
<1> QED BY <1>3, <1>4, PTL DEF WorkerInv

(* The promises of the parts, in the process that has them all.              *)
THEOREM WorkerKeepsItsPromises ==
  MCSpec => /\ []OneObserver /\ EvictsLateOnly
            /\ []RetriesAsDeclared /\ SpansAdopted
            /\ []NoWorkerLeft
BY WorkerIsItsParts, OneObserverPerRun, LiveTokensStay, RetriesFollowThePolicy,
   ToolSpansAdopted, NoWorkerIsLeft, PTL

(* Types of the clients', the tool activity's and the runtime's state, and    *)
(* that no span is registered in the other tier's registry.                  *)
THEOREM ComponentTypesCorrect == MCSpec => []ComponentTypes
<1>1. WorkerInv => ComponentTypes
  BY DEF WorkerInv, ToolInv, RuntimeInv, ComponentTypes
<1> QED BY <1>1, WorkerInvariant, PTL
-----------------------------------------------------------------------------
(* What the clients are answered. *)

\* How a run ended is written once, when it closes.
EndsOfClosedRuns ==
  \A w \in Workflow, n \in Run : ended[w][n] # "none" => ClosedRun(w, n)

\* Where a caller is says what it was bound to, and whether it has an answer.
CallerBound(u) ==
  LET s == caller[u] IN
  /\ s.got # "none" => s.stage = "done"
  /\ s.stage \in {"idle", "talking"} => s.told = 0
  /\ s.stage = "told" => s.told <= run[s.workflow].no
  /\ s.stage = "awaiting" => s.told <= s.bound

\* An output, of a run that did not fail.
Delivered == RunResult \ {"failed"}

\* A caller has the output of the run it was bound to, which is closed and keeps
\* it; it is the run it told to end, or a later one of the id.
AnsweredBy(u) ==
  LET s == caller[u] IN
  s.got \in Delivered =>
    /\ s.got = ended[s.workflow][s.bound]
    /\ ClosedRun(s.workflow, s.bound)
    /\ s.told <= s.bound

AnsweredByTheRun == \A u \in Caller : AnsweredBy(u)
ClientInv == EndsOfClosedRuns /\ AnsweredByTheRun /\ \A u \in Caller : CallerBound(u)

LEMMA ClientInit == MCInit => ClientInv
<1> SUFFICES ASSUME MCInit PROVE ClientInv
  OBVIOUS
<1>1. \A u \in Caller : caller[u] = IdleCaller
  BY DEF MCInit, RunnerInit, RunnerIdle
<1>2. PICK w : IdleCaller = [stage |-> "idle", workflow |-> w, bound |-> 0, told |-> 0,
                             got |-> "none"]
  BY Zenon DEF IdleCaller
<1>3. \A u \in Caller :
        caller[u].stage = "idle" /\ caller[u].got = "none" /\ caller[u].told = 0
  BY <1>1, <1>2
<1>4. \A u \in Caller : AnsweredBy(u) /\ CallerBound(u)
  BY <1>3 DEF AnsweredBy, CallerBound, Delivered, RunResult
<1>5. EndsOfClosedRuns
  BY DEF MCInit, RunnerInit, RunnerIdle, EndsOfClosedRuns
<1> QED BY <1>5, <1>4 DEF ClientInv, AnsweredByTheRun

(* A run's number only grows, and a closed run's end stands. *)
LEMMA EndsStand ==
  ASSUME WorkerInv, EndsOfClosedRuns, [MCNext]_all_vars
  PROVE  /\ EndsOfClosedRuns'
         /\ \A w \in Workflow : run[w].no <= run'[w].no
         /\ \A w \in Workflow, n \in Run :
              /\ ClosedRun(w, n) => ClosedRun(w, n)'
              /\ ended[w][n] # "none" => ended'[w][n] = ended[w][n]
<1>0. /\ TypeOK /\ run \in [Workflow -> [no : Run, open : BOOLEAN]]
      /\ \A w \in Workflow : run[w].no \in Run /\ run[w].no \in Nat
      /\ ended \in [Workflow -> [Run -> RunResult \cup {"none"}]]
  <2>1. TypeOK /\ RunnerTypes
    BY DEF WorkerInv, IInv
  <2>2. run \in [Workflow -> [no : Run, open : BOOLEAN]] /\ Run \subseteq Nat
    BY <2>1, BoundsAreNaturals DEF TypeOK, Run
  <2>3. \A w \in Workflow : run[w].no \in Run
    BY <2>2
  <2> QED BY <2>1, <2>2, <2>3 DEF RunnerTypes
<1>1. \/ UNCHANGED run
      \/ \E w \in Workflow : StartRun(w) \/ CloseRun(w)
  <2>1. [Next]_vars
    BY SceneSteps
  <2>2. CASE \E w \in Workflow : StartRun(w) \/ CloseRun(w)
    BY <2>2
  <2>3. CASE ~\E w \in Workflow : StartRun(w) \/ CloseRun(w)
    BY <2>1, <2>3 DEF Next, vars, DispatchAttempt, AttachNothing, Mint, WatchTerminal, Observer,
       ObserveOutcome, ObserveError, Evict, Unwatch, Request, Authorise, AnswerPlainly, Submit,
       SubmitFails, UpdateCompletes, UpdateFails, Keepalive, SendFinal, HarnessReads,
       HarnessHangsUp, Step, Restart
  <2> QED BY <2>2, <2>3
<1>2. \A w \in Workflow : run[w].no <= run'[w].no
  <2>1. CASE UNCHANGED run
    BY <1>0, <2>1
  <2>2. ASSUME NEW v \in Workflow, StartRun(v) PROVE \A w \in Workflow : run[w].no <= run'[w].no
    BY <1>0, <2>2 DEF StartRun
  <2>3. ASSUME NEW v \in Workflow, CloseRun(v) PROVE \A w \in Workflow : run[w].no <= run'[w].no
    BY <1>0, <2>3 DEF CloseRun
  <2> QED BY <1>1, <2>1, <2>2, <2>3
<1>3. \A w \in Workflow, n \in Run : ClosedRun(w, n) => ClosedRun(w, n)'
  BY <1>0, <1>1, ClosedStaysClosed
<1>4. CASE \E w \in Workflow, result \in RunResult : RunEnds(w, result)
  <2>1. PICK w \in Workflow, result \in RunResult : RunEnds(w, result)
    BY <1>4
  <2>2. /\ run[w].open /\ run'[w].no = run[w].no /\ ~run'[w].open
        /\ ended'[w][run[w].no] = result
        /\ \A v \in Workflow, n \in Run :
             v # w \/ n # run[w].no => ended'[v][n] = ended[v][n]
    BY <1>0, <2>1 DEF RunEnds, CloseRun
  <2>3. ended[w][run[w].no] = "none"
    <3>1. ~ClosedRun(w, run[w].no)
      BY <1>0, <2>2 DEF ClosedRun
    <3> QED BY <1>0, <3>1 DEF EndsOfClosedRuns
  <2>4. ClosedRun(w, run[w].no)'
    BY <1>0, <2>2 DEF ClosedRun
  <2>5. \A v \in Workflow, n \in Run : ended[v][n] # "none" => ended'[v][n] = ended[v][n]
    BY <2>2, <2>3
  <2>6. ASSUME NEW v \in Workflow, NEW n \in Run, ended'[v][n] # "none"
        PROVE  ClosedRun(v, n)'
    <3>1. CASE v = w /\ n = run[w].no
      BY <2>2, <2>4, <3>1 DEF ClosedRun
    <3>2. CASE ~(v = w /\ n = run[w].no)
      BY <1>3, <2>2, <2>6, <3>2 DEF EndsOfClosedRuns
    <3> QED BY <3>1, <3>2
  <2>7. EndsOfClosedRuns'
    BY <2>6 DEF EndsOfClosedRuns
  <2> QED BY <1>2, <1>3, <2>5, <2>7
<1>5. CASE ~\E w \in Workflow, result \in RunResult : RunEnds(w, result)
  <2>1. ended' = ended
    BY <1>5, SceneSteps DEF RunnerNext, runner_vars, RunOnce, StartConversation,
       ResumeConversation, CallFails, Send, End, AwaitResult, GetResult, FetchFails, TakesMessage
  <2>2. EndsOfClosedRuns'
    BY <1>3, <2>1 DEF EndsOfClosedRuns
  <2> QED BY <1>2, <1>3, <2>1, <2>2
<1> QED BY <1>4, <1>5

LEMMA ClientStep ==
  ASSUME WorkerInv, ClientInv, [MCNext]_all_vars
  PROVE  ClientInv'
<1>0. /\ caller \in [Caller -> CallerState]
      /\ ended \in [Workflow -> [Run -> RunResult \cup {"none"}]]
      /\ \A w \in Workflow : run[w].no \in Nat /\ run'[w].no \in Nat
      /\ Run \subseteq Nat /\ 0 \in Run
  <2>1. run \in [Workflow -> [no : Run, open : BOOLEAN]]
    BY DEF WorkerInv, IInv, TypeOK
  <2>2. IInv'
    BY SceneSteps, StepInv DEF WorkerInv
  <2>3. run' \in [Workflow -> [no : Run, open : BOOLEAN]]
    BY <2>2 DEF IInv, TypeOK
  <2>4. Run \subseteq Nat /\ 0 \in Run
    BY BoundsAreNaturals DEF Run
  <2> QED BY <2>1, <2>3, <2>4, RunnerTypesAre DEF WorkerInv
<1>1. /\ EndsOfClosedRuns'
      /\ \A w \in Workflow : run[w].no <= run'[w].no
      /\ \A w \in Workflow, n \in Run :
           /\ ClosedRun(w, n) => ClosedRun(w, n)'
           /\ ended[w][n] # "none" => ended'[w][n] = ended[w][n]
  BY EndsStand DEF ClientInv
<1>2. ASSUME NEW u \in Caller, caller'[u] = caller[u] PROVE AnsweredBy(u)' /\ CallerBound(u)'
  <2>1. AnsweredBy(u) /\ CallerBound(u) /\ caller[u] \in CallerState
    BY <1>0 DEF ClientInv, AnsweredByTheRun
  <2>2. caller[u].workflow \in Workflow /\ caller[u].bound \in Run /\ caller[u].told \in Nat
    BY <1>0, <2>1 DEF CallerState
  <2>3. AnsweredBy(u)'
    <3> SUFFICES ASSUME caller[u].got \in Delivered
                 PROVE  /\ caller[u].got = ended'[caller[u].workflow][caller[u].bound]
                        /\ ClosedRun(caller[u].workflow, caller[u].bound)'
                        /\ caller[u].told <= caller[u].bound
      BY <1>2 DEF AnsweredBy, ClosedRun
    <3>1. /\ caller[u].got = ended[caller[u].workflow][caller[u].bound]
          /\ ClosedRun(caller[u].workflow, caller[u].bound)
          /\ caller[u].told <= caller[u].bound
      BY <2>1 DEF AnsweredBy
    <3>2. caller[u].got # "none"
      BY DEF Delivered, RunResult
    <3>3. caller[u].got = ended'[caller[u].workflow][caller[u].bound]
      BY <1>1, <2>2, <3>1, <3>2
    <3>4. ClosedRun(caller[u].workflow, caller[u].bound)'
      BY <1>1, <1>2, <2>2, <3>1 DEF ClosedRun
    <3> QED BY <3>1, <3>3, <3>4
  <2>4. CallerBound(u)'
    BY <1>0, <1>1, <1>2, <2>1, <2>2 DEF CallerBound
  <2> QED BY <2>3, <2>4
<1>3. ASSUME NEW u \in Caller, caller'[u] # caller[u] PROVE AnsweredBy(u)' /\ CallerBound(u)'
  <2>0. /\ AnsweredBy(u) /\ CallerBound(u) /\ caller[u] \in CallerState
        /\ caller[u].workflow \in Workflow /\ caller[u].bound \in Run /\ caller[u].told \in Run
    BY <1>0 DEF ClientInv, AnsweredByTheRun, CallerState
  <2>1. RunnerNext
    BY <1>3, SceneSteps DEF runner_vars
  <2>2. ASSUME NEW v \in Caller, NEW new, Goes(v, new)
        PROVE  v = u /\ caller'[u] = new
    BY <1>0, <1>3, <2>2 DEF Goes
  <2>3. CASE \E v \in Caller, w \in Workflow, i \in BOOLEAN : RunOnce(v, w, i)
    <3>1. PICK v \in Caller, w \in Workflow, i \in BOOLEAN : RunOnce(v, w, i)
      BY <2>3
    <3>2. /\ caller[u].stage = "idle"
          /\ caller'[u] = [caller[u] EXCEPT !.stage = "awaiting", !.workflow = w,
                                            !.bound = run'[w].no]
      <4>1. /\ caller[v].stage = "idle"
            /\ Goes(v, [caller[v] EXCEPT !.stage = "awaiting", !.workflow = w,
                                         !.bound = run'[w].no])
        BY <3>1 DEF RunOnce
      <4>2. u = v
        BY <2>2, <4>1
      <4> QED BY <2>2, <4>1, <4>2
    <3>3. /\ caller'[u].stage = "awaiting" /\ caller'[u].got = caller[u].got
          /\ caller'[u].told = caller[u].told /\ caller'[u].bound = run'[w].no
      BY <2>0, <3>2 DEF CallerState
    <3>4. caller'[u].got = "none" /\ caller'[u].told = 0
      BY <2>0, <3>2, <3>3 DEF CallerBound
    <3> QED BY <1>0, <3>3, <3>4 DEF AnsweredBy, CallerBound, Delivered, RunResult
  <2>4. CASE \E v \in Caller, w \in Workflow : StartConversation(v, w) \/ ResumeConversation(v, w)
    <3>1. PICK v \in Caller, w \in Workflow : StartConversation(v, w) \/ ResumeConversation(v, w)
      BY <2>4
    <3>2. /\ caller[u].stage = "idle"
          /\ caller'[u] = [caller[u] EXCEPT !.stage = "talking", !.workflow = w]
      BY <2>2, <3>1 DEF StartConversation, ResumeConversation
    <3>3. /\ caller'[u].stage = "talking" /\ caller'[u].got = caller[u].got
          /\ caller'[u].told = caller[u].told
      BY <2>0, <3>2 DEF CallerState
    <3> QED BY <2>0, <3>2, <3>3 DEF AnsweredBy, CallerBound, Delivered, RunResult
  <2>5. CASE \E v \in Caller : CallFails(v) \/ End(v)
    <3>1. PICK v \in Caller : CallFails(v) \/ End(v)
      BY <2>5
    <3>2. CASE ClientError(v)
      <4>1. caller'[u] = [caller[u] EXCEPT !.stage = "done", !.got = "client error"]
        <5>1. Goes(v, [caller[v] EXCEPT !.stage = "done", !.got = "client error"])
          BY <3>2 DEF ClientError
        <5>2. u = v
          BY <2>2, <5>1
        <5> QED BY <2>2, <5>1, <5>2
      <4>2. caller'[u].stage = "done" /\ caller'[u].got = "client error"
        BY <2>0, <4>1 DEF CallerState
      <4> QED BY <4>2 DEF AnsweredBy, CallerBound, Delivered, RunResult
    <3>3. CASE ~ClientError(v)
      <4>1. End(v)
        BY <3>1, <3>3 DEF CallFails
      <4>2. /\ u = v /\ UNCHANGED vars /\ caller[u].stage = "talking"
            /\ caller'[u] = [caller[u] EXCEPT !.stage = "told",
                                              !.told = run[caller[u].workflow].no]
        BY <2>2, <3>3, <4>1 DEF End
      <4>3. /\ caller'[u].stage = "told" /\ caller'[u].got = caller[u].got
            /\ caller'[u].workflow = caller[u].workflow
            /\ caller'[u].told = run[caller[u].workflow].no /\ run' = run
        BY <2>0, <4>2 DEF CallerState, vars
      <4> QED BY <1>0, <2>0, <4>2, <4>3 DEF AnsweredBy, CallerBound, Delivered, RunResult
    <3> QED BY <3>2, <3>3
  <2>6. CASE \E v \in Caller : AwaitResult(v)
    <3>1. PICK v \in Caller : AwaitResult(v)
      BY <2>6
    <3>2. /\ caller[u].stage = "told"
          /\ caller'[u] = [caller[u] EXCEPT !.stage = "awaiting",
                                            !.bound = run[caller[u].workflow].no]
      <4>1. /\ caller[v].stage = "told"
            /\ Goes(v, [caller[v] EXCEPT !.stage = "awaiting",
                                         !.bound = run[caller[v].workflow].no])
        BY <3>1 DEF AwaitResult
      <4>2. u = v
        BY <2>2, <4>1
      <4> QED BY <2>2, <4>1, <4>2
    <3>3. /\ caller'[u].stage = "awaiting" /\ caller'[u].got = caller[u].got
          /\ caller'[u].told = caller[u].told
          /\ caller'[u].bound = run[caller[u].workflow].no
      BY <2>0, <3>2 DEF CallerState
    <3> QED BY <2>0, <3>2, <3>3 DEF AnsweredBy, CallerBound, Delivered, RunResult
  <2>7. CASE \E v \in Caller : GetResult(v)
    <3>1. PICK v \in Caller : GetResult(v)
      BY <2>7
    <3> DEFINE result == ended[caller[u].workflow][caller[u].bound]
    <3>2. /\ caller[u].stage = "awaiting" /\ result # "none" /\ ended' = ended
          /\ caller'[u] = [caller[u] EXCEPT !.stage = "done", !.got = result]
      BY <2>2, <3>1 DEF GetResult
    <3>3. /\ caller'[u].stage = "done" /\ caller'[u].got = result
          /\ caller'[u].workflow = caller[u].workflow
          /\ caller'[u].told = caller[u].told /\ caller'[u].bound = caller[u].bound
      BY <2>0, <3>2 DEF CallerState
    <3>4. ClosedRun(caller[u].workflow, caller[u].bound)'
      BY <1>1, <2>0, <3>2 DEF ClientInv, EndsOfClosedRuns
    <3>5. caller[u].told <= caller[u].bound
      BY <2>0, <3>2 DEF CallerBound
    <3> QED BY <3>2, <3>3, <3>4, <3>5 DEF AnsweredBy, CallerBound, ClosedRun
  <2>8. CASE \E v \in Caller : FetchFails(v)
    <3>1. PICK v \in Caller : FetchFails(v)
      BY <2>8
    <3>2. caller'[u] = [caller[u] EXCEPT !.stage = "done", !.got = "failed"]
      BY <2>2, <3>1 DEF FetchFails
    <3>3. caller'[u].stage = "done" /\ caller'[u].got = "failed"
      BY <2>0, <3>2 DEF CallerState
    <3> QED BY <3>3 DEF AnsweredBy, CallerBound, Delivered
  <2> QED BY <1>3, <2>1, <2>3, <2>4, <2>5, <2>6, <2>7, <2>8 DEF RunnerNext, Send, TakesMessage, RunEnds
<1> QED BY <1>1, <1>2, <1>3 DEF ClientInv, AnsweredByTheRun

(* A caller that is given an output has the one of the run it was bound to,   *)
(* for good: the run that `run` started or joined, or for Conversation::end   *)
(* the run it told to end or a later one of the id; whoever else talks to the *)
(* run, ends it or starts the id again meanwhile.  An error says less: a run  *)
(* that failed or a get_result that did (runner.rs run, Conversation::end).   *)
THEOREM CallersGetTheirRunsEnd == MCSpec => []AnsweredByTheRun
<1>1. WorkerInv /\ ClientInv /\ [MCNext]_all_vars => ClientInv'
  BY ClientStep
<1>2. ClientInv => AnsweredByTheRun
  BY DEF ClientInv
<1> QED BY <1>1, <1>2, ClientInit, WorkerInvariant, PTL DEF MCSpec
=============================================================================
