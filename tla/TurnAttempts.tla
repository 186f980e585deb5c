----------------------------- MODULE TurnAttempts -----------------------------
(***************************************************************************)
(* One turn as an activity: TurnActivities::execute_turn                   *)
(* (crates/odori-agents/src/run.rs), its attempts, and what one attempt    *)
(* leaves to the next through heartbeat details: the backend session to    *)
(* fork from and the usage already spent.                                  *)
(*                                                                         *)
(* An attempt is two tasks on a multi-threaded runtime.  The provider      *)
(* emits events into a bounded channel that drops what does not fit, and   *)
(* publishes usage beside it; the pump turns events into heartbeats.  A    *)
(* heartbeat is handed to the SDK and reaches the engine some time later,  *)
(* or with the attempt's answer, or never.  The engine gives up on an      *)
(* attempt when a timeout fires; the attempt may live on as a zombie, whose *)
(* heartbeats and answer the engine ignores.                               *)
(*                                                                         *)
(* A usage is one figure: the code treats each of its figures alike.       *)
(* Assumed of the outside: the engine keeps the newest details of a turn   *)
(* across its attempts; the SDK sends the last heartbeat ahead of the      *)
(* answer; a provider's reports are cumulative, as provider.rs requires.   *)
(***************************************************************************)
EXTENDS Integers, Sequences

CONSTANTS
  MaxAttempts,  \* RunConfig.turn_max_attempts
  QueueBound,   \* capacity of the event channel: 64 in the code
  Usage,        \* figures a provider reports
  Unknown,      \* a figure not reported
  Parent,       \* the previous turn's session
  NoSession     \* no session: a turn that starts fresh

Attempt == 1..MaxAttempts

ASSUME AttemptsAssumption == MaxAttempts \in Nat \ {0}
ASSUME QueueAssumption == QueueBound \in Nat \ {0}
ASSUME UsageAssumption == Usage \subseteq Nat /\ Unknown \notin Nat
ASSUME SessionAssumption ==
  /\ Parent \notin Nat
  /\ NoSession \notin Nat
  /\ Parent # NoSession

\* The session an attempt opens is named by the attempt.
Session == Attempt \cup {Parent, NoSession}
Figure == Nat \cup {Unknown}

TurnHeartbeat == [session : Session, usage : Figure]
NoDetails == [session |-> NoSession, usage |-> Unknown]

VARIABLES
  asked,     \* the session the run loop told the turn to fork, or none
  turn,      \* the engine's view: scheduling, attempting, succeeded, failed
  current,   \* the newest attempt the engine started
  details,   \* the newest heartbeat the engine accepted
  record,    \* the output of a turn that succeeded
  proc,      \* proc[a]: where attempt a's process stands
  prior,     \* prior[a]: the details a read when it started
  fork,      \* fork[a]: the session a forks from, or none
  opened,    \* opened[a]: a's own session: not opened, announced, or event dropped
  queue,     \* queue[a]: the event channel
  anchor,    \* anchor[a]: the pump's session_id
  snapshot   \* snapshot[a]: the usage tracker, cumulative for this attempt

engine_vars == <<asked, turn, current, details, record>>
vars == <<asked, turn, current, details, record, proc, prior, fork, opened, queue,
          anchor, snapshot>>

-----------------------------------------------------------------------------
(* Usage carried from one attempt to the next. *)

Known(u) == IF u = Unknown THEN 0 ELSE u

AddOption(before, own) == IF own = Unknown THEN Unknown ELSE Known(before) + own

\* Heartbeats: an attempt that reports nothing passes on what it was given.
CarryUsageSnapshot(before, own) ==
  IF own = Unknown THEN before ELSE AddOption(before, own)

\* Success: a figure the last attempt did not report stays unknown.
AggregateSuccessUsage(before, own) == AddOption(before, own)

-----------------------------------------------------------------------------
(* The engine. *)

Init ==
  /\ asked \in {Parent, NoSession}
  /\ turn = "scheduling"
  /\ current = 0
  /\ details = NoDetails
  /\ record = NoDetails
  /\ proc = [a \in Attempt |-> "none"]
  /\ prior = [a \in Attempt |-> NoDetails]
  /\ fork = [a \in Attempt |-> NoSession]
  /\ opened = [a \in Attempt |-> "no"]
  /\ queue = [a \in Attempt |-> <<>>]
  /\ anchor = [a \in Attempt |-> NoSession]
  /\ snapshot = [a \in Attempt |-> Unknown]

\* A retry of a turn that starts fresh forks the session it recovered; a turn
\* that forks re-forks from the same parent.
Directive(session) == IF asked = NoSession THEN session ELSE asked

StartAttempt ==
  LET a == current + 1 IN
  /\ turn = "scheduling"
  /\ a \in Attempt
  /\ turn' = "attempting"
  /\ current' = a
  /\ proc' = [proc EXCEPT ![a] = "running"]
  /\ prior' = [prior EXCEPT ![a] = details]
  /\ fork' = [fork EXCEPT ![a] = Directive(details.session)]
  /\ anchor' = [anchor EXCEPT ![a] = details.session]
  /\ UNCHANGED <<asked, details, record, opened, queue, snapshot>>

AfterFailedAttempt == IF current < MaxAttempts THEN "scheduling" ELSE "failed"

\* A start-to-close or heartbeat timeout: retryable, and the process lives on.
TimeOut ==
  /\ turn = "attempting"
  /\ turn' = AfterFailedAttempt
  /\ UNCHANGED <<asked, current, details, record, proc, prior, fork, opened, queue,
                 anchor, snapshot>>

IsCurrent(a) == turn = "attempting" /\ current = a

\* A heartbeat handed to the SDK reaches the engine or is lost: throttled, or
\* overtaken by a newer one.  The engine takes it from its current attempt.
\* When it arrives is not told apart, since details are read at a start only.
Heartbeat(a, heartbeat) ==
  \/ details' = IF IsCurrent(a) THEN heartbeat ELSE details
  \/ UNCHANGED details

\* A process that is over leaves nothing behind but what was recorded.
Ends(a, as) ==
  /\ proc' = [proc EXCEPT ![a] = as]
  /\ queue' = [queue EXCEPT ![a] = <<>>]
  /\ anchor' = [anchor EXCEPT ![a] = NoSession]

\* The worker dies: what the channel and the pump still held is lost.
Crash(a) ==
  /\ proc[a] \in {"running", "ended", "flushed"}
  /\ Ends(a, "gone")
  /\ UNCHANGED <<engine_vars, prior, fork, opened, snapshot>>

-----------------------------------------------------------------------------
(* The provider. *)

HasRoom(a) == Len(queue[a]) < QueueBound

\* Wrong on purpose: a channel without a bound.
EmitUnbounded(a, event) == queue' = [queue EXCEPT ![a] = Append(@, event)]

\* try_send: an event that finds the channel full is dropped.
Emit(a, event) ==
  queue' = IF HasRoom(a) THEN [queue EXCEPT ![a] = Append(@, event)] ELSE queue

\* The backend session exists.
OpenSession(a) ==
  /\ proc[a] = "running"
  /\ opened[a] = "no"
  /\ opened' = [opened EXCEPT ![a] = IF HasRoom(a) THEN "announced" ELSE "dropped"]
  /\ Emit(a, "session")
  /\ UNCHANGED <<engine_vars, proc, prior, fork, anchor, snapshot>>

\* Liveness and tool use, from the backend's stream.
Notify(a) ==
  /\ proc[a] = "running"
  /\ HasRoom(a)
  /\ Emit(a, "liveness")
  /\ UNCHANGED <<engine_vars, proc, prior, fork, opened, anchor, snapshot>>

\* A newer cumulative snapshot, which also wakes the pump.
ReportUsage(a, figure) ==
  /\ proc[a] = "running"
  /\ snapshot[a] # Unknown => figure > snapshot[a]
  /\ snapshot' = [snapshot EXCEPT ![a] = figure]
  /\ Emit(a, "liveness")
  /\ UNCHANGED <<engine_vars, proc, prior, fork, opened, anchor>>

\* The provider returns, and its end of the channel closes.  Whether with an
\* outcome or an error only Accept reads; the usage of an outcome is the one
\* last reported.
ProviderReturns(a) ==
  /\ proc[a] = "running"
  /\ proc' = [proc EXCEPT ![a] = "ended"]
  /\ UNCHANGED <<engine_vars, prior, fork, opened, queue, anchor, snapshot>>

-----------------------------------------------------------------------------
(* The pump and the activity around it. *)

CarriedUsage(a) == CarryUsageSnapshot(prior[a].usage, snapshot[a])

\* Wrong on purpose: adds to the last heartbeat instead of to the prior attempt's.
HeartbeatAccumulating(a, session) ==
  [session |-> session, usage |-> CarryUsageSnapshot(details.usage, snapshot[a])]

\* The heartbeat the pump records: the session it knows, the newest usage.
TurnHeartbeatNow(a, session) == [session |-> session, usage |-> CarriedUsage(a)]

\* Wrong on purpose: takes any event to mean that the attempt has its session.
PumpedSessionUnannounced(a) == a

PumpedSession(a) == IF Head(queue[a]) = "session" THEN a ELSE anchor[a]

\* Any event is recorded as a heartbeat.
Pump(a) ==
  /\ proc[a] \in {"running", "ended"}
  /\ queue[a] # <<>>
  /\ queue' = [queue EXCEPT ![a] = Tail(@)]
  /\ anchor' = [anchor EXCEPT ![a] = PumpedSession(a)]
  /\ Heartbeat(a, TurnHeartbeatNow(a, PumpedSession(a)))
  /\ UNCHANGED <<asked, turn, current, record, proc, prior, fork, opened, snapshot>>

\* Wrong on purpose: no heartbeat between the pump's last one and the answer.
FlushStale(a) == details

\* The channel is closed and drained: one last heartbeat before the answer.
FlushedHeartbeat(a) == TurnHeartbeatNow(a, anchor[a])

Flush(a) ==
  /\ proc[a] = "ended"
  /\ queue[a] = <<>>
  /\ proc' = [proc EXCEPT ![a] = "flushed"]
  /\ Heartbeat(a, FlushedHeartbeat(a))
  /\ UNCHANGED <<asked, turn, current, record, prior, fork, opened, queue, anchor, snapshot>>

\* The engine takes the answer; the SDK sends the last heartbeat ahead of it.
Accept(a, answer) ==
  /\ proc[a] = "flushed"
  /\ IsCurrent(a)
  /\ Ends(a, "answered")
  /\ details' = FlushedHeartbeat(a)
  /\ turn' = CASE answer = "ok" -> "succeeded"
               [] answer = "terminal" -> "failed"
               [] OTHER -> AfterFailedAttempt
  /\ record' = IF answer = "ok"
               THEN [session |-> a,
                     usage |-> AggregateSuccessUsage(prior[a].usage, snapshot[a])]
               ELSE record
  /\ UNCHANGED <<asked, current, prior, fork, opened, snapshot>>

\* A zombie's answer.
AnswerTooLate(a) ==
  /\ proc[a] = "flushed"
  /\ ~IsCurrent(a)
  /\ Ends(a, "gone")
  /\ UNCHANGED <<engine_vars, prior, fork, opened, snapshot>>

Next ==
  \/ StartAttempt
  \/ TimeOut
  \/ \E a \in Attempt :
       \/ Crash(a)
       \/ OpenSession(a)
       \/ Notify(a)
       \/ \E figure \in Usage : ReportUsage(a, figure)
       \/ ProviderReturns(a)
       \/ Pump(a)
       \/ Flush(a)
       \/ \E answer \in {"ok", "retryable", "terminal"} : Accept(a, answer)
       \/ AnswerTooLate(a)

Spec == Init /\ [][Next]_vars

-----------------------------------------------------------------------------
(* Properties. *)

\* Types of the engine's and the attempts' state (run.rs execute_turn).
TypeOK ==
  /\ asked \in {Parent, NoSession}
  /\ turn \in {"scheduling", "attempting", "succeeded", "failed"}
  /\ current \in 0..MaxAttempts
  /\ details \in TurnHeartbeat
  /\ record \in TurnHeartbeat
  /\ proc \in [Attempt -> {"none", "running", "ended", "flushed", "answered", "gone"}]
  /\ prior \in [Attempt -> TurnHeartbeat]
  /\ fork \in [Attempt -> Session]
  /\ opened \in [Attempt -> {"no", "announced", "dropped"}]
  /\ queue \in [Attempt -> Seq({"session", "liveness"})]
  /\ \A a \in Attempt : Len(queue[a]) <= QueueBound
  /\ anchor \in [Attempt -> Session]
  /\ snapshot \in [Attempt -> Figure]

\* What attempt a passed on to its successor beyond what it was given.
PassedOn(a) == Known(prior[a + 1].usage) - Known(prior[a].usage)

\* However heartbeats, timeouts, crashes and zombies interleave, an attempt's
\* spend reaches its successor at most once, and all of it does when the
\* attempt lived to answer; a record adds the winner's own to what was carried
\* (budgets-and-handoffs.md, "Retries spend budget"; the pump's carry from the
\* prior attempt and the flush before the answer).
SpendCarriedOnce ==
  /\ \A a \in Attempt :
       a < current =>
         /\ PassedOn(a) \in 0..Known(snapshot[a])
         /\ proc[a] = "answered" => PassedOn(a) = Known(snapshot[a])
  /\ turn = "succeeded" /\ record.usage # Unknown =>
       record.usage = Known(prior[current].usage) + Known(snapshot[current])

\* Whatever is dropped, throttled, lost or overtaken, no attempt forks a session
\* that does not exist: it forks the recorded parent or, in a turn that starts
\* fresh, nothing or one an earlier attempt really opened and announced (run.rs,
\* the pump's session_id, its heartbeats and what a retry recovers from them).
ForksFound ==
  \A a \in Attempt :
    a <= current =>
      \/ fork[a] = asked
      \/ asked = NoSession /\ fork[a] \in 1..(a - 1) /\ opened[fork[a]] = "announced"

\* In a turn that starts fresh, once an attempt announced its session and lived
\* to answer, every later attempt forks that session or a newer one.
AnchorRecovered ==
  asked = NoSession =>
    \A a, b \in Attempt :
      (a < b /\ b <= current /\ proc[a] = "answered" /\ opened[a] = "announced")
        => fork[b] \in a..(b - 1)

\* What usage-and-credits.md says: a retried attempt's aggregate carries
\* everything the failed attempt reported.  A success that reports no figure
\* hides it (run.rs aggregate_success_usage).
RecordKeepsFailedSpend ==
  turn = "succeeded" /\ prior[current].usage # Unknown => record.usage # Unknown
=============================================================================
