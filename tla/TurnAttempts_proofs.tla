------------------------- MODULE TurnAttempts_proofs -------------------------
(***************************************************************************)
(* Theorems about TurnAttempts, for every retry bound, channel capacity    *)
(* and set of usage figures.                                               *)
(***************************************************************************)
EXTENDS TurnAttempts, TLAPS

-----------------------------------------------------------------------------
(* Figures and heartbeats. *)

(* The known part of a carried figure is the sum of the known parts. *)
LEMMA CarryAdds ==
  ASSUME NEW before \in Figure, NEW own \in Figure
  PROVE  /\ CarryUsageSnapshot(before, own) \in Figure
         /\ Known(CarryUsageSnapshot(before, own)) = Known(before) + Known(own)
         /\ Known(before) \in Nat /\ Known(own) \in Nat
BY UsageAssumption DEF CarryUsageSnapshot, AddOption, Known, Figure

(* So is that of a successful turn's figure, when there is one. *)
LEMMA AggregateAdds ==
  ASSUME NEW before \in Figure, NEW own \in Figure
  PROVE  /\ AggregateSuccessUsage(before, own) \in Figure
         /\ AggregateSuccessUsage(before, own) # Unknown =>
              AggregateSuccessUsage(before, own) = Known(before) + Known(own)
BY UsageAssumption DEF AggregateSuccessUsage, AddOption, Known, Figure

-----------------------------------------------------------------------------
(* The inductive invariant. *)

Over == {"answered", "gone"}
Live == {"running", "ended", "flushed"}

SessionQueued(a) == \E i \in 1..Len(queue[a]) : queue[a][i] = "session"

(* Attempts start in order; an attempt not started has reported nothing. *)
StartedInOrder ==
  /\ turn # "scheduling" => current # 0
  /\ \A a \in Attempt :
       /\ proc[a] = "none" <=> a > current
       /\ proc[a] = "none" => snapshot[a] = Unknown /\ opened[a] = "no" /\ queue[a] = <<>>

(* A pump knows the session it was given or its own; an announced session is *)
(* known to it or still queued; a flushed attempt has drained its channel.   *)
AnchorState ==
  \A a \in Attempt :
    proc[a] \in Live =>
      /\ anchor[a] \in {prior[a].session, a}
      /\ opened[a] = "announced" => anchor[a] = a \/ SessionQueued(a)
      /\ proc[a] = "flushed" => queue[a] = <<>>

(* The engine's details lie between what the newest attempt was given and    *)
(* that with all it reported; an answer brings them to the latter.           *)
DetailsState ==
  current # 0 =>
    /\ Known(details.usage) - Known(prior[current].usage) \in 0..Known(snapshot[current])
    /\ proc[current] = "answered" =>
         Known(details.usage) - Known(prior[current].usage) = Known(snapshot[current])

(* Sessions recovered are those of earlier attempts of this turn. *)
SessionState ==
  /\ details.session \in {NoSession} \cup 1..current
  /\ \A a \in Attempt :
       /\ prior[a].session \in {NoSession} \cup 1..(a - 1)
       /\ a <= current => fork[a] = Directive(prior[a].session)

(* An announced session of an attempt that lived to answer is never lost:    *)
(* the engine keeps it or a newer one, and so did every later attempt.       *)
AnchorKept ==
  \A a \in Attempt :
    proc[a] = "answered" /\ opened[a] = "announced" =>
      /\ details.session \in a..current
      /\ \A b \in Attempt : a < b /\ b <= current => prior[b].session \in a..(b - 1)

(* A turn that succeeded was answered by its newest attempt. *)
RecordState ==
  turn = "succeeded" =>
    /\ current # 0
    /\ proc[current] = "answered"
    /\ record.usage = AggregateSuccessUsage(prior[current].usage, snapshot[current])

CarriedState ==
  \A a \in Attempt :
    a < current =>
      /\ PassedOn(a) \in 0..Known(snapshot[a])
      /\ proc[a] = "answered" => PassedOn(a) = Known(snapshot[a])

IInv ==
  /\ TypeOK
  /\ StartedInOrder
  /\ AnchorState
  /\ DetailsState
  /\ SessionState
  /\ AnchorKept
  /\ RecordState
  /\ CarriedState

(* The initial state satisfies the inductive invariant. *)
LEMMA InitInv == Init => IInv
<1> SUFFICES ASSUME Init PROVE IInv
  OBVIOUS
<1>1. TypeOK
  BY QueueAssumption, AttemptsAssumption
  DEF Init, TypeOK, TurnHeartbeat, NoDetails, Session, Figure
<1>2. StartedInOrder /\ AnchorState
  BY AttemptsAssumption DEF Init, StartedInOrder, AnchorState, Attempt, Live
<1>3. DetailsState /\ SessionState
  BY AttemptsAssumption DEF Init, DetailsState, SessionState, NoDetails, Attempt
<1>4. AnchorKept /\ RecordState /\ CarriedState
  BY AttemptsAssumption DEF Init, AnchorKept, RecordState, CarriedState, Attempt
<1> QED BY <1>1, <1>2, <1>3, <1>4 DEF IInv

(* Types of what an attempt computes from its own state. *)
LEMMA AttemptTypes ==
  ASSUME TypeOK, NEW a \in Attempt
  PROVE  /\ a \in Nat
         /\ prior[a].session \in Session /\ prior[a].usage \in Figure
         /\ snapshot[a] \in Figure
         /\ CarriedUsage(a) \in Figure
         /\ Known(CarriedUsage(a)) = Known(prior[a].usage) + Known(snapshot[a])
         /\ Known(prior[a].usage) \in Nat /\ Known(snapshot[a]) \in Nat
<1>1. a \in Nat
  BY AttemptsAssumption DEF Attempt
<1>2. /\ prior[a].session \in Session /\ prior[a].usage \in Figure
      /\ snapshot[a] \in Figure
  BY DEF TypeOK, TurnHeartbeat
<1> QED BY <1>1, <1>2, CarryAdds DEF CarriedUsage

-----------------------------------------------------------------------------
(* Steps of one live process.  They share everything but what they do to the *)
(* process's own pump.                                                       *)

LocalStep(a, w, figure) ==
  /\ proc[a] \in Live
  /\ proc' = [proc EXCEPT ![a] = w]
  /\ snapshot' = [snapshot EXCEPT ![a] = figure]
  /\ \A b \in Attempt : b # a => /\ opened'[b] = opened[b]
                               /\ queue'[b] = queue[b]
                               /\ anchor'[b] = anchor[b]
  /\ UNCHANGED <<asked, turn, current, record, prior, fork>>
  /\ \/ UNCHANGED details
     \/ /\ IsCurrent(a)
        /\ figure = snapshot[a]
        /\ \E session \in {prior[a].session, a} : details' = TurnHeartbeatNow(a, session)

(* A live process is that of an attempt that was started. *)
LEMMA LiveStarted ==
  ASSUME IInv, NEW a \in Attempt, proc[a] \in Live
  PROVE  a <= current /\ current \in Nat /\ current # 0 /\ current \in Attempt
<1>1. a \in Nat /\ a >= 1 /\ current \in 0..MaxAttempts
  BY AttemptsAssumption DEF Attempt, IInv, TypeOK
<1>2. ~(a > current)
  BY DEF IInv, StartedInOrder, Live
<1> QED BY <1>1, <1>2, AttemptsAssumption DEF Attempt

(* What a step of a live process leaves true of the engine and of the others. *)
LEMMA LocalStepKeeps ==
  ASSUME IInv, NEW a \in Attempt, NEW w \in Live \cup {"gone"}, NEW figure \in Figure,
         Known(figure) >= Known(snapshot[a]), LocalStep(a, w, figure), TypeOK'
  PROVE  /\ StartedInOrder' /\ DetailsState' /\ SessionState'
         /\ AnchorKept' /\ RecordState' /\ CarriedState'
<1>1. /\ a <= current /\ current \in Nat /\ current # 0 /\ current \in Attempt
      /\ \A b \in Attempt : b \in Nat
  BY LiveStarted, AttemptsAssumption DEF LocalStep, Attempt
<1>2. /\ proc'[a] = w /\ snapshot'[a] = figure
      /\ \A b \in Attempt : b # a => proc'[b] = proc[b] /\ snapshot'[b] = snapshot[b]
      /\ proc[a] # "none" /\ proc[a] # "answered" /\ w # "none" /\ w # "answered"
      /\ UNCHANGED <<asked, turn, current, record, prior, fork>>
  BY DEF LocalStep, IInv, TypeOK, Live
<1>3. /\ Known(snapshot[a]) \in Nat /\ Known(figure) \in Nat
      /\ Known(prior[a].usage) \in Nat
  BY AttemptTypes, UsageAssumption DEF IInv, Known, Figure
<1>4. StartedInOrder'
  BY <1>1, <1>2 DEF IInv, StartedInOrder, LocalStep
<1>5. CarriedState'
  <2> SUFFICES ASSUME NEW b \in Attempt, b < current
               PROVE  /\ PassedOn(b) \in 0..Known(snapshot'[b])
                      /\ proc'[b] = "answered" => PassedOn(b) = Known(snapshot'[b])
    BY <1>2 DEF CarriedState, PassedOn
  <2>1. /\ PassedOn(b) \in 0..Known(snapshot[b])
        /\ proc[b] = "answered" => PassedOn(b) = Known(snapshot[b])
    BY DEF IInv, CarriedState
  <2> QED BY <1>2, <1>3, <2>1
<1>6. RecordState'
  BY <1>1, <1>2 DEF IInv, RecordState
<1>7. CASE details' = details
  <2>1. DetailsState'
    BY <1>1, <1>2, <1>3, <1>7 DEF IInv, DetailsState
  <2>2. SessionState'
    BY <1>2, <1>7 DEF IInv, SessionState, Directive
  <2>3. AnchorKept'
    BY <1>2, <1>7 DEF IInv, AnchorKept, LocalStep
  <2> QED BY <1>4, <1>5, <1>6, <2>1, <2>2, <2>3
<1>8. ASSUME NEW session \in {prior[a].session, a}, IsCurrent(a), figure = snapshot[a],
             details' = TurnHeartbeatNow(a, session)
      PROVE  DetailsState' /\ SessionState' /\ AnchorKept'
  <2>1. current = a /\ details'.session = session /\ details'.usage = CarriedUsage(a)
    BY <1>8 DEF IsCurrent, TurnHeartbeatNow
  <2>2. Known(details'.usage) - Known(prior[a].usage) = Known(snapshot'[a])
    BY <1>2, <1>3, <1>8, <2>1, AttemptTypes DEF IInv
  <2>3. DetailsState'
    BY <1>2, <1>3, <2>1, <2>2 DEF DetailsState
  <2>4. SessionState'
    <3>1. session \in {NoSession} \cup 1..current
      BY <1>1, <1>8, <2>1, AttemptsAssumption DEF IInv, SessionState, Attempt
    <3> QED BY <1>2, <2>1, <3>1 DEF IInv, SessionState, Directive
  <2>5. AnchorKept'
    <3> SUFFICES ASSUME NEW c \in Attempt, proc'[c] = "answered", opened'[c] = "announced"
                 PROVE  /\ details'.session \in c..current
                        /\ \A b \in Attempt :
                             c < b /\ b <= current => prior[b].session \in c..(b - 1)
      BY <1>2 DEF AnchorKept
    <3>1. c # a /\ proc[c] = "answered" /\ opened[c] = "announced"
      BY <1>2 DEF LocalStep
    <3>2. c < a
      <4>1. ~(c > current)
        BY <3>1 DEF IInv, StartedInOrder
      <4>2. c \in Nat /\ a \in Nat /\ current = a /\ c # a
        BY <1>1, <2>1, <3>1
      <4> QED BY <4>1, <4>2
    <3>3. \A b \in Attempt : c < b /\ b <= current => prior[b].session \in c..(b - 1)
      BY <3>1 DEF IInv, AnchorKept
    <3>4. session \in c..a
      <4>1. c \in Nat /\ a \in Nat
        BY <1>1
      <4>2. prior[a].session \in c..(a - 1)
        BY <1>1, <3>2, <3>3
      <4>3. c..(a - 1) \subseteq c..a /\ a \in c..a
        BY <3>2, <4>1
      <4> QED BY <1>8, <4>2, <4>3
    <3> QED BY <2>1, <3>3, <3>4
  <2> QED BY <2>3, <2>4, <2>5
<1> QED BY <1>4, <1>5, <1>6, <1>7, <1>8 DEF LocalStep

(* The pumps of the others, which a step of a live process leaves alone. *)
LEMMA LocalStepAnchors ==
  ASSUME IInv, NEW a \in Attempt, NEW w, NEW figure, LocalStep(a, w, figure),
         proc'[a] \in Live =>
           /\ anchor'[a] \in {prior[a].session, a}
           /\ opened'[a] = "announced" => anchor'[a] = a \/ SessionQueued(a)'
           /\ proc'[a] = "flushed" => queue'[a] = <<>>
  PROVE  AnchorState'
<1> SUFFICES ASSUME NEW b \in Attempt, b # a, proc'[b] \in Live
             PROVE  /\ anchor'[b] \in {prior[b].session, b}
                    /\ opened'[b] = "announced" => anchor'[b] = b \/ SessionQueued(b)'
                    /\ proc'[b] = "flushed" => queue'[b] = <<>>
  BY DEF AnchorState, LocalStep
<1>1. /\ proc'[b] = proc[b] /\ opened'[b] = opened[b]
      /\ queue'[b] = queue[b] /\ anchor'[b] = anchor[b]
  BY DEF LocalStep, IInv, TypeOK
<1>2. SessionQueued(b)' <=> SessionQueued(b)
  BY <1>1 DEF SessionQueued
<1> QED BY <1>1, <1>2 DEF IInv, AnchorState

-----------------------------------------------------------------------------
(* One lemma per action. *)

(* A crash, or an answer nobody waits for, ends a process. *)
LEMMA GoneInv ==
  ASSUME IInv, NEW a \in Attempt, Crash(a) \/ AnswerTooLate(a)
  PROVE  IInv'
<1>1. /\ proc[a] \in Live
      /\ proc' = [proc EXCEPT ![a] = "gone"]
      /\ queue' = [queue EXCEPT ![a] = <<>>]
      /\ anchor' = [anchor EXCEPT ![a] = NoSession]
      /\ UNCHANGED <<engine_vars, prior, fork, opened, snapshot>>
  <2>1. CASE Crash(a)
    BY <2>1 DEF Crash, Ends, Live
  <2>2. CASE AnswerTooLate(a)
    BY <2>2 DEF AnswerTooLate, Ends, Live
  <2> QED BY <2>1, <2>2
<1>2. TypeOK'
  BY <1>1, QueueAssumption DEF IInv, TypeOK, engine_vars, Session
<1>3. LocalStep(a, "gone", snapshot[a])
  BY <1>1 DEF LocalStep, engine_vars, IInv, TypeOK
<1>4. snapshot[a] \in Figure /\ Known(snapshot[a]) \in Nat
  BY AttemptTypes DEF IInv
<1>5. AnchorState'
  <2>1. proc'[a] \notin Live
    BY <1>1 DEF IInv, TypeOK, Live
  <2> QED BY <1>3, <2>1, LocalStepAnchors
<1>6. Known(snapshot[a]) >= Known(snapshot[a])
  BY <1>4
<1> QED BY <1>2, <1>3, <1>4, <1>5, <1>6, LocalStepKeeps DEF IInv

(* A channel that takes an event, or drops it, keeps what it held. *)
LEMMA EmitEffect ==
  ASSUME TypeOK, NEW a \in Attempt, NEW event \in {"session", "liveness"}, Emit(a, event)
  PROVE  /\ queue' \in [Attempt -> Seq({"session", "liveness"})]
         /\ \A b \in Attempt : Len(queue'[b]) <= QueueBound
         /\ \A b \in Attempt : b # a => queue'[b] = queue[b]
         /\ SessionQueued(a) => SessionQueued(a)'
         /\ HasRoom(a) /\ event = "session" => SessionQueued(a)'
<1>1. queue[a] \in Seq({"session", "liveness"}) /\ Len(queue[a]) \in Nat
  BY DEF TypeOK
<1>2. CASE ~HasRoom(a)
  BY <1>2 DEF Emit, TypeOK, SessionQueued
<1>3. CASE HasRoom(a)
  <2>1. queue' = [queue EXCEPT ![a] = Append(queue[a], event)]
    BY <1>3 DEF Emit
  <2>2. queue'[a] = Append(queue[a], event)
    BY <2>1 DEF TypeOK
  <2>3. /\ Append(queue[a], event) \in Seq({"session", "liveness"})
        /\ Len(Append(queue[a], event)) = Len(queue[a]) + 1
        /\ Append(queue[a], event)[Len(queue[a]) + 1] = event
        /\ \A i \in 1..Len(queue[a]) : Append(queue[a], event)[i] = queue[a][i]
    BY <1>1
  <2>4. Len(queue[a]) + 1 <= QueueBound
    BY <1>1, <1>3, QueueAssumption DEF HasRoom
  <2>5. SessionQueued(a) => SessionQueued(a)'
    BY <1>1, <2>2, <2>3 DEF SessionQueued
  <2>6. event = "session" => SessionQueued(a)'
    BY <1>1, <2>2, <2>3 DEF SessionQueued
  <2> QED BY <2>1, <2>2, <2>3, <2>4, <2>5, <2>6 DEF TypeOK
<1> QED BY <1>2, <1>3

(* The provider's steps only feed the channel and the tracker. *)
LEMMA ProviderInv ==
  ASSUME IInv, NEW a \in Attempt,
         \/ OpenSession(a)
         \/ Notify(a)
         \/ \E figure \in Usage : ReportUsage(a, figure)
  PROVE  IInv'
<1> DEFINE Feeds(event, figure, how) ==
      /\ proc[a] = "running"
      /\ Emit(a, event)
      /\ snapshot' = [snapshot EXCEPT ![a] = figure]
      /\ Known(figure) >= Known(snapshot[a])
      /\ opened' = [opened EXCEPT ![a] = how]
      /\ how = "announced" => (opened[a] = "announced" \/ (HasRoom(a) /\ event = "session"))
      /\ UNCHANGED <<engine_vars, proc, prior, fork, anchor>>
<1>1. PICK event \in {"session", "liveness"}, figure \in Figure,
           how \in {"no", "announced", "dropped"} : Feeds(event, figure, how)
  <2>1. snapshot[a] \in Figure /\ Known(snapshot[a]) \in Nat
    BY AttemptTypes DEF IInv
  <2>2. Known(snapshot[a]) >= Known(snapshot[a])
    BY <2>1
  <2>3. opened[a] \in {"no", "announced", "dropped"}
    BY DEF IInv, TypeOK
  <2>4. snapshot = [snapshot EXCEPT ![a] = snapshot[a]] /\ opened = [opened EXCEPT ![a] = opened[a]]
    BY DEF IInv, TypeOK
  <2>5. CASE OpenSession(a)
    <3>1. HasRoom(a) => Feeds("session", snapshot[a], "announced")
      BY <2>2, <2>4, <2>5 DEF OpenSession
    <3>2. ~HasRoom(a) => Feeds("session", snapshot[a], "dropped")
      BY <2>2, <2>4, <2>5 DEF OpenSession
    <3> HIDE DEF Feeds
    <3> QED BY <2>1, <3>1, <3>2
  <2>6. CASE Notify(a)
    <3>1. Feeds("liveness", snapshot[a], opened[a])
      BY <2>2, <2>4, <2>6 DEF Notify
    <3> HIDE DEF Feeds
    <3> QED BY <2>1, <2>3, <3>1
  <2>7. ASSUME NEW new \in Usage, ReportUsage(a, new)
        PROVE  new \in Figure /\ Feeds("liveness", new, opened[a])
    <3>1. new \in Nat /\ new # Unknown
      BY UsageAssumption
    <3>2. Known(new) >= Known(snapshot[a])
      BY <2>1, <2>7, <3>1 DEF ReportUsage, Known, Figure
    <3> QED BY <2>4, <2>7, <3>1, <3>2 DEF ReportUsage, Figure
  <2> HIDE DEF Feeds
  <2> QED BY <2>3, <2>5, <2>6, <2>7
<1>2. /\ queue' \in [Attempt -> Seq({"session", "liveness"})]
      /\ \A b \in Attempt : Len(queue'[b]) <= QueueBound
      /\ \A b \in Attempt : b # a => queue'[b] = queue[b]
      /\ SessionQueued(a) => SessionQueued(a)'
      /\ HasRoom(a) /\ event = "session" => SessionQueued(a)'
  BY <1>1, EmitEffect DEF IInv
<1>3. TypeOK'
  BY <1>1, <1>2 DEF IInv, TypeOK, engine_vars
<1>4. LocalStep(a, "running", figure)
  BY <1>1, <1>2 DEF LocalStep, Live, engine_vars, IInv, TypeOK
<1>5. AnchorState'
  <2>1. opened'[a] = how /\ anchor'[a] = anchor[a] /\ proc'[a] = "running"
    BY <1>1 DEF IInv, TypeOK
  <2>2. /\ anchor[a] \in {prior[a].session, a}
        /\ opened[a] = "announced" => anchor[a] = a \/ SessionQueued(a)
    BY <1>1 DEF IInv, AnchorState, Live
  <2> QED BY <1>1, <1>2, <1>4, <2>1, <2>2, LocalStepAnchors
<1> QED BY <1>1, <1>3, <1>4, <1>5, LocalStepKeeps DEF IInv, Live

(* The provider's return moves no data. *)
LEMMA ProviderReturnsInv ==
  ASSUME IInv, NEW a \in Attempt, ProviderReturns(a)
  PROVE  IInv'
<1>1. /\ proc[a] = "running"
      /\ proc' = [proc EXCEPT ![a] = "ended"]
      /\ UNCHANGED <<engine_vars, prior, fork, opened, queue, anchor, snapshot>>
  BY DEF ProviderReturns
<1>2. TypeOK'
  BY <1>1 DEF IInv, TypeOK, engine_vars
<1>3. LocalStep(a, "ended", snapshot[a])
  BY <1>1 DEF LocalStep, Live, engine_vars, IInv, TypeOK
<1>4. snapshot[a] \in Figure /\ Known(snapshot[a]) >= Known(snapshot[a])
  BY AttemptTypes DEF IInv
<1>5. AnchorState'
  <2>1. /\ anchor[a] \in {prior[a].session, a}
        /\ opened[a] = "announced" => anchor[a] = a \/ SessionQueued(a)
        /\ proc'[a] = "ended"
    BY <1>1 DEF IInv, TypeOK, AnchorState, Live
  <2>2. SessionQueued(a) => SessionQueued(a)'
    BY <1>1 DEF SessionQueued
  <2> QED BY <1>1, <1>3, <2>1, <2>2, LocalStepAnchors
<1> QED BY <1>2, <1>3, <1>4, <1>5, LocalStepKeeps DEF IInv, Live

(* A heartbeat of a live process has the type of one. *)
LEMMA HeartbeatType ==
  ASSUME IInv, NEW a \in Attempt, NEW session \in {prior[a].session, a}
  PROVE  TurnHeartbeatNow(a, session) \in TurnHeartbeat /\ session \in Session
BY AttemptTypes DEF TurnHeartbeatNow, TurnHeartbeat, Session, IInv

(* The pump learns an announced session no later than it takes its event. *)
LEMMA PumpInv ==
  ASSUME IInv, NEW a \in Attempt, Pump(a)
  PROVE  IInv'
<1> DEFINE session == PumpedSession(a)
<1>1. /\ proc[a] \in {"running", "ended"}
      /\ queue[a] # <<>>
      /\ queue' = [queue EXCEPT ![a] = Tail(queue[a])]
      /\ anchor' = [anchor EXCEPT ![a] = session]
      /\ Heartbeat(a, TurnHeartbeatNow(a, session))
      /\ UNCHANGED <<asked, turn, current, record, proc, prior, fork, opened, snapshot>>
  BY DEF Pump
<1>2. /\ anchor[a] \in {prior[a].session, a}
      /\ opened[a] = "announced" => anchor[a] = a \/ SessionQueued(a)
  BY <1>1 DEF IInv, AnchorState, Live
<1>3. session \in {prior[a].session, a} /\ (anchor[a] = a => session = a)
  BY <1>2 DEF PumpedSession
<1>4. /\ queue[a] \in Seq({"session", "liveness"})
      /\ Tail(queue[a]) \in Seq({"session", "liveness"})
      /\ Len(Tail(queue[a])) = Len(queue[a]) - 1
      /\ Len(queue[a]) \in Nat \ {0}
      /\ \A i \in 1..(Len(queue[a]) - 1) : Tail(queue[a])[i] = queue[a][i + 1]
      /\ Head(queue[a]) = queue[a][1]
  BY <1>1 DEF IInv, TypeOK
<1>5. SessionQueued(a) => session = a \/ SessionQueued(a)'
  <2> SUFFICES ASSUME NEW i \in 1..Len(queue[a]), queue[a][i] = "session", session # a
               PROVE  SessionQueued(a)'
    BY DEF SessionQueued
  <2>1. i # 1
    BY <1>4 DEF PumpedSession
  <2>2. queue'[a] = Tail(queue[a])
    BY <1>1 DEF IInv, TypeOK
  <2>3. i - 1 \in 1..(Len(queue[a]) - 1) /\ Tail(queue[a])[i - 1] = "session"
    BY <1>4, <2>1
  <2> QED BY <1>4, <2>2, <2>3 DEF SessionQueued
<1>6. TurnHeartbeatNow(a, session) \in TurnHeartbeat /\ session \in Session
  BY <1>3, HeartbeatType
<1> HIDE DEF session
<1>7. TypeOK'
  <2>1. details' \in TurnHeartbeat
    BY <1>1, <1>6 DEF Heartbeat, IInv, TypeOK
  <2>2. /\ queue' \in [Attempt -> Seq({"session", "liveness"})]
        /\ \A b \in Attempt : Len(queue'[b]) <= QueueBound
    BY <1>1, <1>4, QueueAssumption DEF IInv, TypeOK
  <2> QED BY <1>1, <1>6, <2>1, <2>2 DEF IInv, TypeOK
<1>8. LocalStep(a, proc[a], snapshot[a])
  <2>1. \/ UNCHANGED details
        \/ IsCurrent(a) /\ details' = TurnHeartbeatNow(a, session)
    BY <1>1 DEF Heartbeat
  <2> QED BY <1>1, <1>3, <2>1 DEF LocalStep, Live, IInv, TypeOK
<1>9. snapshot[a] \in Figure /\ Known(snapshot[a]) >= Known(snapshot[a])
  BY AttemptTypes DEF IInv
<1>10. AnchorState'
  <2>1. proc'[a] = proc[a] /\ anchor'[a] = session /\ opened'[a] = opened[a]
    BY <1>1 DEF IInv, TypeOK
  <2> QED BY <1>1, <1>2, <1>3, <1>5, <1>8, <2>1, LocalStepAnchors
<1> QED BY <1>1, <1>7, <1>8, <1>9, <1>10, LocalStepKeeps DEF IInv, Live

(* The last heartbeat leaves a drained channel, so a pump that knows the session. *)
LEMMA FlushInv ==
  ASSUME IInv, NEW a \in Attempt, Flush(a)
  PROVE  IInv'
<1>1. /\ proc[a] = "ended"
      /\ queue[a] = <<>>
      /\ proc' = [proc EXCEPT ![a] = "flushed"]
      /\ Heartbeat(a, TurnHeartbeatNow(a, anchor[a]))
      /\ UNCHANGED <<asked, turn, current, record, prior, fork, opened, queue, anchor,
                     snapshot>>
  BY DEF Flush, FlushedHeartbeat
<1>2. /\ anchor[a] \in {prior[a].session, a}
      /\ opened[a] = "announced" => anchor[a] = a \/ SessionQueued(a)
  BY <1>1 DEF IInv, AnchorState, Live
<1>3. TurnHeartbeatNow(a, anchor[a]) \in TurnHeartbeat
  BY <1>2, HeartbeatType
<1>4. TypeOK'
  BY <1>1, <1>3 DEF IInv, TypeOK, Heartbeat
<1>5. LocalStep(a, "flushed", snapshot[a])
  <2>1. \/ UNCHANGED details
        \/ IsCurrent(a) /\ details' = TurnHeartbeatNow(a, anchor[a])
    BY <1>1 DEF Heartbeat
  <2> QED BY <1>1, <1>2, <2>1 DEF LocalStep, Live, IInv, TypeOK
<1>6. snapshot[a] \in Figure /\ Known(snapshot[a]) >= Known(snapshot[a])
  BY AttemptTypes DEF IInv
<1>7. AnchorState'
  <2>1. ~SessionQueued(a)
    BY <1>1 DEF SessionQueued
  <2> QED BY <1>1, <1>2, <1>5, <2>1, LocalStepAnchors
<1> QED BY <1>4, <1>5, <1>6, <1>7, LocalStepKeeps DEF IInv, Live

(* A new attempt takes over the details, and with them what they carry. *)
LEMMA StartAttemptInv ==
  ASSUME IInv, StartAttempt
  PROVE  IInv'
<1> DEFINE a == current + 1
<1>1. /\ turn = "scheduling" /\ a \in Attempt /\ turn' = "attempting" /\ current' = a
      /\ proc' = [proc EXCEPT ![a] = "running"]
      /\ prior' = [prior EXCEPT ![a] = details]
      /\ fork' = [fork EXCEPT ![a] = Directive(details.session)]
      /\ anchor' = [anchor EXCEPT ![a] = details.session]
      /\ UNCHANGED <<asked, details, record, opened, queue, snapshot>>
  BY DEF StartAttempt
<1>2. current \in Nat /\ \A b \in Attempt : b \in Nat
  BY AttemptsAssumption DEF IInv, TypeOK, Attempt
<1>3. details \in TurnHeartbeat /\ details.session \in Session /\ details.usage \in Figure
  BY DEF IInv, TypeOK, TurnHeartbeat
<1>4. /\ proc'[a] = "running" /\ prior'[a] = details
      /\ fork'[a] = Directive(details.session) /\ anchor'[a] = details.session
      /\ \A b \in Attempt : b # a => /\ proc'[b] = proc[b] /\ prior'[b] = prior[b]
                                   /\ fork'[b] = fork[b] /\ anchor'[b] = anchor[b]
  BY <1>1 DEF IInv, TypeOK
<1>5. proc[a] = "none" /\ snapshot[a] = Unknown /\ opened[a] = "no" /\ queue[a] = <<>>
  BY <1>1, <1>2 DEF IInv, StartedInOrder
<1>6. TypeOK'
  <2>1. Directive(details.session) \in Session
    BY <1>3 DEF Directive, IInv, TypeOK, Session
  <2>2. a \in 0..MaxAttempts
    BY <1>1 DEF Attempt
  <2> QED BY <1>1, <1>3, <2>1, <2>2 DEF IInv, TypeOK
<1>7. Known(details.usage) \in Nat /\ Known(Unknown) = 0
  BY <1>3, UsageAssumption DEF Known, Figure
<1>8. StartedInOrder'
  BY <1>1, <1>2, <1>4 DEF IInv, StartedInOrder
<1>9. AnchorState'
  <2> SUFFICES ASSUME NEW b \in Attempt, proc'[b] \in Live
               PROVE  /\ anchor'[b] \in {prior'[b].session, b}
                      /\ opened'[b] = "announced" => anchor'[b] = b \/ SessionQueued(b)'
                      /\ proc'[b] = "flushed" => queue'[b] = <<>>
    BY DEF AnchorState
  <2>1. SessionQueued(b)' <=> SessionQueued(b)
    BY <1>1 DEF SessionQueued
  <2> QED BY <1>1, <1>4, <1>5, <2>1 DEF IInv, AnchorState
<1>10. DetailsState'
  BY <1>1, <1>4, <1>5, <1>7 DEF DetailsState
<1>11. SessionState'
  BY <1>1, <1>2, <1>4 DEF IInv, SessionState, Directive
<1>12. AnchorKept'
  <2> SUFFICES ASSUME NEW c \in Attempt, proc'[c] = "answered", opened'[c] = "announced"
               PROVE  /\ details'.session \in c..current'
                      /\ \A b \in Attempt :
                           c < b /\ b <= current' => prior'[b].session \in c..(b - 1)
    BY DEF AnchorKept
  <2>1. c # a /\ proc[c] = "answered" /\ opened[c] = "announced"
    BY <1>1, <1>4
  <2>2. /\ details.session \in c..current
        /\ \A b \in Attempt : c < b /\ b <= current => prior[b].session \in c..(b - 1)
    BY <2>1 DEF IInv, AnchorKept
  <2> QED BY <1>1, <1>2, <1>4, <2>2
<1>13. RecordState'
  BY <1>1 DEF RecordState
<1>14. CarriedState'
  <2> SUFFICES ASSUME NEW b \in Attempt, b < a
               PROVE  /\ PassedOn(b)' \in 0..Known(snapshot[b])
                      /\ proc'[b] = "answered" => PassedOn(b)' = Known(snapshot[b])
    BY <1>1 DEF CarriedState
  <2>1. b \in Nat /\ b # a /\ proc'[b] = proc[b] /\ prior'[b] = prior[b]
    BY <1>2, <1>4
  <2>2. CASE b < current
    <3>1. b + 1 # a /\ b + 1 \in Attempt /\ prior'[b + 1] = prior[b + 1]
      <4>1. b + 1 # a /\ b + 1 \in Attempt
        BY <1>1, <1>2, <2>1, <2>2, AttemptsAssumption DEF Attempt
      <4> QED BY <1>4, <4>1
    <3>2. PassedOn(b)' = PassedOn(b)
      BY <2>1, <3>1 DEF PassedOn
    <3> QED BY <2>1, <2>2, <3>2 DEF IInv, CarriedState
  <2>3. CASE b = current
    <3>1. current # 0
      BY <2>3, AttemptsAssumption DEF Attempt
    <3>2. PassedOn(b)' = Known(details.usage) - Known(prior[current].usage)
      BY <1>4, <2>1, <2>3 DEF PassedOn
    <3> QED BY <2>1, <2>3, <3>1, <3>2 DEF IInv, DetailsState
  <2> QED BY <1>2, <2>1, <2>2, <2>3
<1> QED BY <1>6, <1>8, <1>9, <1>10, <1>11, <1>12, <1>13, <1>14 DEF IInv

(* A timeout changes what the engine waits for, and nothing else. *)
LEMMA TimeOutInv ==
  ASSUME IInv, TimeOut
  PROVE  IInv'
<1>1. /\ turn = "attempting" /\ turn' \in {"scheduling", "failed"}
      /\ UNCHANGED <<asked, current, details, record, proc, prior, fork, opened, queue,
                     anchor, snapshot>>
  BY DEF TimeOut, AfterFailedAttempt
<1>2. TypeOK' /\ StartedInOrder' /\ DetailsState' /\ RecordState'
  BY <1>1 DEF IInv, TypeOK, StartedInOrder, DetailsState, RecordState
<1>3. SessionState' /\ AnchorKept'
  BY <1>1 DEF IInv, SessionState, Directive, AnchorKept
<1>4. CarriedState'
  BY <1>1 DEF IInv, CarriedState, PassedOn
<1>5. AnchorState'
  <2>1. \A b \in Attempt : SessionQueued(b)' <=> SessionQueued(b)
    BY <1>1 DEF SessionQueued
  <2> QED BY <1>1, <2>1 DEF IInv, AnchorState
<1> QED BY <1>2, <1>3, <1>4, <1>5 DEF IInv

(* An answer comes with the last heartbeat: all the spend, and the session. *)
LEMMA AcceptInv ==
  ASSUME IInv, NEW a \in Attempt, NEW answer \in {"ok", "retryable", "terminal"},
         Accept(a, answer)
  PROVE  IInv'
<1>1. /\ proc[a] = "flushed" /\ turn = "attempting" /\ current = a
      /\ proc' = [proc EXCEPT ![a] = "answered"]
      /\ queue' = [queue EXCEPT ![a] = <<>>]
      /\ anchor' = [anchor EXCEPT ![a] = NoSession]
      /\ details' = TurnHeartbeatNow(a, anchor[a])
      /\ UNCHANGED <<asked, current, prior, fork, opened, snapshot>>
  BY DEF Accept, IsCurrent, Ends, FlushedHeartbeat
<1>2. /\ answer = "ok" =>
           /\ turn' = "succeeded"
           /\ record' = [session |-> a,
                         usage |-> AggregateSuccessUsage(prior[a].usage, snapshot[a])]
      /\ answer # "ok" => turn' \in {"scheduling", "failed"} /\ record' = record
  BY DEF Accept, AfterFailedAttempt
<1>3. /\ anchor[a] \in {prior[a].session, a}
      /\ opened[a] = "announced" => anchor[a] = a
  BY <1>1 DEF IInv, AnchorState, SessionQueued, Live
<1>4. /\ proc'[a] = "answered"
      /\ \A b \in Attempt : b # a => /\ proc'[b] = proc[b] /\ queue'[b] = queue[b]
                                   /\ anchor'[b] = anchor[b]
      /\ current \in Nat /\ a \in Nat /\ a # 0
  BY <1>1, AttemptsAssumption DEF IInv, TypeOK, Attempt
<1>5. /\ details'.session = anchor[a] /\ details'.usage = CarriedUsage(a)
      /\ Known(details'.usage) = Known(prior[a].usage) + Known(snapshot[a])
      /\ Known(prior[a].usage) \in Nat /\ Known(snapshot[a]) \in Nat
  BY <1>1, AttemptTypes DEF TurnHeartbeatNow, IInv
<1>6. TypeOK'
  <2>1. details' \in TurnHeartbeat
    BY <1>1, <1>3, HeartbeatType
  <2>2. record' \in TurnHeartbeat
    <3>1. AggregateSuccessUsage(prior[a].usage, snapshot[a]) \in Figure /\ a \in Session
      BY AttemptTypes, AggregateAdds DEF IInv, Session
    <3> QED BY <1>2, <3>1 DEF IInv, TypeOK, TurnHeartbeat
  <2>3. /\ turn' \in {"scheduling", "attempting", "succeeded", "failed"}
        /\ queue' \in [Attempt -> Seq({"session", "liveness"})]
        /\ \A b \in Attempt : Len(queue'[b]) <= QueueBound
    BY <1>1, <1>2, QueueAssumption DEF IInv, TypeOK
  <2> QED BY <1>1, <2>1, <2>2, <2>3 DEF IInv, TypeOK, Session
<1>7. StartedInOrder'
  BY <1>1, <1>4 DEF IInv, StartedInOrder
<1>8. AnchorState'
  <2> SUFFICES ASSUME NEW b \in Attempt, proc'[b] \in Live
               PROVE  /\ anchor'[b] \in {prior'[b].session, b}
                      /\ opened'[b] = "announced" => anchor'[b] = b \/ SessionQueued(b)'
                      /\ proc'[b] = "flushed" => queue'[b] = <<>>
    BY DEF AnchorState
  <2>1. b # a
    BY <1>4 DEF Live
  <2>2. SessionQueued(b)' <=> SessionQueued(b)
    BY <1>4, <2>1 DEF SessionQueued
  <2> QED BY <1>1, <1>4, <2>1, <2>2 DEF IInv, AnchorState
<1>9. DetailsState'
  BY <1>1, <1>4, <1>5 DEF DetailsState
<1>10. SessionState'
  <2>1. anchor[a] \in {NoSession} \cup 1..a
    BY <1>3, <1>4 DEF IInv, SessionState
  <2> QED BY <1>1, <1>5, <2>1 DEF IInv, SessionState, Directive
<1>11. AnchorKept'
  <2> SUFFICES ASSUME NEW c \in Attempt, proc'[c] = "answered", opened'[c] = "announced"
               PROVE  /\ details'.session \in c..current
                      /\ \A b \in Attempt :
                           c < b /\ b <= current => prior[b].session \in c..(b - 1)
    BY <1>1 DEF AnchorKept
  <2>1. CASE c = a
    <3>1. anchor[a] = a
      BY <1>1, <1>3, <2>1
    <3> QED BY <1>1, <1>4, <1>5, <2>1, <3>1, AttemptsAssumption DEF Attempt
  <2>2. CASE c # a
    <3>1. proc[c] = "answered" /\ opened[c] = "announced"
      BY <1>1, <1>4, <2>2
    <3>2. c \in Nat /\ c < a
      <4>1. ~(c > current)
        BY <3>1 DEF IInv, StartedInOrder
      <4> QED BY <1>1, <1>4, <2>2, <4>1, AttemptsAssumption DEF Attempt
    <3>3. \A b \in Attempt : c < b /\ b <= current => prior[b].session \in c..(b - 1)
      BY <3>1 DEF IInv, AnchorKept
    <3>4. prior[a].session \in c..(a - 1)
      BY <1>1, <1>4, <3>2, <3>3
    <3> QED BY <1>1, <1>3, <1>4, <1>5, <3>2, <3>3, <3>4
  <2> QED BY <2>1, <2>2
<1>12. RecordState'
  BY <1>1, <1>2, <1>4 DEF RecordState
<1>13. CarriedState'
  BY <1>1, <1>4, AttemptsAssumption DEF IInv, CarriedState, PassedOn, Attempt
<1> QED BY <1>6, <1>7, <1>8, <1>9, <1>10, <1>11, <1>12, <1>13 DEF IInv

-----------------------------------------------------------------------------
(* Every step keeps the inductive invariant, a stutter included. *)
LEMMA NextInv ==
  ASSUME IInv, [Next]_vars
  PROVE  IInv'
<1>1. CASE Next
  <2>1. CASE StartAttempt
    BY <2>1, StartAttemptInv
  <2>2. CASE TimeOut
    BY <2>2, TimeOutInv
  <2>3. ASSUME NEW a \in Attempt, Crash(a) \/ AnswerTooLate(a)
        PROVE  IInv'
    BY <2>3, GoneInv
  <2>4. ASSUME NEW a \in Attempt,
               \/ OpenSession(a)
               \/ Notify(a)
               \/ \E figure \in Usage : ReportUsage(a, figure)
        PROVE  IInv'
    BY <2>4, ProviderInv
  <2>5. ASSUME NEW a \in Attempt, ProviderReturns(a)
        PROVE  IInv'
    BY <2>5, ProviderReturnsInv
  <2>6. ASSUME NEW a \in Attempt, Pump(a)
        PROVE  IInv'
    BY <2>6, PumpInv
  <2>7. ASSUME NEW a \in Attempt, Flush(a)
        PROVE  IInv'
    BY <2>7, FlushInv
  <2>8. ASSUME NEW a \in Attempt, NEW answer \in {"ok", "retryable", "terminal"},
               Accept(a, answer)
        PROVE  IInv'
    BY <2>8, AcceptInv
  <2> QED BY <1>1, <2>1, <2>2, <2>3, <2>4, <2>5, <2>6, <2>7, <2>8 DEF Next
<1>2. CASE UNCHANGED vars
  <2>1. TypeOK' /\ StartedInOrder' /\ DetailsState' /\ SessionState'
    BY <1>2 DEF vars, IInv, TypeOK, StartedInOrder, DetailsState, SessionState, Directive
  <2>2. AnchorKept' /\ RecordState' /\ CarriedState'
    BY <1>2 DEF vars, IInv, AnchorKept, RecordState, CarriedState, PassedOn
  <2>3. AnchorState'
    BY <1>2 DEF vars, IInv, AnchorState, SessionQueued
  <2> QED BY <2>1, <2>2, <2>3 DEF IInv
<1> QED BY <1>1, <1>2

(* The invariant holds of every behaviour of execute_turn's attempts. *)
THEOREM Inductive == Spec => []IInv
<1>1. Init => IInv
  BY InitInv
<1>2. IInv /\ [Next]_vars => IInv'
  BY NextInv
<1> QED BY <1>1, <1>2, PTL DEF Spec

(* The engine's and the attempts' state keeps its types, and no channel of an *)
(* attempt outgrows its bound (run.rs execute_turn, provider.rs sink).        *)
THEOREM TypeCorrect == Spec => []TypeOK
<1>1. IInv => TypeOK
  BY DEF IInv
<1> QED BY <1>1, Inductive, PTL

(* For every retry bound and every set of figures: an attempt's spend reaches *)
(* its successor at most once, and wholly if it lived to answer; a record     *)
(* adds the winner's own (run.rs, the pump's carry and the last heartbeat).   *)
THEOREM SpendIsCarriedOnce == Spec => []SpendCarriedOnce
<1>1. IInv => SpendCarriedOnce
  <2> SUFFICES ASSUME IInv PROVE SpendCarriedOnce
    OBVIOUS
  <2>1. CarriedState
    BY DEF IInv
  <2>2. ASSUME turn = "succeeded", record.usage # Unknown
        PROVE  record.usage = Known(prior[current].usage) + Known(snapshot[current])
    <3>1. /\ current \in Attempt
          /\ record.usage = AggregateSuccessUsage(prior[current].usage, snapshot[current])
      BY <2>2, AttemptsAssumption DEF IInv, RecordState, TypeOK, Attempt
    <3>2. prior[current].usage \in Figure /\ snapshot[current] \in Figure
      BY <3>1, AttemptTypes DEF IInv
    <3> QED BY <2>2, <3>1, <3>2, AggregateAdds
  <2> QED BY <2>1, <2>2 DEF SpendCarriedOnce, CarriedState
<1> QED BY <1>1, Inductive, PTL

-----------------------------------------------------------------------------
(* Sessions known to a pump, the engine or a retry are sessions opened. *)

SessionsOpened ==
  /\ details.session \in Attempt => opened[details.session] = "announced"
  /\ \A a \in Attempt :
       /\ prior[a].session \in Attempt => opened[prior[a].session] = "announced"
       /\ anchor[a] \in Attempt => opened[anchor[a]] = "announced"
       /\ SessionQueued(a) => opened[a] = "announced"

(* A channel holds a session only by the event that announced it. *)
LEMMA EmitsAnnounced ==
  ASSUME TypeOK, NEW a \in Attempt, NEW event \in {"session", "liveness"}, Emit(a, event),
         NEW b \in Attempt, SessionQueued(b)'
  PROVE  \/ SessionQueued(b)
         \/ b = a /\ event = "session" /\ HasRoom(a)
<1>1. queue[a] \in Seq({"session", "liveness"}) /\ Len(queue[a]) \in Nat
  BY DEF TypeOK
<1>2. CASE b # a \/ ~HasRoom(a)
  <2>1. queue'[b] = queue[b]
    BY <1>2 DEF Emit, TypeOK
  <2> QED BY <2>1 DEF SessionQueued
<1>3. CASE b = a /\ HasRoom(a)
  <2>1. queue'[a] = Append(queue[a], event)
    BY <1>3 DEF Emit, TypeOK
  <2>2. PICK i \in 1..Len(Append(queue[a], event)) : Append(queue[a], event)[i] = "session"
    BY <1>3, <2>1 DEF SessionQueued
  <2>3. CASE i \in 1..Len(queue[a])
    BY <1>1, <1>3, <2>2, <2>3 DEF SessionQueued
  <2>4. CASE i = Len(queue[a]) + 1
    BY <1>1, <1>3, <2>2, <2>4
  <2> QED BY <1>1, <2>2, <2>3, <2>4
<1> QED BY <1>2, <1>3

(* A session opened stays opened, and one announced stays announced. *)
LEMMA AnnouncedStays ==
  ASSUME TypeOK, Next, NEW s \in Attempt, opened[s] = "announced"
  PROVE  opened'[s] = "announced"
<1>1. CASE \E a \in Attempt : OpenSession(a)
  BY <1>1 DEF OpenSession, TypeOK
<1>2. CASE UNCHANGED opened
  BY <1>2
<1> QED BY <1>1, <1>2 DEF Next, StartAttempt, TimeOut, Crash, Notify, ReportUsage,
           ProviderReturns, Pump, Flush, Accept, AnswerTooLate

(* Every step keeps it: a pump learns of its own session from the channel. *)
LEMMA SessionsOpenedNext ==
  ASSUME IInv, SessionsOpened, Next
  PROVE  SessionsOpened'
<1> DEFINE
      Found(s) == s \in Attempt => opened[s] = "announced"
      Kept == /\ Found(details'.session)
              /\ \A b \in Attempt : Found(prior'[b].session) /\ Found(anchor'[b])
              /\ \A b \in Attempt :
                   SessionQueued(b)' => SessionQueued(b) \/ opened'[b] = "announced"
<1>1. /\ TypeOK
      /\ Found(details.session)
      /\ \A b \in Attempt : Found(prior[b].session) /\ Found(anchor[b])
      /\ \A b \in Attempt : SessionQueued(b) => opened[b] = "announced"
  BY DEF SessionsOpened, IInv
<1>2. \A s : Found(s) => (s \in Attempt => opened'[s] = "announced")
  BY <1>1, AnnouncedStays
<1>3. ~(NoSession \in Attempt)
  BY SessionAssumption, AttemptsAssumption DEF Attempt
<1>4. Kept
  <2>1. CASE StartAttempt
    <3>1. /\ \A b \in Attempt : prior'[b] \in {prior[b], details}
          /\ \A b \in Attempt : anchor'[b] \in {anchor[b], details.session}
          /\ details' = details /\ queue' = queue
      BY <1>1, <2>1 DEF StartAttempt, TypeOK
    <3> QED BY <1>1, <3>1 DEF SessionQueued
  <2>2. CASE TimeOut
    BY <1>1, <2>2 DEF TimeOut, SessionQueued
  <2>3. ASSUME NEW a \in Attempt, Crash(a) \/ AnswerTooLate(a)
        PROVE  Kept
    <3>1. /\ prior' = prior /\ details' = details
          /\ \A b \in Attempt : anchor'[b] \in {anchor[b], NoSession}
          /\ \A b \in Attempt : queue'[b] = queue[b] \/ queue'[b] = <<>>
      BY <1>1, <2>3 DEF Crash, AnswerTooLate, Ends, engine_vars, TypeOK
    <3> QED BY <1>1, <1>3, <3>1 DEF SessionQueued
  <2>4. ASSUME NEW a \in Attempt, OpenSession(a)
        PROVE  Kept
    <3>1. /\ prior' = prior /\ details' = details /\ anchor' = anchor
          /\ Emit(a, "session")
          /\ HasRoom(a) => opened'[a] = "announced"
      BY <1>1, <2>4 DEF OpenSession, engine_vars, TypeOK
    <3> QED BY <1>1, <3>1, EmitsAnnounced
  <2>5. ASSUME NEW a \in Attempt,
               Notify(a) \/ \E figure \in Usage : ReportUsage(a, figure)
        PROVE  Kept
    <3>1. /\ prior' = prior /\ details' = details /\ anchor' = anchor
          /\ Emit(a, "liveness")
      BY <2>5 DEF Notify, ReportUsage, engine_vars
    <3> QED BY <1>1, <3>1, EmitsAnnounced
  <2>6. ASSUME NEW a \in Attempt, ProviderReturns(a)
        PROVE  Kept
    BY <1>1, <2>6 DEF ProviderReturns, engine_vars, SessionQueued
  <2>7. ASSUME NEW a \in Attempt, Pump(a)
        PROVE  Kept
    <3>1. /\ prior' = prior /\ queue[a] # <<>>
          /\ queue' = [queue EXCEPT ![a] = Tail(queue[a])]
          /\ anchor' = [anchor EXCEPT ![a] = PumpedSession(a)]
          /\ details'.session \in {details.session, PumpedSession(a)}
      BY <2>7 DEF Pump, Heartbeat, TurnHeartbeatNow
    <3>2. queue[a] \in Seq({"session", "liveness"}) /\ Len(queue[a]) \in Nat \ {0}
      BY <1>1, <3>1 DEF TypeOK
    <3>3. Found(PumpedSession(a))
      <4>1. Head(queue[a]) = "session" => SessionQueued(a)
        BY <3>2 DEF SessionQueued
      <4> QED BY <1>1, <4>1 DEF PumpedSession
    <3>4. \A b \in Attempt : anchor'[b] \in {anchor[b], PumpedSession(a)}
      BY <1>1, <3>1 DEF TypeOK
    <3>5. ASSUME NEW b \in Attempt, SessionQueued(b)'
          PROVE  SessionQueued(b)
      <4>1. CASE b = a
        <5>1. queue'[a] = Tail(queue[a])
          BY <1>1, <3>1 DEF TypeOK
        <5>2. PICK i \in 1..Len(Tail(queue[a])) : Tail(queue[a])[i] = "session"
          BY <3>5, <4>1, <5>1 DEF SessionQueued
        <5>3. i + 1 \in 1..Len(queue[a]) /\ queue[a][i + 1] = "session"
          BY <3>2, <5>2
        <5> QED BY <4>1, <5>3 DEF SessionQueued
      <4>2. CASE b # a
        BY <1>1, <3>1, <3>5, <4>2 DEF TypeOK, SessionQueued
      <4> QED BY <4>1, <4>2
    <3> QED BY <1>1, <3>1, <3>3, <3>4, <3>5
  <2>8. ASSUME NEW a \in Attempt, Flush(a)
        PROVE  Kept
    <3>1. /\ prior' = prior /\ queue' = queue /\ anchor' = anchor
          /\ details'.session \in {details.session, anchor[a]}
      BY <2>8 DEF Flush, Heartbeat, FlushedHeartbeat, TurnHeartbeatNow
    <3> QED BY <1>1, <3>1 DEF SessionQueued
  <2>9. ASSUME NEW a \in Attempt, NEW answer \in {"ok", "retryable", "terminal"},
               Accept(a, answer)
        PROVE  Kept
    <3>1. /\ prior' = prior /\ details'.session = anchor[a]
          /\ \A b \in Attempt : anchor'[b] \in {anchor[b], NoSession}
          /\ \A b \in Attempt : queue'[b] = queue[b] \/ queue'[b] = <<>>
      BY <1>1, <2>9 DEF Accept, Ends, FlushedHeartbeat, TurnHeartbeatNow, TypeOK
    <3> QED BY <1>1, <1>3, <3>1 DEF SessionQueued
  <2> QED BY <2>1, <2>2, <2>3, <2>4, <2>5, <2>6, <2>7, <2>8, <2>9 DEF Next
<1>5. \A b \in Attempt : opened[b] = "announced" => opened'[b] = "announced"
  BY <1>1, AnnouncedStays
<1> QED BY <1>1, <1>2, <1>4, <1>5 DEF SessionsOpened

(* For every retry bound and channel capacity: an attempt forks the recorded  *)
(* parent or, in a turn that starts fresh, nothing or a session an earlier    *)
(* attempt opened and announced (run.rs, the pump and the retry's directive). *)
THEOREM OnlyFoundSessionsForked == Spec => []ForksFound
<1>1. Init => SessionsOpened
  BY SessionAssumption, AttemptsAssumption
  DEF Init, SessionsOpened, NoDetails, SessionQueued, Attempt
<1>2. IInv /\ SessionsOpened /\ [Next]_vars => SessionsOpened'
  <2>1. ASSUME SessionsOpened, UNCHANGED vars
        PROVE  SessionsOpened'
    BY <2>1 DEF vars, SessionsOpened, SessionQueued
  <2> QED BY <2>1, SessionsOpenedNext
<1>3. IInv /\ SessionsOpened => ForksFound
  <2> SUFFICES ASSUME IInv, SessionsOpened, NEW a \in Attempt, a <= current, fork[a] # asked
               PROVE  asked = NoSession /\ fork[a] \in 1..(a - 1) /\ opened[fork[a]] = "announced"
    BY DEF ForksFound
  <2>1. /\ fork[a] = prior[a].session /\ asked = NoSession
        /\ prior[a].session \in {NoSession} \cup 1..(a - 1)
    BY DEF IInv, SessionState, Directive
  <2>2. fork[a] \in 1..(a - 1) /\ fork[a] \in Attempt
    BY <2>1, AttemptsAssumption DEF Attempt
  <2> QED BY <2>1, <2>2 DEF SessionsOpened
<1> QED BY <1>1, <1>2, <1>3, Inductive, PTL DEF Spec

(* For every retry bound and channel capacity: in a turn that starts fresh, a *)
(* session announced by an attempt that lived to answer, or a newer one, is   *)
(* what every later attempt forks (run.rs, recovery from heartbeat details).  *)
THEOREM AnchorsAreRecovered == Spec => []AnchorRecovered
<1>1. IInv => AnchorRecovered
  <2> SUFFICES ASSUME IInv, asked = NoSession, NEW a \in Attempt, NEW b \in Attempt,
                      a < b, b <= current, proc[a] = "answered", opened[a] = "announced"
               PROVE  fork[b] \in a..(b - 1)
    BY DEF AnchorRecovered
  <2>1. prior[b].session \in a..(b - 1)
    BY DEF IInv, AnchorKept
  <2>2. fork[b] = prior[b].session
    BY DEF IInv, SessionState, Directive
  <2> QED BY <2>1, <2>2
<1> QED BY <1>1, Inductive, PTL
=============================================================================
