-------------------------- MODULE ToolInvoked_proofs --------------------------
(***************************************************************************)
(* Theorems about ToolInvoked, for every set of turns, call ids, tools,    *)
(* results and handlers and every retry bound.                             *)
(***************************************************************************)
EXTENDS ToolInvoked, TLAPS

-----------------------------------------------------------------------------
(* The registry's operations. *)

(* A fresh registry has the registry's type. *)
LEMMA EmptyRegistryType == EmptyRegistry \in Registry
BY DEF EmptyRegistry, Registry, InvocationState, NotPresented

(* Storing one entry changes that entry and nothing else. *)
LEMMA PutEffect ==
  ASSUME NEW reg \in Registry, NEW id \in InvocationId, NEW entry \in InvocationState
  PROVE  /\ Put(reg, id, entry) \in Registry
         /\ Put(reg, id, entry).watermark = reg.watermark
         /\ \A t \in Turn, c \in CallId :
              Put(reg, id, entry).calls[t][c] =
                IF t = id.turn /\ c = id.call_id THEN entry ELSE reg.calls[t][c]
BY DEF Put, Registry, InvocationId

(* Observing an attempt raises its turn's watermark to it and does nothing else. *)
LEMMA ObserveEffect ==
  ASSUME NEW reg \in Registry, NEW id \in InvocationId
  PROVE  /\ Observe(reg, id) \in Registry
         /\ Observe(reg, id).calls = reg.calls
         /\ \A t \in Turn :
              Observe(reg, id).watermark[t] =
                IF t = id.turn /\ id.attempt > reg.watermark[t]
                THEN id.attempt ELSE reg.watermark[t]
BY DEF Observe, Registry, InvocationId

(* What a verdict says of the entry it was given for. *)
LEMMA VerdictMeaning ==
  ASSUME NEW reg \in Registry, NEW id \in InvocationId
  PROVE  /\ Verdict(reg, id) \in {"Recorded", "AwaitExisting", "Fenced", "Execute"}
         /\ Verdict(reg, id) = "Recorded" <=>
              \E r \in Result : Entry(reg, id) = Complete(r)
         /\ Verdict(reg, id) = "AwaitExisting" <=> Entry(reg, id).status = "in_flight"
         /\ Verdict(reg, id) = "Fenced" <=>
              Entry(reg, id) = NotPresented /\ id.attempt < reg.watermark[id.turn]
         /\ Verdict(reg, id) = "Execute" <=>
              Entry(reg, id) = NotPresented /\ ~(id.attempt < reg.watermark[id.turn])
<1>1. Entry(reg, id) \in InvocationState
  BY DEF Entry, Registry, InvocationId
<1>2. /\ Entry(reg, id).status \in {"absent", "in_flight", "complete"}
      /\ Entry(reg, id).status = "absent" <=> Entry(reg, id) = NotPresented
      /\ Entry(reg, id).status = "complete" <=>
           \E r \in Result : Entry(reg, id) = Complete(r)
  BY <1>1 DEF InvocationState, NotPresented, Complete
<1> QED
  BY <1>2 DEF Verdict, Recorded, Superseded

(* Admission changes one watermark and, on Execute only, one entry. *)
LEMMA AdmitEffect ==
  ASSUME NEW reg \in Registry, NEW id \in InvocationId, NEW tool \in ToolName
  PROVE  /\ Admit(reg, id, tool) \in Registry
         /\ \A t \in Turn :
              Admit(reg, id, tool).watermark[t] =
                IF t = id.turn /\ id.attempt > reg.watermark[t]
                THEN id.attempt ELSE reg.watermark[t]
         /\ \A t \in Turn, c \in CallId :
              Admit(reg, id, tool).calls[t][c] =
                IF t = id.turn /\ c = id.call_id /\ Verdict(reg, id) = "Execute"
                THEN InFlight(id.attempt, tool) ELSE reg.calls[t][c]
<1> DEFINE seen == Observe(reg, id)
<1>1. /\ seen \in Registry
      /\ seen.calls = reg.calls
      /\ \A t \in Turn :
           seen.watermark[t] =
             IF t = id.turn /\ id.attempt > reg.watermark[t]
             THEN id.attempt ELSE reg.watermark[t]
  BY ObserveEffect
<1>2. InFlight(id.attempt, tool) \in InvocationState
  BY DEF InFlight, InvocationState, InvocationId
<1>3. CASE Verdict(reg, id) = "Execute"
  <2>1. Admit(reg, id, tool) = Put(seen, id, InFlight(id.attempt, tool))
    BY <1>3 DEF Admit
  <2> HIDE DEF seen
  <2> QED BY <2>1, <1>1, <1>2, <1>3, PutEffect
<1>4. CASE Verdict(reg, id) # "Execute"
  BY <1>1, <1>4 DEF Admit
<1> QED BY <1>3, <1>4

(* Redeeming a ticket completes its own entry and touches no other. *)
LEMMA CompleteEffect ==
  ASSUME NEW reg \in Registry, NEW id \in InvocationId, NEW result \in Result
  PROVE  /\ CompleteTicket(reg, id, result) \in Registry
         /\ CompleteTicket(reg, id, result).watermark = reg.watermark
         /\ \A t \in Turn, c \in CallId :
              CompleteTicket(reg, id, result).calls[t][c] =
                IF t = id.turn /\ c = id.call_id
                THEN Complete(result) ELSE reg.calls[t][c]
<1>1. Complete(result) \in InvocationState
  BY DEF Complete, InvocationState
<1> QED BY <1>1, PutEffect DEF CompleteTicket
-----------------------------------------------------------------------------
(* The inductive invariant.  AtMostOnce alone is not inductive: that a second *)
(* presentation cannot execute follows from the entry the first one left in  *)
(* the registry, and that the newest attempt is fenced by leftovers only, from *)
(* what the watermark is fed by: attempts the engine scheduled, or leftovers. *)

EntryOf(u) == invocations.calls[ident[u].turn][ident[u].call_id]

FedByLeftover(t) ==
  \E v \in leftover :
    ident[v].turn = t /\ ident[v].attempt = invocations.watermark[t]

WatermarkFed ==
  /\ \A v \in leftover : pc[v] # "idle"
  /\ \A t \in Turn : invocations.watermark[t] <= scheduled[t] \/ FedByLeftover(t)

(* What each control state of a handler implies. *)
HandlerState(u) ==
  /\ pc[u] = "idle" => ident[u] = NoIdentity
  /\ pc[u] # "idle" => ident[u] \in PresentedId
  /\ pc[u] \in {"idle", "executing", "joined"} <=> reply[u] = NoReply
  /\ pc[u] = "executed" => reply[u].kind = "completed"
  /\ ReachedRegistry(u) =>
       /\ ident[u] \in InvocationId
       /\ ident[u].attempt <= invocations.watermark[ident[u].turn]
  /\ pc[u] = "executing" => EntryOf(u).status = "in_flight"
  /\ pc[u] = "joined" => EntryOf(u).status \in {"in_flight", "complete"}
  /\ reply[u].kind = "completed" => EntryOf(u) = Complete(reply[u].result)
  /\ reply[u] = Rejected("Fenced") =>
       ident[u].attempt < invocations.watermark[ident[u].turn]

IInv ==
  /\ TypeOK
  /\ WatermarkFed
  /\ \A u \in Update : HandlerState(u)
  /\ AtMostOnce

(* The initial state satisfies the inductive invariant. *)
LEMMA InitInv == Init => IInv
<1> SUFFICES ASSUME Init PROVE IInv
  OBVIOUS
<1>1. TypeOK
  BY EmptyRegistryType, AttemptsBound DEF Init, TypeOK, Reply, NoReply
<1>2. WatermarkFed
  <2>1. ASSUME NEW t \in Turn
        PROVE  invocations.watermark[t] <= scheduled[t]
    <3>1. invocations.watermark[t] = 0
      BY DEF Init, EmptyRegistry
    <3>2. scheduled[t] = 0
      BY DEF Init
    <3> QED BY <3>1, <3>2, 0 <= 0
  <2>2. leftover = {}
    BY DEF Init
  <2> QED BY <2>1, <2>2 DEF WatermarkFed
<1>3. \A u \in Update : HandlerState(u)
  BY DEF Init, HandlerState, ReachedRegistry, NoReply, Rejected
<1>4. AtMostOnce
  BY DEF Init, AtMostOnce, HasExecuted
<1> QED BY <1>1, <1>2, <1>3, <1>4 DEF IInv

(* What every admitted presentation does, whatever its verdict. *)
LEMMA AdmittedStep ==
  ASSUME IInv, NEW u \in Update, NEW id \in PresentedId, NEW tool \in ToolName,
         NEW verdict, Admitted(u, id, tool, verdict)
  PROVE  /\ id \in InvocationId
         /\ id.attempt <= scheduled[id.turn] \/ u \in leftover'
         /\ leftover \subseteq leftover' /\ leftover' \subseteq leftover \cup {u}
         /\ pc[u] = "idle"
         /\ ident' = [ident EXCEPT ![u] = id]
         /\ invocations' \in Registry
         /\ invocations'.watermark[id.turn] >= id.attempt
         /\ \A t \in Turn :
              /\ invocations'.watermark[t] >= invocations.watermark[t]
              /\ invocations'.watermark[t] \in {invocations.watermark[t], id.attempt}
              /\ t # id.turn => invocations'.watermark[t] = invocations.watermark[t]
         /\ \A t \in Turn, c \in CallId :
              (t # id.turn \/ c # id.call_id \/ verdict # "Execute")
                => invocations'.calls[t][c] = invocations.calls[t][c]
         /\ verdict = "Execute" =>
              /\ Entry(invocations, id) = NotPresented
              /\ Entry(invocations', id) = InFlight(id.attempt, tool)
         /\ UNCHANGED run_vars
<1>1. /\ id.turn \in Turn /\ id.attempt \in 1..MaxAttempts
      /\ id.call_id \in CallId \cup {NoCall}
      /\ invocations \in Registry
      /\ invocations.watermark \in [Turn -> Nat]
  BY DEF PresentedId, IInv, TypeOK, Registry
<1>2. id.call_id # NoCall /\ id.turn <= turns_done /\ phase # "created"
  BY <1>1, TurnsAreNaturals DEF Admitted, Refusal, IInv, TypeOK
<1>3. id \in InvocationId
  BY <1>1, <1>2, AttemptsBound DEF InvocationId, PresentedId
<1>4. /\ id.attempt <= scheduled[id.turn] \/ u \in leftover'
      /\ leftover \subseteq leftover' /\ leftover' \subseteq leftover \cup {u}
  <2>1. leftover' = IF id.attempt > scheduled[id.turn] THEN leftover \cup {u} ELSE leftover
    BY DEF Admitted
  <2>2. id.attempt \in Nat /\ scheduled[id.turn] \in Nat
    BY <1>1, AttemptsBound DEF IInv, TypeOK
  <2> QED BY <2>1, <2>2
<1>5. /\ pc[u] = "idle"
      /\ ident' = [ident EXCEPT ![u] = id]
      /\ invocations' = Admit(invocations, id, tool)
      /\ Verdict(invocations, id) = verdict
      /\ UNCHANGED run_vars
  BY DEF Admitted, Arrives
<1>6. /\ Admit(invocations, id, tool) \in Registry
      /\ \A t \in Turn :
           Admit(invocations, id, tool).watermark[t] =
             IF t = id.turn /\ id.attempt > invocations.watermark[t]
             THEN id.attempt ELSE invocations.watermark[t]
      /\ \A t \in Turn, c \in CallId :
           Admit(invocations, id, tool).calls[t][c] =
             IF t = id.turn /\ c = id.call_id /\ Verdict(invocations, id) = "Execute"
             THEN InFlight(id.attempt, tool) ELSE invocations.calls[t][c]
  BY <1>1, <1>3, AdmitEffect
<1>7. \A t \in Turn : invocations.watermark[t] \in Nat
  BY <1>1
<1>8. id.attempt \in Nat
  BY <1>1, AttemptsBound
<1>9. invocations'.watermark[id.turn] >= id.attempt
  BY <1>1, <1>5, <1>6, <1>7, <1>8
<1>10. \A t \in Turn :
          /\ invocations'.watermark[t] >= invocations.watermark[t]
          /\ invocations'.watermark[t] \in {invocations.watermark[t], id.attempt}
          /\ t # id.turn => invocations'.watermark[t] = invocations.watermark[t]
  BY <1>5, <1>6, <1>7, <1>8
<1>11. verdict = "Execute" =>
         /\ Entry(invocations, id) = NotPresented
         /\ Entry(invocations', id) = InFlight(id.attempt, tool)
  BY <1>1, <1>3, <1>5, <1>6, VerdictMeaning DEF Entry, InvocationId
<1> QED
  BY <1>3, <1>4, <1>5, <1>6, <1>9, <1>10, <1>11

(* An admitted presentation leaves the other handlers' facts standing: the  *)
(* one entry it may change was absent, so no other handler relied on it.    *)
LEMMA AdmittedOthers ==
  ASSUME IInv, NEW u \in Update, NEW id \in PresentedId, NEW tool \in ToolName,
         NEW verdict, Admitted(u, id, tool, verdict),
         NEW v \in Update, v # u, pc'[v] = pc[v], reply'[v] = reply[v]
  PROVE  HandlerState(v)'
<1>1. HandlerState(v)
  BY DEF IInv
<1>2. ident'[v] = ident[v]
  BY AdmittedStep DEF IInv, TypeOK
<1>3. ReachedRegistry(v)' <=> ReachedRegistry(v)
  BY DEF ReachedRegistry
<1>4. ASSUME ReachedRegistry(v)
      PROVE  ident[v].attempt <= invocations'.watermark[ident[v].turn]
  <2>1. /\ ident[v].turn \in Turn
        /\ ident[v].attempt \in Nat
        /\ ident[v].attempt <= invocations.watermark[ident[v].turn]
    BY <1>1, <1>4 DEF HandlerState, InvocationId
  <2>2. /\ invocations'.watermark[ident[v].turn] >= invocations.watermark[ident[v].turn]
        /\ invocations.watermark[ident[v].turn] \in Nat
        /\ invocations'.watermark[ident[v].turn] \in Nat
    BY <2>1, AdmittedStep DEF IInv, TypeOK, Registry
  <2> QED BY <2>1, <2>2
<1>5. ASSUME ReachedRegistry(v), EntryOf(v) # NotPresented
      PROVE  EntryOf(v)' = EntryOf(v)
  BY <1>1, <1>2, <1>5, AdmittedStep DEF EntryOf, Entry, HandlerState, InvocationId
<1>6. pc[v] \in {"executing", "joined"} \/ reply[v].kind = "completed"
        => ReachedRegistry(v) /\ EntryOf(v) # NotPresented
  <2>1. pc[v] \in {"executing", "joined"} => ReachedRegistry(v)
    BY DEF ReachedRegistry
  <2>2. reply[v].kind = "completed" => ReachedRegistry(v)
    <3>1. pc[v] \in {"idle", "executing", "joined", "executed", "answered"}
      BY DEF IInv, TypeOK
    <3> QED BY <1>1, <3>1 DEF ReachedRegistry, HandlerState, NoReply
  <2>3. EntryOf(v).status \in {"in_flight", "complete"} => EntryOf(v) # NotPresented
    BY DEF NotPresented
  <2>4. reply[v].kind = "completed" => EntryOf(v).status = "complete"
    BY <1>1 DEF HandlerState, Complete
  <2> QED BY <1>1, <2>1, <2>2, <2>3, <2>4 DEF HandlerState
<1>7. reply[v] = Rejected("Fenced") =>
        ident[v].attempt < invocations'.watermark[ident[v].turn]
  <2> SUFFICES ASSUME reply[v] = Rejected("Fenced")
               PROVE  ident[v].attempt < invocations'.watermark[ident[v].turn]
    OBVIOUS
  <2>1. ReachedRegistry(v)
    <3>1. reply[v] # NoReply /\ reply[v].kind # "completed"
      BY DEF Rejected, NoReply
    <3>2. pc[v] = "answered"
      BY <1>1, <3>1 DEF HandlerState, IInv, TypeOK
    <3> QED BY <3>2 DEF ReachedRegistry
  <2>2. /\ ident[v].turn \in Turn
        /\ ident[v].attempt \in Nat
        /\ ident[v].attempt < invocations.watermark[ident[v].turn]
    BY <1>1, <2>1 DEF HandlerState, InvocationId
  <2>3. /\ invocations'.watermark[ident[v].turn] >= invocations.watermark[ident[v].turn]
        /\ invocations.watermark[ident[v].turn] \in Nat
        /\ invocations'.watermark[ident[v].turn] \in Nat
    BY <2>2, AdmittedStep DEF IInv, TypeOK, Registry
  <2> QED BY <2>2, <2>3
<1> QED
  BY <1>1, <1>2, <1>3, <1>4, <1>5, <1>6, <1>7 DEF HandlerState

(* Every admission feeds the watermark from the schedule or from a leftover. *)
LEMMA AdmittedWatermark ==
  ASSUME IInv, NEW u \in Update, NEW id \in PresentedId, NEW tool \in ToolName,
         NEW verdict, Admitted(u, id, tool, verdict), pc'[u] # "idle",
         \A v \in Update : v # u => pc'[v] = pc[v]
  PROVE  WatermarkFed'
<1>1. /\ leftover \subseteq Update /\ \A v \in leftover : pc[v] # "idle"
      /\ \A t \in Turn : invocations.watermark[t] <= scheduled[t] \/ FedByLeftover(t)
  BY DEF IInv, WatermarkFed, TypeOK
<1>2. /\ scheduled' = scheduled
      /\ pc[u] = "idle"
      /\ id.attempt <= scheduled[id.turn] \/ u \in leftover'
      /\ leftover \subseteq leftover' /\ leftover' \subseteq leftover \cup {u}
      /\ ident'[u] = id
      /\ \A v \in Update : v # u => ident'[v] = ident[v]
      /\ \A t \in Turn :
           /\ invocations'.watermark[t] \in {invocations.watermark[t], id.attempt}
           /\ t # id.turn => invocations'.watermark[t] = invocations.watermark[t]
  BY AdmittedStep DEF run_vars, IInv, TypeOK
<1>3. \A v \in leftover' : pc'[v] # "idle"
  BY <1>1, <1>2
<1>4. ASSUME NEW t \in Turn
      PROVE  invocations'.watermark[t] <= scheduled'[t] \/ FedByLeftover(t)'
  <2>1. CASE invocations'.watermark[t] = invocations.watermark[t]
    <3>1. ASSUME NEW v \in leftover, ident[v].turn = t,
                 ident[v].attempt = invocations.watermark[t]
          PROVE  FedByLeftover(t)'
      <4>1. v \in leftover' /\ v # u /\ ident'[v] = ident[v]
        BY <1>1, <1>2, <3>1
      <4> QED BY <2>1, <3>1, <4>1 DEF FedByLeftover
    <3> QED BY <1>1, <1>2, <2>1, <3>1 DEF FedByLeftover
  <2>2. CASE t = id.turn /\ invocations'.watermark[t] = id.attempt
    BY <1>2, <2>2 DEF FedByLeftover
  <2> QED BY <1>2, <2>1, <2>2
<1> QED BY <1>3, <1>4 DEF WatermarkFed

(* What leaves the registry and the schedule alone leaves the watermark fed. *)
LEMMA WatermarkKept ==
  ASSUME IInv, invocations'.watermark = invocations.watermark, leftover' = leftover,
         ident' = ident, \A v \in Update : pc[v] # "idle" => pc'[v] # "idle",
         scheduled' \in [Turn -> 0..MaxAttempts], \A t \in Turn : scheduled'[t] >= scheduled[t]
  PROVE  WatermarkFed'
<1>1. \A v \in leftover' : pc'[v] # "idle"
  BY DEF IInv, WatermarkFed, TypeOK
<1>2. ASSUME NEW t \in Turn
      PROVE  invocations'.watermark[t] <= scheduled'[t] \/ FedByLeftover(t)'
  <2>1. invocations.watermark[t] <= scheduled[t] \/ FedByLeftover(t)
    BY DEF IInv, WatermarkFed
  <2>2. FedByLeftover(t) => FedByLeftover(t)'
    BY DEF FedByLeftover
  <2>3. /\ invocations.watermark[t] \in Nat
        /\ scheduled[t] \in Nat /\ scheduled'[t] \in Nat /\ scheduled'[t] >= scheduled[t]
    BY AttemptsBound DEF IInv, TypeOK, Registry
  <2> QED BY <2>1, <2>2, <2>3
<1> QED BY <1>1, <1>2 DEF WatermarkFed

(* Types after a presentation is admitted. *)
LEMMA AdmittedTypes ==
  ASSUME IInv, NEW u \in Update, NEW id \in PresentedId, NEW tool \in ToolName,
         NEW verdict, Admitted(u, id, tool, verdict),
         NEW at \in {"executing", "joined", "executed", "answered"},
         pc' = [pc EXCEPT ![u] = at], reply' \in [Update -> Reply]
  PROVE  TypeOK'
<1>1. /\ invocations' \in Registry
      /\ ident' = [ident EXCEPT ![u] = id]
      /\ leftover' \subseteq leftover \cup {u}
      /\ UNCHANGED run_vars
  BY AdmittedStep
<1> QED BY <1>1 DEF IInv, TypeOK, run_vars

(* A refused presentation leaves the registry alone. *)
LEMMA RefuseInv ==
  ASSUME IInv, NEW u \in Update, NEW id \in PresentedId, NEW tool \in ToolName,
         Refuse(u, id, tool)
  PROVE  IInv'
<1>1. /\ pc[u] = "idle"
      /\ ident' = [ident EXCEPT ![u] = id]
      /\ leftover' = leftover
      /\ pc' = [pc EXCEPT ![u] = "answered"]
      /\ reply' = [reply EXCEPT ![u] = Rejected(Refusal(id, tool))]
      /\ UNCHANGED <<run_vars, invocations>>
  BY DEF Refuse, Arrives, Answer
<1>2. Refusal(id, tool) \in {"InvalidCallId", "UnknownTurn", "UnknownTool"}
  BY DEF Refuse, Refusal
<1>3. TypeOK'
  BY <1>1, <1>2 DEF IInv, TypeOK, run_vars, Reply, Rejected, Rejection
<1>4. WatermarkFed'
  <2>1. /\ leftover \subseteq Update
        /\ \A v \in leftover : pc[v] # "idle" /\ v # u /\ ident'[v] = ident[v]
    BY <1>1 DEF IInv, TypeOK, WatermarkFed
  <2>2. \A v \in leftover' : pc'[v] # "idle"
    BY <1>1, <2>1 DEF IInv, TypeOK
  <2>3. \A t \in Turn : FedByLeftover(t) => FedByLeftover(t)'
    BY <1>1, <2>1 DEF FedByLeftover
  <2> QED BY <1>1, <2>2, <2>3 DEF IInv, WatermarkFed, run_vars
<1>5. ASSUME NEW v \in Update PROVE HandlerState(v)'
  <2>1. CASE v = u
    <3>1. reply'[u] = Rejected(Refusal(id, tool)) /\ pc'[u] = "answered" /\ ident'[u] = id
      BY <1>1 DEF IInv, TypeOK
    <3>2. reply'[u].kind = "rejected" /\ reply'[u].why # "Fenced"
      BY <1>2, <3>1 DEF Rejected
    <3> QED
      BY <2>1, <3>1, <3>2 DEF HandlerState, ReachedRegistry, NoReply, Rejected
  <2>2. CASE v # u
    <3>1. pc'[v] = pc[v] /\ reply'[v] = reply[v] /\ ident'[v] = ident[v]
      BY <1>1, <2>2 DEF IInv, TypeOK
    <3>2. HandlerState(v) /\ invocations' = invocations
      BY <1>1 DEF IInv
    <3> QED
      BY <3>1, <3>2 DEF HandlerState, ReachedRegistry, EntryOf
  <2> QED BY <2>1, <2>2
<1>6. AtMostOnce'
  BY <1>1 DEF IInv, TypeOK, AtMostOnce, HasExecuted, SameCall
<1> QED BY <1>3, <1>4, <1>5, <1>6 DEF IInv

(* Serving a recorded result: the reply is the entry just read. *)
LEMMA ReplayInv ==
  ASSUME IInv, NEW u \in Update, NEW id \in PresentedId, NEW tool \in ToolName,
         ReplayRecorded(u, id, tool)
  PROVE  IInv'
<1> DEFINE result == Entry(invocations, id).result
<1>1. Admitted(u, id, tool, "Recorded")
  BY DEF ReplayRecorded
<1>2. /\ pc' = [pc EXCEPT ![u] = "answered"]
      /\ reply' = [reply EXCEPT ![u] = Completed(result)]
  BY DEF ReplayRecorded, Answer
<1>3. /\ id \in InvocationId
      /\ ident' = [ident EXCEPT ![u] = id]
      /\ invocations'.watermark[id.turn] >= id.attempt
      /\ Entry(invocations', id) = Entry(invocations, id)
  BY <1>1, AdmittedStep DEF Entry, InvocationId
<1>4. result \in Result /\ Entry(invocations, id) = Complete(result)
  <2>1. Verdict(invocations, id) = "Recorded"
    BY <1>1 DEF Admitted
  <2>2. \E r \in Result : Entry(invocations, id) = Complete(r)
    BY <1>3, <2>1, VerdictMeaning DEF IInv, TypeOK
  <2> QED BY <2>2 DEF Complete
<1> HIDE DEF result
<1>5. TypeOK'
  <2>1. reply' \in [Update -> Reply]
    BY <1>2, <1>4 DEF IInv, TypeOK, Reply, Completed
  <2> QED BY <1>1, <1>2, <2>1, AdmittedTypes
<1>6. WatermarkFed'
  BY <1>1, <1>2, AdmittedWatermark DEF IInv, TypeOK
<1>7. ASSUME NEW v \in Update PROVE HandlerState(v)'
  <2>1. CASE v = u
    <3>1. reply'[u] = Completed(result) /\ pc'[u] = "answered" /\ ident'[u] = id
      BY <1>2, <1>3 DEF IInv, TypeOK
    <3>2. EntryOf(u)' = Complete(result)
      BY <1>3, <1>4, <3>1 DEF EntryOf, Entry
    <3>3. id.attempt <= invocations'.watermark[id.turn]
      BY <1>1, <1>3, AdmittedStep DEF InvocationId, Registry
    <3> QED
      BY <1>3, <2>1, <3>1, <3>2, <3>3
      DEF HandlerState, ReachedRegistry, NoReply, Completed, Rejected
  <2>2. CASE v # u
    BY <1>1, <1>2, <2>2, AdmittedOthers DEF IInv, TypeOK
  <2> QED BY <2>1, <2>2
<1>8. AtMostOnce'
  BY <1>2, <1>3 DEF IInv, TypeOK, AtMostOnce, HasExecuted, SameCall
<1> QED BY <1>5, <1>6, <1>7, <1>8 DEF IInv

(* A fenced presentation named an attempt below the watermark, so a replaced one. *)
LEMMA FenceInv ==
  ASSUME IInv, NEW u \in Update, NEW id \in PresentedId, NEW tool \in ToolName,
         Fence(u, id, tool)
  PROVE  IInv'
<1>1. Admitted(u, id, tool, "Fenced")
  BY DEF Fence
<1>2. /\ pc' = [pc EXCEPT ![u] = "answered"]
      /\ reply' = [reply EXCEPT ![u] = Rejected("Fenced")]
  BY DEF Fence, Answer
<1>3. /\ id \in InvocationId
      /\ ident' = [ident EXCEPT ![u] = id]
      /\ invocations'.watermark[id.turn] >= id.attempt
      /\ invocations'.watermark[id.turn] >= invocations.watermark[id.turn]
      /\ invocations'.watermark[id.turn] \in Nat
      /\ invocations.watermark[id.turn] \in Nat
      /\ id.attempt \in Nat
  BY <1>1, AdmittedStep DEF InvocationId, Registry, IInv, TypeOK
<1>4. id.attempt < invocations'.watermark[id.turn]
  <2>1. Verdict(invocations, id) = "Fenced"
    BY <1>1 DEF Admitted
  <2>2. id.attempt < invocations.watermark[id.turn]
    BY <1>3, <2>1, VerdictMeaning DEF IInv, TypeOK
  <2> QED BY <1>3, <2>2
<1>5. TypeOK'
  <2>1. reply' \in [Update -> Reply]
    BY <1>2 DEF IInv, TypeOK, Reply, Rejected, Rejection
  <2> QED BY <1>1, <1>2, <2>1, AdmittedTypes
<1>6. WatermarkFed'
  BY <1>1, <1>2, AdmittedWatermark DEF IInv, TypeOK
<1>7. ASSUME NEW v \in Update PROVE HandlerState(v)'
  <2>1. CASE v = u
    <3>1. reply'[u] = Rejected("Fenced") /\ pc'[u] = "answered" /\ ident'[u] = id
      BY <1>2, <1>3 DEF IInv, TypeOK
    <3>2. id.attempt <= invocations'.watermark[id.turn]
      BY <1>3
    <3> QED
      BY <1>3, <1>4, <2>1, <3>1, <3>2
      DEF HandlerState, ReachedRegistry, NoReply, Rejected
  <2>2. CASE v # u
    BY <1>1, <1>2, <2>2, AdmittedOthers DEF IInv, TypeOK
  <2> QED BY <2>1, <2>2
<1>8. AtMostOnce'
  BY <1>2, <1>3 DEF IInv, TypeOK, AtMostOnce, HasExecuted, SameCall
<1> QED BY <1>5, <1>6, <1>7, <1>8 DEF IInv

(* A presentation that joins waits on an entry that is in flight. *)
LEMMA JoinInv ==
  ASSUME IInv, NEW u \in Update, NEW id \in PresentedId, NEW tool \in ToolName,
         Join(u, id, tool)
  PROVE  IInv'
<1>1. Admitted(u, id, tool, "AwaitExisting")
  BY DEF Join
<1>2. pc' = [pc EXCEPT ![u] = "joined"] /\ reply' = reply
  BY DEF Join
<1>3. /\ id \in InvocationId
      /\ pc[u] = "idle"
      /\ ident' = [ident EXCEPT ![u] = id]
      /\ invocations'.watermark[id.turn] >= id.attempt
      /\ Entry(invocations', id) = Entry(invocations, id)
  BY <1>1, AdmittedStep DEF Entry, InvocationId
<1>4. Entry(invocations, id).status = "in_flight"
  <2>1. Verdict(invocations, id) = "AwaitExisting"
    BY <1>1 DEF Admitted
  <2> QED BY <1>3, <2>1, VerdictMeaning DEF IInv, TypeOK
<1>5. TypeOK'
  <2>1. reply' \in [Update -> Reply]
    BY <1>2 DEF IInv, TypeOK
  <2> QED BY <1>1, <1>2, <2>1, AdmittedTypes
<1>6. WatermarkFed'
  BY <1>1, <1>2, AdmittedWatermark DEF IInv, TypeOK
<1>7. ASSUME NEW v \in Update PROVE HandlerState(v)'
  <2>1. CASE v = u
    <3>1. reply'[u] = NoReply /\ pc'[u] = "joined" /\ ident'[u] = id
      BY <1>2, <1>3 DEF IInv, TypeOK, HandlerState
    <3>2. EntryOf(u)'.status = "in_flight"
      BY <1>3, <1>4, <3>1 DEF EntryOf, Entry
    <3>3. id.attempt <= invocations'.watermark[id.turn]
      BY <1>1, <1>3, AdmittedStep DEF InvocationId, Registry
    <3> QED
      BY <1>3, <2>1, <3>1, <3>2, <3>3
      DEF HandlerState, ReachedRegistry, NoReply, Rejected
  <2>2. CASE v # u
    BY <1>1, <1>2, <2>2, AdmittedOthers DEF IInv, TypeOK
  <2> QED BY <2>1, <2>2
<1>8. AtMostOnce'
  BY <1>2, <1>3 DEF IInv, TypeOK, AtMostOnce, HasExecuted, SameCall
<1> QED BY <1>5, <1>6, <1>7, <1>8 DEF IInv

(* The one step that starts work: the entry it takes was absent, so nobody   *)
(* else has executed this call.                                             *)
LEMMA ExecuteInv ==
  ASSUME IInv, NEW u \in Update, NEW id \in PresentedId, NEW tool \in ToolName,
         Execute(u, id, tool)
  PROVE  IInv'
<1>1. Admitted(u, id, tool, "Execute")
  BY DEF Execute
<1>2. pc' = [pc EXCEPT ![u] = "executing"] /\ reply' = reply
  BY DEF Execute
<1>3. /\ id \in InvocationId
      /\ pc[u] = "idle"
      /\ ident' = [ident EXCEPT ![u] = id]
      /\ invocations'.watermark[id.turn] >= id.attempt
      /\ Entry(invocations, id) = NotPresented
      /\ Entry(invocations', id) = InFlight(id.attempt, tool)
  BY <1>1, AdmittedStep
<1>4. TypeOK'
  <2>1. reply' \in [Update -> Reply]
    BY <1>2 DEF IInv, TypeOK
  <2> QED BY <1>1, <1>2, <2>1, AdmittedTypes
<1>5. WatermarkFed'
  BY <1>1, <1>2, AdmittedWatermark DEF IInv, TypeOK
<1>6. ASSUME NEW v \in Update PROVE HandlerState(v)'
  <2>1. CASE v = u
    <3>1. reply'[u] = NoReply /\ pc'[u] = "executing" /\ ident'[u] = id
      BY <1>2, <1>3 DEF IInv, TypeOK, HandlerState
    <3>2. EntryOf(u)'.status = "in_flight"
      BY <1>3, <3>1 DEF EntryOf, Entry, InFlight
    <3>3. id.attempt <= invocations'.watermark[id.turn]
      BY <1>1, <1>3, AdmittedStep DEF InvocationId, Registry
    <3> QED
      BY <1>3, <2>1, <3>1, <3>2, <3>3
      DEF HandlerState, ReachedRegistry, NoReply, Rejected
  <2>2. CASE v # u
    BY <1>1, <1>2, <2>2, AdmittedOthers DEF IInv, TypeOK
  <2> QED BY <2>1, <2>2
<1>7. AtMostOnce'
  <2>1. ASSUME NEW v \in Update, HasExecuted(v)
        PROVE  ident[v].turn # id.turn \/ ident[v].call_id # id.call_id
    <3>1. EntryOf(v).status \in {"in_flight", "complete"}
      BY <2>1 DEF HasExecuted, IInv, HandlerState, Complete
    <3> QED BY <1>3, <3>1 DEF EntryOf, Entry, NotPresented
  <2>2. ASSUME NEW v \in Update
        PROVE  /\ HasExecuted(v)' <=> (v = u \/ HasExecuted(v))
               /\ ident'[v] = IF v = u THEN id ELSE ident[v]
    BY <1>2, <1>3 DEF IInv, TypeOK, HasExecuted
  <2> QED BY <2>1, <2>2 DEF IInv, AtMostOnce, SameCall
<1> QED BY <1>4, <1>5, <1>6, <1>7 DEF IInv

(* Recording a result: the executing handler was the only one of its call,  *)
(* and no caller had yet been told a result for it.                         *)
LEMMA FinishInv ==
  ASSUME IInv, NEW u \in Update, NEW result \in Result, Finish(u, result)
  PROVE  IInv'
<1>1. /\ pc[u] = "executing"
      /\ invocations' = CompleteTicket(invocations, ident[u], result)
      /\ pc' = [pc EXCEPT ![u] = "executed"]
      /\ reply' = [reply EXCEPT ![u] = Completed(result)]
      /\ ident' = ident /\ leftover' = leftover
      /\ UNCHANGED run_vars
  BY DEF Finish
<1>2. ident[u] \in InvocationId /\ EntryOf(u).status = "in_flight"
  BY <1>1 DEF IInv, HandlerState, ReachedRegistry
<1>3. /\ invocations' \in Registry
      /\ invocations'.watermark = invocations.watermark
      /\ \A t \in Turn, c \in CallId :
           invocations'.calls[t][c] =
             IF t = ident[u].turn /\ c = ident[u].call_id
             THEN Complete(result) ELSE invocations.calls[t][c]
  BY <1>1, <1>2, CompleteEffect DEF IInv, TypeOK
<1>4. TypeOK'
  BY <1>1, <1>3 DEF IInv, TypeOK, run_vars, Reply, Completed
<1>5. WatermarkFed'
  BY <1>1, <1>3, WatermarkKept, AttemptsBound DEF IInv, TypeOK, run_vars
<1>6. ASSUME NEW v \in Update PROVE HandlerState(v)'
  <2>1. HandlerState(v)
    BY DEF IInv
  <2>2. CASE v = u
    <3>1. reply'[u] = Completed(result) /\ pc'[u] = "executed"
      BY <1>1 DEF IInv, TypeOK
    <3>2. EntryOf(u)' = Complete(result)
      BY <1>1, <1>2, <1>3 DEF EntryOf, InvocationId
    <3>3. ident[u].attempt <= invocations'.watermark[ident[u].turn]
      BY <1>1, <1>3, <2>1, <2>2 DEF HandlerState, ReachedRegistry
    <3>4. ident[u] \in PresentedId
      BY <1>1, <2>1, <2>2 DEF HandlerState
    <3> QED
      BY <1>1, <1>2, <2>2, <3>1, <3>2, <3>3, <3>4
      DEF HandlerState, ReachedRegistry, NoReply, Completed, Rejected
  <2>3. CASE v # u
    <3>1. pc'[v] = pc[v] /\ reply'[v] = reply[v] /\ ident'[v] = ident[v]
      BY <1>1, <2>3 DEF IInv, TypeOK
    <3>2. ReachedRegistry(v) =>
            /\ ident[v] \in InvocationId
            /\ EntryOf(v)' = IF SameCall(v, u) THEN Complete(result) ELSE EntryOf(v)
      BY <1>3, <2>1, <3>1 DEF EntryOf, HandlerState, InvocationId, SameCall
    <3>3. pc[v] \in {"executing", "joined"} => ReachedRegistry(v)
      BY DEF ReachedRegistry
    <3>4. pc[v] = "executing" => ~SameCall(v, u)
      BY <1>1, <2>3 DEF IInv, AtMostOnce, HasExecuted
    <3>5. reply[v].kind = "completed" => ReachedRegistry(v) /\ ~SameCall(v, u)
      <4> SUFFICES ASSUME reply[v].kind = "completed"
                   PROVE  ReachedRegistry(v) /\ ~SameCall(v, u)
        OBVIOUS
      <4>1. pc[v] \in {"executed", "answered"}
        BY <2>1 DEF IInv, TypeOK, HandlerState, NoReply
      <4>2. EntryOf(v).status = "complete"
        BY <2>1 DEF HandlerState, Complete
      <4> QED BY <1>2, <4>1, <4>2 DEF ReachedRegistry, SameCall, EntryOf
    <3>6. ReachedRegistry(v)' <=> ReachedRegistry(v)
      BY <3>1 DEF ReachedRegistry
    <3>7. Complete(result).status = "complete"
      BY DEF Complete
    <3> QED
      BY <1>3, <2>1, <3>1, <3>2, <3>3, <3>4, <3>5, <3>6, <3>7 DEF HandlerState
  <2> QED BY <2>2, <2>3
<1>7. AtMostOnce'
  <2>1. ASSUME NEW v \in Update PROVE HasExecuted(v)' <=> HasExecuted(v)
    BY <1>1 DEF IInv, TypeOK, HasExecuted
  <2> QED BY <1>1, <2>1 DEF IInv, AtMostOnce, SameCall
<1> QED BY <1>4, <1>5, <1>6, <1>7 DEF IInv

(* A joined handler answers with the entry it waited for. *)
LEMMA ServeJoinedInv ==
  ASSUME IInv, NEW u \in Update, ServeJoined(u)
  PROVE  IInv'
<1> DEFINE result == Entry(invocations, ident[u]).result
<1>1. /\ pc[u] = "joined"
      /\ Recorded(invocations, ident[u])
      /\ pc' = [pc EXCEPT ![u] = "answered"]
      /\ reply' = [reply EXCEPT ![u] = Completed(result)]
      /\ UNCHANGED <<run_vars, ident, leftover, invocations>>
  BY DEF ServeJoined, Answer
<1>2. ident[u] \in InvocationId
  BY <1>1 DEF IInv, HandlerState, ReachedRegistry
<1>3. result \in Result /\ EntryOf(u) = Complete(result)
  <2>1. Entry(invocations, ident[u]) \in InvocationState
    BY <1>2 DEF Entry, IInv, TypeOK, Registry, InvocationId
  <2>2. EntryOf(u) = Entry(invocations, ident[u]) /\ EntryOf(u).status = "complete"
    BY <1>1 DEF Recorded, Entry, EntryOf
  <2>3. EntryOf(u) \in [status : {"complete"}, result : Result]
    BY <2>1, <2>2 DEF InvocationState, NotPresented
  <2>4. result = EntryOf(u).result
    BY <2>2
  <2> HIDE DEF result
  <2> QED BY <2>3, <2>4 DEF Complete
<1> HIDE DEF result
<1>4. TypeOK'
  BY <1>1, <1>3 DEF IInv, TypeOK, run_vars, Reply, Completed
<1>5. WatermarkFed'
  BY <1>1, WatermarkKept, AttemptsBound DEF IInv, TypeOK, run_vars
<1>6. ASSUME NEW v \in Update PROVE HandlerState(v)'
  <2>1. HandlerState(v)
    BY DEF IInv
  <2>2. CASE v = u
    <3>1. reply'[u] = Completed(result) /\ pc'[u] = "answered"
      BY <1>1 DEF IInv, TypeOK
    <3>2. /\ reply'[u] # NoReply /\ reply'[u] # Rejected("Fenced")
          /\ reply'[u].kind = "completed" /\ reply'[u].result = result
      BY <3>1 DEF NoReply, Completed, Rejected
    <3>3. ident' = ident /\ invocations' = invocations /\ ident[u] \in PresentedId
      BY <1>1, <2>1, <2>2 DEF HandlerState
    <3>3a. ident[u].attempt <= invocations.watermark[ident[u].turn]
      <4>1. ReachedRegistry(u)
        BY <1>1 DEF ReachedRegistry
      <4> QED BY <2>1, <2>2, <4>1 DEF HandlerState
    <3>4. EntryOf(u)' = EntryOf(u)
      BY <3>3 DEF EntryOf
    <3> QED
      BY <1>2, <1>3, <2>2, <3>1, <3>2, <3>3, <3>3a, <3>4 DEF HandlerState
  <2>3. CASE v # u
    <3>1. pc'[v] = pc[v] /\ reply'[v] = reply[v]
      BY <1>1, <2>3 DEF IInv, TypeOK
    <3> QED BY <1>1, <2>1, <3>1 DEF HandlerState, ReachedRegistry, EntryOf
  <2> QED BY <2>2, <2>3
<1>7. AtMostOnce'
  BY <1>1 DEF IInv, TypeOK, AtMostOnce, HasExecuted, SameCall
<1> QED BY <1>4, <1>5, <1>6, <1>7 DEF IInv

(* A cancelled wait answers with a rejection and touches no entry. *)
LEMMA CancelJoinedInv ==
  ASSUME IInv, NEW u \in Update, CancelJoined(u)
  PROVE  IInv'
<1>1. /\ pc[u] = "joined"
      /\ pc' = [pc EXCEPT ![u] = "answered"]
      /\ reply' = [reply EXCEPT ![u] = Rejected("RunCancelled")]
      /\ UNCHANGED <<run_vars, ident, leftover, invocations>>
  BY DEF CancelJoined, Answer
<1>2. TypeOK'
  BY <1>1 DEF IInv, TypeOK, run_vars, Reply, Rejected, Rejection
<1>3. WatermarkFed'
  BY <1>1, WatermarkKept, AttemptsBound DEF IInv, TypeOK, run_vars
<1>4. ASSUME NEW v \in Update PROVE HandlerState(v)'
  <2>1. HandlerState(v)
    BY DEF IInv
  <2>2. CASE v = u
    <3>1. reply'[u] = Rejected("RunCancelled") /\ pc'[u] = "answered"
      BY <1>1 DEF IInv, TypeOK
    <3> QED
      BY <1>1, <2>1, <2>2, <3>1
      DEF HandlerState, ReachedRegistry, NoReply, Rejected
  <2>3. CASE v # u
    <3>1. pc'[v] = pc[v] /\ reply'[v] = reply[v]
      BY <1>1, <2>3 DEF IInv, TypeOK
    <3> QED BY <1>1, <2>1, <3>1 DEF HandlerState, ReachedRegistry, EntryOf
  <2> QED BY <2>2, <2>3
<1>5. AtMostOnce'
  BY <1>1 DEF IInv, TypeOK, AtMostOnce, HasExecuted, SameCall
<1> QED BY <1>2, <1>3, <1>4, <1>5 DEF IInv

(* The run around the handlers only schedules, records and ends. *)
LEMMA RunStepInv ==
  ASSUME IInv,
         StartRun \/ ScheduleAttempt \/ RecordTurn \/ CancelRun \/ CloseRun
           \/ UNCHANGED vars
  PROVE  IInv'
<1>1. UNCHANGED <<invocations, pc, ident, leftover, reply>>
  BY DEF StartRun, ScheduleAttempt, RecordTurn, CancelRun, CloseRun, vars
<1>2. /\ phase' \in {"created", "running", "cancelled", "closed"}
      /\ turns_done' \in Nat
      /\ scheduled' \in [Turn -> 0..MaxAttempts]
      /\ \A t \in Turn : scheduled'[t] >= scheduled[t]
  <2>1. CASE ScheduleAttempt
    BY <2>1, AttemptsBound DEF ScheduleAttempt, IInv, TypeOK
  <2>2. CASE StartRun \/ RecordTurn \/ CancelRun \/ CloseRun \/ UNCHANGED vars
    BY <2>2, AttemptsBound
    DEF StartRun, RecordTurn, CancelRun, CloseRun, vars, IInv, TypeOK
  <2> QED BY <2>1, <2>2
<1>3. TypeOK'
  BY <1>1, <1>2 DEF IInv, TypeOK
<1>4. WatermarkFed'
  BY <1>1, <1>2, WatermarkKept
<1>5. \A v \in Update : HandlerState(v)'
  BY <1>1 DEF IInv, HandlerState, ReachedRegistry, EntryOf
<1>6. AtMostOnce'
  BY <1>1 DEF IInv, AtMostOnce, HasExecuted, SameCall
<1> QED BY <1>3, <1>4, <1>5, <1>6 DEF IInv

(* Every step preserves the inductive invariant. *)
LEMMA NextInv == IInv /\ [Next]_vars => IInv'
<1> SUFFICES ASSUME IInv, [Next]_vars PROVE IInv'
  OBVIOUS
<1>1. ASSUME NEW u \in Update, NEW id \in PresentedId, NEW tool \in ToolName,
             Present(u, id, tool)
      PROVE  IInv'
  BY <1>1, RefuseInv, ReplayInv, FenceInv, JoinInv, ExecuteInv DEF Present
<1>2. ASSUME NEW u \in Update, NEW result \in Result, Finish(u, result)
      PROVE  IInv'
  BY <1>2, FinishInv
<1>3. ASSUME NEW u \in Update, ServeJoined(u) \/ CancelJoined(u)
      PROVE  IInv'
  BY <1>3, ServeJoinedInv, CancelJoinedInv
<1>4. CASE StartRun \/ ScheduleAttempt \/ RecordTurn \/ CancelRun \/ CloseRun
             \/ UNCHANGED vars
  BY <1>4, RunStepInv
<1> QED BY <1>1, <1>2, <1>3, <1>4 DEF Next

(* IInv holds in every reachable state. *)
THEOREM Inductive == Spec => []IInv
BY InitInv, NextInv, PTL DEF Spec

(* Type correctness of the handlers' and the registry's state. *)
THEOREM TypeCorrect == Spec => []TypeOK
<1>1. IInv => TypeOK
  BY DEF IInv
<1> QED BY <1>1, Inductive, PTL

(* No call is executed twice, however its presentations interleave. *)
THEOREM ExecutedAtMostOnce == Spec => []AtMostOnce
<1>1. IInv => AtMostOnce
  BY DEF IInv
<1> QED BY <1>1, Inductive, PTL

(* A result a caller has seen is the recorded one. *)
THEOREM RepliesAreRecorded == Spec => []RecordedBeforeReply
<1>1. IInv => RecordedBeforeReply
  BY DEF IInv, HandlerState, RecordedBeforeReply, EntryOf
<1> QED BY <1>1, Inductive, PTL

(* Unless a leftover of an earlier run of the workflow id named a later     *)
(* attempt, the newest scheduled attempt of a turn is never fenced.         *)
THEOREM LiveAttemptServed == Spec => []LiveAttemptNotFenced
<1>1. ASSUME IInv, NEW u \in Update, reply[u] = Rejected("Fenced")
      PROVE  \/ ident[u].attempt < scheduled[ident[u].turn]
             \/ \E v \in leftover :
                  ident[v].turn = ident[u].turn /\ ident[v].attempt > ident[u].attempt
  <2>1. ReachedRegistry(u)
    <3>1. reply[u] # NoReply /\ reply[u].kind # "completed"
      BY <1>1 DEF Rejected, NoReply
    <3>2. pc[u] = "answered"
      BY <1>1, <3>1 DEF HandlerState, IInv, TypeOK
    <3> QED BY <1>1, <3>2 DEF ReachedRegistry
  <2>2. /\ ident[u].turn \in Turn /\ ident[u].attempt \in Nat
        /\ ident[u].attempt < invocations.watermark[ident[u].turn]
    BY <1>1, <2>1 DEF IInv, HandlerState, InvocationId
  <2>3. /\ invocations.watermark[ident[u].turn] \in Nat
        /\ scheduled[ident[u].turn] \in Nat
        /\ \/ invocations.watermark[ident[u].turn] <= scheduled[ident[u].turn]
           \/ FedByLeftover(ident[u].turn)
    BY <1>1, <2>2, AttemptsBound DEF IInv, TypeOK, Registry, WatermarkFed
  <2> QED BY <2>2, <2>3 DEF FedByLeftover
<1>2. IInv => LiveAttemptNotFenced
  BY <1>1 DEF LiveAttemptNotFenced
<1> QED BY <1>2, Inductive, PTL

(* Work never starts below the newest attempt heard from: everyone who reached *)
(* the registry is at or below the watermark, and Execute is at or above it.   *)
THEOREM FencesHold == Spec => FenceHolds
<1> DEFINE Fences ==
      \A u \in Update :
        (pc[u] = "idle" /\ pc'[u] = "executing") =>
          \A v \in Update :
            ReachedRegistry(v) /\ ident[v].turn = ident'[u].turn
              => ident[v].attempt <= ident'[u].attempt
<1>1. IInv /\ [Next]_vars => [Fences]_vars
  <2> SUFFICES ASSUME IInv, Next, NEW u \in Update, pc[u] = "idle", pc'[u] = "executing",
                      NEW v \in Update, ReachedRegistry(v), ident[v].turn = ident'[u].turn
               PROVE  ident[v].attempt <= ident'[u].attempt
    OBVIOUS
  <2>1. PICK id \in PresentedId, tool \in ToolName : Execute(u, id, tool)
    <3>1. ASSUME NEW w \in Update, NEW result \in Result,
                 Finish(w, result) \/ ServeJoined(w) \/ CancelJoined(w)
          PROVE  FALSE
      BY <3>1 DEF Finish, ServeJoined, CancelJoined, Answer, IInv, TypeOK
    <3>2. ASSUME NEW w \in Update, NEW id \in PresentedId, NEW tool \in ToolName,
                 Present(w, id, tool)
          PROVE  w = u /\ Execute(u, id, tool)
      <4>1. w = u
        BY <3>2 DEF Present, Refuse, ReplayRecorded, Fence, Join, Execute, Answer, IInv, TypeOK
      <4> QED
        BY <3>2, <4>1 DEF Present, Refuse, ReplayRecorded, Fence, Join, Answer, IInv, TypeOK
    <3>3. ~(StartRun \/ ScheduleAttempt \/ RecordTurn \/ CancelRun \/ CloseRun)
      BY DEF StartRun, ScheduleAttempt, RecordTurn, CancelRun, CloseRun
    <3>4. ASSUME NEW w \in Update, ServeJoined(w) \/ CancelJoined(w) PROVE FALSE
      BY <3>4 DEF ServeJoined, CancelJoined, Answer, IInv, TypeOK
    <3> QED BY <3>1, <3>2, <3>3, <3>4 DEF Next
  <2>2. Admitted(u, id, tool, "Execute")
    BY <2>1 DEF Execute
  <2>3. id \in InvocationId /\ ident'[u] = id
    BY <2>2, AdmittedStep DEF IInv, TypeOK
  <2>4. ~(id.attempt < invocations.watermark[id.turn])
    BY <2>2, <2>3, VerdictMeaning DEF Admitted, IInv, TypeOK
  <2>5. /\ ident[v].attempt <= invocations.watermark[id.turn]
        /\ ident[v].attempt \in Nat
    BY <2>3 DEF IInv, HandlerState, InvocationId
  <2>6. id.attempt \in Nat /\ invocations.watermark[id.turn] \in Nat
    BY <2>3 DEF InvocationId, IInv, TypeOK, Registry
  <2> QED BY <2>3, <2>4, <2>5, <2>6
<1> QED BY <1>1, Inductive, PTL DEF Spec, FenceHolds

-----------------------------------------------------------------------------
(* The handlers implement the abstract log. *)

LogNow == [k \in Key |-> AbstractEntry(k)]
AnswersNow == [u \in Update |-> AbstractAnswer(u)]

KeyOf(id) == <<id.turn, id.call_id>>

(* A key's abstract entry is that of the registry entry behind it. *)
LEMMA AbstractEntryMeaning ==
  ASSUME IInv, NEW id \in InvocationId
  PROVE  /\ KeyOf(id) \in Key
         /\ Entry(invocations, id) = NotPresented => LogNow[KeyOf(id)] = Log!Absent
         /\ Entry(invocations, id).status = "in_flight" => LogNow[KeyOf(id)] = Log!Running
         /\ \A r \in Result :
              Entry(invocations, id) = Complete(r) => LogNow[KeyOf(id)] = Log!Finished(r)
<1> DEFINE entry == Entry(invocations, id)
<1>1. KeyOf(id) \in Key /\ KeyOf(id)[1] = id.turn /\ KeyOf(id)[2] = id.call_id
  BY DEF InvocationId, KeyOf, Key
<1>2. LogNow[KeyOf(id)] = AbstractEntry(KeyOf(id))
  BY <1>1 DEF LogNow
<1>3. invocations.calls[KeyOf(id)[1]][KeyOf(id)[2]] = entry
  BY <1>1 DEF Entry
<1>4. ASSUME entry.status = "absent" PROVE LogNow[KeyOf(id)] = Log!Absent
  BY <1>2, <1>3, <1>4 DEF AbstractEntry, Log!Absent
<1>5. ASSUME entry.status = "in_flight" PROVE LogNow[KeyOf(id)] = Log!Running
  BY <1>2, <1>3, <1>5 DEF AbstractEntry, Log!Running
<1>6. ASSUME NEW r \in Result, entry = Complete(r)
      PROVE  LogNow[KeyOf(id)] = Log!Finished(r)
  <2>1. entry.status = "complete" /\ entry.result = r
    BY <1>6 DEF Complete
  <2> QED BY <2>1, <1>2, <1>3 DEF AbstractEntry, Log!Finished
<1>7. entry = NotPresented => entry.status = "absent"
  BY DEF NotPresented
<1> QED BY <1>1, <1>4, <1>5, <1>6, <1>7

(* The initial state is an empty log with nobody answered. *)
LEMMA InitImplements == Init => Log!Init
<1> SUFFICES ASSUME Init PROVE Log!Init
  OBVIOUS
<1>1. ASSUME NEW k \in Key PROVE AbstractEntry(k) = Log!Absent
  <2>1. k[1] \in Turn /\ k[2] \in CallId
    BY DEF Key
  <2>2. invocations.calls[k[1]][k[2]] = NotPresented
    BY <2>1 DEF Init, EmptyRegistry
  <2> QED BY <2>2 DEF AbstractEntry, NotPresented, Log!Absent
<1>2. ASSUME NEW u \in Update PROVE AbstractAnswer(u) = Log!Waiting
  <2>1. reply[u].kind = "none"
    BY DEF Init, NoReply
  <2> QED BY <2>1 DEF AbstractAnswer, Log!Waiting
<1> QED BY <1>1, <1>2 DEF Log!Init

(* A handler that answers without touching entries refuses, or serves its key. *)
LEMMA AnswerImplements ==
  ASSUME IInv, IInv', NEW u \in Update, reply[u] = NoReply,
         NEW id, ident'[u] = id, NEW answer, reply' = [reply EXCEPT ![u] = answer],
         \A v \in Update : v # u => ident'[v] = ident[v],
         \A t \in Turn, c \in CallId : invocations'.calls[t][c] = invocations.calls[t][c],
         \/ answer.kind = "rejected"
         \/ \E r \in Result : /\ answer = Completed(r) /\ id \in InvocationId
                              /\ Entry(invocations, id) = Complete(r)
  PROVE  Log!Next
<1>1. LogNow' = LogNow
  BY DEF LogNow, AbstractEntry, Key
<1>2. AnswersNow[u] = Log!Waiting
  BY DEF AnswersNow, AbstractAnswer, NoReply, Log!Waiting
<1>3. ASSUME answer.kind = "rejected"
      PROVE  AnswersNow' = [AnswersNow EXCEPT ![u] = Log!Refused]
  BY <1>3 DEF AnswersNow, AbstractAnswer, Log!Refused, IInv, TypeOK
<1>4. ASSUME NEW r \in Result, answer = Completed(r)
      PROVE  AnswersNow' = [AnswersNow EXCEPT ![u] = Log!ResultOf(KeyOf(id), r)]
  BY <1>4 DEF AnswersNow, AbstractAnswer, Completed, KeyOf, Log!ResultOf, IInv, TypeOK
<1>5. CASE answer.kind = "rejected"
  <2>1. Log!Refuse(u)
    BY <1>1, <1>2, <1>3, <1>5 DEF Log!Refuse, LogNow, AnswersNow
  <2> QED BY <2>1 DEF Log!Next
<1>6. ASSUME NEW r \in Result, answer = Completed(r), id \in InvocationId,
             Entry(invocations, id) = Complete(r)
      PROVE  Log!Next
  <2>1. KeyOf(id) \in Key /\ LogNow[KeyOf(id)] = Log!Finished(r)
    BY <1>6, AbstractEntryMeaning
  <2>2. Log!Serve(u, KeyOf(id), r)
    BY <1>1, <1>2, <1>4, <1>6, <2>1 DEF Log!Serve, LogNow, AnswersNow
  <2> QED BY <2>1, <2>2 DEF Log!Next
<1> QED BY <1>5, <1>6

(* A step that changes no entry's abstract state and no reply is a stutter. *)
LEMMA StutterImplements ==
  ASSUME IInv, reply' = reply,
         \A v \in Update : reply[v] # NoReply => ident'[v] = ident[v],
         \A t \in Turn, c \in CallId : invocations'.calls[t][c] = invocations.calls[t][c]
  PROVE  UNCHANGED Log!vars
<1>1. LogNow' = LogNow
  BY DEF LogNow, AbstractEntry, Key
<1>2. AnswersNow' = AnswersNow
  BY DEF AnswersNow, AbstractAnswer, NoReply
<1> QED BY <1>1, <1>2 DEF Log!vars, LogNow, AnswersNow

(* A key whose entry changed while every other one stood still. *)
LEMMA OneEntryChanges ==
  ASSUME IInv, IInv', NEW id \in InvocationId,
         \A t \in Turn, c \in CallId :
           (t # id.turn \/ c # id.call_id)
             => invocations'.calls[t][c] = invocations.calls[t][c]
  PROVE  LogNow' = [LogNow EXCEPT ![KeyOf(id)] = AbstractEntry(KeyOf(id))']
<1>1. ASSUME NEW k \in Key, k # KeyOf(id)
      PROVE  AbstractEntry(k)' = AbstractEntry(k)
  <2>1. k[1] \in Turn /\ k[2] \in CallId /\ (k[1] # id.turn \/ k[2] # id.call_id)
    BY <1>1 DEF Key, KeyOf
  <2> QED BY <2>1 DEF AbstractEntry
<1> QED BY <1>1 DEF LogNow

(* Executing takes an absent key to running. *)
LEMMA ExecuteImplements ==
  ASSUME IInv, IInv', NEW u \in Update, NEW id \in PresentedId, NEW tool \in ToolName,
         Execute(u, id, tool)
  PROVE  Log!Next
<1>1. Admitted(u, id, tool, "Execute") /\ reply' = reply
  BY DEF Execute
<1>2. /\ id \in InvocationId
      /\ pc[u] = "idle"
      /\ ident' = [ident EXCEPT ![u] = id]
      /\ \A t \in Turn, c \in CallId :
           (t # id.turn \/ c # id.call_id)
             => invocations'.calls[t][c] = invocations.calls[t][c]
      /\ Entry(invocations, id) = NotPresented
      /\ Entry(invocations', id) = InFlight(id.attempt, tool)
  BY <1>1, AdmittedStep
<1>3. KeyOf(id) \in Key /\ LogNow[KeyOf(id)] = Log!Absent
  BY <1>2, AbstractEntryMeaning
<1>4. AbstractEntry(KeyOf(id))' = Log!Running
  BY <1>2 DEF AbstractEntry, KeyOf, Entry, InFlight, Log!Running
<1>5. LogNow' = [LogNow EXCEPT ![KeyOf(id)] = Log!Running]
  BY <1>2, <1>4, OneEntryChanges
<1>6. reply[u] = NoReply
  BY <1>2 DEF IInv, HandlerState
<1>7. AnswersNow' = AnswersNow
  <2>1. ASSUME NEW v \in Update PROVE AbstractAnswer(v)' = AbstractAnswer(v)
    BY <1>1, <1>2, <1>6 DEF AbstractAnswer, NoReply, IInv, TypeOK
  <2> QED BY <2>1 DEF AnswersNow
<1>8. Log!Begin(KeyOf(id))
  BY <1>3, <1>5, <1>7 DEF Log!Begin, LogNow, AnswersNow
<1> QED BY <1>3, <1>8 DEF Log!Next

(* Finishing records the running key's result and tells it, in one step. *)
LEMMA FinishImplements ==
  ASSUME IInv, IInv', NEW u \in Update, NEW result \in Result, Finish(u, result)
  PROVE  Log!Next
<1> DEFINE id == ident[u]
<1>1. /\ pc[u] = "executing"
      /\ invocations' = CompleteTicket(invocations, id, result)
      /\ reply' = [reply EXCEPT ![u] = Completed(result)]
      /\ ident' = ident
  BY DEF Finish
<1>2. /\ id \in InvocationId
      /\ Entry(invocations, id).status = "in_flight"
      /\ reply[u] = NoReply
  BY <1>1 DEF IInv, HandlerState, ReachedRegistry, EntryOf, Entry
<1>3. /\ \A t \in Turn, c \in CallId :
           (t # id.turn \/ c # id.call_id)
             => invocations'.calls[t][c] = invocations.calls[t][c]
      /\ Entry(invocations', id) = Complete(result)
  BY <1>1, <1>2, CompleteEffect DEF IInv, TypeOK, Entry, InvocationId
<1>4. KeyOf(id) \in Key /\ LogNow[KeyOf(id)] = Log!Running
  BY <1>2, AbstractEntryMeaning
<1>5. AbstractEntry(KeyOf(id))' = Log!Finished(result)
  <2>1. invocations'.calls[KeyOf(id)[1]][KeyOf(id)[2]] = Complete(result)
    BY <1>3 DEF KeyOf, Entry
  <2>2. KeyOf(id)' = KeyOf(id)
    BY <1>1 DEF KeyOf
  <2>3. Complete(result).status = "complete" /\ Complete(result).result = result
    BY DEF Complete
  <2> QED BY <2>1, <2>2, <2>3 DEF AbstractEntry, Log!Finished
<1>6. LogNow' = [LogNow EXCEPT ![KeyOf(id)] = Log!Finished(result)]
  BY <1>1, <1>2, <1>3, <1>5, OneEntryChanges
<1>7. AnswersNow[u] = Log!Waiting
  BY <1>2 DEF AnswersNow, AbstractAnswer, NoReply, Log!Waiting
<1>8. AnswersNow' = [AnswersNow EXCEPT ![u] = Log!ResultOf(KeyOf(id), result)]
  BY <1>1 DEF AnswersNow, AbstractAnswer, Completed, KeyOf, Log!ResultOf, IInv, TypeOK
<1>9. Log!Finish(u, KeyOf(id), result)
  BY <1>4, <1>6, <1>7, <1>8 DEF Log!Finish, LogNow, AnswersNow
<1> QED BY <1>4, <1>9 DEF Log!Next

(* A presentation is answered with a refusal or from the log, begins an      *)
(* absent key, or, when it joins, changes nothing the log can see.           *)
LEMMA PresentImplements ==
  ASSUME IInv, IInv', NEW u \in Update, NEW id \in PresentedId, NEW tool \in ToolName,
         Present(u, id, tool)
  PROVE  Log!Next \/ UNCHANGED Log!vars
<1>1. /\ pc[u] = "idle"
      /\ reply[u] = NoReply
      /\ ident' = [ident EXCEPT ![u] = id]
      /\ ident'[u] = id
      /\ \A v \in Update : v # u => ident'[v] = ident[v]
  BY DEF Present, Refuse, ReplayRecorded, Fence, Join, Execute, Admitted, Arrives,
         IInv, TypeOK, HandlerState
<1>2. CASE Refuse(u, id, tool)
  <2>1. /\ invocations' = invocations
        /\ reply' = [reply EXCEPT ![u] = Rejected(Refusal(id, tool))]
    BY <1>2 DEF Refuse, Answer
  <2>2. Rejected(Refusal(id, tool)).kind = "rejected"
    BY DEF Rejected
  <2> QED BY <1>1, <2>1, <2>2, AnswerImplements
<1>3. CASE ReplayRecorded(u, id, tool)
  <2>1. /\ Admitted(u, id, tool, "Recorded")
        /\ reply' = [reply EXCEPT ![u] = Completed(Entry(invocations, id).result)]
    BY <1>3 DEF ReplayRecorded, Answer
  <2>2. /\ id \in InvocationId
        /\ \A t \in Turn, c \in CallId :
             invocations'.calls[t][c] = invocations.calls[t][c]
    BY <2>1, AdmittedStep
  <2>3. PICK r \in Result : Entry(invocations, id) = Complete(r)
    BY <2>1, <2>2, VerdictMeaning DEF Admitted, IInv, TypeOK
  <2>4. Entry(invocations, id).result = r
    BY <2>3 DEF Complete
  <2> QED BY <1>1, <2>1, <2>2, <2>3, <2>4, AnswerImplements
<1>4. CASE Fence(u, id, tool)
  <2>1. /\ Admitted(u, id, tool, "Fenced")
        /\ reply' = [reply EXCEPT ![u] = Rejected("Fenced")]
    BY <1>4 DEF Fence, Answer
  <2>2. \A t \in Turn, c \in CallId : invocations'.calls[t][c] = invocations.calls[t][c]
    BY <2>1, AdmittedStep
  <2>3. Rejected("Fenced").kind = "rejected"
    BY DEF Rejected
  <2> QED BY <1>1, <2>1, <2>2, <2>3, AnswerImplements
<1>5. CASE Join(u, id, tool)
  <2>1. Admitted(u, id, tool, "AwaitExisting") /\ reply' = reply
    BY <1>5 DEF Join
  <2>2. \A t \in Turn, c \in CallId : invocations'.calls[t][c] = invocations.calls[t][c]
    BY <2>1, AdmittedStep
  <2> QED BY <1>1, <2>1, <2>2, StutterImplements
<1>6. CASE Execute(u, id, tool)
  BY <1>6, ExecuteImplements
<1> QED BY <1>2, <1>3, <1>4, <1>5, <1>6 DEF Present

(* A joined handler is answered from the log, or refused on cancellation. *)
LEMMA JoinedImplements ==
  ASSUME IInv, IInv', NEW u \in Update, ServeJoined(u) \/ CancelJoined(u)
  PROVE  Log!Next
<1> DEFINE id == ident[u]
<1>1. /\ pc[u] = "joined"
      /\ invocations' = invocations
      /\ ident' = ident
  BY DEF ServeJoined, CancelJoined
<1>2. reply[u] = NoReply /\ id \in InvocationId
  BY <1>1 DEF IInv, HandlerState, ReachedRegistry
<1>3. CASE ServeJoined(u)
  <2>1. /\ Recorded(invocations, id)
        /\ reply' = [reply EXCEPT ![u] = Completed(Entry(invocations, id).result)]
    BY <1>3 DEF ServeJoined, Answer
  <2>2. Verdict(invocations, id) = "Recorded"
    BY <2>1 DEF Verdict, Recorded
  <2>3. PICK r \in Result : Entry(invocations, id) = Complete(r)
    BY <1>2, <2>2, VerdictMeaning DEF IInv, TypeOK
  <2>4. Entry(invocations, id).result = r
    BY <2>3 DEF Complete
  <2> QED BY <1>1, <1>2, <2>1, <2>3, <2>4, AnswerImplements
<1>4. CASE CancelJoined(u)
  <2>1. reply' = [reply EXCEPT ![u] = Rejected("RunCancelled")]
    BY <1>4 DEF CancelJoined, Answer
  <2>2. Rejected("RunCancelled").kind = "rejected"
    BY DEF Rejected
  <2> QED BY <1>1, <1>2, <2>1, <2>2, AnswerImplements
<1> QED BY <1>3, <1>4

(* Every step of the handlers and of the run around them is one of the log's. *)
LEMMA StepImplements ==
  ASSUME IInv, IInv', [Next]_vars
  PROVE  [Log!Next]_(Log!vars)
<1>1. CASE StartRun \/ ScheduleAttempt \/ RecordTurn \/ CancelRun \/ CloseRun
           \/ UNCHANGED vars
  <2>1. reply' = reply /\ ident' = ident /\ invocations' = invocations
    BY <1>1 DEF StartRun, ScheduleAttempt, RecordTurn, CancelRun, CloseRun, vars
  <2> QED BY <2>1, StutterImplements
<1>2. ASSUME NEW u \in Update, NEW id \in PresentedId, NEW tool \in ToolName,
             Present(u, id, tool)
      PROVE  Log!Next \/ UNCHANGED Log!vars
  BY <1>2, PresentImplements
<1>3. ASSUME NEW u \in Update, NEW result \in Result, Finish(u, result)
      PROVE  Log!Next
  BY <1>3, FinishImplements
<1>4. ASSUME NEW u \in Update, ServeJoined(u) \/ CancelJoined(u)
      PROVE  Log!Next
  BY <1>4, JoinedImplements
<1> QED BY <1>1, <1>2, <1>3, <1>4 DEF Next

(* The handlers of the tool_invoked update implement the log that            *)
(* invocation.rs promises: started once per (turn, call id), finished once,  *)
(* never forgotten, and every caller answered at most once.                  *)
THEOREM Implements == Spec => ImplementsLog
<1>1. Init => Log!Init
  BY InitImplements
<1>2. IInv /\ IInv' /\ [Next]_vars => [Log!Next]_(Log!vars)
  BY StepImplements
<1> QED BY <1>1, <1>2, Inductive, PTL DEF Spec, ImplementsLog, Log!Spec
=============================================================================
