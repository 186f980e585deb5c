----------------------------- MODULE ToolInvoked -----------------------------
(***************************************************************************)
(* The `tool_invoked` update of the run-loop workflow                      *)
(* (crates/odori-agents/src/run.rs) over the invocation registry: how      *)
(* concurrently presented tool calls, from the live attempt of a turn and  *)
(* from zombie attempts that the engine has already given up on, turn into *)
(* at most one execution each.                                             *)
(*                                                                         *)
(* Each member of Update is one run of the handler.  Between two awaits a  *)
(* handler is atomic (workflow code is single threaded), so a handler has  *)
(* one step up to its first await and one step from the await to its       *)
(* reply.  Worker crashes do not appear: the handler's state is workflow   *)
(* state, which the engine rebuilds by replaying recorded steps.           *)
(*                                                                         *)
(* Tool bodies and handoff children are an arbitrary member of Result;     *)
(* module AgentRun looks inside the handoffs.                              *)
(***************************************************************************)
EXTENDS InvocationRegistry

CONSTANTS
  Update,       \* runs of the handler: one per presentation that reaches it
  MaxAttempts,  \* the turn activity's retry bound (RunConfig.turn_max_attempts)
  KnownTool,    \* the agent's tools and handoffs, by name
  NoCall,       \* the empty call id
  NoIdentity    \* what ident holds before an update arrives

ASSUME AttemptsBound == MaxAttempts \in Nat \ {0}
ASSUME KnownToolsAreTools == KnownTool \subseteq ToolName
ASSUME NoCallIsNoCallId == NoCall \notin CallId

VARIABLES
  phase,        \* the run: created, running, cancelled, closed
  turns_done,   \* length of the transcript, so also the current turn's index
  scheduled,    \* scheduled[t]: newest attempt of t's activity the engine started
  invocations,  \* the registry
  pc,           \* pc[u]: where handler u stands
  ident,        \* ident[u]: the identity stamped on u's presentation
  leftover,     \* history: presentations admitted ahead of the schedule
  reply         \* reply[u]: what u answered

run_vars == <<phase, turns_done, scheduled>>
vars == <<phase, turns_done, scheduled, invocations, pc, ident, leftover, reply>>

PresentedId == [turn : Turn, attempt : 1..MaxAttempts, call_id : CallId \cup {NoCall}]

Rejection == {"InvalidCallId", "UnknownTurn", "UnknownTool", "Fenced", "RunCancelled"}
NoReply == [kind |-> "none"]
Completed(result) == [kind |-> "completed", result |-> result]
Rejected(why) == [kind |-> "rejected", why |-> why]

Reply ==
  {NoReply} \cup [kind : {"completed"}, result : Result]
            \cup [kind : {"rejected"}, why : Rejection]

Init ==
  /\ phase = "created"
  /\ turns_done = 0
  /\ scheduled = [t \in Turn |-> 0]
  /\ invocations = EmptyRegistry
  /\ pc = [u \in Update |-> "idle"]
  /\ ident = [u \in Update |-> NoIdentity]
  /\ leftover = {}
  /\ reply = [u \in Update |-> NoReply]

-----------------------------------------------------------------------------
(* The run around the handler. *)

\* The run's first activation publishes the agent name the handler reads.
StartRun ==
  /\ phase = "created"
  /\ phase' = "running"
  /\ UNCHANGED <<turns_done, scheduled, invocations, pc, ident, leftover, reply>>

\* Wrong on purpose: retries without the policy's bound.
ScheduleAttemptUnbounded ==
  /\ phase = "running"
  /\ turns_done \in Turn
  /\ scheduled' = [scheduled EXCEPT ![turns_done] = @ + 1]
  /\ UNCHANGED <<phase, turns_done, invocations, pc, ident, leftover, reply>>

\* The engine starts the first or the next attempt of the current turn's
\* activity.  An attempt it has given up on may live on as a zombie.
ScheduleAttempt ==
  /\ phase = "running"
  /\ turns_done \in Turn
  /\ scheduled[turns_done] < MaxAttempts
  /\ scheduled' = [scheduled EXCEPT ![turns_done] = @ + 1]
  /\ UNCHANGED <<phase, turns_done, invocations, pc, ident, leftover, reply>>

\* The turn's activity succeeded and its record joins the transcript.
RecordTurn ==
  /\ phase = "running"
  /\ turns_done \in Turn
  /\ scheduled[turns_done] > 0
  /\ turns_done' = turns_done + 1
  /\ UNCHANGED <<phase, scheduled, invocations, pc, ident, leftover, reply>>

CancelRun ==
  /\ phase = "running"
  /\ phase' = "cancelled"
  /\ UNCHANGED <<turns_done, scheduled, invocations, pc, ident, leftover, reply>>

\* The workflow returns: completed, failed or cancelled.  Handlers still
\* running are abandoned; their callers get an error from the engine.
CloseRun ==
  /\ phase \in {"running", "cancelled"}
  /\ phase' = "closed"
  /\ UNCHANGED <<turns_done, scheduled, invocations, pc, ident, leftover, reply>>

-----------------------------------------------------------------------------
(* The handler up to its first await. *)

\* The contract checks, in the order of the code.
Refusal(id, tool) ==
  CASE id.call_id = NoCall -> "InvalidCallId"
    [] id.call_id # NoCall /\ (id.turn > turns_done \/ phase = "created")
         -> "UnknownTurn"
    [] id.call_id # NoCall /\ id.turn <= turns_done /\ phase # "created"
         /\ tool \notin KnownTool -> "UnknownTool"
    [] OTHER -> "none"

\* The bridge stamps a call with the turn and attempt its bearer token was
\* minted for, and sends it to whichever run now holds the workflow id: the
\* identity names no run.  So any identity may arrive: one of this run's
\* attempts, or the leftover of an earlier run of the id.
Arrives(u, id) ==
  /\ phase # "closed"
  /\ pc[u] = "idle"
  /\ ident' = [ident EXCEPT ![u] = id]

Answer(u, answer) ==
  /\ pc' = [pc EXCEPT ![u] = "answered"]
  /\ reply' = [reply EXCEPT ![u] = answer]

Refuse(u, id, tool) ==
  /\ Arrives(u, id)
  /\ Refusal(id, tool) # "none"
  /\ Answer(u, Rejected(Refusal(id, tool)))
  /\ UNCHANGED <<run_vars, leftover, invocations>>

\* A presentation that passes the checks is admitted: the registry changes
\* with the verdict, in the same step.  One of an attempt not scheduled yet is
\* remembered, here and not in the code: an earlier run left it over.
Admitted(u, id, tool, verdict) ==
  /\ Arrives(u, id)
  /\ Refusal(id, tool) = "none"
  /\ Verdict(invocations, id) = verdict
  /\ invocations' = Admit(invocations, id, tool)
  /\ leftover' = IF id.attempt > scheduled[id.turn] THEN leftover \cup {u} ELSE leftover
  /\ UNCHANGED run_vars

ReplayRecorded(u, id, tool) ==
  /\ Admitted(u, id, tool, "Recorded")
  /\ Answer(u, Completed(Entry(invocations, id).result))

Fence(u, id, tool) ==
  /\ Admitted(u, id, tool, "Fenced")
  /\ Answer(u, Rejected("Fenced"))

Join(u, id, tool) ==
  /\ Admitted(u, id, tool, "AwaitExisting")
  /\ pc' = [pc EXCEPT ![u] = "joined"]
  /\ UNCHANGED reply

Execute(u, id, tool) ==
  /\ Admitted(u, id, tool, "Execute")
  /\ pc' = [pc EXCEPT ![u] = "executing"]
  /\ UNCHANGED reply

Present(u, id, tool) ==
  \/ Refuse(u, id, tool)
  \/ ReplayRecorded(u, id, tool)
  \/ Fence(u, id, tool)
  \/ Join(u, id, tool)
  \/ Execute(u, id, tool)

-----------------------------------------------------------------------------
(* The handler after its await. *)

\* Wrong on purpose: replies without recording.
FinishUnrecorded(u, result) ==
  /\ phase # "closed"
  /\ pc[u] = "executing"
  /\ pc' = [pc EXCEPT ![u] = "executed"]
  /\ reply' = [reply EXCEPT ![u] = Completed(result)]
  /\ UNCHANGED <<run_vars, ident, leftover, invocations>>

\* The tool activity or the handoff child settled.  A failed activity is a
\* result too (a model-visible error): it is recorded and replayed alike.
Finish(u, result) ==
  /\ phase # "closed"
  /\ pc[u] = "executing"
  /\ invocations' = CompleteTicket(invocations, ident[u], result)
  /\ pc' = [pc EXCEPT ![u] = "executed"]
  /\ reply' = [reply EXCEPT ![u] = Completed(result)]
  /\ UNCHANGED <<run_vars, ident, leftover>>

\* A joined handler polls `recorded`.
ServeJoined(u) ==
  /\ phase # "closed"
  /\ pc[u] = "joined"
  /\ Recorded(invocations, ident[u])
  /\ Answer(u, Completed(Entry(invocations, ident[u]).result))
  /\ UNCHANGED <<run_vars, ident, leftover, invocations>>

\* Cancellation breaks the wait of a joined handler.
CancelJoined(u) ==
  /\ phase = "cancelled"
  /\ pc[u] = "joined"
  /\ Answer(u, Rejected("RunCancelled"))
  /\ UNCHANGED <<run_vars, ident, leftover, invocations>>

Next ==
  \/ StartRun
  \/ ScheduleAttempt
  \/ RecordTurn
  \/ CancelRun
  \/ CloseRun
  \/ \E u \in Update :
       \/ \E id \in PresentedId, tool \in ToolName : Present(u, id, tool)
       \/ \E result \in Result : Finish(u, result)
       \/ ServeJoined(u)
       \/ CancelJoined(u)

Spec == Init /\ [][Next]_vars

\* A tool activity has a start-to-close timeout and a bounded number of
\* attempts, so it settles; a worker polls, so a handler whose wait is over
\* runs.  Nothing is assumed of the harness, the user or the run loop.
FairSpec ==
  /\ Spec
  /\ \A u \in Update :
       /\ WF_vars(\E result \in Result : Finish(u, result))
       /\ WF_vars(ServeJoined(u))
       /\ WF_vars(CancelJoined(u))

-----------------------------------------------------------------------------
(* Properties. *)

\* Types of the handler's and the registry's state (run.rs tool_invoked).
TypeOK ==
  /\ phase \in {"created", "running", "cancelled", "closed"}
  /\ turns_done \in Nat
  /\ scheduled \in [Turn -> 0..MaxAttempts]
  /\ invocations \in Registry
  /\ pc \in [Update -> {"idle", "executing", "joined", "executed", "answered"}]
  /\ ident \in [Update -> PresentedId \cup {NoIdentity}]
  /\ leftover \subseteq Update
  /\ reply \in [Update -> Reply]

SameCall(u, v) ==
  /\ ident[u].turn = ident[v].turn
  /\ ident[u].call_id = ident[v].call_id

HasExecuted(u) == pc[u] \in {"executing", "executed"}

\* However attempts, duplicates and zombies interleave, no two presentations
\* of the same (turn, call id) both execute the tool: design.md Property 1,
\* enforced by InvocationRegistry::admit.
AtMostOnce ==
  \A u, v \in Update :
    HasExecuted(u) /\ HasExecuted(v) /\ SameCall(u, v) => u = v

\* A result a caller has seen is the one the registry holds for that call, so
\* every later presentation sees it too (record before respond, design.md
\* Properties 1 and 2; run.rs completes the ticket before it replies).
RecordedBeforeReply ==
  \A u \in Update :
    reply[u].kind = "completed" =>
      invocations.calls[ident[u].turn][ident[u].call_id] = Complete(reply[u].result)

\* A call is fenced only if the engine has replaced its attempt, or if a later
\* attempt of the turn spoke that is not this run's: a leftover of an earlier
\* run of the workflow id, the one thing that fences the newest attempt (the
\* strict comparison with the watermark in InvocationRegistry::admit).
LiveAttemptNotFenced ==
  \A u \in Update :
    reply[u] = Rejected("Fenced") =>
      \/ ident[u].attempt < scheduled[ident[u].turn]
      \/ \E v \in leftover :
           ident[v].turn = ident[u].turn /\ ident[v].attempt > ident[u].attempt

\* The presentations that reached the registry.
ReachedRegistry(u) ==
  \/ pc[u] \in {"executing", "joined", "executed"}
  \/ pc[u] = "answered" /\ (reply[u].kind = "completed" \/ reply[u] = Rejected("Fenced"))

\* Work never starts for an attempt once a later attempt of the same turn has
\* been heard from (Requirement 4.2 as the watermark implements it).
FenceHolds ==
  [][\A u \in Update :
       (pc[u] = "idle" /\ pc'[u] = "executing") =>
         \A v \in Update :
           ReachedRegistry(v) /\ ident[v].turn = ident'[u].turn
             => ident[v].attempt <= ident'[u].attempt]_vars

\* What requirements.md 4.1 and 4.2 ask for: once the engine has scheduled a
\* later attempt, an attempt starts no new work.  The registry only learns of
\* an attempt when one of its calls is presented, so the code does not do this.
ReplacedAttemptStartsNothing ==
  [][\A u \in Update :
       (pc[u] = "idle" /\ pc'[u] = "executing") =>
         ident'[u].attempt >= scheduled[ident'[u].turn]]_vars

\* Every joined handler is answered, unless the run closes under it: the
\* execution it waits for always records something (run.rs wait_condition).
JoinersAnswered ==
  \A u \in Update : pc[u] = "joined" ~> (pc[u] = "answered" \/ phase = "closed")

-----------------------------------------------------------------------------
(* The contract this module implements. *)

Key == Turn \X CallId

AbstractEntry(k) ==
  LET entry == invocations.calls[k[1]][k[2]] IN
  CASE entry.status = "absent" -> [state |-> "absent"]
    [] entry.status = "in_flight" -> [state |-> "running"]
    [] OTHER -> [state |-> "finished", result |-> entry.result]

AbstractAnswer(u) ==
  CASE reply[u].kind = "none" -> [told |-> "nothing"]
    [] reply[u].kind = "rejected" -> [told |-> "refusal"]
    [] OTHER -> [told |-> "result",
                 key |-> <<ident[u].turn, ident[u].call_id>>,
                 result |-> reply[u].result]

Log == INSTANCE ToolLog WITH
  Caller <- Update,
  log <- [k \in Key |-> AbstractEntry(k)],
  answer <- [u \in Update |-> AbstractAnswer(u)]

\* Every behaviour of the handlers is one of the log: nothing is forgotten,
\* re-run or answered twice (the contract at the top of invocation.rs).
ImplementsLog == Log!Spec
=============================================================================
