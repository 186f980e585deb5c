------------------------------- MODULE Runner -------------------------------
(***************************************************************************)
(* The client side (crates/odori-agents/src/runner.rs): callers in other   *)
(* processes start, join, talk to and end runs that they know by id only.  *)
(* The engine and its ids are Bridge's: `run` says which run of an id is    *)
(* the latest and whether it is open.  Of a run, a caller sees whether it  *)
(* reads messages, and how it ended; module AgentRun has the rest.         *)
(***************************************************************************)
EXTENDS Bridge

CONSTANTS
  Caller,       \* calls of run, or conversations
  MaxQueued     \* user messages that wait in a run

\* A call names a workflow id; a run may have no message waiting.
ASSUME CallersHaveIds == Workflow # {} /\ MaxQueued \in Nat

VARIABLES
  chat,         \* chat[w]: the latest run of w: interactive, queued, ending
  ended,        \* ended[w][n]: how run n of w ended, "none" before
  caller        \* caller[u]: where a caller is

runner_vars == <<chat, ended, caller>>

RunResult ==
  {"Completed", "ConversationEnded", "BudgetExceeded", "GuardrailBlocked", "failed"}

\* `bound` is the run whose result is awaited; `told` the run that was told to
\* end; `got` what the caller got: a run's end, or a client error.  "failed" is
\* RunnerError::Run, for a run that failed and for a get_result that did.
IdleCaller ==
  [stage |-> "idle", workflow |-> CHOOSE w \in Workflow : TRUE, bound |-> 0, told |-> 0,
   got |-> "none"]

RunnerIdle ==
  /\ chat = [w \in Workflow |-> [interactive |-> FALSE, queued |-> 0, ending |-> FALSE]]
  /\ ended = [w \in Workflow |-> [n \in Run |-> "none"]]
  /\ caller = [u \in Caller |-> IdleCaller]

RunnerInit == Init /\ RunnerIdle

-----------------------------------------------------------------------------
(* Runner. *)

Goes(u, new) == caller' = [caller EXCEPT ![u] = new]
ClientError(u) == Goes(u, [caller[u] EXCEPT !.stage = "done", !.got = "client error"])

\* start_workflow with UseExisting: an open run is joined, with its own prompt
\* and configuration; a closed id gets a new run.
StartOrJoin(w, interactive) ==
  \/ /\ run[w].open
     /\ UNCHANGED <<vars, chat>>
  \/ /\ StartRun(w)
     /\ chat' = [chat EXCEPT ![w] =
          [interactive |-> interactive, queued |-> 0, ending |-> FALSE]]

\* run, run_with_config: start, then wait for the run that was started or joined.
RunOnce(u, w, interactive) ==
  /\ caller[u].stage = "idle"
  /\ StartOrJoin(w, interactive)
  /\ Goes(u, [caller[u] EXCEPT !.stage = "awaiting", !.workflow = w, !.bound = run'[w].no])
  /\ UNCHANGED ended

\* start_conversation: the handle names the id, not the run.
StartConversation(u, w) ==
  /\ caller[u].stage = "idle"
  /\ StartOrJoin(w, TRUE)
  /\ Goes(u, [caller[u] EXCEPT !.stage = "talking", !.workflow = w])
  /\ UNCHANGED ended

\* resume_conversation asks nothing of the engine.
ResumeConversation(u, w) ==
  /\ caller[u].stage = "idle"
  /\ Goes(u, [caller[u] EXCEPT !.stage = "talking", !.workflow = w])
  /\ UNCHANGED <<vars, chat, ended>>

\* A start or a signal that the engine did not get.
CallFails(u) ==
  /\ caller[u].stage \in {"idle", "talking"}
  /\ ClientError(u)
  /\ UNCHANGED <<vars, chat, ended>>

\* Conversation::send to an open run.
Send(u) ==
  LET w == caller[u].workflow IN
  /\ caller[u].stage = "talking"
  /\ run[w].open /\ chat[w].queued < MaxQueued
  /\ chat' = [chat EXCEPT ![w].queued = @ + 1]
  /\ UNCHANGED <<vars, ended, caller>>

\* Conversation::end, its signal ...
End(u) ==
  LET w == caller[u].workflow IN
  /\ caller[u].stage = "talking"
  /\ IF run[w].open
     THEN /\ chat' = [chat EXCEPT ![w].ending = TRUE]
          /\ Goes(u, [caller[u] EXCEPT !.stage = "told", !.told = run[w].no])
     ELSE ClientError(u) /\ UNCHANGED chat
  /\ UNCHANGED <<vars, ended>>

\* ... and its get_result, which follows the id's latest run.
AwaitResult(u) ==
  /\ caller[u].stage = "told"
  /\ Goes(u, [caller[u] EXCEPT !.stage = "awaiting", !.bound = run[caller[u].workflow].no])
  /\ UNCHANGED <<vars, chat, ended>>

\* Wrong on purpose: only a good end ends the wait.
GetResultIfGood(u) ==
  LET result == ended[caller[u].workflow][caller[u].bound] IN
  /\ caller[u].stage = "awaiting"
  /\ result \in {"Completed", "ConversationEnded"}
  /\ Goes(u, [caller[u] EXCEPT !.stage = "done", !.got = result])
  /\ UNCHANGED <<vars, chat, ended>>

\* get_result, and `interpret` for run: a failed run is an error of its own,
\* a cap or a guardrail too, and what is left is the text.
GetResult(u) ==
  LET result == ended[caller[u].workflow][caller[u].bound] IN
  /\ caller[u].stage = "awaiting"
  /\ result # "none"
  /\ Goes(u, [caller[u] EXCEPT !.stage = "done", !.got = result])
  /\ UNCHANGED <<vars, chat, ended>>

\* get_result itself fails, whatever the run does: to the caller this is the
\* error of a failed run.
FetchFails(u) ==
  /\ caller[u].stage = "awaiting"
  /\ Goes(u, [caller[u] EXCEPT !.stage = "done", !.got = "failed"])
  /\ UNCHANGED <<vars, chat, ended>>

-----------------------------------------------------------------------------
(* What a run does meanwhile, as AgentRun has it: messages first, then the  *)
(* end signal; caps, guardrails and failures at any time.                   *)

TakesMessage(w) ==
  /\ run[w].open /\ chat[w].interactive /\ chat[w].queued > 0
  /\ chat' = [chat EXCEPT ![w].queued = @ - 1]
  /\ UNCHANGED <<vars, ended, caller>>

MayEndWith(w, result) ==
  CASE result = "Completed" -> ~chat[w].interactive
    [] result = "ConversationEnded" ->
         chat[w].interactive /\ chat[w].queued = 0 /\ chat[w].ending
    [] OTHER -> TRUE

RunEnds(w, result) ==
  /\ CloseRun(w)
  /\ MayEndWith(w, result)
  /\ ended' = [ended EXCEPT ![w][run[w].no] = result]
  /\ UNCHANGED <<chat, caller>>

RunnerNext ==
  \/ \E u \in Caller :
       \/ \E w \in Workflow :
            \/ \E interactive \in BOOLEAN : RunOnce(u, w, interactive)
            \/ StartConversation(u, w)
            \/ ResumeConversation(u, w)
       \/ CallFails(u)
       \/ Send(u)
       \/ End(u)
       \/ AwaitResult(u)
       \/ GetResult(u)
       \/ FetchFails(u)
  \/ \E w \in Workflow : TakesMessage(w) \/ \E result \in RunResult : RunEnds(w, result)

RunnerSpec == RunnerInit /\ [][RunnerNext]_<<vars, runner_vars>>

\* What AgentRun's ConversationEnds has of a run, and a client that waits.
RunnerFairness ==
  /\ \A w \in Workflow :
       /\ WF_<<vars, runner_vars>>(TakesMessage(w))
       /\ WF_<<vars, runner_vars>>(RunEnds(w, "ConversationEnded"))
  /\ \A u \in Caller :
       WF_<<vars, runner_vars>>(AwaitResult(u)) /\ WF_<<vars, runner_vars>>(GetResult(u))

-----------------------------------------------------------------------------
(* Properties. *)

RunnerTypes ==
  /\ chat \in [Workflow -> [interactive : BOOLEAN, queued : 0..MaxQueued, ending : BOOLEAN]]
  /\ ended \in [Workflow -> [Run -> RunResult \cup {"none"}]]
  /\ caller \in [Caller ->
       [stage : {"idle", "talking", "told", "awaiting", "done"},
        workflow : Workflow, bound : Run, told : Run,
        got : RunResult \cup {"none", "client error"}]]

\* Once messages stop coming, a caller whose end was accepted is answered: with
\* the end of the run it told to end, whoever else talks to that run or ends it,
\* or with the error of a get_result that failed.  Only if the id was started
\* again meanwhile, or the run is one that reads no signals (it joined a `run`),
\* may it wait for ever (runner.rs Conversation::end: the handle names the id).
EndAnswered ==
  <>[](\A w \in Workflow : chat[w].queued = 0) =>
    \A u \in Caller :
      caller[u].stage = "told" /\ chat[caller[u].workflow].interactive ~>
        \/ /\ caller[u].stage = "done"
           /\ caller[u].got \in {ended[caller[u].workflow][caller[u].told], "failed"}
        \/ run[caller[u].workflow].no > caller[u].told
=============================================================================
