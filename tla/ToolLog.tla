------------------------------- MODULE ToolLog -------------------------------
(***************************************************************************)
(* What the durable tool path promises, without watermarks, attempts or    *)
(* waiting handlers: a log with one entry per (turn, call id) that goes    *)
(* from absent to running to finished and never back, and callers that are *)
(* answered once, either with a finished entry's result or with a refusal. *)
(* Its source is the contract stated at the top of                          *)
(* crates/odori-agents/src/invocation.rs; module ToolInvoked implements it.*)
(***************************************************************************)
CONSTANTS Key, Caller, Result

VARIABLES
  log,     \* log[k]: what is known of key k
  answer   \* answer[u]: what caller u was told

vars == <<log, answer>>

Absent == [state |-> "absent"]
Running == [state |-> "running"]
Finished(result) == [state |-> "finished", result |-> result]

Waiting == [told |-> "nothing"]
Refused == [told |-> "refusal"]
ResultOf(k, result) == [told |-> "result", key |-> k, result |-> result]

Init ==
  /\ log = [k \in Key |-> Absent]
  /\ answer = [u \in Caller |-> Waiting]

\* The only step that starts work, and only for an absent key.
Begin(k) ==
  /\ log[k] = Absent
  /\ log' = [log EXCEPT ![k] = Running]
  /\ UNCHANGED answer

\* The result is recorded, and the caller that ran the work learns it, at once.
Finish(u, k, result) ==
  /\ log[k] = Running
  /\ answer[u] = Waiting
  /\ log' = [log EXCEPT ![k] = Finished(result)]
  /\ answer' = [answer EXCEPT ![u] = ResultOf(k, result)]

\* Every other caller is served from the log.
Serve(u, k, result) ==
  /\ log[k] = Finished(result)
  /\ answer[u] = Waiting
  /\ answer' = [answer EXCEPT ![u] = ResultOf(k, result)]
  /\ UNCHANGED log

Refuse(u) ==
  /\ answer[u] = Waiting
  /\ answer' = [answer EXCEPT ![u] = Refused]
  /\ UNCHANGED log

Next ==
  \/ \E k \in Key : Begin(k)
  \/ \E u \in Caller : Refuse(u)
  \/ \E u \in Caller, k \in Key, result \in Result :
       Finish(u, k, result) \/ Serve(u, k, result)

Spec == Init /\ [][Next]_vars
=============================================================================
