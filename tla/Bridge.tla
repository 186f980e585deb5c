------------------------------- MODULE Bridge -------------------------------
(***************************************************************************)
(* The MCP bridge of a worker process (crates/odori-mcp-bridge): bearer     *)
(* tokens minted per turn attempt and kept in a directory, one observer    *)
(* task per workflow id that evicts a run's tokens once the run is closed  *)
(* (attach.rs), the HTTP handler that resolves a token and turns a         *)
(* `tools/call` into a workflow update (server.rs), and the broker that    *)
(* waits for the update while it emits keepalives (broker.rs).             *)
(*                                                                         *)
(* The engine is external.  Of it the bridge sees workflow ids only: an id *)
(* names its latest run, and may be started again once that run is closed. *)
(* What a run answers to an update is module ToolInvoked's subject; here   *)
(* an update settles with a result, a rejection or an engine failure.      *)
(***************************************************************************)
EXTENDS Naturals

CONSTANTS
  Workflow,     \* workflow ids
  Token,        \* bearer tokens, one per turn attempt that is dispatched
  Call,         \* HTTP requests a harness makes
  MaxRuns,      \* how often a workflow id is started
  MaxRestarts,  \* how often the worker process dies
  Capacity,     \* frames a response stream buffers (16 in the code)
  NoContext     \* a request that no token has resolved

ASSUME BoundsAreNaturals ==
  MaxRuns \in Nat /\ MaxRestarts \in Nat /\ Capacity \in Nat \ {0}

VARIABLES
  run,                \* run[w]: number of the latest run of w, and is it open
  attempt,            \* attempt[t]: the turn attempt that holds token t
  directory,          \* the tokens that resolve
  terminal_watchers,  \* workflow ids with an observer
  watcher,            \* watcher[t]: the observer task the attachment of t spawned
  call,               \* call[c]: the request and the task that answers it
  restarts            \* deaths of the process so far

token_vars == <<attempt, directory, terminal_watchers, watcher>>
vars == <<run, attempt, directory, terminal_watchers, watcher, call, restarts>>

Run == 0..MaxRuns

\* `run` is not part of the code's RunContext: it says what the token was for.
Context == [workflow : Workflow, run : Run]
Attempt ==
  [stage : {"unused"}]
    \cup [stage : {"dispatched", "minted", "attached", "bare", "dead"}, context : Context]

\* `bound` is the run whose close event the task waits for.
Watcher ==
  [stage : {"none"}]
    \cup [stage : {"waiting", "outcome", "evicted", "done"}, workflow : Workflow, bound : Run]

Unused == [stage |-> "unused"]
NoTask == [stage |-> "none"]

Final == {"none", "result", "rejection", "failure"}
CallState ==
  [stage : {"idle", "authorised", "pending", "settled", "closed"},
   context : Context \cup {NoContext},
   delivered : Run,         \* the run that got the update, 0 before
   outcome : Final,         \* what the update settled with
   queued : 0..Capacity,    \* progress frames in the stream
   sent : BOOLEAN,          \* the final frame is in the stream, or was
   http : {"none", "unauthorized", "answered", "stream"},
   connected : BOOLEAN,     \* the harness still reads the stream
   got : Final]             \* the final frame the harness has read

IdleCall ==
  [stage |-> "idle", context |-> NoContext, delivered |-> 0, outcome |-> "none",
   queued |-> 0, sent |-> FALSE, http |-> "none", connected |-> TRUE, got |-> "none"]

Init ==
  /\ run = [w \in Workflow |-> [no |-> 0, open |-> FALSE]]
  /\ attempt = [t \in Token |-> Unused]
  /\ directory = {}
  /\ terminal_watchers = {}
  /\ watcher = [t \in Token |-> NoTask]
  /\ call = [c \in Call |-> IdleCall]
  /\ restarts = 0

-----------------------------------------------------------------------------
(* The engine. *)

\* A client starts the id.  While its run is open the start joins it
\* (UseExisting) and changes nothing, so only a closed id gets a new run.
StartRun(w) ==
  /\ ~run[w].open
  /\ run[w].no < MaxRuns
  /\ run' = [run EXCEPT ![w] = [no |-> @.no + 1, open |-> TRUE]]
  /\ UNCHANGED <<token_vars, call, restarts>>

CloseRun(w) ==
  /\ run[w].open
  /\ run' = [run EXCEPT ![w].open = FALSE]
  /\ UNCHANGED <<token_vars, call, restarts>>

\* The engine hands a turn attempt of an open run to the worker.  By the time
\* the worker gets to it, the run may be closed.
DispatchAttempt(w, t) ==
  /\ run[w].open
  /\ attempt[t] = Unused
  /\ attempt' = [attempt EXCEPT ![t] =
       [stage |-> "dispatched", context |-> [workflow |-> w, run |-> run[w].no]]]
  /\ UNCHANGED <<run, directory, terminal_watchers, watcher, call, restarts>>

-----------------------------------------------------------------------------
(* attachment_for: two critical sections, the directory's and the watchers'. *)

\* The agent is unknown here, or has neither tools nor handoffs.
AttachNothing(t) ==
  /\ attempt[t].stage = "dispatched"
  /\ attempt' = [attempt EXCEPT ![t].stage = "bare"]
  /\ UNCHANGED <<run, directory, terminal_watchers, watcher, call, restarts>>

Mint(t) ==
  /\ attempt[t].stage = "dispatched"
  /\ attempt' = [attempt EXCEPT ![t].stage = "minted"]
  /\ directory' = directory \cup {t}
  /\ UNCHANGED <<run, terminal_watchers, watcher, call, restarts>>

\* Wrong on purpose: spawns an observer per attachment.
WatchTerminalAlways(t) ==
  LET w == attempt[t].context.workflow IN
  /\ attempt[t].stage = "minted"
  /\ attempt' = [attempt EXCEPT ![t].stage = "attached"]
  /\ terminal_watchers' = terminal_watchers \cup {w}
  /\ watcher' = [watcher EXCEPT ![t] = [stage |-> "waiting", workflow |-> w, bound |-> run[w].no]]
  /\ UNCHANGED <<run, directory, call, restarts>>

\* The observer is spawned only by the attachment that enters the id.  Its
\* first request to the engine binds it to the id's latest run.
WatchTerminal(t) ==
  LET w == attempt[t].context.workflow IN
  /\ attempt[t].stage = "minted"
  /\ attempt' = [attempt EXCEPT ![t].stage = "attached"]
  /\ terminal_watchers' = terminal_watchers \cup {w}
  /\ watcher' = IF w \in terminal_watchers THEN watcher
                ELSE [watcher EXCEPT ![t] =
                       [stage |-> "waiting", workflow |-> w, bound |-> run[w].no]]
  /\ UNCHANGED <<run, directory, call, restarts>>

-----------------------------------------------------------------------------
(* The observer task of a workflow id. *)

ClosedRun(w, r) == r < run[w].no \/ (r = run[w].no /\ ~run[w].open)

Moves(t, from, to) ==
  /\ watcher[t].stage = from
  /\ watcher' = [watcher EXCEPT ![t].stage = to]

\* Any workflow outcome, good or bad, ends the wait.
ObserveOutcome(t) ==
  /\ Moves(t, "waiting", "outcome")
  /\ ClosedRun(watcher[t].workflow, watcher[t].bound)
  /\ UNCHANGED <<run, attempt, directory, terminal_watchers, call, restarts>>

\* Wrong on purpose: a failed observation counts as an outcome.
ObserveErrorGivingUp(t) ==
  /\ Moves(t, "waiting", "outcome")
  /\ UNCHANGED <<run, attempt, directory, terminal_watchers, call, restarts>>

\* The engine could not be asked: sleep and ask again, about the latest run.
ObserveError(t) ==
  /\ watcher[t].stage = "waiting"
  /\ watcher' = [watcher EXCEPT ![t].bound = run[watcher[t].workflow].no]
  /\ UNCHANGED <<run, attempt, directory, terminal_watchers, call, restarts>>

\* Wrong on purpose: only the token the observer was spawned for is evicted.
EvictOwnToken(t) ==
  /\ Moves(t, "outcome", "evicted")
  /\ directory' = directory \ {t}
  /\ UNCHANGED <<run, attempt, terminal_watchers, call, restarts>>

\* `retain` keeps the other workflows' tokens, whatever run these are for.
Evict(t) ==
  /\ Moves(t, "outcome", "evicted")
  /\ directory' = {d \in directory : attempt[d].context.workflow # watcher[t].workflow}
  /\ UNCHANGED <<run, attempt, terminal_watchers, call, restarts>>

Unwatch(t) ==
  /\ Moves(t, "evicted", "done")
  /\ terminal_watchers' = terminal_watchers \ {watcher[t].workflow}
  /\ UNCHANGED <<run, attempt, directory, call, restarts>>

-----------------------------------------------------------------------------
(* One HTTP request: `handle`, then for a tools/call `tools_call` and the    *)
(* task it spawns, which outlives the request's connection.                 *)

Step(c, old, new) ==
  /\ call[c].stage = old
  /\ call' = [call EXCEPT ![c] = new]
  /\ UNCHANGED <<run, token_vars, restarts>>

\* The bearer gate comes first.  A harness has its token from the attachment,
\* so from `attached` on; one that outlived its attempt or its worker still
\* has it.  The body is read after the gate.
Authorise(c, t) ==
  /\ attempt[t].stage \in {"attached", "dead"}
  /\ Step(c, "idle",
       IF t \in directory
       THEN [call[c] EXCEPT !.stage = "authorised", !.context = attempt[t].context]
       ELSE [call[c] EXCEPT !.stage = "closed", !.http = "unauthorized"])

\* Everything that is answered at once: a bad body, a notification,
\* initialize, ping, tools/list, a method not served, a missing call id.
AnswerPlainly(c) ==
  Step(c, "authorised", [call[c] EXCEPT !.stage = "closed", !.http = "answered"])

\* tools_call spawns the task that submits the update; the engine gives it to
\* the latest run of the id.
Submit(c) ==
  LET w == call[c].context.workflow IN
  /\ call[c].stage = "authorised"
  /\ run[w].open
  /\ Step(c, "authorised",
       [call[c] EXCEPT !.stage = "pending", !.http = "stream", !.delivered = run[w].no])

\* The id's latest run is closed, or the engine cannot be reached.
SubmitFails(c) ==
  Step(c, "authorised",
    [call[c] EXCEPT !.stage = "settled", !.http = "stream", !.outcome = "failure"])

\* The run completes the update, with a tool result or a rejection.
UpdateCompletes(c, outcome) ==
  /\ call[c].stage = "pending"
  /\ ~ClosedRun(call[c].context.workflow, call[c].delivered)
  /\ outcome \in {"result", "rejection"}
  /\ Step(c, "pending", [call[c] EXCEPT !.stage = "settled", !.outcome = outcome])

\* The run closed with the handler still suspended, or the engine was lost.
UpdateFails(c) ==
  Step(c, "pending", [call[c] EXCEPT !.stage = "settled", !.outcome = "failure"])

\* Wrong on purpose: keepalives pile up.
KeepaliveUnbounded(c) ==
  /\ call[c].connected
  /\ call[c].queued <= Capacity
  /\ Step(c, "pending", [call[c] EXCEPT !.queued = @ + 1])

\* A keepalive tick: try_send, so a full stream drops the frame.
Keepalive(c) ==
  /\ call[c].connected
  /\ call[c].queued < Capacity
  /\ Step(c, "pending", [call[c] EXCEPT !.queued = @ + 1])

\* Wrong on purpose: the final frame is dropped like a keepalive.
SendFinalIfRoom(c) ==
  Step(c, "settled",
    [call[c] EXCEPT !.stage = "closed",
                    !.sent = call[c].connected /\ call[c].queued < Capacity])

\* The final frame waits for room; without a reader the send fails at once.
SendFinal(c) ==
  /\ call[c].connected => call[c].queued < Capacity
  /\ Step(c, "settled", [call[c] EXCEPT !.stage = "closed", !.sent = call[c].connected])

\* The harness reads frames in order: the final one is the last.
HarnessReads(c) ==
  /\ call[c].connected
  /\ call[c].queued > 0 \/ (call[c].sent /\ call[c].got = "none")
  /\ Step(c, call[c].stage,
       IF call[c].queued > 0 THEN [call[c] EXCEPT !.queued = @ - 1]
       ELSE [call[c] EXCEPT !.got = call[c].outcome])

\* Its own tool timeout, or its death.  The task goes on.
HarnessHangsUp(c) ==
  /\ call[c].connected
  /\ call[c].http = "stream"
  /\ call[c].got = "none"
  /\ Step(c, call[c].stage, [call[c] EXCEPT !.connected = FALSE, !.queued = 0])

\* The worker process dies and is started again: tokens, observers and the
\* tasks of open requests lived in its memory.  Updates live in the engine.
Restart ==
  /\ restarts < MaxRestarts
  /\ restarts' = restarts + 1
  /\ directory' = {}
  /\ terminal_watchers' = {}
  /\ watcher' = [t \in Token |-> NoTask]
  /\ attempt' = [t \in Token |->
       IF attempt[t].stage = "unused" THEN Unused ELSE [attempt[t] EXCEPT !.stage = "dead"]]
  /\ call' = [c \in Call |->
       IF call[c].stage \in {"idle", "closed"} THEN call[c]
       ELSE [call[c] EXCEPT !.stage = "closed", !.connected = FALSE, !.queued = 0]]
  /\ UNCHANGED run

Observer(t) ==
  \/ ObserveOutcome(t)
  \/ ObserveError(t)
  \/ Evict(t)
  \/ Unwatch(t)

Request(c) ==
  \/ \E t \in Token : Authorise(c, t)
  \/ AnswerPlainly(c)
  \/ Submit(c)
  \/ SubmitFails(c)
  \/ \E outcome \in Final : UpdateCompletes(c, outcome)
  \/ UpdateFails(c)
  \/ Keepalive(c)
  \/ SendFinal(c)
  \/ HarnessReads(c)
  \/ HarnessHangsUp(c)

Next ==
  \/ \E w \in Workflow :
       \/ StartRun(w)
       \/ CloseRun(w)
       \/ \E t \in Token : DispatchAttempt(w, t)
  \/ \E t \in Token : AttachNothing(t) \/ Mint(t) \/ WatchTerminal(t) \/ Observer(t)
  \/ \E c \in Call : Request(c)
  \/ Restart

Spec == Init /\ [][Next]_vars

\* The observer's tasks run and the engine answers them at last.  An update
\* settles: a tool has a timeout, and a lost engine is an error.  A harness
\* that stays connected reads.  Nothing is assumed of runs or attempts.
BridgeFairness ==
  /\ \A t \in Token :
       WF_vars(ObserveOutcome(t)) /\ WF_vars(Evict(t)) /\ WF_vars(Unwatch(t))
  /\ \A c \in Call :
       /\ WF_vars(\E outcome \in Final : UpdateCompletes(c, outcome) \/ UpdateFails(c))
       /\ WF_vars(SendFinal(c))
       /\ WF_vars(HarnessReads(c))

FairSpec == Spec /\ BridgeFairness

-----------------------------------------------------------------------------
(* Properties. *)

\* Types of the directory, the observers and the requests (attach.rs, server.rs).
TypeOK ==
  /\ run \in [Workflow -> [no : Run, open : BOOLEAN]]
  /\ attempt \in [Token -> Attempt]
  /\ directory \subseteq Token
  /\ terminal_watchers \subseteq Workflow
  /\ watcher \in [Token -> Watcher]
  /\ call \in [Call -> CallState]
  /\ restarts \in 0..MaxRestarts

Observing(t) == watcher[t].stage \in {"waiting", "outcome", "evicted"}

\* However attempts, evictions and runs of one id interleave, an id has one
\* observer task at a time, and the set names exactly the ids that have one
\* (attach.rs watch_terminal: insert before spawn, remove as the last act).
OneObserver ==
  /\ \A t, u \in Token :
       Observing(t) /\ Observing(u) /\ watcher[t].workflow = watcher[u].workflow => t = u
  /\ terminal_watchers = {watcher[t].workflow : t \in {u \in Token : Observing(u)}}

RunIsOpen(context) ==
  run[context.workflow] = [no |-> context.run, open |-> TRUE]

\* A token stops resolving while its run is open only if an observer that saw
\* an earlier run of the same id close is late, or the worker died: a failed
\* observation never evicts, and no token of an id's first run is evicted
\* while the run is open (broker.rs wait_for_terminal, attach.rs watch_terminal).
EvictsLateOnly ==
  [][\A t \in directory \ directory' :
       RunIsOpen(attempt[t].context) =>
         \/ restarts' # restarts
         \/ \E u \in Token :
              /\ watcher[u].stage = "outcome"
              /\ watcher[u].workflow = attempt[t].context.workflow
              /\ watcher[u].bound < attempt[t].context.run]_vars

\* t resolves and an observer of its id has yet to evict.
Watched(t) ==
  /\ t \in directory
  /\ \E u \in Token :
       /\ watcher[u].stage \in {"waiting", "outcome"}
       /\ watcher[u].workflow = attempt[t].context.workflow

\* A token that an observer has yet to see does not outlive its run for ever,
\* whichever attempt of the run it was minted for (attach.rs:88-90).
WatchedTokensEvicted ==
  \A t \in Token :
    Watched(t) /\ ~run[attempt[t].context.workflow].open
      ~> t \notin directory \/ run[attempt[t].context.workflow].open

\* A tools/call that became an update is answered on a stream that is read,
\* however many keepalives filled the stream (server.rs tools_call: the final
\* frame waits for room).
CallsAnswered ==
  \A c \in Call :
    call[c].stage = "pending" ~> ~call[c].connected \/ call[c].got # "none"
=============================================================================
