# Odori in TLA+

TLA+ models of Odori: the workflow that runs an agent, the registry that makes tool
calls durable, the budgets that bound a tree of runs, the attempts of one turn, the
bridge that brings a harness's tool calls back, the clients, and the four model
providers. TLC checks the models on small instances; TLAPS proves the main safety
properties for every value of the constants. `PROJECT.json` lists the runs, the
mutants that show each property can fail, the source lines behind every definition,
the findings and the hazards.

To check a run: `tlc -config worker.cfg MCWorker.tla`; the table of runs names the
others. To check the proofs: `tlapm` on each of the eight `*_proofs.tla`.

## The system

Odori runs LLM agents on an embedded durable-execution engine. A *run* is a
workflow. Each *turn* of a run is an activity that drives a model backend (a harness
process such as Claude Code or Codex, or a raw API). In the middle of a turn the
model calls tools; those calls leave the harness over MCP, reach an in-process HTTP
bridge, and come back into the workflow as an update, so that they survive retries
of the turn. A *handoff* is a tool whose execution is another run, a child workflow.

```
 client -- start, signals --> AgentRun workflow -- activity --> execute_turn --> provider --> harness
                               ^   |  |                                                         |
                               |   |  +-- child workflow --> AgentRun (handoff)                 | MCP
                  tool_invoked |   +-- activity --> execute_tool                                v
                               +------------- broker <----- HTTP server + token directory <-----+
```

| Component | State it keeps | Operations | What makes it correct |
|---|---|---|---|
| Invocation registry (`invocation.rs`) | per turn: attempt watermark, call id to in-flight or complete | `admit`, `complete`, `recorded` | one execution per (turn, call id); recorded results never change; late attempts start nothing new |
| Tool-call handler (`run.rs` `tool_invoked`) | one suspended handler per presentation | validate, admit, execute, join, reply | record before reply; every joiner is answered |
| Run loop (`run.rs` `run`, signals) | transcript, queued messages, end flag, running totals, cursor into delegated outputs | activation, turn end, wake-up, `user_message`, `end_conversation` | caps hold; each child counted once; no accepted message dropped |
| Handoffs (`run.rs` `execute_handoff`) | list of delegated outputs | budget hand-down, child start, return, failure | a child stays inside what its parent has left |
| Budgets and usage (`guardrail.rs`, `run.rs`) | none | `intersect`, `absorb_*`, both gates, `remaining_budget` | off-by-one free gates; unknown usage is not zero |
| Turn activity (`run.rs` `execute_turn`) | heartbeat details: session, usage | attempt start, event pump, flush, success, failure | spend of failed attempts is carried over; a retry resumes the right session |
| Tool activity (`run.rs` `execute_tool`) | the engine's tries | execute, cap the result, retry | the policy's tries and error classes decide how a call ends; late tries do not |
| Bridge attachments (`attach.rs`) | token directory, terminal watchers | mint, resolve, evict | a token resolves while its run lives, and not after |
| Bridge server (`server.rs`) | in-flight requests | authorise, list, call | every call that is still read is answered |
| Call broker (`broker.rs`) | none durable | submit the update, await it, keepalive | keepalives never crowd out the outcome |
| Claude provider (`claude/`) | child process, pending tool calls, last result | spawn, read events, deadline, classify | a finished turn is not reported as timed out; an exit is classified by what was in flight |
| Codex provider (`codex.rs`) | JSON-RPC state, lines set aside | initialise, thread, turn, finish | no line lost, handled twice or out of order |
| API providers (`api/`) | in-process sessions | completion-and-tool loop, backoff | tool calls and results stay paired; sessions are saved only on success |
| Provider seam (`provider.rs`) | event channel, latest usage | emit (lossy), report usage (lossless) | liveness may be dropped, spend may not |
| Runner (`runner.rs`) | handles that name an id | start, send, end, interpret the output | who ends a conversation gets that run's end |
| Embedded engine (`odori-engine`) | worker thread, readiness, stop request | start, shutdown | no worker survives a failed start or a shutdown |
| Telemetry (`telemetry.rs`) | span registries by id | register, deregister, adopt | a tool's span hangs below the turn in flight |
| Agents, outputs, facade, test doubles, examples | builders | | plumbing |

What is hard: handlers interleave at their awaits; a timed-out attempt of a turn
keeps calling tools beside its replacement; a harness presents a call again;
children return in any order and may outlive the turn, or the run, that started
them; signals race turns; caps are compared in two different ways; failed attempts
and failed children have spent budget that someone must count; ids are used again
while something of their earlier run is still on its way; subprocesses die, hang,
tear their output and answer in any order, around a deadline; whatever lives in a
worker's memory (tokens, observers, API sessions, spans) goes with it.

## Modules

`InvocationRegistry` is `invocation.rs` as pure operators. A missing map entry is
the value `NotPresented`, and a turn never presented has watermark 0. `Verdict` and
`Admit` split `admit` into its answer and its effect.

`ToolInvoked` is the `tool_invoked` update over that registry. `Update` is a set of
handler runs, one per presentation. A handler has a step up to its first await
(`Refuse`, `ReplayRecorded`, `Fence`, `Join`, `Execute`) and one from its await to
its reply (`Finish`, `ServeJoined`, `CancelJoined`): workflow code is single
threaded, so nothing happens between awaits. Around it the run starts, schedules
attempts, records turns, is cancelled and closes at any moment. A presentation may
carry any turn and any attempt: the identity names no run, and the update goes to
whichever run holds the workflow id, so beside this run's own attempts there are
leftovers of earlier runs. The history `leftover` remembers those that were admitted
with an attempt this run has not scheduled. Zombies need no extra machinery: any
scheduled attempt may present at any time. Worker crashes do
not appear, because handler state is workflow state, which replay rebuilds. A tool
body is an arbitrary result; a failed activity is a result too.

`ToolLog` is the contract `ToolInvoked` implements: a log entry per (turn, call id)
that goes from absent to running to finished, and callers answered once. It knows
nothing of watermarks, attempts or waiting.

`RunBudget` is the accounting and cap arithmetic. A `Spend` is a `RunUsage` with the
loop's turn count beside it. Input and output tokens are one number, cost is a
natural number, and the cache and reasoning figures, which decide nothing, are left
out.

`AgentRun` is a tree of runs. A run is in its turn, waiting for a message, or over;
a turn is a single step with an arbitrary usage. `TurnCompletes` is the whole
stretch of the loop from the activity's result to the next await: absorb the turn,
absorb the delegated outputs past the cursor, record, check the caps, ask the output
guardrail, finish or take the next message, and check the caps again. `transcript`,
`absorbed` and `late` are the sums of the transcript and of the delegated list
before and after the cursor, which is all the code reads of them. `Handoff` reads
the budget and starts the child in one step, since no await separates them. A
handoff may also start while the run waits, because `ToolInvoked` admits calls of
past turns. Closing a parent lets the engine terminate its children, some time later
(an assumption about the engine: the code sets no parent-close policy).

`TurnAttempts` opens up the turn that is one step in `AgentRun`: the attempts of
`execute_turn`. The variables `asked`, `turn`, `current`, `details` and `record` are
the engine's, the others belong to one attempt each. An attempt goes from `running`
(the provider works) through `ended` (it returned, which closes the event channel)
and `flushed` (the channel is drained, the last heartbeat recorded) to `answered`,
or to `gone`. The provider's task (`OpenSession`, `Notify`, `ReportUsage`,
`ProviderReturns`) and the pump (`Pump`, `Flush`) interleave freely, as on the
multi-threaded runtime. `Emit` is `try_send`: what finds the channel full is
dropped, while the usage tracker (`snapshot`) is never lossy. `TimeOut` ends an
attempt for the engine and not for its process, so zombies pump, heartbeat and
answer beside their successors; `Crash` ends a process and not, until the timeout,
the engine's wait. A recorded heartbeat is taken or lost (`Heartbeat`); when it
arrives in between is not told apart, because details are read only when an attempt
starts. A session is named by the attempt that opened it, and a usage is one figure.
Whether the provider ended well is chosen when the answer is taken (`Accept`).

Three things are assumed of the outside. The engine keeps the newest details of a
turn across its attempts. The SDK sends the last recorded heartbeat ahead of the
answer. A provider's reports are cumulative, which `provider.rs` demands of
providers; whether each provider delivers that is a question for the provider
modules (`codex.rs` forwards `tokenUsage/last`).

`ToolActivity` is `execute_tool` under the engine's retries, with the span
registries a try looks its parent up in. `tool` is the engine's view of the activity
and `tries` what the handlers really do: `TryTimesOut` and `CeilingPasses` end a try
for the engine only, so a handler answers late into a call that has moved on. A
registry holds one span per id, the last to register, and any span of the id that
closes takes the entry out (`CloseSpan`), a zombie's included.

`Bridge` is a worker's MCP bridge. `run` is the engine's: which run of an id is the
latest, and is it open. A token goes from `dispatched` to `minted` (the directory's
critical section) to `attached` (the watchers' critical section), and an observer
from `waiting` to `outcome`, `evicted` and `done`; these are the code's awaits and
locks, so another attempt, another run of the id or a closing run may come in
between. An observer is bound to the run that was the latest when it asked the
engine. A request is authorised, submitted as an update, settled, and answered on a
stream that keepalives share with the final frame. `Restart` empties what the
process held; tokens that a surviving harness still has are then unknown.

`Runner` extends `Bridge` by the clients of the same ids. A handle names an id, so
`StartOrJoin`, `Send`, `End` and `AwaitResult` each meet whatever run is the latest
at that moment. Fetching a result may itself fail (`FetchFails`), which the caller
cannot tell from a run that failed. What the run does meanwhile is cut down to what
a client can tell: reading a message, ending in one of the ways `AgentRun` has.

`OdoriRuntime` is a worker process's start and shutdown: two threads, the starter
and the worker, that share a oneshot channel and a stop request. The starter may be
dropped at any await (`Abandons`).

`ProviderSeam` is what the subprocess providers share: the outcome and its error
kinds, the usage tracker, the deadline, and the subprocess as the lines it has
written (`script`) and how many of them were read (`read`). End of file, the exit of
the process and the end of its stderr are three steps (`OutputCloses`, `Exits`,
`PipesClose`), the first in any order with the others: a process may close its
output and live on, and one that dies leaves its pipes to its descendants. A usage
figure is known by the line that told it.

`ClaudeProvider` is one turn of Claude Code against an arbitrary harness: it writes
bridge calls, their results, noise, one result event or a line that is not text, in
any order that announces a call before it answers it. The timer polls the read
before the clock, so `TimeOut` needs an empty pipe, and a line in the pipe is read
however late it is. After the loop the provider waits outside the deadline, for the
process and for the end of its stderr. `Reap` is both waits done and the
classification, by what this turn's stderr said; `WaitFails` is the first wait
failing, which ends the turn as Config with whatever was read.

`CodexProvider` is one turn of the app-server: three requests, and replies, requests
of the server's own, notifications and torn lines in any order. What arrives while a
reply is awaited goes to `queue` and comes first in the turn loop (`NextMessage`).
The deadline is around everything, so `DropTurn` may strike wherever the turn waits,
its grace included. Between the first two requests the turn needs its working
directory (`cwd`); without one it ends as Config, with the server running
(`CwdFails`).

`ApiLoop` is a provider instance over several turns: preparation, HTTP attempts, the
streamed reply block by block, the bridge calls one after the other, the next
iteration. A frame of the stream that does not parse is passed over, so what the
vendor sent of a reply (`begun`, `open`, `sent`) is kept beside what the turn has of
it (`opened`, `stop`). A message is known by its role, by how many tools it asks for
or answers, and by why it stopped; inputs of tools are data. `sessions` is the store
of the Messages provider, read when a turn begins and written when it succeeds (the
history `took` is what was read); the Responses provider keeps none. `ApiRestart`
loses the store and every turn in progress, while the engine still resumes the ids
it knows.

`MCToolInvoked`, `MCAgentRun` and `MCTurnAttempts` hold what TLC needs: symmetry
sets and small sets of budgets and usages. `MCWorker` puts `Runner`, `ToolActivity`
and `OdoriRuntime` side by side, `MCProviders` the provider modules, for four
providers: they share no variable that matters between them, so a behaviour is about
one of them (`scene`, `provider`) and leaves the rest alone, which shows the same as
their interleavings.
`Runner` and `Bridge` do share `run`, and the `clients` and `bridge` scenes move it
alike. Definitions marked "wrong on purpose" (and the registry's
`VerdictWithout...`, `VerdictFencingEquals` and `CompleteForgetting`) are used by no
specification; they are the mutants.

## Runs

| Run | Bounds | Shows |
|---|---|---|
| `tool_invoked_safety` | 3 presentations, 2 turns, 2 attempts, 2 call ids, 2 results, a listed and an unlisted tool | `AtMostOnce`, `RecordedBeforeReply`, `LiveAttemptNotFenced`, `FenceHolds`; the handlers implement `ToolLog` |
| `tool_invoked_liveness` | 2 presentations, 1 call id, 1 result | `JoinersAnswered` |
| `tool_invoked_replaced_attempt` | 2 presentations | finding: a replaced attempt still starts work |
| `agent_run_safety` | a root and 2 children, 2 messages, turn caps 2 and 3, token cap 1 with cost cap 2, targets with and without a cap of 0 | `SpendConserved`, `TurnCapHard`, `OvershootBounded`, `EveryMessageAnswered`, `OverspendReported` |
| `agent_run_liveness` | a root and 2 children, 1 message, turn cap 3 | `ConversationEnds`, `HandoffsSettle` |
| `agent_run_side_by_side` | as safety, no messages | finding: parallel handoffs exceed the turn cap |
| `agent_run_overshoot` | as safety, no messages | finding: with a handoff two turns cross a cap |
| `agent_run_late_child` | as safety, 1 message | finding: a late child is missing from the output |
| `turn_attempts` | 3 attempts, a channel of 1, one figure, turns that start fresh or fork | `SpendCarriedOnce`, `ForksFound`, `AnchorRecovered` |
| `turn_attempts_silent_success` | 2 attempts | finding: a success without a figure hides what a failed attempt spent |
| `worker` | 1 id with 2 runs, 2 tokens, 1 request, 1 restart, a stream of 1 frame; 2 callers, 1 message; 1 client and 2 turn attempts with spans, 2 tries | `OneObserver`, `EvictsLateOnly`, `WatchedTokensEvicted`, `CallsAnswered`; `EndAnswered`; `RetriesAsDeclared`, `SpansAdopted`; `NoWorkerLeft` |
| `providers` | 5 lines, of which 2 are notices of a codex server, 1 bridge call; 2 API turns, 2 iterations, 2 HTTP attempts, 2 calls in a reply, 1 restart | `ClaudeFinishedInTime`, `PendingCallsNamed`, `CodexResultStands`, `SpendReported`, `DeathRetried`, `TurnReturns`; `RequestsPaired`, `NoCutReplyRuns`, `SessionsGrow`, `ApiTurnReturns` |

Bounds. Three presentations are one that executes, one that joins or replays, and
one from another attempt that moves the watermark: the smallest set in which a
fence, a join and a replay meet. Two attempts and two turns give a zombie and a past
turn; two call ids show that calls do not disturb each other. Two children run side
by side, one after the other, or one below the other; caps of 2 and 3 are met
exactly by those shapes. Usages have either figure missing in turn, so the unknown
counters and both caps matter. Three attempts of a turn are the fewest in which what
one attempt left can be lost, or counted again, by the one in the middle; a channel
of one is full as soon as anything waits in it. In `worker`, two runs of an id are
the fewest in which something of the first meets the second, and two tokens give a
second attachment to an observer that is already there, or one that has just
evicted; a stream of one frame is full after one keepalive. In `providers`, five
lines are the three replies of a codex turn and two lines around them (a figure or a
text, and the end of the turn, on either side of a reply), or for Claude a call, its
result and the turn's result with room for what should not be there; two API turns
resume, fork and overwrite each other's session, two iterations and two HTTP
attempts reach each bound after one repetition, and two calls in a reply are the
fewest of which one can be answered when the other fails.

`MCProviders` looks at fewer interleavings than the modules allow, where that shows
the same. What a process does after its turn has returned is not followed. API turns
share nothing but the store, which is read when a turn takes up its session and
written when it ends: so one turn at a time exchanges with its vendor and bridge
while the other waits with what it took up, turns of the Responses provider run one
at a time, and a fixed turn begins first (`First`). The theorems about `ApiLoop` are
without these restrictions. `MaxMessages` bounds the messages of a
behaviour and `MaxAttempts` is the code's own retry bound, in both modules that have
one. Symmetry is used in the safety runs only, over sets whose members are treated
alike. Deadlock is not checked: runs and turns end, and an interactive run may wait
for ever.

Fairness. A turn or tool activity has a start-to-close timeout and a bounded number
of attempts, so it settles, well or badly (`Finish`, `TurnSettles`). A worker polls,
so a workflow step that waits for nobody else happens (`ServeJoined`,
`CancelJoined`, `Activate`, `WakeUp`, `HandoffReturns`, `HandoffFails`). Nothing is
assumed of the client, the harness, the model, cancellation or failure. In `worker`
the observer's tasks run and the engine answers them in the end, an update settles,
the task of a call runs and a harness that stays connected reads (`BridgeFairness`);
a conversation reads its messages and ends when told, as `AgentRun` shows, and a
client that waits is told (`RunnerFairness`). In `providers` a provider's own steps
happen and each step of an API turn is answered or fails (`Proceeds`), and a process
that was killed dies (`HarnessGoes`). Nothing is assumed of a harness that is alive
nor of what a dead one left behind: descendants may hold its pipes for ever.
`ConversationEnds` also needs that messages stop, which `MaxMessages` provides: a
client that keeps sending keeps its conversation open, by design.

## What is proved

`ToolInvoked_proofs` proves, for any sets of turns, call ids, results and updates
and any retry bound: `TypeOK`, `AtMostOnce`, `RecordedBeforeReply`,
`LiveAttemptNotFenced`, the action property `FenceHolds`, and that the handlers
implement `ToolLog` (`Implements`). They are not inductive alone. The invariant
`IInv` adds what each handler's place says of its registry entry (`HandlerState`: an
executing handler's entry is in flight, an executed one's holds its reply, a joined
one's is not absent) and that a turn's watermark never exceeds the attempts the
engine scheduled for it. The registry's operators have lemmas of their own
(`PutEffect`, `ObserveEffect`, `VerdictMeaning`, `AdmitEffect`, `CompleteEffect`),
and each action one lemma.

`AgentRun_proofs` proves, for any number of runs and any budgets and usages:
`TypeOK`, `TurnCapHard`, `EveryMessageAnswered` and `OverspendReported`. For the
turn cap, `IInv` says of a run that, while none of its handoffs or of those below
it overlap, it has room for the turn it is in beside all it has on record, a waiting
run that was already given child output has room for its next, and an awaited child
is the only one and fits into what is left besides (`ChildFits`). What runs beside
it does not matter: a handoff taints only the runs above it. `ChildFits` is where
the turn held back by `remaining_budget` is needed. For messages it tracks where
each accepted one is: queued, in flight or answered.

`AgentRunSpend_proofs` proves the two statements about money that sum over the tree
of runs: `SpendConserved` and `OvershootBounded`. The community modules' folds are
definitions by recursion over a set, and the induction theorems that would unfold
them take operators, so the module makes the induction first order: a property that
fails somewhere fails in a smallest set (`SmallestSet`, from `WFMin`), which is
impossible. This gives what the proofs need of sums: the empty sum, any element
taken out (`TotalTakesOut`), and that only the weights of the elements count
(`TotalOfSame`). `SpendInv` then follows each account through the cursor of the
loop: the loop's total is its turns and what it absorbed, and what it absorbed or
has yet to absorb is what the returned children spent. For the overshoot the tree
has to be a tree: `TreeInv` says the parents form a forest (a rank decreases
upwards), so a run has a number of levels below it (`LevelsBound`), a child has
fewer than its parent (`LevelsBelow`), and a new child takes none away
(`ForestGrows`). `OvershootInv` says of both dimensions that a run's total is under
its cap plus one largest figure for each level, that while a run's turn is still to
come its own level has added nothing, and that an awaited child was given no more
than its parent has left (`GivenFits`). When the child returns, the levels from it
down account for what it added, and there is one more level at the parent for the
parent's own turn.

The module ends with what is left of a budget when handoffs do overlap, where the
run `agent_run_side_by_side` shows that a tree may overspend a turn cap. A child's
caps are set where its parent's are and no looser, and its turn cap is lower
(`BudgetsNarrow`): the turn that `remaining_budget` holds back for the parent is one
that no child is given. So each level takes a turn off the cap, and a tree is no
deeper below a run than the run's turn cap (`DepthWithinTurns`, from the lowest cap
of a counterexample: a line of runs shortens at its upper end, `LineShortens`). And
since the gate looks at the loop's total, no run starts a turn of its own beyond its
cap (`OwnTurnsWithinCap`). No run of the table lists these three; TLC found no
violation of them on the instance of `agent_run_safety` with one message.

`TurnAttempts_proofs` proves, for any retry bound, channel capacity and set of
figures: `TypeOK`, `SpendCarriedOnce`, `ForksFound` and `AnchorRecovered`. None
of the last three speaks of heartbeats, so `IInv` does: the engine's details exceed
what the newest attempt was given by no more than it has reported, and by exactly
that once it answered (`DetailsState`); a live pump knows the session it was given
or its own, and an announced session it does not know yet is still in the channel
(`AnchorState`), which a flushed attempt has drained; and the details never fall
behind a session whose attempt answered (`AnchorKept`). The steps of a live process
change its own pump and at most the details, which `LocalStepKeeps` and
`LocalStepAnchors` treat once for all of them; every action has its lemma.

`Worker_proofs` proves of the bridge, for any ids, tokens, requests, runs and
restarts: `TypeOK`, `OneObserver` and the action property `EvictsLateOnly`. Their
invariant adds that a request which passed the gate has a context
(`AuthorisedContext`), that only an attached token has an observer
(`ObserverAttached`), and that an observer which has its outcome is bound to a run
that has closed (`OutcomeSeen`): what it evicts wrongly can then only be a later
run's. `OneObserver` compares a set with the image of a function; the proof keeps it
as a statement about each id (`EachWatchedOnce`). Of a tool activity it proves
`RetriesAsDeclared` for any number of tries and `SpansAdopted` for any clients and
attempts: what is registered is open, two open spans of a tier are both marked as
overlapping, and one which never overlapped is the registered one. Of the runtime it
proves `NoWorkerLeft`, from what each stage of the starter knows of the thread.

The same module puts them together. `WorkerIsItsParts` shows that each step of the
worker process is a step of each part or leaves it alone; a client's step is one of
the bridge's engine (`RunnerStepIsBridgeStep`). The parts' promises are therefore
the process's (`WorkerKeepsItsPromises`), and so are the types of all parts
(`ComponentTypesCorrect`). `CallersGetTheirRunsEnd` is the safety that `EndAnswered`
rests on: a caller that is given an output has the recorded end of the closed run it
was bound to, which is the run it told to end or a later one of the id
(`AnsweredByTheRun`); an error may also be a fetch that failed. Its invariant is
that an end is only written for a run that closes, and stands (`EndsOfClosedRuns`),
and what each stage of a caller knows of the run it is bound to (`CallerBound`).

`Harness_proofs` is about the two subprocess providers. For Claude Code it proves
`ClaudeFinishedInTime`, `PendingCallsNamed`, `ClaudeDeathRetried` and
`ClaudeSpendReported`, for any harness: any number of lines, of calls, of kinds of
result and stderr. The invariant says what a harness can have written
(`ClaudeScript`: one result, and a call's result after its one announcement), what
the loop has made of what it read (`LoopState`: `pending` is the calls announced and
not answered), and that a loop left without a timeout has read everything to the end
of file or met a torn line (`ClaudeStages`). A turn whose process could not be
waited for is set apart, as the code does (stage `unjoined`).

For Codex it proves `CodexResultStands`, `CodexSpendReported` and
`CodexDeathRetried`, for any server. The heart of the invariant is `QueueState`:
what was set aside is in order, and everything that was handled came before all of
it, so that taking the head of the queue, or else the next line, is taking the next
line of the turn (`TakesNext`). When the end of the turn is taken, what was handled
is therefore exactly what was written before it. For the deaths it follows the
verdict through the shutdown: one that ends the run for good is owed to a line that
was read, or to a working directory that is gone (`Owed`), and neither changes.

`ApiLoop_proofs` proves `RequestsPaired`, `NoCutReplyRuns` and the action
property `SessionsGrow`, for any number of turns side by side. The invariant says in
which shape each stage has the conversation (`TurnState`: answered to the end, or
ending in a reply that asks; and the session taken up is a prefix of it), that what
is stored has come to rest (`Stored`), that a session belongs to the turn itself or
was returned by an earlier one (`Known`), and that a turn works under the session it
resumes or else under its own (`Grounded`).

`Providers_proofs` carries these over to `MCProviders`, where a turn is given any of
the four providers: `TypeOK`, `SpendReported`, `DeathRetried`, and the promises of
each provider's own module (`ProvidersKeepTheirPromises`). A provider steps in its
own turns only (`ClaudeActs`, `CodexActs`, `ApiActs`), so its invariant holds there
and the state of the others is at rest (`ProvidersInv`).

The proofs assume the named `ASSUME`s of the modules, which TLC evaluates on every
run: turns are naturals, bounds are naturals (the retry bounds, the capacities and
the API bounds positive), the null values (`NoCap`, `Unknown`, `NoRun`, `NoCall`,
`NoSession`, `NoSpan`, `Earlier`) are not real ones, spans of the two tiers differ,
budgets and usages have their types; a turn's usage is one of finitely many
(`UsagesAreFinite`: figures are machine numbers), and a client has an id to call
(`CallersHaveIds`).

So every invariant and every action property of the passing runs is a theorem. Only
model-checked: the properties of the form "it happens in the end"
(`JoinersAnswered`, `ConversationEnds`, `HandoffsSettle`, `WatchedTokensEvicted`,
`CallsAnswered`, `EndAnswered`, `TurnReturns`, `ApiTurnReturns`), because the prover
has no reasoning about fairness and ENABLED.

## Findings

1. The registry learns of an attempt only when one of its calls arrives, so an
   attempt the engine has replaced still starts work before its successor's first
   call. The requirements (4.1) fence it from the moment it is replaced. What does
   hold is `FenceHolds`.
2. `max_turns` is documented as the hard limit that delegation cannot escape. Each
   of several handoffs in flight is given the same remaining turns, so together they
   exceed it. `TurnCapHard` holds of each run whose own handoffs, and its
   children's, do not overlap, and `OverspendReported` always does. The slice-fleet
   example joins four handoffs.
3. The spend a run ends with is documented to be at most a token or cost cap and one
   turn's usage. A child's budget is what is left before the turn that hands off is
   counted, so the child's turn and its parent's each cross the cap, with one handoff
   at a time. What does hold is `OvershootBounded`: a turn for each level of
   delegation.
4. `RunOutput.usage` is documented to include all handoff children. A child that
   returns while the run waits is recorded in the workflow and absorbed by the next
   turn; if there is none, it is missing from the output.
5. A retried attempt's aggregate is documented to carry everything the failed
   attempt reported. `aggregate_success_usage` drops a figure that the successful
   attempt does not report itself, though the heartbeats on the way carry it.

## Observations

Smaller things met while modelling, which no run refutes and a maintainer may want
to know.

- The requirements of the bridge admit calls of the current turn only
  (`requirements.md:137`); the code rejects later turns and admits earlier ones
  (`run.rs:545`). `ToolInvoked` has such calls.
- A call left over from an earlier run of a workflow id may carry a higher attempt
  of the turn than the run has come to: no identity names a run (`attach.rs:232`,
  `server.rs:135-149`). It raises the watermark (`invocation.rs:133-136`), and new
  calls of the live attempt are fenced. `LiveAttemptNotFenced` excepts just this.
- A `get_result` that fails gives its caller the error of a failed run
  (`runner.rs:198-202`, `290-296`).
- `tool.rs:126` lets `None` defer to the engine's default number of attempts;
  `run.rs:849` makes it 3. A tool's heartbeat timeout is passed on (`run.rs:852`),
  though a handler has no way to heartbeat.
- A failed child's spend is counted nowhere (`run.rs:702`): the engine keeps no
  figure of it.
- Two call ids that differ only in replaced characters share a child workflow id
  (`run.rs:719`).
- A token minted between an observer's eviction and its removal from the set is left
  without an observer, and resolves until the worker ends (`attach.rs:146`).
- `runner.rs:82` says a start joins rather than duplicates; an id whose run is
  closed gets a new run.
- The waits after the Claude provider's loop are outside the deadline
  (`claude/mod.rs:384-387`). A harness that closes or tears its output and lives on
  holds its turn for ever, and so does a descendant of a dead one that holds its
  stderr, killed by the deadline or not. `docs/providers.md:217-218` says that no
  dead harness becomes an unbounded wait. `TurnReturns` excepts just these
  (`HeldOpen`).
- If the wait for the Claude process fails, the turn is Config, whatever it had read
  (`claude/mod.rs:384-386`); so is a codex turn whose working directory cannot be
  resolved (`codex.rs:172-174`), which leaves the server to be killed on drop. Both
  end the run for good.
- A server that dies in the middle of a line has written a torn one, which is
  protocol drift and not retried, while `docs/providers.md:210` has a dead CLI
  retried. `DeathRetried` excepts this.
- A codex turn that completed may still be reported as timed out, in the grace its
  server has to leave (`codex.rs:769`). `CodexResultStands` excepts just this.
- `codex.rs` reports the `last` figure of a usage notification, where
  `provider.rs:393` asks providers for cumulative ones.
- A Messages reply cut at its length limit is saved with its tool uses unanswered;
  the next request over it is not what the API takes. `RequestsPaired` promises
  pairs for replies that stopped for tools.
- A tool input that does not parse is run as an empty object (`anthropic.rs:471`) or
  handed on as the raw string (`openai.rs:321-324`), and a frame that does not parse
  is passed over (`anthropic.rs:391-393`), a lost block or stop reason with it.
  `NoCutReplyRuns` speaks of which replies run, not of their inputs.
- Two turns that resume one session each save over what they took up; the later save
  wins. `SessionsGrow` excepts a session saved by another turn meanwhile.
- An interrupted stream's figures are lost with the exchange, and the API providers
  neither announce sessions nor look at the deadline.
- A Responses turn that began fresh may end in `SessionNotFound`, since from its
  second request on it continues a response.
- The bridge's server outlives a failed start and a shutdown (`bridge_up` in
  `OdoriRuntime`).

## Not modelled, and the plan

Done, in this order: the registry and its handler, and their abstract log; the run
loop with budgets and handoffs; the attempts of a turn; the bridge and its clients;
tool activities with their spans; the runtime; the providers; the theorems above.

Left for later: `TurnAttempts` as an implementation of `AgentRun`'s one-step turn; a
composition of `Bridge` with `ToolInvoked`, where an update's outcome is that
module's reply.

Left out, with the reason:

- in the providers, what decides nothing here: texts and deltas, limits and their
  translation to flags, session announcements of the subprocess providers
  (`TurnAttempts` has what they are for), backoff times; and writes that block on a
  full pipe, and the kill on
  cancellation, which needs the engine's cancellation of activities;
- `Engine`, which forwards to the external engine; the engine itself (external;
  modelled by what the code relies on);
- the sanitised child workflow id, a conversion of characters;
- span fields, agents, outputs, the facade, test doubles and examples: no state that
  steps change.

That a turn settles is left to the engine (its timeouts and retry bound), which is
what `AgentRun` assumes of it: `TurnAttempts` has safety properties only.
