----------------------------- MODULE MCProviders -----------------------------
(* Turns of the four providers for TLC: a behaviour is of one provider, and   *)
(* the variables of the others stay as they are.                              *)
EXTENDS ClaudeProvider, CodexProvider, ApiLoop, TLC

vars == <<seam_vars, claude_vars, codex_vars, api_vars>>

Init ==
  /\ \E name \in {"claude", "codex", "anthropic", "openai"} : SeamInit(name)
  /\ ClaudeIdle
  /\ CodexIdle
  /\ resuming \in IF provider = "codex" THEN BOOLEAN ELSE {FALSE}
  /\ cwd \in IF provider = "codex" THEN BOOLEAN ELSE {TRUE}
  /\ ApiIdle

\* What a process does when its turn has returned is not followed.
Claude == Undecided /\ ClaudeNext /\ UNCHANGED <<codex_vars, api_vars>>
Codex == Undecided /\ CodexNext /\ UNCHANGED <<claude_vars, api_vars>>

\* Turns share nothing but the session store, so one at a time exchanges with the
\* vendor and the bridge, and the others wait with what they took up; turns of
\* the Responses provider share nothing at all.  Turns are alike, so it does not
\* matter which begins first.
First == CHOOSE t \in Turn : TRUE
After(t, stages) == turn'[t].stage \in stages
Api ==
  /\ ApiNext
  /\ \A t, u \in Turn : t # u =>
       /\ ~(After(t, {"streaming", "calling"}) /\ After(u, {"streaming", "calling"}))
       /\ OpenAi => After(t, {"idle", "returned"}) \/ After(u, {"idle", "returned"})
  /\ After(First, {"idle"}) => \A t \in Turn : After(t, {"idle"})
  /\ UNCHANGED <<claude_vars, codex_vars>>

Next == Claude \/ Codex \/ Api

Spec == Init /\ [][Next]_vars

\* What a provider itself does, with the answers it waits for, and what becomes
\* of a killed harness.
Proceeds ==
  \/ ClaudeStep /\ UNCHANGED <<codex_vars, api_vars>>
  \/ CodexStep /\ UNCHANGED <<claude_vars, api_vars>>
  \/ \E t \in Turn : ApiStep(t) /\ UNCHANGED <<claude_vars, codex_vars>>

HarnessGoes ==
  /\ Undecided /\ proc = "killed" /\ HarnessExits
  /\ UNCHANGED <<codex_vars, api_vars>>

\* Providers run and a killed subprocess dies, but its descendants may hold its
\* pipes for ever; the vendor, the bridge and the network answer or fail.
FairSpec == Spec /\ WF_vars(Proceeds) /\ WF_vars(HarnessGoes)

\* Types of the seam and of the providers' turns (provider.rs TurnError and
\* TurnEventSink, the providers' driver state).
TypeOK == SeamTypes /\ ClaudeTypes /\ CodexTypes /\ ApiTypes

\* However a supervised turn ends, its tracker holds the last figure that its
\* subprocess told, so a failed attempt's spend reaches the budget (claude/mod.rs
\* StreamEvent::Result, codex.rs thread/tokenUsage/updated; what each provider
\* owes is in ClaudeProvider and CodexProvider).
SpendReported == ClaudeSpendReported /\ CodexSpendReported

\* A subprocess that dies in the middle of a turn is retried, unless it said
\* itself why the turn cannot go on; the exceptions, a wait that fails, a working
\* directory that is gone and a half line, are in the two properties
\* (claude/mod.rs classify, codex.rs finish_driver_error; provider.rs is_retryable).
DeathRetried == ClaudeDeathRetried /\ CodexDeathRetried

\* The two waits of a Claude turn that nothing bounds: for a harness that closed
\* its output, or tore it, and lives on, and for the stderr of a dead harness
\* that a descendant of its holds.
HeldOpen ==
  /\ provider = "claude" /\ stage = "reaping"
  /\ (proc = "running" /\ ~timed_out) \/ proc = "exited"

\* Once its deadline has passed a subprocess turn returns, unless it is held open
\* for ever outside the deadline (claude/mod.rs:317-387, codex.rs execute).
TurnReturns == <>[](late => ~Undecided \/ HeldOpen)
=============================================================================
