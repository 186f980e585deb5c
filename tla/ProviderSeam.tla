---------------------------- MODULE ProviderSeam ----------------------------
(***************************************************************************)
(* The seam between a turn activity and a provider                         *)
(* (crates/odori-agents/src/provider.rs): one call of execute_turn, its    *)
(* usage tracker, its deadline and its outcome, for the two providers that *)
(* supervise a subprocess (ClaudeProvider, CodexProvider).  ApiLoop, which *)
(* talks to a model API, takes the error kinds and has its own calls.      *)
(* `provider` says whose turn it is.                                       *)
(*                                                                         *)
(* A subprocess writes lines to its standard output: `script` is every     *)
(* line it has written, `read` how many of them the provider has taken, so *)
(* what lies between is in the pipe.  End of file comes when nobody holds  *)
(* the output any more: a process may close it and live on, and one that   *)
(* dies leaves its pipes to its descendants.                               *)
(* Usage figures are known by the line that told them.                     *)
(***************************************************************************)
EXTENDS Naturals, Sequences

CONSTANTS
  Call,      \* ids of tool calls
  MaxLines   \* lines a subprocess writes

ASSUME MaxLinesIsNatural == MaxLines \in Nat

VARIABLES
  provider,  \* "claude", "codex", "anthropic" or "openai"
  outcome,   \* what execute_turn returned
  reported,  \* the sink's usage tracker: the line its figure is from, or 0
  late,      \* the turn's deadline has passed
  script,    \* the lines the subprocess has written
  read,      \* how many of them the provider has read
  eof,       \* the subprocess's standard output has no writer left
  proc       \* the subprocess: none, running, killed, exited, and closed when
             \* its descendants have let go of its other pipes as well

seam_vars == <<provider, outcome, reported, late, script, read, eof, proc>>

ErrorKind ==
  {"Api", "SessionNotFound", "HarnessDied", "HarnessDiedAwaitingTools",
   "Config", "Timeout", "Tooling"}

Outcome == [kind : ErrorKind \cup {"none", "ok"}, said : 0..MaxLines]
NoOutcome == [kind |-> "none", said |-> 0]
Fails(kind) == [kind |-> kind, said |-> 0]

\* A good outcome, and the line its text (or its result) is from.
Succeeds(line) == [kind |-> "ok", said |-> line]
Undecided == outcome.kind = "none"

\* Which errors the turn activity lets the engine retry.
IsRetryable(kind) == kind \notin {"SessionNotFound", "Config"}

SeamInit(name) ==
  /\ provider = name
  /\ outcome = NoOutcome
  /\ reported = 0
  /\ late = FALSE
  /\ script = <<>>
  /\ read = 0
  /\ eof = FALSE
  /\ proc = "none"

-----------------------------------------------------------------------------
(* The clock and the subprocess. *)

\* The time starts with the subprocess.
DeadlinePasses ==
  /\ Undecided /\ ~late /\ proc # "none"
  /\ late' = TRUE
  /\ UNCHANGED <<provider, eof, outcome, reported, script, read, proc>>

Writes(line) ==
  /\ proc = "running" /\ ~eof
  /\ Len(script) < MaxLines
  /\ script' = Append(script, line)
  /\ UNCHANGED <<provider, eof, outcome, reported, late, read, proc>>

\* The process ends, by itself, by a crash or by the kill.
Exits ==
  /\ proc \in {"running", "killed"}
  /\ proc' = "exited"
  /\ UNCHANGED <<provider, eof, outcome, reported, late, script, read>>

\* The last holder of the output closes it or ends; the process may live on.
OutputCloses ==
  /\ proc # "none" /\ ~eof
  /\ eof' = TRUE
  /\ UNCHANGED <<provider, outcome, reported, late, script, read, proc>>

\* The last descendant that holds the other pipes ends.
PipesClose ==
  /\ proc = "exited"
  /\ proc' = "closed"
  /\ UNCHANGED <<provider, eof, outcome, reported, late, script, read>>

\* Lines that mean nothing to the provider, and lines it cannot read.
Noise == [kind |-> "noise"]
Torn == [kind |-> "torn"]

InPipe == Len(script) - read
Wrote(line) == \E i \in 1..Len(script) : script[i] = line
Written(kind) == \E i \in 1..Len(script) : script[i].kind = kind
Lines(kind) == {i \in 1..read : script[i].kind = kind}

\* start_kill: harmless when the process is gone.
Killed == IF proc = "running" THEN "killed" ELSE proc

SeamTypes ==
  /\ outcome \in Outcome
  /\ reported \in 0..Len(script)
  /\ late \in BOOLEAN
  /\ Len(script) \in 0..MaxLines
  /\ read \in 0..Len(script)
  /\ eof \in BOOLEAN
  /\ proc \in {"none", "running", "killed", "exited", "closed"}

\* The latest of a set of positions in the script, 0 if there is none.
Latest(positions) ==
  IF positions = {} THEN 0
  ELSE CHOOSE i \in positions : \A j \in positions : j <= i
=============================================================================
