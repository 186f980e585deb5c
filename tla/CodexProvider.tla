---------------------------- MODULE CodexProvider ----------------------------
(***************************************************************************)
(* One turn of the Codex app-server provider                               *)
(* (crates/odori-providers/src/codex.rs): three JSON-RPC requests over the *)
(* subprocess's pipes (initialize, the session, the turn), with server     *)
(* requests and notifications arriving in between; the turn loop, which    *)
(* first sees the notifications that were set aside; the shutdown with its *)
(* grace; and the classification of every way this can fail.               *)
(*                                                                         *)
(* The deadline, when there is one, is around all of it: it drops the      *)
(* turn, and with it the process, wherever the turn waits.                 *)
(***************************************************************************)
EXTENDS ProviderSeam, FiniteSets

CONSTANTS
  RpcError,    \* what a JSON-RPC error may say: mcp, no_thread, auth, other
  Completion,  \* what turn/completed may say: fine, unauthorized, sandbox, bad_request, api
  AskId,       \* ids the server gives its own requests, 0 for one we never use
  MaxNotices   \* lines of the server that are not replies

VARIABLES
  driver,      \* probing, sending, awaiting, looping, finishing, returned
  resuming,    \* the turn resumes or forks a session
  cwd,         \* the working directory can be resolved when the turn needs it
  requests,    \* requests sent so far
  queue,       \* `pending`: lines set aside while a reply was awaited
  final_text,  \* the line of the last non-commentary agent message handled
  verdict      \* what `finish` will be followed by

codex_vars == <<driver, resuming, cwd, requests, queue, final_text, verdict>>

Reply(n, says) == [kind |-> "reply", id |-> n, says |-> says]
Ask(n) == [kind |-> "ask", id |-> n]
UsageUpdated == [kind |-> "usage"]
AgentMessage == [kind |-> "text"]
Completed(says) == [kind |-> "completed", says |-> says]

CodexIdle ==
  /\ driver = "probing"
  /\ requests = 0
  /\ queue = <<>>
  /\ final_text = 0
  /\ verdict = NoOutcome

CodexInit == SeamInit("codex") /\ CodexIdle /\ resuming \in BOOLEAN /\ cwd \in BOOLEAN

-----------------------------------------------------------------------------
(* The app-server (external).  It answers each request once, and speaks of  *)
(* the turn's end once, after it was asked for the turn.                    *)

Replied(n) == \E i \in 1..Len(script) : script[i].kind = "reply" /\ script[i].id = n
Notices == {i \in 1..Len(script) : script[i].kind # "reply"}

CodexLine ==
  {Reply(n, says) : n \in {k \in 1..requests : ~Replied(k)},
                    says \in {"good", "bare"} \cup RpcError}
    \cup {Noise, Torn, UsageUpdated, AgentMessage}
    \cup {Ask(n) : n \in AskId}
    \cup {Completed(says) : says \in {c \in Completion : requests = 3 /\ ~Written("completed")}}

\* What would follow a torn line is never read.
ServerWrites(line) ==
  /\ provider = "codex"
  /\ ~Wrote(Torn)
  /\ line \in CodexLine
  /\ line.kind # "reply" => Cardinality(Notices) < MaxNotices
  /\ Writes(line)
  /\ UNCHANGED codex_vars

ServerExits ==
  /\ provider = "codex"
  /\ Exits
  /\ UNCHANGED codex_vars

ServerOutputCloses ==
  /\ provider = "codex"
  /\ OutputCloses
  /\ UNCHANGED codex_vars

ServerPipesClose ==
  /\ provider = "codex"
  /\ PipesClose
  /\ UNCHANGED codex_vars

CodexDeadlinePasses ==
  /\ provider = "codex"
  /\ DeadlinePasses
  /\ UNCHANGED codex_vars

-----------------------------------------------------------------------------
(* run_app_server. *)

DriverAt(s) == provider = "codex" /\ driver = s

Refuses ==
  /\ DriverAt("probing")
  /\ outcome' = Fails("Config")
  /\ driver' = "returned"
  /\ UNCHANGED <<provider, eof, reported, late, script, read, proc, resuming, cwd, requests, queue, final_text, verdict>>

\* check_version: no binary, or one that fails; another version is served.
VersionRefused == Refuses

\* codex_effort and render_tooling: an effort the server does not know, tools
\* or servers that do not translate.  Nothing has run yet.
RequestRefused == Refuses

\* No process came of the spawn.
SpawnFails == Refuses

SpawnServer ==
  /\ DriverAt("probing")
  /\ driver' = "sending"
  /\ proc' = "running"
  /\ UNCHANGED <<provider, eof, outcome, reported, late, script, read, resuming, cwd, requests, queue, final_text, verdict>>

\* finish_driver_error: kill, then wait with the error in hand.
Abandon(kind) ==
  /\ driver' = "finishing"
  /\ verdict' = Fails(kind)
  /\ proc' = Killed

\* A write reaches the pipe while something may hold its other end, and
\* breaks once the server has gone.
PipeHolds == proc # "closed"
PipeMayBreak == proc # "running"

\* The second request is preceded by the `initialized` notification and names
\* the working directory.
SendRequest ==
  /\ DriverAt("sending")
  /\ PipeHolds
  /\ requests = 1 => cwd
  /\ driver' = "awaiting"
  /\ requests' = requests + 1
  /\ UNCHANGED <<seam_vars, resuming, cwd, queue, final_text, verdict>>

\* current_dir fails after the notification: the turn is over, without
\* `finish`, and the dropped server is killed.
CwdFails ==
  /\ DriverAt("sending")
  /\ PipeHolds
  /\ requests = 1 /\ ~cwd
  /\ outcome' = Fails("Config")
  /\ driver' = "returned"
  /\ proc' = Killed
  /\ UNCHANGED <<provider, eof, reported, late, script, read, resuming, cwd, requests, queue, final_text, verdict>>

SendBreaks ==
  /\ DriverAt("sending")
  /\ PipeMayBreak
  /\ Abandon("HarnessDied")
  /\ UNCHANGED <<provider, eof, outcome, reported, late, script, read, resuming, cwd, requests, queue, final_text>>

\* classify_rpc_error; only the session request may find no session.
RpcErrorOf(says) ==
  CASE says = "no_thread" /\ requests = 2 /\ resuming -> "SessionNotFound"
    [] says = "mcp" -> "Tooling"
    [] OTHER -> "Config"

\* A message that carries the awaited id is the reply, whatever else it is.
AwaitedReply ==
  LET line == script[read + 1] IN
  /\ DriverAt("awaiting")
  /\ InPipe > 0
  /\ line.kind \in {"reply", "ask"} /\ line.id = requests
  /\ read' = read + 1
  /\ IF line.kind = "reply" /\ line.says = "good"
     THEN /\ driver' = IF requests = 3 THEN "looping" ELSE "sending"
          /\ UNCHANGED <<proc, verdict>>
     ELSE Abandon(IF line.kind = "reply" /\ line.says # "bare" THEN RpcErrorOf(line.says)
                  ELSE "Config")
  /\ UNCHANGED <<provider, eof, outcome, reported, late, script, resuming, cwd, requests, queue, final_text>>

\* A notification, or the reply to another id, waits for the turn loop.
SetAside ==
  LET line == script[read + 1] IN
  /\ DriverAt("awaiting")
  /\ InPipe > 0
  /\ line.kind \notin {"ask", "torn"}
  /\ line.kind = "reply" => line.id # requests
  /\ read' = read + 1
  /\ queue' = Append(queue, read + 1)
  /\ UNCHANGED <<provider, eof, outcome, reported, late, script, proc, driver, resuming, cwd, requests, final_text, verdict>>

\* next_message.  Wrong on purpose: what is on the wire goes first.
NextMessageWireFirst == IF InPipe > 0 \/ queue = <<>> THEN read + 1 ELSE Head(queue)
NextMessage == IF queue # <<>> THEN Head(queue) ELSE read + 1

\* Takes message i from where it is.
Takes(i) ==
  /\ i <= Len(script)
  /\ read' = IF i > read THEN i ELSE read
  /\ queue' = IF i > read THEN queue ELSE Tail(queue)

\* A server request, in a wait or in the loop, is refused over the pipe.
RefuseAsk ==
  LET i == IF driver = "awaiting" THEN read + 1 ELSE NextMessage IN
  /\ DriverAt("awaiting") \/ DriverAt("looping")
  /\ Takes(i)
  /\ script[i].kind = "ask"
  /\ driver = "awaiting" => script[i].id # requests
  /\ \/ PipeHolds /\ UNCHANGED <<driver, verdict, proc>>
     \/ PipeMayBreak /\ Abandon("HarnessDied")
  /\ UNCHANGED <<provider, eof, outcome, reported, late, script, resuming, cwd, requests, final_text>>

\* Wrong on purpose: the usage is reported when the turn is over.
HandleNoticeLater ==
  /\ DriverAt("looping")
  /\ Takes(NextMessage)
  /\ script[NextMessage].kind \in {"usage", "text", "noise", "reply"}
  /\ final_text' = IF script[NextMessage] = AgentMessage THEN NextMessage ELSE final_text
  /\ UNCHANGED <<provider, eof, outcome, reported, late, script, proc, driver, resuming, cwd, requests, verdict>>

\* A notification that does not end the turn.
HandleNotice ==
  /\ DriverAt("looping")
  /\ Takes(NextMessage)
  /\ script[NextMessage].kind \in {"usage", "text", "noise", "reply"}
  /\ reported' = IF script[NextMessage] = UsageUpdated THEN NextMessage ELSE reported
  /\ final_text' = IF script[NextMessage] = AgentMessage THEN NextMessage ELSE final_text
  /\ UNCHANGED <<provider, eof, outcome, late, script, proc, driver, resuming, cwd, requests, verdict>>

\* classify_terminal_error.
CompletionError(says) ==
  CASE says = "sandbox" -> "Tooling"
    [] says \in {"unauthorized", "bad_request"} -> "Config"
    [] OTHER -> "Api"

\* turn/completed of this turn: the outcome is settled and the server is asked
\* to leave.  The figure is reported again with the turn's duration.
HandleCompleted ==
  /\ DriverAt("looping")
  /\ Takes(NextMessage)
  /\ script[NextMessage].kind = "completed"
  /\ driver' = "finishing"
  /\ verdict' = IF script[NextMessage].says = "fine" THEN Succeeds(final_text)
                ELSE Fails(CompletionError(script[NextMessage].says))
  /\ UNCHANGED <<provider, eof, outcome, reported, late, script, proc, resuming, cwd, requests, final_text>>

\* A line that is not JSON, with nothing set aside before it.
ReadsTorn ==
  LET i == IF driver = "awaiting" THEN read + 1 ELSE NextMessage IN
  /\ DriverAt("awaiting") \/ DriverAt("looping")
  /\ Takes(i)
  /\ script[i] = Torn
  /\ Abandon("Config")
  /\ UNCHANGED <<provider, eof, outcome, reported, late, script, resuming, cwd, requests, final_text>>

\* Nothing to read, nothing set aside, and no writer left.
Eof ==
  /\ DriverAt("awaiting") \/ (DriverAt("looping") /\ queue = <<>>)
  /\ InPipe = 0 /\ eof
  /\ Abandon("HarnessDied")
  /\ UNCHANGED <<provider, eof, outcome, reported, late, script, read, resuming, cwd, requests, queue, final_text>>

\* The server has not left within the grace.
GraceEnds ==
  /\ DriverAt("finishing")
  /\ proc = "running"
  /\ proc' = "killed"
  /\ UNCHANGED <<provider, eof, outcome, reported, late, script, read, codex_vars>>

\* The process and its stderr are done with; its exit status decides nothing.
Finish ==
  /\ DriverAt("finishing")
  /\ proc = "closed"
  /\ outcome' = verdict
  /\ driver' = "returned"
  /\ UNCHANGED <<provider, eof, reported, late, script, read, proc, resuming, cwd, requests, queue, final_text, verdict>>

\* The deadline drops the turn where it waits: for a line, or in `finish`.
\* The dropped process is killed, not waited for.
DropTurn ==
  /\ provider = "codex"
  /\ late
  /\ \/ driver = "awaiting" /\ InPipe = 0 /\ ~eof
     \/ driver = "looping" /\ queue = <<>> /\ InPipe = 0 /\ ~eof
     \/ driver = "finishing" /\ proc # "closed"
  /\ outcome' = Fails("Timeout")
  /\ driver' = "returned"
  /\ proc' = Killed
  /\ UNCHANGED <<provider, eof, reported, late, script, read, resuming, cwd, requests, queue, final_text, verdict>>

CodexStep ==
  \/ VersionRefused
  \/ RequestRefused
  \/ SpawnFails
  \/ SpawnServer
  \/ SendRequest
  \/ CwdFails
  \/ SendBreaks
  \/ AwaitedReply
  \/ SetAside
  \/ RefuseAsk
  \/ HandleNotice
  \/ HandleCompleted
  \/ ReadsTorn
  \/ Eof
  \/ GraceEnds
  \/ Finish
  \/ DropTurn

CodexNext ==
  \/ \E line \in CodexLine : ServerWrites(line)
  \/ ServerExits
  \/ ServerOutputCloses
  \/ ServerPipesClose
  \/ CodexDeadlinePasses
  \/ CodexStep

CodexSpec == CodexInit /\ [][CodexNext]_<<seam_vars, codex_vars>>

-----------------------------------------------------------------------------
(* Properties. *)

CodexTypes ==
  /\ driver \in {"probing", "sending", "awaiting", "looping", "finishing", "returned"}
  /\ resuming \in BOOLEAN /\ cwd \in BOOLEAN
  /\ requests \in 0..3
  /\ queue \in Seq(1..Len(script))
  /\ final_text \in 0..Len(script)
  /\ verdict \in Outcome

\* The turn was started: its reply has been read.
Started == \E i \in 1..read : script[i] = Reply(3, "good")

\* Lines read before the turn's end.
Before(kind) ==
  {i \in Lines(kind) : \A d \in Lines("completed") : i < d}

\* Once the turn has ended, its result is what its completion says, with the
\* text of the last agent message written before it, wherever that message was
\* buffered; neither a crash, an exit status nor a later line changes it, only
\* the deadline (codex.rs: "observes the complete event stream in arrival
\* order", and finish after turn/completed).
CodexResultStands ==
  provider = "codex" /\ ~Undecided /\ Started =>
    \A d \in Lines("completed") :
      \/ outcome = Fails("Timeout")
      \/ script[d].says = "fine" /\ outcome = Succeeds(Latest(Before("text")))
      \/ script[d].says # "fine" /\ outcome = Fails(CompletionError(script[d].says))

\* However a started turn ends, the tracker holds the last figure the server
\* wrote before the turn's end, even if it came before the reply that started
\* the turn (codex.rs thread/tokenUsage/updated).
CodexSpendReported ==
  provider = "codex" /\ ~Undecided /\ Started => reported = Latest(Before("usage"))

\* A server that dies or closes its output between two lines is retried: the
\* outcome ends the run for good only if the server never started, refused a
\* request, used an id of ours for a request of its own, or ended the turn as
\* rejected (codex.rs finish_driver_error), or if the working directory is
\* gone.  A server that dies in the middle of a line is the exception: the half
\* line is taken for protocol drift and is not retried.
CodexDeathRetried ==
  provider = "codex" /\ ~Undecided /\ outcome.kind # "ok"
    /\ ~IsRetryable(outcome.kind) /\ proc # "none" =>
      \/ requests = 1 /\ ~cwd
      \/ \E i \in 1..read :
           \/ script[i].kind = "reply" /\ script[i].says # "good"
           \/ script[i].kind = "ask" /\ script[i].id # 0
           \/ script[i] = Torn
           \/ script[i].kind = "completed" /\ script[i].says \in {"unauthorized", "bad_request"}
=============================================================================
