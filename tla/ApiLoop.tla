------------------------------- MODULE ApiLoop -------------------------------
(***************************************************************************)
(* The raw API providers (crates/odori-providers/src/api): one provider    *)
(* instance serving turns side by side.  A turn lists the bridge's tools,  *)
(* takes up its session, and loops: one HTTP exchange with its retries,    *)
(* the assembly of the streamed reply, and the bridge calls it asks for,   *)
(* until a reply asks for none.  A frame of the stream that does not parse *)
(* is passed over, so what the vendor said (begun, open, sent) and what    *)
(* the turn has of it (opened, stop) may differ.                           *)
(*                                                                         *)
(* provider = "anthropic": conversations live in this process, in          *)
(* `sessions`.  provider = "openai": the vendor keeps them, and a turn only *)
(* names the response it continues.                                        *)
(***************************************************************************)
EXTENDS ProviderSeam

CONSTANTS
  Turn,             \* calls of execute_turn; also the session a call opens
  Earlier,          \* a session saved before the first of them
  MaxIterations,    \* max_loop_iterations
  MaxHttpAttempts,  \* MAX_HTTP_ATTEMPTS
  MaxBlocks,        \* tool_use blocks of one reply
  MaxApiRestarts    \* deaths of the process

ASSUME ApiBoundsAreNaturals ==
  /\ MaxIterations \in Nat \ {0} /\ MaxHttpAttempts \in Nat \ {0}
  /\ MaxBlocks \in Nat /\ MaxApiRestarts \in Nat

ASSUME EarlierIsNoTurn == Earlier \notin Turn

VARIABLES
  turn,         \* turn[t]: the state of one call of execute_turn
  sessions,     \* SessionStore: messages by session id
  api_restarts

api_vars == <<turn, sessions, api_restarts>>

Session == Turn \cup {Earlier}

\* Messages by what the vendor wants of them: how many tools a reply asks for,
\* whether it stopped for them, and how many results answer it.
Input == [role |-> "input", calls |-> 0, stop |-> "none"]
Said(calls, stop) == [role |-> "assistant", calls |-> calls, stop |-> stop]
Results(calls) == [role |-> "results", calls |-> calls, stop |-> "none"]

\* The engine resumes ids that turns have returned.
Directive ==
  {[kind |-> "start"]}
    \cup [kind : {"resume", "fork"},
          id : {Earlier} \cup {turn[t].session : t \in {u \in Turn : turn[u].outcome = "ok"}}]

\* Of one reply: begun, open and sent are the vendor's tool uses, whether one of
\* them is still to be stopped, and its stop reason; opened and stop are what
\* the turn has read.  `took` is a history: the session when it was taken up.
NoReply == [begun |-> 0, open |-> FALSE, sent |-> "none", opened |-> 0, stop |-> "none"]

IdleTurn ==
  [stage |-> "idle", directive |-> [kind |-> "start"], bridge |-> FALSE, session |-> Earlier,
   took |-> <<>>, messages |-> <<>>, continues |-> FALSE, attempts |-> 0, iteration |-> 0,
   reply |-> NoReply, answered |-> 0, outcome |-> "none"]

ApiIdle ==
  /\ turn = [t \in Turn |-> IdleTurn]
  /\ api_restarts = 0
  /\ sessions = [s \in {Earlier} |-> <<Input, Said(0, "end")>>]

ApiInit ==
  /\ \E name \in {"anthropic", "openai"} : SeamInit(name)
  /\ ApiIdle

-----------------------------------------------------------------------------
(* Steps of one turn.  In(t, s) is the stage a step starts in; Becomes gives *)
(* the turn its next state.                                                 *)

Anthropic == provider = "anthropic"
OpenAi == provider = "openai"
In(t, s) == provider \in {"anthropic", "openai"} /\ turn[t].stage = s

Becomes(t, new) ==
  /\ turn' = [turn EXCEPT ![t] = new]
  /\ UNCHANGED <<seam_vars, api_restarts>>

\* The turn's locals go with it.
Ends(t, kind) ==
  [IdleTurn EXCEPT !.stage = "returned", !.directive = turn[t].directive,
                   !.session = turn[t].session, !.outcome = kind]

Begin(t, directive, bridge) ==
  /\ In(t, "idle")
  /\ directive \in Directive
  /\ Becomes(t, [turn[t] EXCEPT !.stage = "listing", !.directive = directive, !.bridge = bridge])
  /\ UNCHANGED sessions

\* No key, native tools or a toolless agent's tools, an effort that does not
\* map (Config); a bridge that cannot be reached or read (Tooling).
PrepareFails(t) ==
  /\ In(t, "listing")
  /\ \E kind \in {"Config", "Tooling"} : Becomes(t, Ends(t, kind))
  /\ UNCHANGED sessions

\* Wrong on purpose: a fork goes on under the session it forks.
SessionOfParent(t) ==
  IF Anthropic /\ turn[t].directive.kind # "start" THEN turn[t].directive.id ELSE t

\* A fresh id unless the turn resumes; the Responses provider's session is the
\* id of its last response, which is always new.
SessionOf(t) ==
  IF Anthropic /\ turn[t].directive.kind = "resume" THEN turn[t].directive.id ELSE t

\* The store is read here and written when the turn has succeeded.
TakeUp(t) ==
  LET asked == turn[t].directive
      known == asked.kind = "start" \/ OpenAi \/ asked.id \in DOMAIN sessions
      past == IF asked.kind = "start" \/ OpenAi THEN <<>> ELSE sessions[asked.id]
  IN
  /\ In(t, "listing")
  /\ Becomes(t,
       IF known
       THEN [turn[t] EXCEPT !.stage = "requesting", !.session = SessionOf(t),
                            !.took = past, !.messages = Append(past, Input),
                            !.continues = asked.kind # "start"]
       ELSE Ends(t, "SessionNotFound"))
  /\ UNCHANGED sessions

\* A transient status or a transport error: back off and ask again, up to the
\* bound.  Wrong on purpose: one attempt too many ...
HttpTransientOneMore(t) ==
  /\ In(t, "requesting")
  /\ Becomes(t, IF turn[t].attempts < MaxHttpAttempts
                THEN [turn[t] EXCEPT !.attempts = @ + 1]
                ELSE Ends(t, "Api"))
  /\ UNCHANGED sessions

\* ... or at the bound the count starts over.
HttpTransientWrapping(t) ==
  /\ In(t, "requesting")
  /\ Becomes(t, [turn[t] EXCEPT !.attempts = (@ + 1) % MaxHttpAttempts])
  /\ UNCHANGED sessions

HttpTransient(t) ==
  /\ In(t, "requesting")
  /\ Becomes(t, IF turn[t].attempts + 1 < MaxHttpAttempts
                THEN [turn[t] EXCEPT !.attempts = @ + 1]
                ELSE Ends(t, "Api"))
  /\ UNCHANGED sessions

\* classify_status: credentials and rejections, anything else, and for a
\* continued response chain a response that is gone.
HttpRefused(t) ==
  /\ In(t, "requesting")
  /\ \E kind \in {"Config", "Api"} \cup
          (IF OpenAi /\ turn[t].continues THEN {"SessionNotFound"} ELSE {}) :
       Becomes(t, Ends(t, kind))
  /\ UNCHANGED sessions

HttpAccepted(t) ==
  /\ In(t, "requesting")
  /\ Becomes(t, [turn[t] EXCEPT !.stage = "streaming", !.attempts = 0,
                                !.reply = NoReply, !.answered = 0])
  /\ UNCHANGED sessions

Streams(t) == In(t, "streaming") /\ turn[t].reply.sent = "none"

\* The vendor's frames, each of them read or, when it does not parse, passed
\* over.  content_block_start of a tool use: a block that is not seen to start
\* is not in the reply.
BlockStarts(t, seen) ==
  /\ Anthropic /\ Streams(t)
  /\ ~turn[t].reply.open /\ turn[t].reply.begun < MaxBlocks
  /\ Becomes(t, [turn[t] EXCEPT !.reply.begun = @ + 1, !.reply.open = TRUE,
                                !.reply.opened = IF seen THEN @ + 1 ELSE @])
  /\ UNCHANGED sessions

\* content_block_stop, after the deltas.  Passed over or read, and whatever its
\* input is then, the block stays in the reply: an input that is cut or does
\* not parse is an empty object.
BlockStops(t) ==
  /\ Anthropic /\ Streams(t)
  /\ turn[t].reply.open
  /\ Becomes(t, [turn[t] EXCEPT !.reply.open = FALSE])
  /\ UNCHANGED sessions

\* message_delta: after the blocks, the reason.  A reply with tool uses may
\* also end for another reason, such as its length.
Stops(t, reason, seen) ==
  /\ Anthropic /\ Streams(t)
  /\ ~turn[t].reply.open
  /\ reason \in (IF turn[t].reply.begun > 0 THEN {"tool_use", "end"} ELSE {"end"})
  /\ Becomes(t, [turn[t] EXCEPT !.reply.sent = reason,
                                !.reply.stop = IF seen THEN reason ELSE @])
  /\ UNCHANGED sessions

FailedReply ==
  [begun |-> 0, open |-> FALSE, sent |-> "error", opened |-> 0, stop |-> "error"]

\* response.completed brings all calls at once; an error frame ends in "error".
ResponseFrame(t) ==
  /\ OpenAi /\ Streams(t)
  /\ \/ \E calls \in 0..MaxBlocks :
          LET reason == IF calls > 0 THEN "tool_use" ELSE "end" IN
          Becomes(t, [turn[t] EXCEPT !.continues = TRUE,
                        !.reply = [begun |-> calls, open |-> FALSE, sent |-> reason,
                                   opened |-> calls, stop |-> reason]])
     \/ Becomes(t, [turn[t] EXCEPT !.reply = FailedReply])
  /\ UNCHANGED sessions

\* read_sse fails in the middle: the exchange and its figures are lost.
StreamInterrupted(t) ==
  /\ In(t, "streaming")
  /\ Becomes(t, Ends(t, "Api"))
  /\ UNCHANGED sessions

\* Whether the reply's calls are followed.  Wrong on purpose: whenever there
\* are any.
FollowsAny(t) == turn[t].reply.opened > 0
Follows(t) == turn[t].reply.opened > 0 /\ turn[t].reply.stop = "tool_use"

\* sessions.save.
Saved(session, messages) ==
  [s \in DOMAIN sessions \cup {session} |-> IF s = session THEN messages ELSE sessions[s]]

\* The stream is over, cut short or whole: totals are reported, the reply joins
\* the messages, and the turn calls tools or has come to rest.
StreamEnds(t) ==
  LET messages == Append(turn[t].messages, Said(turn[t].reply.opened, turn[t].reply.stop))
      kind == CASE turn[t].reply.stop = "error" -> "Api"
                [] turn[t].reply.stop # "error" /\ ~Follows(t) -> "ok"
                [] Follows(t) /\ ~turn[t].bridge -> "Tooling"
                [] OTHER -> "none"
  IN
  /\ In(t, "streaming")
  /\ Becomes(t, IF kind = "none"
                THEN [turn[t] EXCEPT !.stage = "calling", !.iteration = @ + 1, !.messages = messages]
                ELSE Ends(t, kind))
  /\ sessions' = IF kind = "ok" /\ Anthropic
                 THEN Saved(turn[t].session, messages) ELSE sessions

\* Wrong on purpose: a call that fails is left out and the loop goes on.
BridgeFailsUnnoticed(t) ==
  /\ In(t, "calling")
  /\ turn[t].answered < turn[t].reply.opened
  /\ Becomes(t, [turn[t] EXCEPT !.reply.opened = @ - 1])
  /\ UNCHANGED sessions

\* One call after the other, in the reply's order.  A tool's own error is a
\* result; a bridge that rejects the call or is gone ends the turn.
BridgeAnswers(t) ==
  /\ In(t, "calling")
  /\ turn[t].answered < turn[t].reply.opened
  /\ Becomes(t, [turn[t] EXCEPT !.answered = @ + 1])
  /\ UNCHANGED sessions

BridgeFails(t) ==
  /\ In(t, "calling")
  /\ turn[t].answered < turn[t].reply.opened
  /\ Becomes(t, Ends(t, "Tooling"))
  /\ UNCHANGED sessions

\* All results in: the next iteration, if there is one.
NextIteration(t) ==
  /\ In(t, "calling")
  /\ turn[t].answered = turn[t].reply.opened
  /\ Becomes(t, IF turn[t].iteration < MaxIterations
                THEN [turn[t] EXCEPT !.stage = "requesting",
                                     !.messages = Append(@, Results(turn[t].answered))]
                ELSE Ends(t, "Api"))
  /\ UNCHANGED sessions

\* The process dies: its sessions and its turns are gone.  The engine still
\* knows the ids of the sessions that turns have returned.
ApiRestart ==
  /\ provider \in {"anthropic", "openai"}
  /\ api_restarts < MaxApiRestarts
  /\ api_restarts' = api_restarts + 1
  /\ sessions' = [s \in {} |-> <<>>]
  /\ turn' = [t \in Turn |->
       IF turn[t].stage \in {"idle", "returned"} THEN turn[t] ELSE Ends(t, "lost")]
  /\ UNCHANGED seam_vars

ApiStep(t) ==
  \/ PrepareFails(t)
  \/ TakeUp(t)
  \/ HttpTransient(t)
  \/ HttpRefused(t)
  \/ HttpAccepted(t)
  \/ \E seen \in BOOLEAN : BlockStarts(t, seen)
  \/ BlockStops(t)
  \/ \E reason \in {"tool_use", "end"}, seen \in BOOLEAN : Stops(t, reason, seen)
  \/ ResponseFrame(t)
  \/ StreamInterrupted(t)
  \/ StreamEnds(t)
  \/ BridgeAnswers(t)
  \/ BridgeFails(t)
  \/ NextIteration(t)

ApiNext ==
  \/ \E t \in Turn :
       \/ \E directive \in Directive, bridge \in BOOLEAN : Begin(t, directive, bridge)
       \/ ApiStep(t)
  \/ ApiRestart

ApiSpec == ApiInit /\ [][ApiNext]_<<seam_vars, api_vars>>

-----------------------------------------------------------------------------
(* Properties. *)

Message ==
  [role : {"input", "assistant", "results"}, calls : 0..MaxBlocks,
   stop : {"none", "tool_use", "end", "error"}]

ApiTypes ==
  /\ \A t \in Turn :
       /\ turn[t].stage \in {"idle", "listing", "requesting", "streaming", "calling", "returned"}
       /\ turn[t].session \in Session
       /\ turn[t].messages \in Seq(Message)
       /\ turn[t].attempts < MaxHttpAttempts
       /\ turn[t].iteration \in 0..MaxIterations
       /\ turn[t].reply.opened \in 0..MaxBlocks /\ turn[t].answered <= turn[t].reply.opened
       /\ turn[t].outcome \in ErrorKind \cup {"none", "ok", "lost"}
  /\ DOMAIN sessions \subseteq Session
  /\ \A s \in DOMAIN sessions : sessions[s] \in Seq(Message)
  /\ api_restarts \in 0..MaxApiRestarts

\* In every request, a reply whose calls were followed (it has some, and was
\* read to have stopped for them) is answered by a result for each of them, and
\* by nothing else, whatever turns, failures and forks the conversation went
\* through; a reply is never followed by a reply.  Calls of a reply cut at its
\* length or by the network are saved unanswered, and not claimed
\* (anthropic.rs execute_turn: the results follow the reply in one message).
RequestsPaired ==
  \A t \in Turn : turn[t].stage = "requesting" =>
    \A i \in 1..Len(turn[t].messages) :
      LET m == turn[t].messages IN
      m[i].role = "assistant" =>
        /\ i < Len(m)
        /\ m[i + 1].role # "assistant"
        /\ m[i].stop = "tool_use" /\ m[i].calls > 0 => m[i + 1] = Results(m[i].calls)

\* The tools of a reply run only when the vendor has finished it and stopped for
\* them: a reply cut short by the network without an error, cut at its length,
\* or whose last frame was passed over runs none of the calls it has
\* (anthropic.rs: stop_reason is required beside the blocks).  The inputs are
\* not claimed to be what the vendor sent.
NoCutReplyRuns ==
  \A t \in Turn : turn[t].stage = "calling" =>
    LET reply == turn[t].reply IN
    reply.sent = "tool_use" /\ ~reply.open /\ reply.opened <= reply.begun

IsPrefixOf(s, u) == Len(s) <= Len(u) /\ SubSeq(u, 1, Len(s)) = s

\* A saved conversation changes only by a turn that resumed it and succeeded,
\* and keeps what it had, unless another turn saved it since this one took it
\* up: then the later save replaces the earlier, which is lost.  A fork leaves
\* its parent as it was, a failed turn leaves nothing, and only the death of the
\* process loses a conversation (anthropic.rs: resume, then save; api/mod.rs
\* SessionStore).
SessionsGrow ==
  [][/\ DOMAIN sessions \ DOMAIN sessions' # {} => api_restarts' # api_restarts
     /\ \A s \in DOMAIN sessions \cap DOMAIN sessions' :
          sessions'[s] # sessions[s] =>
            \E t \in Turn :
              /\ turn'[t].outcome = "ok" /\ turn[t].outcome = "none"
              /\ turn[t].directive = [kind |-> "resume", id |-> s]
              /\ \/ IsPrefixOf(sessions[s], sessions'[s])
                 \/ sessions[s] # turn[t].took]_<<seam_vars, api_vars>>

\* Every turn that begins returns: attempts, iterations and calls are bounded, so
\* in the end none is in progress.
ApiTurnReturns ==
  <>[](\A t \in Turn : turn[t].stage \in {"idle", "returned"})
=============================================================================
