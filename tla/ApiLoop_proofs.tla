--------------------------- MODULE ApiLoop_proofs ---------------------------
(***************************************************************************)
(* Theorems about the raw API providers, for any number of turns side by   *)
(* side, any bounds on attempts, iterations and calls, and any number of   *)
(* deaths of the process.                                                  *)
(***************************************************************************)
EXTENDS ApiLoop, TLAPS

-----------------------------------------------------------------------------
(* Conversations.  A message list is paired when a reply is always answered, *)
(* up to its last message, which may be a reply still to be answered.       *)

PairedUpTo(m, n) ==
  \A i \in 1..n : m[i].role = "assistant" =>
    /\ i < Len(m)
    /\ m[i + 1].role # "assistant"
    /\ m[i].stop = "tool_use" /\ m[i].calls > 0 => m[i + 1] = Results(m[i].calls)

Paired(m) == PairedUpTo(m, Len(m))

\* The last reply asks for tools, and nothing answers it yet.
Asks(m, calls) ==
  /\ Len(m) > 0
  /\ PairedUpTo(m, Len(m) - 1)
  /\ m[Len(m)] = Said(calls, "tool_use")

\* The conversation has come to rest.
Rests(m) ==
  /\ PairedUpTo(m, Len(m) - 1)
  /\ Len(m) > 0 => ~(m[Len(m)].stop = "tool_use" /\ m[Len(m)].calls > 0)

LEMMA MessageTypes ==
  /\ Input \in Message
  /\ \A calls \in 0..MaxBlocks :
       /\ Results(calls) \in Message
       /\ \A stop \in {"none", "tool_use", "end", "error"} : Said(calls, stop) \in Message
  BY ApiBoundsAreNaturals DEF Message, Input, Results, Said

LEMMA AppendEffect ==
  ASSUME NEW m \in Seq(Message), NEW e \in Message
  PROVE  /\ Append(m, e) \in Seq(Message)
         /\ Len(Append(m, e)) = Len(m) + 1
         /\ Append(m, e)[Len(m) + 1] = e
         /\ \A i \in 1..Len(m) : Append(m, e)[i] = m[i]
  OBVIOUS

LEMMA InputPairs ==
  ASSUME NEW m \in Seq(Message), Rests(m)
  PROVE  Paired(Append(m, Input))
<1>1. Input \in Message /\ Len(m) \in Nat
  BY MessageTypes
<1> DEFINE a == Append(m, Input)
<1>2. Len(a) = Len(m) + 1 /\ a[Len(m) + 1] = Input /\ \A i \in 1..Len(m) : a[i] = m[i]
  BY <1>1, AppendEffect
<1>3. ASSUME NEW i \in 1..Len(m) + 1, a[i].role = "assistant"
      PROVE  /\ i < Len(a) /\ a[i + 1].role # "assistant"
             /\ a[i].stop = "tool_use" /\ a[i].calls > 0 => a[i + 1] = Results(a[i].calls)
  <2>1. i # Len(m) + 1
    BY <1>2, <1>3 DEF Input
  <2>2. CASE i = Len(m)
    BY <1>1, <1>2, <2>2 DEF Rests, Input
  <2>3. CASE i \in 1..Len(m) - 1
    <3>1. a[i] = m[i] /\ a[i + 1] = m[i + 1]
      BY <1>1, <1>2, <2>3
    <3> QED BY <1>1, <1>2, <1>3, <2>3, <3>1 DEF Rests, PairedUpTo
  <2> QED BY <1>1, <2>1, <2>2, <2>3
<1> QED BY <1>2, <1>3 DEF Paired, PairedUpTo

LEMMA ReplyEnds ==
  ASSUME NEW m \in Seq(Message), Paired(m), NEW e \in Message
  PROVE  PairedUpTo(Append(m, e), Len(Append(m, e)) - 1)
<1> DEFINE a == Append(m, e)
<1>1. Len(m) \in Nat /\ Len(a) = Len(m) + 1 /\ \A i \in 1..Len(m) : a[i] = m[i]
  BY AppendEffect
<1>2. ASSUME NEW i \in 1..Len(m), a[i].role = "assistant"
      PROVE  /\ i < Len(a) /\ a[i + 1].role # "assistant"
             /\ a[i].stop = "tool_use" /\ a[i].calls > 0 => a[i + 1] = Results(a[i].calls)
  <2>1. m[i].role = "assistant"
    BY <1>1, <1>2
  <2>2. i < Len(m)
    BY <2>1 DEF Paired, PairedUpTo
  <2>3. a[i + 1] = m[i + 1]
    BY <1>1, <2>2
  <2> QED BY <1>1, <2>1, <2>2, <2>3 DEF Paired, PairedUpTo
<1> QED BY <1>1, <1>2 DEF PairedUpTo

LEMMA ResultsPair ==
  ASSUME NEW m \in Seq(Message), NEW calls \in 0..MaxBlocks, Asks(m, calls)
  PROVE  Paired(Append(m, Results(calls)))
<1> DEFINE a == Append(m, Results(calls))
<1>1. Results(calls) \in Message /\ Len(m) \in Nat
  BY MessageTypes
<1>2. Len(a) = Len(m) + 1 /\ a[Len(m) + 1] = Results(calls) /\ \A i \in 1..Len(m) : a[i] = m[i]
  BY <1>1, AppendEffect
<1>3. ASSUME NEW i \in 1..Len(m) + 1, a[i].role = "assistant"
      PROVE  /\ i < Len(a) /\ a[i + 1].role # "assistant"
             /\ a[i].stop = "tool_use" /\ a[i].calls > 0 => a[i + 1] = Results(a[i].calls)
  <2>1. i # Len(m) + 1
    BY <1>2, <1>3 DEF Results
  <2>2. CASE i = Len(m)
    <3>1. a[i] = Said(calls, "tool_use") /\ a[i + 1] = Results(calls)
      BY <1>1, <1>2, <2>2 DEF Asks
    <3> QED BY <1>2, <2>2, <3>1 DEF Said, Results
  <2>3. CASE i \in 1..Len(m) - 1
    <3>1. a[i] = m[i] /\ a[i + 1] = m[i + 1]
      BY <1>1, <1>2, <2>3
    <3> QED BY <1>1, <1>2, <1>3, <2>3, <3>1 DEF Asks, PairedUpTo
  <2> QED BY <1>1, <2>1, <2>2, <2>3
<1> QED BY <1>2, <1>3 DEF Paired, PairedUpTo

LEMMA PrefixGrows ==
  ASSUME NEW s \in Seq(Message), NEW m \in Seq(Message), NEW e \in Message
  PROVE  /\ IsPrefixOf(s, s)
         /\ IsPrefixOf(s, m) => IsPrefixOf(s, Append(m, e))
<1>1. IsPrefixOf(s, s)
  BY DEF IsPrefixOf
<1>2. ASSUME IsPrefixOf(s, m) PROVE IsPrefixOf(s, Append(m, e))
  <2>1. Len(s) <= Len(m) /\ SubSeq(m, 1, Len(s)) = s /\ Len(s) \in Nat /\ Len(m) \in Nat
    BY <1>2 DEF IsPrefixOf
  <2>2. SubSeq(Append(m, e), 1, Len(s)) = SubSeq(m, 1, Len(s))
    BY <2>1, AppendEffect
  <2> QED BY <2>1, <2>2, AppendEffect DEF IsPrefixOf
<1> QED BY <1>1, <1>2

-----------------------------------------------------------------------------
(* The invariant. *)

Reason == {"none", "tool_use", "end", "error"}
DirectiveType == {[kind |-> "start"]} \cup [kind : {"resume", "fork"}, id : Session]

ReplyRecord ==
  [begun : 0..MaxBlocks, open : BOOLEAN, sent : Reason, opened : 0..MaxBlocks, stop : Reason]

TurnRecord ==
  [stage : {"idle", "listing", "requesting", "streaming", "calling", "returned"},
   directive : DirectiveType, bridge : BOOLEAN, session : Session,
   took : Seq(Message), messages : Seq(Message), continues : BOOLEAN,
   attempts : 0..MaxHttpAttempts - 1, iteration : 0..MaxIterations,
   reply : ReplyRecord, answered : 0..MaxBlocks, outcome : ErrorKind \cup {"none", "ok", "lost"}]

\* What a turn's place in its loop says of its locals.
TurnState(r) ==
  /\ r.stage # "returned" => r.outcome = "none"
  /\ r.stage \in {"idle", "listing", "requesting", "streaming"} => r.iteration < MaxIterations
  /\ r.answered <= r.reply.opened /\ r.reply.opened <= r.reply.begun
  /\ r.reply.stop = "tool_use" => r.reply.sent = "tool_use"
  /\ r.reply.open => r.reply.sent = "none"
  /\ r.stage \in {"requesting", "streaming"} => Paired(r.messages)
  /\ r.stage = "streaming" => r.answered = 0
  /\ r.stage = "calling" => r.reply.stop = "tool_use" /\ Asks(r.messages, r.reply.opened)
  /\ r.stage \in {"requesting", "streaming", "calling"} => IsPrefixOf(r.took, r.messages)

OkTurns == {t \in Turn : turn[t].outcome = "ok"}

\* A turn's session is its own or one that a turn has returned.
Known(t, r) ==
  /\ r.session \in {Earlier, t} \cup OkTurns
  /\ r.directive.kind # "start" => r.directive.id \in {Earlier} \cup OkTurns

\* A turn in its loop goes on under the session it resumed, or under its own.
Grounded(t, r) ==
  Anthropic /\ r.stage \in {"requesting", "streaming", "calling"} =>
    r.session = IF r.directive.kind = "resume" THEN r.directive.id ELSE t

Stored ==
  /\ DOMAIN sessions \subseteq {Earlier} \cup OkTurns
  /\ \A s \in DOMAIN sessions : sessions[s] \in Seq(Message) /\ Rests(sessions[s])

ApiInv ==
  /\ turn \in [Turn -> TurnRecord]
  /\ api_restarts \in 0..MaxApiRestarts
  /\ Stored
  /\ \A t \in Turn : TurnState(turn[t]) /\ Known(t, turn[t]) /\ Grounded(t, turn[t])

LEMMA ApiIdleInv == ApiIdle => ApiInv
<1> SUFFICES ASSUME ApiIdle PROVE ApiInv
  OBVIOUS
<1> USE ApiBoundsAreNaturals
<1>1. turn = [t \in Turn |-> IdleTurn] /\ api_restarts = 0
      /\ sessions = [s \in {Earlier} |-> <<Input, Said(0, "end")>>]
  BY DEF ApiIdle
<1>2. IdleTurn \in TurnRecord
  <2>1. NoReply \in ReplyRecord
    BY DEF NoReply, ReplyRecord, Reason
  <2> QED BY <2>1 DEF IdleTurn, TurnRecord, DirectiveType, Session
<1>3. <<Input, Said(0, "end")>> \in Seq(Message) /\ Rests(<<Input, Said(0, "end")>>)
  <2>1. Input \in Message /\ Said(0, "end") \in Message
    BY MessageTypes
  <2>2. \A i \in 1..1 : <<Input, Said(0, "end")>>[i].role # "assistant"
    BY DEF Input
  <2> QED BY <2>1, <2>2 DEF Rests, PairedUpTo, Said
<1>4. TurnState(IdleTurn)
  BY DEF IdleTurn, NoReply, TurnState
<1>5. \A t \in Turn : Known(t, IdleTurn) /\ Grounded(t, IdleTurn)
  BY DEF IdleTurn, Known, Grounded
<1> QED BY <1>1, <1>2, <1>3, <1>4, <1>5 DEF ApiInv, Stored

(* A step of one turn: what it must show of that turn's next state, and of   *)
(* what it saves.                                                            *)
LEMMA TurnStepInv ==
  ASSUME ApiInv, NEW t \in Turn, NEW new \in TurnRecord, Becomes(t, new),
         turn[t].stage # "returned",
         TurnState(new), Known(t, new), Grounded(t, new),
         \/ sessions' = sessions
         \/ /\ new.outcome = "ok"
            /\ \E m \in Seq(Message) : Rests(m) /\ sessions' = Saved(new.session, m)
  PROVE  ApiInv'
<1>1. /\ turn \in [Turn -> TurnRecord] /\ Stored /\ turn[t].outcome = "none"
      /\ \A u \in Turn : TurnState(turn[u]) /\ Known(u, turn[u]) /\ Grounded(u, turn[u])
  BY DEF ApiInv, TurnState
<1>2. /\ turn' = [turn EXCEPT ![t] = new] /\ api_restarts' = api_restarts
      /\ provider' = provider
  BY DEF Becomes, seam_vars
<1>3. turn'[t] = new /\ \A u \in Turn : u # t => turn'[u] = turn[u]
  BY <1>1, <1>2
<1>4. OkTurns' = OkTurns \cup (IF new.outcome = "ok" THEN {t} ELSE {}) /\ t \notin OkTurns
  BY <1>1, <1>3 DEF OkTurns
<1>5. Stored'
  <2>1. CASE sessions' = sessions
    BY <1>1, <1>4, <2>1 DEF Stored
  <2>2. CASE /\ new.outcome = "ok"
             /\ \E m \in Seq(Message) : Rests(m) /\ sessions' = Saved(new.session, m)
    <3>1. PICK m \in Seq(Message) : Rests(m) /\ sessions' = Saved(new.session, m)
      BY <2>2
    <3>2. /\ DOMAIN sessions' = DOMAIN sessions \cup {new.session}
          /\ \A s \in DOMAIN sessions' :
               sessions'[s] = IF s = new.session THEN m ELSE sessions[s]
      BY <3>1 DEF Saved
    <3>3. new.session \in {Earlier} \cup OkTurns'
      BY <1>4, <2>2 DEF Known
    <3> QED BY <1>1, <1>4, <3>1, <3>2, <3>3 DEF Stored
  <2> QED BY <2>1, <2>2
<1>6. ASSUME NEW u \in Turn PROVE Known(u, turn[u])'
  <2>1. CASE u = t
    BY <1>3, <1>4, <2>1 DEF Known
  <2>2. CASE u # t
    BY <1>1, <1>3, <1>4, <2>2 DEF Known
  <2> QED BY <2>1, <2>2
<1>7. ASSUME NEW u \in Turn PROVE Grounded(u, turn[u])'
  BY <1>1, <1>2, <1>3 DEF Grounded, Anthropic
<1>8. \A u \in Turn : TurnState(turn'[u])
  BY <1>1, <1>3
<1>9. turn' \in [Turn -> TurnRecord]
  BY <1>1, <1>2
<1> QED BY <1>2, <1>5, <1>6, <1>7, <1>8, <1>9 DEF ApiInv, TurnState

(* A turn that ends keeps its name and its directive, and nothing else.      *)
LEMMA EndsState ==
  ASSUME ApiInv, NEW t \in Turn, NEW kind \in ErrorKind \cup {"ok", "lost"}
  PROVE  /\ Ends(t, kind) \in TurnRecord /\ TurnState(Ends(t, kind))
         /\ Known(t, Ends(t, kind)) /\ Grounded(t, Ends(t, kind))
         /\ Ends(t, kind).stage = "returned" /\ Ends(t, kind).outcome = kind
         /\ Ends(t, kind).session = turn[t].session
         /\ Ends(t, kind).directive = turn[t].directive
<1> USE ApiBoundsAreNaturals
<1>1. turn[t] \in TurnRecord /\ Known(t, turn[t])
  BY DEF ApiInv
<1>2. /\ Ends(t, kind).stage = "returned" /\ Ends(t, kind).outcome = kind
      /\ Ends(t, kind).session = turn[t].session /\ Ends(t, kind).directive = turn[t].directive
      /\ Ends(t, kind).reply = NoReply /\ Ends(t, kind).answered = 0
  BY DEF Ends, IdleTurn
<1>3. turn[t].directive \in DirectiveType /\ turn[t].session \in Session
  BY <1>1 DEF TurnRecord
<1>z. 0 \in 0..MaxBlocks /\ 0 \in 0..MaxIterations /\ 0 \in 0..MaxHttpAttempts - 1
  OBVIOUS
<1>m. <<>> \in Seq(Message)
  OBVIOUS
<1>r. NoReply \in ReplyRecord
  BY DEF NoReply, ReplyRecord, Reason
<1>4. Ends(t, kind) \in TurnRecord
  BY <1>3, <1>z, <1>m, <1>r DEF TurnRecord, Ends, IdleTurn
<1>5. TurnState(Ends(t, kind)) /\ Known(t, Ends(t, kind)) /\ Grounded(t, Ends(t, kind))
  BY <1>1, <1>2 DEF TurnState, Known, Grounded, NoReply
<1> QED BY <1>2, <1>4, <1>5

LEMMA EndingInv ==
  ASSUME ApiInv, NEW t \in Turn, NEW kind \in ErrorKind,
         turn[t].stage # "returned", Becomes(t, Ends(t, kind)), UNCHANGED sessions
  PROVE  ApiInv'
  BY EndsState, TurnStepInv

\* What the steps of a turn may rely on.
Good(t) == turn[t] \in TurnRecord /\ TurnState(turn[t]) /\ Known(t, turn[t]) /\ Grounded(t, turn[t])

LEMMA GoodTurn ==
  ASSUME ApiInv, NEW t \in Turn PROVE Good(t)
  BY DEF ApiInv, Good

LEMMA BeginInv ==
  ASSUME ApiInv, NEW t \in Turn, NEW directive \in Directive, NEW bridge \in BOOLEAN,
         Begin(t, directive, bridge)
  PROVE  ApiInv'
<1> DEFINE new == [turn[t] EXCEPT !.stage = "listing", !.directive = directive, !.bridge = bridge]
<1>1. Good(t) /\ turn[t].stage = "idle" /\ Becomes(t, new) /\ sessions' = sessions
  BY GoodTurn DEF Begin, In
<1>2. directive \in DirectiveType
        /\ (directive.kind # "start" => directive.id \in {Earlier} \cup OkTurns)
  <2>1. \A u \in OkTurns : u \in Turn /\ turn[u].session \in {Earlier, u} \cup OkTurns
    BY DEF OkTurns, ApiInv, Known
  <2>2. CASE directive = [kind |-> "start"]
    BY <2>2 DEF DirectiveType
  <2>3. CASE directive \in [kind : {"resume", "fork"},
               id : {Earlier} \cup {turn[w].session : w \in OkTurns}]
    BY <2>1, <2>3 DEF DirectiveType, Session
  <2> QED BY <2>2, <2>3 DEF Directive, OkTurns
<1>3. new \in TurnRecord
  BY <1>1, <1>2 DEF Good, TurnRecord
<1>4. TurnState(new) /\ Known(t, new) /\ Grounded(t, new)
  BY <1>1, <1>2 DEF Good, TurnRecord, TurnState, Known, Grounded
<1> QED BY <1>1, <1>3, <1>4, TurnStepInv

LEMMA TakeUpInv ==
  ASSUME ApiInv, NEW t \in Turn, TakeUp(t)
  PROVE  ApiInv'
<1> USE ApiBoundsAreNaturals
<1> DEFINE asked == turn[t].directive
           known == asked.kind = "start" \/ OpenAi \/ asked.id \in DOMAIN sessions
           past == IF asked.kind = "start" \/ OpenAi THEN <<>> ELSE sessions[asked.id]
           new == [turn[t] EXCEPT !.stage = "requesting", !.session = SessionOf(t),
                                  !.took = past, !.messages = Append(past, Input),
                                  !.continues = asked.kind # "start"]
<1>1. Good(t) /\ turn[t].stage = "listing" /\ sessions' = sessions
      /\ provider \in {"anthropic", "openai"}
      /\ Becomes(t, IF known THEN new ELSE Ends(t, "SessionNotFound"))
  BY GoodTurn DEF TakeUp, In
<1>2. CASE ~known
  BY <1>1, <1>2, EndingInv DEF ErrorKind
<1>3. CASE known
  <2>1. past \in Seq(Message) /\ Rests(past)
    <3>1. CASE asked.kind = "start" \/ OpenAi
      BY <3>1 DEF Rests, PairedUpTo
    <3>2. CASE ~(asked.kind = "start" \/ OpenAi)
      BY <1>3, <3>2 DEF ApiInv, Stored
    <3> QED BY <3>1, <3>2
  <2>2. Append(past, Input) \in Seq(Message) /\ Paired(Append(past, Input))
    BY <2>1, MessageTypes, AppendEffect, InputPairs
  <2>p. IsPrefixOf(past, Append(past, Input))
    BY <2>1, MessageTypes, PrefixGrows
  <2>3. /\ SessionOf(t) \in Session /\ SessionOf(t) \in {Earlier, t} \cup OkTurns
        /\ Anthropic => SessionOf(t) = IF asked.kind = "resume" THEN asked.id ELSE t
    BY <1>1 DEF SessionOf, Good, Known, TurnRecord, DirectiveType, Session
  <2> HIDE DEF past
  <2>4. new \in TurnRecord
    BY <1>1, <2>1, <2>2, <2>3 DEF Good, TurnRecord
  <2>5. /\ new.stage = "requesting" /\ new.session = SessionOf(t) /\ new.directive = asked
        /\ new.messages = Append(past, Input) /\ new.took = past
        /\ new.reply = turn[t].reply /\ new.answered = turn[t].answered /\ new.outcome = turn[t].outcome
        /\ new.iteration = turn[t].iteration
    BY <1>1 DEF Good, TurnRecord
  <2>6. TurnState(new) /\ Known(t, new)
    <3> HIDE DEF new
    <3> QED BY <1>1, <2>2, <2>p, <2>3, <2>5 DEF Good, TurnState, Known
  <2>7. Grounded(t, new)
    <3> HIDE DEF new
    <3> QED BY <2>3, <2>5 DEF Grounded
  <2> HIDE DEF new
  <2> QED BY <1>1, <1>3, <2>4, <2>6, <2>7, TurnStepInv
<1> QED BY <1>2, <1>3

LEMMA HttpInv ==
  ASSUME ApiInv, NEW t \in Turn,
         HttpTransient(t) \/ HttpRefused(t) \/ HttpAccepted(t)
  PROVE  ApiInv'
<1> USE ApiBoundsAreNaturals
<1>1. Good(t) /\ turn[t].stage = "requesting" /\ sessions' = sessions
  BY GoodTurn DEF HttpTransient, HttpRefused, HttpAccepted, In
<1>2. CASE HttpTransient(t)
  <2> DEFINE new == [turn[t] EXCEPT !.attempts = @ + 1]
  <2>1. CASE turn[t].attempts + 1 < MaxHttpAttempts
    <3>1. Becomes(t, new)
      BY <1>2, <2>1 DEF HttpTransient
    <3>a. turn[t].attempts + 1 \in 0..MaxHttpAttempts - 1
      <4>1. turn[t].attempts \in 0..MaxHttpAttempts - 1
        BY <1>1 DEF Good, TurnRecord
      <4> QED BY <2>1, <4>1
    <3>2. new \in TurnRecord
      BY <1>1, <3>a DEF Good, TurnRecord
    <3>3. TurnState(new) /\ Known(t, new) /\ Grounded(t, new)
      BY <1>1 DEF Good, TurnRecord, TurnState, Known, Grounded
    <3> QED BY <1>1, <3>1, <3>2, <3>3, TurnStepInv
  <2>2. CASE ~(turn[t].attempts + 1 < MaxHttpAttempts)
    BY <1>1, <1>2, <2>2, EndingInv DEF HttpTransient, ErrorKind
  <2> QED BY <2>1, <2>2
<1>3. CASE HttpRefused(t)
  BY <1>1, <1>3, EndingInv DEF HttpRefused, ErrorKind
<1>4. CASE HttpAccepted(t)
  <2> DEFINE new == [turn[t] EXCEPT !.stage = "streaming", !.attempts = 0,
                                    !.reply = NoReply, !.answered = 0]
  <2>1. Becomes(t, new)
    BY <1>4 DEF HttpAccepted
  <2>z. 0 \in 0..MaxBlocks /\ 0 \in 0..MaxHttpAttempts - 1
    OBVIOUS
  <2>r. NoReply \in ReplyRecord
    BY DEF NoReply, ReplyRecord, Reason
  <2>2. new \in TurnRecord
    BY <1>1, <2>z, <2>r DEF Good, TurnRecord
  <2>3. TurnState(new) /\ Known(t, new) /\ Grounded(t, new)
    BY <1>1 DEF Good, TurnRecord, TurnState, Known, Grounded, NoReply
  <2> QED BY <1>1, <2>1, <2>2, <2>3, TurnStepInv
<1> QED BY <1>2, <1>3, <1>4

(* A frame changes the reply and, for a response, the chain.                 *)
LEMMA FrameInv ==
  ASSUME ApiInv, NEW t \in Turn, NEW reply \in ReplyRecord, NEW chain \in BOOLEAN,
         turn[t].stage = "streaming", UNCHANGED sessions,
         Becomes(t, [turn[t] EXCEPT !.reply = reply, !.continues = chain]),
         reply.opened <= reply.begun,
         reply.stop = "tool_use" => reply.sent = "tool_use",
         reply.open => reply.sent = "none"
  PROVE  ApiInv'
<1> USE ApiBoundsAreNaturals
<1> DEFINE new == [turn[t] EXCEPT !.reply = reply, !.continues = chain]
<1>1. Good(t) /\ turn[t].stage = "streaming"
  BY GoodTurn
<1>2. new \in TurnRecord
  BY <1>1 DEF Good, TurnRecord
<1>3. TurnState(new)
  <2>1. /\ new.reply = reply /\ new.stage = "streaming" /\ new.outcome = turn[t].outcome
        /\ new.iteration = turn[t].iteration /\ new.answered = turn[t].answered
        /\ new.messages = turn[t].messages /\ new.took = turn[t].took
    BY <1>1 DEF Good, TurnRecord
  <2>2. reply.opened \in Nat
    BY DEF ReplyRecord
  <2> HIDE DEF new
  <2> QED BY <1>1, <2>1, <2>2 DEF Good, TurnState
<1>4. Known(t, new) /\ Grounded(t, new)
  BY <1>1 DEF Good, TurnRecord, Known, Grounded
<1> QED BY <1>1, <1>2, <1>3, <1>4, TurnStepInv

(* The reply's blocks and its reason.                                        *)
LEMMA StreamingInv ==
  ASSUME ApiInv, NEW t \in Turn,
         \/ \E seen \in BOOLEAN : BlockStarts(t, seen)
         \/ BlockStops(t) \/ ResponseFrame(t) \/ StreamInterrupted(t)
         \/ \E reason \in {"tool_use", "end"}, seen \in BOOLEAN : Stops(t, reason, seen)
  PROVE  ApiInv'
<1> USE ApiBoundsAreNaturals
<1> DEFINE old == turn[t].reply
<1>1. Good(t) /\ turn[t].stage = "streaming" /\ sessions' = sessions
  BY GoodTurn DEF BlockStarts, BlockStops, ResponseFrame, StreamInterrupted, Stops, Streams, In
<1>2. /\ turn[t] \in TurnRecord /\ old \in ReplyRecord /\ turn[t].continues \in BOOLEAN
      /\ old.opened <= old.begun /\ old.begun \in 0..MaxBlocks /\ old.opened \in 0..MaxBlocks
      /\ old.stop = "tool_use" => old.sent = "tool_use"
      /\ old.open => old.sent = "none"
  BY <1>1 DEF Good, TurnRecord, TurnState, ReplyRecord
<1>3. ASSUME NEW seen \in BOOLEAN, BlockStarts(t, seen) PROVE ApiInv'
  <2> DEFINE reply == [old EXCEPT !.begun = @ + 1, !.open = TRUE,
                                  !.opened = IF seen THEN @ + 1 ELSE @]
  <2>1. /\ old.begun < MaxBlocks /\ old.sent = "none"
        /\ Becomes(t, [turn[t] EXCEPT !.reply.begun = @ + 1, !.reply.open = TRUE,
                                      !.reply.opened = IF seen THEN @ + 1 ELSE @])
    BY <1>3 DEF BlockStarts, Streams
  <2>2. [turn[t] EXCEPT !.reply.begun = @ + 1, !.reply.open = TRUE,
                        !.reply.opened = IF seen THEN @ + 1 ELSE @]
          = [turn[t] EXCEPT !.reply = reply, !.continues = turn[t].continues]
    BY <1>2 DEF TurnRecord, ReplyRecord
  <2>3. reply \in ReplyRecord /\ reply.opened <= reply.begun /\ reply.sent = "none"
        /\ reply.stop = old.stop
    <3>1. old.begun + 1 \in 0..MaxBlocks /\ old.opened + 1 \in 0..MaxBlocks
      BY <1>2, <2>1
    <3>2. /\ reply.begun = old.begun + 1 /\ reply.open = TRUE /\ reply.sent = old.sent
          /\ reply.opened = (IF seen THEN old.opened + 1 ELSE old.opened)
          /\ reply.stop = old.stop
      BY <1>2 DEF ReplyRecord
    <3>3. reply \in ReplyRecord
      BY <1>2, <3>1 DEF ReplyRecord
    <3> HIDE DEF reply
    <3> QED BY <1>2, <2>1, <3>2, <3>3
  <2> HIDE DEF reply
  <2>4. Becomes(t, [turn[t] EXCEPT !.reply = reply, !.continues = turn[t].continues])
    BY <2>1, <2>2
  <2> QED BY <1>1, <1>2, <2>1, <2>3, <2>4, FrameInv
<1>4. CASE BlockStops(t)
  <2> DEFINE reply == [old EXCEPT !.open = FALSE]
  <2>1. Becomes(t, [turn[t] EXCEPT !.reply.open = FALSE])
    BY <1>4 DEF BlockStops
  <2>2. [turn[t] EXCEPT !.reply.open = FALSE]
          = [turn[t] EXCEPT !.reply = reply, !.continues = turn[t].continues]
    BY <1>2 DEF TurnRecord, ReplyRecord
  <2>3. reply \in ReplyRecord /\ reply.opened <= reply.begun /\ ~reply.open
        /\ (reply.stop = "tool_use" => reply.sent = "tool_use")
    BY <1>2 DEF ReplyRecord
  <2> HIDE DEF reply
  <2>4. Becomes(t, [turn[t] EXCEPT !.reply = reply, !.continues = turn[t].continues])
    BY <2>1, <2>2
  <2> QED BY <1>1, <1>2, <2>3, <2>4, FrameInv
<1>5. ASSUME NEW reason \in {"tool_use", "end"}, NEW seen \in BOOLEAN, Stops(t, reason, seen)
      PROVE  ApiInv'
  <2> DEFINE reply == [old EXCEPT !.sent = reason, !.stop = IF seen THEN reason ELSE @]
  <2>1. /\ ~old.open /\ old.sent = "none"
        /\ Becomes(t, [turn[t] EXCEPT !.reply.sent = reason,
                                      !.reply.stop = IF seen THEN reason ELSE @])
    BY <1>5 DEF Stops, Streams
  <2>2. [turn[t] EXCEPT !.reply.sent = reason, !.reply.stop = IF seen THEN reason ELSE @]
          = [turn[t] EXCEPT !.reply = reply, !.continues = turn[t].continues]
    BY <1>2 DEF TurnRecord, ReplyRecord
  <2>3. reply \in ReplyRecord /\ reply.opened <= reply.begun /\ ~reply.open
        /\ (reply.stop = "tool_use" => reply.sent = "tool_use")
    BY <1>2, <2>1 DEF ReplyRecord, Reason
  <2> HIDE DEF reply
  <2>4. Becomes(t, [turn[t] EXCEPT !.reply = reply, !.continues = turn[t].continues])
    BY <2>1, <2>2
  <2> QED BY <1>1, <1>2, <2>3, <2>4, FrameInv
<1>6. CASE ResponseFrame(t)
  <2>1. ASSUME NEW calls \in 0..MaxBlocks, NEW reason \in {"tool_use", "end"},
               Becomes(t, [turn[t] EXCEPT !.continues = TRUE,
                             !.reply = [begun |-> calls, open |-> FALSE, sent |-> reason,
                                        opened |-> calls, stop |-> reason]])
        PROVE  ApiInv'
    <3> DEFINE reply == [begun |-> calls, open |-> FALSE, sent |-> reason, opened |-> calls,
                         stop |-> reason]
    <3>1. reply \in ReplyRecord /\ reply.opened <= reply.begun /\ ~reply.open
          /\ reply.stop = reply.sent
      BY DEF ReplyRecord, Reason
    <3>2. [turn[t] EXCEPT !.continues = TRUE, !.reply = reply]
            = [turn[t] EXCEPT !.reply = reply, !.continues = TRUE]
      BY <1>2 DEF TurnRecord
    <3>3. Becomes(t, [turn[t] EXCEPT !.reply = reply, !.continues = TRUE])
      BY <2>1, <3>2
    <3> HIDE DEF reply
    <3> QED BY <1>1, <3>1, <3>3, FrameInv
  <2>2. CASE Becomes(t, [turn[t] EXCEPT !.reply = FailedReply])
    <3>1. [turn[t] EXCEPT !.reply = FailedReply]
            = [turn[t] EXCEPT !.reply = FailedReply, !.continues = turn[t].continues]
      BY <1>2 DEF TurnRecord
    <3>2. FailedReply \in ReplyRecord /\ FailedReply.opened <= FailedReply.begun
          /\ ~FailedReply.open /\ FailedReply.stop # "tool_use"
      BY DEF FailedReply, ReplyRecord, Reason
    <3>3. Becomes(t, [turn[t] EXCEPT !.reply = FailedReply, !.continues = turn[t].continues])
      BY <2>2, <3>1
    <3> QED BY <1>1, <1>2, <3>2, <3>3, FrameInv
  <2>3. \/ \E calls \in 0..MaxBlocks :
             LET reason == IF calls > 0 THEN "tool_use" ELSE "end" IN
             Becomes(t, [turn[t] EXCEPT !.continues = TRUE,
                           !.reply = [begun |-> calls, open |-> FALSE, sent |-> reason,
                                      opened |-> calls, stop |-> reason]])
        \/ Becomes(t, [turn[t] EXCEPT !.reply = FailedReply])
    BY <1>6 DEF ResponseFrame
  <2> QED BY <2>1, <2>2, <2>3
<1>7. CASE StreamInterrupted(t)
  BY <1>1, <1>7, EndingInv DEF StreamInterrupted, ErrorKind
<1> QED BY <1>3, <1>4, <1>5, <1>6, <1>7

(* The end of a stream: the turn calls tools, fails, or saves and succeeds.  *)
LEMMA StreamEndsInv ==
  ASSUME ApiInv, NEW t \in Turn, StreamEnds(t)
  PROVE  ApiInv'
<1> USE ApiBoundsAreNaturals
<1> DEFINE messages == Append(turn[t].messages, Said(turn[t].reply.opened, turn[t].reply.stop))
           kind == CASE turn[t].reply.stop = "error" -> "Api"
                     [] turn[t].reply.stop # "error" /\ ~Follows(t) -> "ok"
                     [] Follows(t) /\ ~turn[t].bridge -> "Tooling"
                     [] OTHER -> "none"
           new == [turn[t] EXCEPT !.stage = "calling", !.iteration = @ + 1, !.messages = messages]
<1>1. /\ Good(t) /\ turn[t].stage = "streaming"
      /\ Becomes(t, IF kind = "none" THEN new ELSE Ends(t, kind))
      /\ sessions' = IF kind = "ok" /\ Anthropic THEN Saved(turn[t].session, messages) ELSE sessions
  BY GoodTurn DEF StreamEnds, In
<1>2. kind \in {"Api", "ok", "Tooling", "none"} /\ (kind = "none" => Follows(t))
      /\ (kind = "ok" => ~Follows(t))
  BY DEF Follows
<1>3. /\ turn[t].messages \in Seq(Message) /\ Paired(turn[t].messages)
      /\ Said(turn[t].reply.opened, turn[t].reply.stop) \in Message
  <2>1. turn[t].reply.opened \in 0..MaxBlocks /\ turn[t].reply.stop \in Reason
    BY <1>1 DEF Good, TurnRecord, ReplyRecord
  <2> QED BY <1>1, <2>1, MessageTypes DEF Good, TurnRecord, TurnState, Reason
<1>4. /\ messages \in Seq(Message) /\ Len(messages) > 0
      /\ messages[Len(messages)] = Said(turn[t].reply.opened, turn[t].reply.stop)
      /\ PairedUpTo(messages, Len(messages) - 1)
  BY <1>3, AppendEffect, ReplyEnds
<1> HIDE DEF messages, kind
<1>5. CASE kind = "none"
  <2>1. turn[t].iteration + 1 \in 0..MaxIterations
    <3>1. turn[t].iteration \in 0..MaxIterations
      BY <1>1 DEF Good, TurnRecord
    <3>2. turn[t].iteration < MaxIterations
      BY <1>1 DEF Good, TurnState
    <3> QED BY <3>1, <3>2
  <2>2. new \in TurnRecord
    BY <1>1, <1>4, <2>1 DEF Good, TurnRecord
  <2>3. TurnState(new)
    <3>1. /\ new.messages = messages /\ new.took = turn[t].took /\ new.stage = "calling"
          /\ new.reply = turn[t].reply /\ new.answered = turn[t].answered
          /\ new.outcome = turn[t].outcome
      BY <1>1 DEF Good, TurnRecord
    <3>2. IsPrefixOf(turn[t].took, messages)
      BY <1>1, <1>3, PrefixGrows DEF Good, TurnRecord, TurnState, messages
    <3> HIDE DEF new
    <3> QED BY <1>1, <1>2, <1>4, <1>5, <3>1, <3>2 DEF Good, TurnState, Asks, Follows
  <2>4. Known(t, new)
    BY <1>1 DEF Good, TurnRecord, Known
  <2>5. Grounded(t, new)
    BY <1>1 DEF Good, TurnRecord, Grounded
  <2> HIDE DEF new
  <2>6. sessions' = sessions /\ Becomes(t, new)
    BY <1>1, <1>5
  <2> QED BY <1>1, <2>2, <2>3, <2>4, <2>5, <2>6, TurnStepInv
<1>6. CASE kind \in {"Api", "Tooling"}
  BY <1>1, <1>6, EndingInv DEF ErrorKind
<1>7. CASE kind = "ok"
  <2>1. ~(turn[t].reply.stop = "tool_use" /\ turn[t].reply.opened > 0)
    BY <1>2, <1>7 DEF Follows
  <2>2. Rests(messages)
    BY <1>4, <2>1 DEF Rests, Said
  <2>3. /\ Ends(t, "ok") \in TurnRecord /\ TurnState(Ends(t, "ok"))
        /\ Known(t, Ends(t, "ok")) /\ Grounded(t, Ends(t, "ok"))
        /\ Ends(t, "ok").outcome = "ok" /\ Ends(t, "ok").session = turn[t].session
    BY EndsState
  <2>4. Becomes(t, Ends(t, "ok"))
    BY <1>1, <1>7
  <2>5. \/ sessions' = sessions
        \/ \E m \in Seq(Message) : Rests(m) /\ sessions' = Saved(Ends(t, "ok").session, m)
    BY <1>1, <1>4, <1>7, <2>2, <2>3
  <2> QED BY <1>1, <2>3, <2>4, <2>5, TurnStepInv
<1> QED BY <1>2, <1>5, <1>6, <1>7

LEMMA CallingInv ==
  ASSUME ApiInv, NEW t \in Turn,
         BridgeAnswers(t) \/ BridgeFails(t) \/ NextIteration(t)
  PROVE  ApiInv'
<1> USE ApiBoundsAreNaturals
<1>1. Good(t) /\ turn[t].stage = "calling" /\ sessions' = sessions
  BY GoodTurn DEF BridgeAnswers, BridgeFails, NextIteration, In
<1>2. CASE BridgeAnswers(t)
  <2> DEFINE new == [turn[t] EXCEPT !.answered = @ + 1]
  <2>1. turn[t].answered + 1 \in 0..MaxBlocks /\ turn[t].answered + 1 <= turn[t].reply.opened
    <3>1. turn[t].answered \in 0..MaxBlocks /\ turn[t].reply.opened \in 0..MaxBlocks
      BY <1>1 DEF Good, TurnRecord, ReplyRecord
    <3>2. turn[t].answered < turn[t].reply.opened
      BY <1>2 DEF BridgeAnswers
    <3> QED BY <3>1, <3>2
  <2>2. new \in TurnRecord
    BY <1>1, <2>1 DEF Good, TurnRecord
  <2>3. TurnState(new) /\ Known(t, new) /\ Grounded(t, new)
    BY <1>1, <2>1 DEF Good, TurnRecord, TurnState, Known, Grounded
  <2> QED BY <1>1, <1>2, <2>2, <2>3, TurnStepInv DEF BridgeAnswers
<1>3. CASE BridgeFails(t)
  BY <1>1, <1>3, EndingInv DEF BridgeFails, ErrorKind
<1>4. CASE NextIteration(t)
  <2> DEFINE messages == Append(turn[t].messages, Results(turn[t].answered))
             new == [turn[t] EXCEPT !.stage = "requesting", !.messages = messages]
  <2>1. CASE turn[t].iteration < MaxIterations
    <3>1. /\ turn[t].answered = turn[t].reply.opened
          /\ Becomes(t, [turn[t] EXCEPT !.stage = "requesting",
                           !.messages = Append(@, Results(turn[t].answered))])
      BY <1>4, <2>1 DEF NextIteration
    <3>2. Becomes(t, new)
      BY <3>1
    <3>3. turn[t].messages \in Seq(Message) /\ turn[t].reply.opened \in 0..MaxBlocks
          /\ Asks(turn[t].messages, turn[t].reply.opened)
      BY <1>1 DEF Good, TurnRecord, ReplyRecord, TurnState
    <3>4. messages \in Seq(Message) /\ Paired(messages)
      BY <3>1, <3>3, ResultsPair, MessageTypes, AppendEffect
    <3>5. IsPrefixOf(turn[t].took, messages)
      BY <1>1, <3>1, <3>3, MessageTypes, PrefixGrows DEF Good, TurnRecord, TurnState
    <3> HIDE DEF messages
    <3>6. new \in TurnRecord
      BY <1>1, <3>4 DEF Good, TurnRecord
    <3>7. TurnState(new) /\ Known(t, new)
      BY <1>1, <2>1, <3>4, <3>5 DEF Good, TurnRecord, TurnState, Known
    <3>8. Grounded(t, new)
      BY <1>1 DEF Good, TurnRecord, Grounded
    <3> HIDE DEF new
    <3> QED BY <1>1, <3>2, <3>6, <3>7, <3>8, TurnStepInv
  <2>2. CASE ~(turn[t].iteration < MaxIterations)
    BY <1>1, <1>4, <2>2, EndingInv DEF NextIteration, ErrorKind
  <2> QED BY <2>1, <2>2
<1> QED BY <1>2, <1>3, <1>4

(* After a restart nothing is stored and no turn is in progress.             *)
LEMMA RestartInv ==
  ASSUME ApiInv, ApiRestart
  PROVE  ApiInv'
<1> USE ApiBoundsAreNaturals
<1>1. /\ api_restarts' \in 0..MaxApiRestarts
      /\ sessions' = [s \in {} |-> <<>>]
      /\ turn' = [t \in Turn |->
           IF turn[t].stage \in {"idle", "returned"} THEN turn[t] ELSE Ends(t, "lost")]
  BY DEF ApiRestart, ApiInv
<1>2. Stored'
  BY <1>1 DEF Stored
<1>3. \A t \in Turn : turn'[t] \in TurnRecord /\ TurnState(turn'[t])
  BY <1>1, EndsState, GoodTurn DEF Good
<1>4. \A t \in Turn : turn'[t].outcome = "ok" <=> turn[t].outcome = "ok"
  BY <1>1, EndsState, GoodTurn DEF Good, TurnState
<1>5. OkTurns' = OkTurns
  BY <1>4 DEF OkTurns
<1>6. \A t \in Turn : Known(t, turn[t])'
  <2> SUFFICES ASSUME NEW t \in Turn PROVE Known(t, turn[t])'
    OBVIOUS
  <2>1. Known(t, turn'[t])
    BY <1>1, EndsState, GoodTurn DEF Good
  <2> QED BY <1>5, <2>1 DEF Known
<1>7. \A t \in Turn : turn'[t].stage \in {"idle", "returned"}
  BY <1>1, EndsState
<1>8. \A t \in Turn : Grounded(t, turn[t])'
  BY <1>7 DEF Grounded
<1> QED BY <1>1, <1>2, <1>3, <1>6, <1>8 DEF ApiInv

LEMMA ApiStepInv == ApiInv /\ [ApiNext]_<<seam_vars, api_vars>> => ApiInv'
<1> SUFFICES ASSUME ApiInv, [ApiNext]_<<seam_vars, api_vars>> PROVE ApiInv'
  OBVIOUS
<1>1. ASSUME NEW t \in Turn, ApiStep(t) PROVE ApiInv'
  <2>1. CASE PrepareFails(t)
    BY <2>1, EndingInv DEF PrepareFails, In, ErrorKind
  <2> QED BY <1>1, <2>1, TakeUpInv, HttpInv, StreamingInv, StreamEndsInv, CallingInv DEF ApiStep
<1>2. CASE UNCHANGED <<seam_vars, api_vars>>
  BY <1>2 DEF ApiInv, Stored, Known, Grounded, OkTurns, Anthropic, seam_vars, api_vars
<1> QED BY <1>1, <1>2, BeginInv, RestartInv DEF ApiNext

LEMMA ApiInvariant == ApiSpec => []ApiInv
  BY ApiIdleInv, ApiStepInv, PTL DEF ApiSpec, ApiInit

-----------------------------------------------------------------------------
(* Theorems. *)

LEMMA ApiTyped == ApiInv => ApiTypes
  BY ApiBoundsAreNaturals
  DEF ApiInv, ApiTypes, TurnRecord, ReplyRecord, TurnState, Stored, Session, OkTurns

(* Type correctness of the turns and of the session store.                   *)
THEOREM ApiTypesCorrect == ApiSpec => []ApiTypes
  BY ApiTyped, ApiInvariant, PTL

LEMMA ApiUncut == ApiInv => NoCutReplyRuns
  BY DEF ApiInv, NoCutReplyRuns, TurnState

(* Only a reply that the vendor finished and stopped for its tools runs any,  *)
(* however the stream was cut and whatever frames were passed over            *)
(* (anthropic.rs: the blocks alone do not make a call).                      *)
THEOREM OnlyFinishedRepliesRun == ApiSpec => []NoCutReplyRuns
  BY ApiUncut, ApiInvariant, PTL

LEMMA ApiPaired == ApiInv => RequestsPaired
  BY DEF ApiInv, RequestsPaired, TurnState, Paired, PairedUpTo

(* In every request the vendor sees, a reply whose calls were followed has    *)
(* all its results, whatever sessions the request was built from.  Replies    *)
(* cut at their length are saved with their calls unanswered.                *)
THEOREM RequestsArePaired == ApiSpec => []RequestsPaired
  BY ApiPaired, ApiInvariant, PTL

(* A step changes a saved conversation only when the turn that resumed it     *)
(* succeeds.                                                                 *)
LEMMA OnlyResumedGrow ==
  ASSUME ApiInv, NEW t \in Turn, StreamEnds(t), NEW s \in DOMAIN sessions,
         sessions'[s] # sessions[s]
  PROVE  /\ turn'[t].outcome = "ok" /\ turn[t].outcome = "none"
         /\ turn[t].directive = [kind |-> "resume", id |-> s]
         /\ IsPrefixOf(sessions[s], sessions'[s]) \/ sessions[s] # turn[t].took
<1> DEFINE messages == Append(turn[t].messages, Said(turn[t].reply.opened, turn[t].reply.stop))
<1>1. /\ Good(t) /\ turn[t].stage = "streaming" /\ Anthropic
      /\ sessions' = Saved(turn[t].session, messages)
      /\ Becomes(t, Ends(t, "ok"))
  BY GoodTurn DEF StreamEnds, In
<1>2. s = turn[t].session /\ sessions'[s] = messages
  BY <1>1 DEF Saved
<1>3. turn[t].outcome = "none" /\ turn'[t].outcome = "ok"
  BY <1>1, EndsState DEF Good, TurnState, Becomes, ApiInv
<1>4. s \in {Earlier} \cup OkTurns /\ t \notin OkTurns /\ s # t
  BY <1>3, EarlierIsNoTurn DEF ApiInv, Stored, OkTurns
<1>5. turn[t].directive.kind = "resume" /\ turn[t].directive.id = s
  BY <1>1, <1>2, <1>4 DEF Good, Grounded
<1>6. turn[t].directive = [kind |-> "resume", id |-> s]
  BY <1>1, <1>5 DEF Good, TurnRecord, DirectiveType
<1>7. IsPrefixOf(turn[t].took, messages)
  <2>1. turn[t].reply.opened \in 0..MaxBlocks /\ turn[t].reply.stop \in Reason
    BY <1>1 DEF Good, TurnRecord, ReplyRecord
  <2>2. Said(turn[t].reply.opened, turn[t].reply.stop) \in Message
    BY <2>1, MessageTypes DEF Reason
  <2> QED BY <1>1, <2>2, PrefixGrows DEF Good, TurnRecord, TurnState
<1> QED BY <1>2, <1>3, <1>6, <1>7

SessionsStand ==
  /\ DOMAIN sessions \ DOMAIN sessions' # {} => api_restarts' # api_restarts
  /\ \A s \in DOMAIN sessions \cap DOMAIN sessions' :
       sessions'[s] # sessions[s] =>
         \E t \in Turn :
           /\ turn'[t].outcome = "ok" /\ turn[t].outcome = "none"
           /\ turn[t].directive = [kind |-> "resume", id |-> s]
           /\ \/ IsPrefixOf(sessions[s], sessions'[s])
              \/ sessions[s] # turn[t].took

LEMMA ApiStepStands == ApiInv /\ ApiNext => SessionsStand
<1> SUFFICES ASSUME ApiInv, ApiNext PROVE SessionsStand
  OBVIOUS
<1>1. CASE sessions' = sessions
  BY <1>1 DEF SessionsStand
<1>2. CASE ApiRestart
  BY <1>2 DEF ApiRestart, ApiInv, SessionsStand
<1>3. ASSUME NEW t \in Turn, StreamEnds(t) PROVE SessionsStand
  <2>1. DOMAIN sessions \subseteq DOMAIN sessions'
    BY <1>3 DEF StreamEnds, Saved
  <2> QED BY <1>3, <2>1, OnlyResumedGrow DEF SessionsStand
<1> QED
  BY <1>1, <1>2, <1>3
  DEF ApiNext, ApiStep, Begin, PrepareFails, TakeUp, HttpTransient, HttpRefused, HttpAccepted,
      BlockStarts, BlockStops, Stops, ResponseFrame, StreamInterrupted, BridgeAnswers,
      BridgeFails, NextIteration

(* Saved conversations are only ever continued, by the turn that resumed     *)
(* them, and only the death of the process loses one (api/mod.rs             *)
(* SessionStore).                                                            *)
THEOREM ConversationsGrow == ApiSpec => SessionsGrow
<1>1. ApiInv /\ [ApiNext]_<<seam_vars, api_vars>> => [SessionsStand]_<<seam_vars, api_vars>>
  BY ApiStepStands
<1> QED BY <1>1, ApiInvariant, PTL DEF ApiSpec, SessionsGrow, SessionsStand
=============================================================================
