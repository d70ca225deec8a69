------------------------------ MODULE LlmStream ------------------------------
(***************************************************************************)
(* One request of the agent to its providers (merlion-llm): the attempts   *)
(* of send_with_retry (retry.rs) at each client of FallbackLlmClient       *)
(* (fallback.rs), then the assembly of the first body that is served into  *)
(* text and tool calls, as each client does it (openai.rs, anthropic.rs,   *)
(* gemini.rs, vertex.rs, bedrock.rs).  A body arrives in chunks that end   *)
(* anywhere, and may end early.                                            *)
(***************************************************************************)
EXTENDS Integers, SequencesExt

CONSTANTS
    Dialect,     \* the client of each provider: the primary, then the chain
    MaxAttempts, \* MAX_ATTEMPTS of retry.rs
    Calls,       \* indices of tool calls in a body
    Frags,       \* pieces the arguments of a call are streamed in
    Replies      \* the bodies servers of a dialect send

Providers == 1..Len(Dialect)
Dialects == {"openai", "anthropic", "gemini", "bedrock"}

\* what one event of a body says, and of which call
Kinds == {"text", "open", "part", "close", "call", "finish", "done", "error"}
OfCalls == {"open", "part", "close", "call"}
Events == {e \in [kind : Kinds, call : Calls \cup {0}] : e.kind \in OfCalls <=> e.call # 0}
Speaks == [
    openai |-> {"text", "open", "part", "finish", "done", "error"},
    anthropic |-> {"text", "open", "part", "close", "finish", "done", "error"},
    gemini |-> {"text", "call", "finish", "error"},
    bedrock |-> {"text", "call", "finish"}]

Mark(k) == [kind |-> k, call |-> 0]

\* the numbers of a set, from the least to the greatest
Ordered(s, S) == /\ S = {s[i] : i \in DOMAIN s}
                 /\ \A i, j \in DOMAIN s : i < j => s[i] < s[j]
InOrder(S) == CHOOSE s \in [1..Cardinality(S) -> S] : Ordered(s, S)

\* where the first n events of a body, or all of them, are of some kinds
UpTo(b, n, kinds) == {i \in 1..n : b[i].kind \in kinds}
Where(b, kinds) == UpTo(b, Len(b), kinds)
Says(b, k) == Where(b, {k}) # {}
Pieces(b, n, c) == Cardinality({i \in UpTo(b, n, {"part"}) : b[i].call = c})

\* the calls a body carries, in the order they are begun
CallsIn(b) == LET at == InOrder(Where(b, {"open", "call"}))
              IN  [k \in 1..Len(at) |-> [call |-> b[at[k]].call, parts |-> Frags]]
TextIn(b) == Cardinality(Where(b, {"text"}))

(* Of a reply: the finish reason comes after all but the mark of the end.  *)
(* Calls of the openai dialect are begun in the order of their indices.    *)
(* Where blocks are closed, a block is closed after it was opened and has  *)
(* come whole, and blocks close in the order they open.  Only an error     *)
(* leaves a call unfinished.                                               *)
EndsLast(b) == \A i, j \in 1..Len(b) :
    i < j => b[i].kind # "done" /\ (b[i].kind = "finish" => b[j].kind = "done")
OpensByIndex(b) == \A i, j \in Where(b, {"open"}) : i < j => b[i].call < b[j].call
OpensWhole(b) == \A i \in Where(b, {"open"}) : Pieces(b, Len(b), b[i].call) = Frags
ClosesWhole(b) == \A j \in Where(b, {"close"}) :
    /\ \E i \in UpTo(b, j, {"open"}) : b[i].call = b[j].call
    /\ \A n \in j..Len(b) : Pieces(b, n, b[j].call) = Frags
ClosesInOrder(b) == \A i, j \in Where(b, {"open"}), m, n \in Where(b, {"close"}) :
    b[i].call = b[m].call /\ b[j].call = b[n].call => (i < j <=> m < n)
ClosesAll(b) == \A i \in Where(b, {"open"}) : \E j \in Where(b, {"close"}) : b[i].call = b[j].call

ASSUME ProvidersAssumption ==
    /\ Dialect \in Seq(Dialects) /\ Dialect # <<>>
    /\ MaxAttempts \in Nat \ {0}
    /\ Calls \subseteq Nat \ {0}
    /\ Frags \in Nat \ {0}
    /\ \A d \in Dialects : Replies[d] \subseteq Seq(Events)

ASSUME RepliesAssumption ==
    /\ \A d \in Dialects : \A b \in Replies[d] :
          EndsLast(b) /\ \A i \in 1..Len(b) : b[i].kind \in Speaks[d]
    /\ \A b \in Replies["openai"] : OpensByIndex(b) /\ (Says(b, "error") \/ OpensWhole(b))
    /\ \A b \in Replies["anthropic"] :
          ClosesWhole(b) /\ ClosesInOrder(b) /\ (Says(b, "error") \/ ClosesAll(b))

VARIABLES
    phase,    \* "ask", "stream", or how the request ended
    provider, \* the client that is asked
    attempt,  \* attempt of send_with_retry
    asked,    \* requests each provider has received
    verdict,  \* history: how each provider that was given up failed
    surfaced, \* whose error stream() returned, 0 if none
    body,     \* what the provider that serves the request sends
    arrived,  \* halves of its events in buf
    parsed,   \* events taken out of buf
    parts,    \* pieces of each call's arguments received
    open,     \* calls begun and not handed over (pending_calls, blocks)
    closed,   \* calls complete and not handed over (tool_calls_out)
    texts,    \* pieces of text given to the agent
    handed,   \* tool calls given to the agent
    cut       \* history: the body ended before it was all sent

asking == <<provider, attempt, asked, verdict, surfaced>>
assembly == <<arrived, parsed, parts, open, closed>>
answer == <<texts, handed>>
vars == <<phase, asking, body, assembly, answer, cut>>

Init ==
    /\ phase = "ask"
    /\ provider = 1
    /\ attempt = 0
    /\ asked = [p \in Providers |-> 0]
    /\ verdict = [p \in Providers |-> "none"]
    /\ surfaced = 0
    /\ body = <<>>
    /\ arrived = 0 /\ parsed = 0
    /\ parts = [c \in Calls |-> 0]
    /\ open = {}
    /\ closed = <<>>
    /\ texts = 0
    /\ handed = <<>>
    /\ cut = FALSE

-----------------------------------------------------------------------------
(* Asking.                                                                 *)

\* every client is sent the agent's request, which names the agent's model
Ask ==
    /\ phase = "ask"
    /\ asked' = [asked EXCEPT ![provider] = @ + 1]

IsRetriable_NotRefused(v) == v # "refused"
IsRetriable(v) == v \in {"busy", "quoted", "echoed"}

(* FallbackLlmClient::stream: an error whose text looks retriable hands    *)
(* the request to the next client; any other, or the last, is returned.    *)
GiveUpOn(v) ==
    /\ verdict' = [verdict EXCEPT ![provider] = v]
    /\ IF IsRetriable(v) /\ provider < Len(Dialect)
       THEN /\ provider' = provider + 1
            /\ attempt' = 0
            /\ UNCHANGED <<phase, surfaced>>
       ELSE /\ phase' = "failed"
            /\ surfaced' = provider
            /\ UNCHANGED <<provider, attempt>>
    /\ UNCHANGED <<body, assembly, answer, cut>>

GoOn(a) ==
    /\ attempt' = a
    /\ UNCHANGED <<phase, provider, verdict, surfaced, body, assembly, answer, cut>>

Again == GoOn(attempt + 1)

(* 429 or 5xx: the budget decides.                                         *)
Busy ==
    /\ Ask
    /\ IF attempt + 1 < MaxAttempts THEN Again ELSE GiveUpOn("busy")

(* A transport error is retried too; its text never looks retriable.       *)
Unreachable ==
    /\ Ask
    /\ IF attempt + 1 < MaxAttempts THEN Again ELSE GiveUpOn("unreachable")

(* Any other status: no retry.  The text of the error holds the body, and  *)
(* a body that says "http 5" or "http 429" looks retriable.                *)
Refused ==
    /\ Ask
    /\ \E v \in {"refused", "quoted"} : GiveUpOn(v)

(* Headers that cannot be built, or no token: nothing is sent.  vertex.rs  *)
(* quotes what gcloud said when it gave no token, which may look retriable.*)
Misconfigured ==
    /\ phase = "ask"
    /\ attempt = 0
    /\ \/ GiveUpOn("misconfigured")
       \/ Dialect[provider] = "gemini" /\ GiveUpOn("echoed")
    /\ UNCHANGED asked

Served ==
    /\ Ask
    /\ phase' = "stream"
    /\ body' \in Replies[Dialect[provider]]
    /\ UNCHANGED <<provider, attempt, verdict, surfaced, assembly, answer, cut>>

-----------------------------------------------------------------------------
(* Receiving.                                                              *)
Here == Dialect[provider]
Streaming == phase = "stream" /\ Here # "bedrock"
HasEvent == 2 * (parsed + 1) <= arrived
\* the loop over chunks has been left
Finished == Here = "openai" /\ UpTo(body, parsed, {"done"}) # {}

Chunk_Unbuffered(n) ==
    /\ arrived' = arrived + n
    /\ parsed' = IF arrived % 2 = 1 THEN parsed + 1 ELSE parsed

Chunk(n) == arrived' = arrived + n /\ parsed' = parsed

(* A chunk of the body: any number of bytes, here of halves of events.     *)
Read ==
    /\ Streaming /\ ~HasEvent /\ ~Finished
    /\ \E n \in 1..(2 * Len(body) - arrived) : Chunk(n)
    /\ UNCHANGED <<phase, asking, body, parts, open, closed, answer, cut>>

\* what the client holds when it hands calls over; openai.rs keeps them by
\* index, and hands over what it has of each
Held == IF Here = "openai"
        THEN LET s == InOrder(open)
             IN  [i \in 1..Len(s) |-> [call |-> s[i], parts |-> parts[s[i]]]]
        ELSE [i \in 1..Len(closed) |-> [call |-> closed[i], parts |-> parts[closed[i]]]]

HandOver == handed' = handed \o Held

Ended(how) ==
    /\ phase' = how
    /\ UNCHANGED <<asking, body, assembly, texts>>

(* The next event in buf.  The agent stops reading at Done.                *)
Upcoming(k) == Streaming /\ HasEvent /\ body[parsed + 1].kind = k
Call == body[parsed + 1].call
Taken == parsed' = parsed + 1 /\ UNCHANGED <<phase, asking, body, arrived, cut>>

Text ==
    /\ Upcoming("text") /\ Taken
    /\ texts' = texts + 1
    /\ UNCHANGED <<parts, open, closed, handed>>

Open ==
    /\ Upcoming("open") /\ Taken
    /\ open' = open \cup {Call}
    /\ UNCHANGED <<parts, closed, answer>>

Part ==
    /\ Upcoming("part") /\ Taken
    /\ parts' = [parts EXCEPT ![Call] = @ + 1]
    /\ UNCHANGED <<open, closed, answer>>

(* content_block_stop of the anthropic dialect.                            *)
Close ==
    /\ Upcoming("close") /\ Taken
    /\ open' = open \ {Call}
    /\ closed' = Append(closed, Call)
    /\ UNCHANGED <<parts, answer>>

(* functionCall of the gemini dialect: a whole call.                       *)
WholeCall ==
    /\ Upcoming("call") /\ Taken
    /\ parts' = [parts EXCEPT ![Call] = Frags]
    /\ closed' = Append(closed, Call)
    /\ UNCHANGED <<open, answer>>

(* The reason a turn ended: the calls, then Done.                          *)
Finish ==
    /\ Upcoming("finish") /\ HandOver /\ Ended("ok")
    /\ UNCHANGED cut

(* [DONE] leaves the loop without Done; message_stop without a stop reason *)
(* is Done.                                                                *)
DoneMark ==
    /\ Upcoming("done")
    /\ IF Here = "openai"
       THEN Taken /\ UNCHANGED <<parts, open, closed, answer>>
       ELSE HandOver /\ Ended("ok") /\ UNCHANGED cut

(* An error in a body ends it, except that openai.rs sees a chunk without  *)
(* choices and skips it.                                                   *)
ErrorEvent ==
    /\ Upcoming("error")
    /\ IF Here = "openai"
       THEN Taken /\ UNCHANGED <<parts, open, closed, answer>>
       ELSE Ended("broken") /\ UNCHANGED <<handed, cut>>

Silent_NoBreak == Streaming /\ ~HasEvent /\ Finished /\ UNCHANGED vars

(* The chunks are left after [DONE]: the stream ends, nothing is said.     *)
Silent ==
    /\ Streaming /\ ~HasEvent /\ Finished
    /\ Ended("silent")
    /\ UNCHANGED <<handed, cut>>

(* The body ends, perhaps early: what there is of the calls, then Done.    *)
Eof ==
    /\ Streaming /\ ~HasEvent /\ ~Finished
    /\ HandOver /\ Ended("ok")
    /\ cut' = (arrived < 2 * Len(body))

(* A transport error in the body, or the client's timeout.                 *)
Breaks ==
    /\ Streaming /\ ~HasEvent /\ ~Finished
    /\ Ended("broken")
    /\ UNCHANGED <<handed, cut>>

(* bedrock.rs takes the body as a whole, before stream() returns.          *)
WholeBody ==
    /\ phase = "stream" /\ Here = "bedrock"
    /\ texts' = TextIn(body)
    /\ handed' = CallsIn(body)
    /\ phase' = "ok"
    /\ UNCHANGED <<asking, body, assembly, cut>>

BodyFails ==
    /\ phase = "stream" /\ Here = "bedrock"
    /\ GiveUpOn("body")
    /\ UNCHANGED asked

-----------------------------------------------------------------------------
Asking == Busy \/ Unreachable \/ Refused \/ Misconfigured \/ Served
Parsing == Text \/ Open \/ Part \/ Close \/ WholeCall \/ Finish \/ DoneMark \/ ErrorEvent
Receiving == Read \/ Parsing \/ Silent \/ Eof \/ Breaks \/ WholeBody \/ BodyFails
Over == phase \notin {"ask", "stream"}
Rest == Over /\ UNCHANGED vars

Next == Asking \/ Receiving \/ Rest

(* Every attempt is answered or times out (reqwest's timeouts), and so     *)
(* does a body.                                                            *)
Spec == Init /\ [][Next]_vars /\ WF_vars(Asking \/ Receiving)

-----------------------------------------------------------------------------
TypeOK ==
    /\ phase \in {"ask", "stream", "failed", "ok", "silent", "broken"}
    /\ provider \in Providers
    /\ attempt \in 0..(MaxAttempts - 1)
    /\ asked \in [Providers -> 0..MaxAttempts]
    /\ verdict \in [Providers -> {"none", "busy", "unreachable", "refused", "quoted",
                                  "misconfigured", "echoed", "body"}]
    /\ surfaced \in Providers \cup {0}
    /\ body \in Seq(Events)
    /\ arrived \in 0..(2 * Len(body)) /\ 2 * parsed <= arrived /\ parsed \in Nat
    /\ parts \in [Calls -> 0..Frags]
    /\ open \subseteq Calls /\ closed \in Seq(Calls)
    /\ texts \in Nat
    /\ handed \in Seq([call : Calls, parts : 0..Frags])
    /\ cut \in BOOLEAN

\* its attempts are used up on 429 or 5xx
Exhausted(p) == verdict[p] = "busy" /\ asked[p] = MaxAttempts
\* the text of its error is taken for that: it quotes a refusal the provider
\* sent, or what gcloud said to a vertex client, which has sent nothing
LooksExhausted(p) ==
    \/ verdict[p] = "quoted" /\ asked[p] > 0
    \/ verdict[p] = "echoed" /\ asked[p] = 0 /\ Dialect[p] = "gemini"

(* The request passes a provider by only when its attempts are used up, or *)
(* when is_retriable takes the text it quotes in its error for that; an    *)
(* error of any other kind is returned at once, no provider behind is      *)
(* asked then, and what is returned is the error of the last one asked.    *)
FallThroughIsEarned ==
    /\ \A p \in Providers : p < provider => Exhausted(p) \/ LooksExhausted(p)
    /\ \A p \in Providers : p > provider => asked[p] = 0
    /\ phase = "failed" =>
          /\ surfaced = provider
          /\ IsRetriable(verdict[provider]) => provider = Len(Dialect)

(* What fallback.rs says of itself: fallthrough only after the provider's  *)
(* own retry budget is used up, and a 4xx surfaces at once.  It does not   *)
(* hold: a refusal whose body reads "http 5" is handed on.                 *)
OnlyExhaustionFallsThrough == \A p \in Providers : p < provider => Exhausted(p)

(* However a body is cut into chunks, the agent is given all of its text   *)
(* and all of its calls, whole and in order, when the turn ends as the     *)
(* provider meant it to: with a finish reason or at the end of the body,   *)
(* and no error in between.                                                *)
WholeTurn ==
    phase = "ok" /\ ~cut /\ ~Says(body, "error") => texts = TextIn(body) /\ handed = CallsIn(body)

(* A call reaches the agent with half its arguments only when a body of    *)
(* the openai dialect ends before its finish reason or in an error; the    *)
(* other clients hold a call back until it is complete.  A stream that     *)
(* breaks hands over no call.                                              *)
HalfCallsComeFromCutBodies ==
    /\ \A i \in 1..Len(handed) :
          handed[i].parts < Frags => Here = "openai" /\ (cut \/ Says(body, "error"))
    /\ phase = "broken" => handed = <<>>

(* A stream that ends in silence has lost its calls only if the provider   *)
(* sent [DONE] without a finish reason.                                    *)
SilenceIsTheProviders ==
    phase = "silent" => ~Says(body, "finish") /\ texts = TextIn(body)

(* However a body is cut, ended or broken, the agent is given what was     *)
(* sent, and where it is not, the body is to blame: the three parts above. *)
BodiesAreReadWhole == WholeTurn /\ HalfCallsComeFromCutBodies /\ SilenceIsTheProviders

(* The request ends, whatever the providers do.                            *)
RequestEnds == <>Over
=============================================================================
