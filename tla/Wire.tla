-------------------------------- MODULE Wire --------------------------------
(***************************************************************************)
(* What the provider clients make of a history: the body of a request.     *)
(* OpenAI's wire has the messages as they are; Anthropic's and Bedrock's   *)
(* (one conversion, kept twice) and Gemini's and Vertex's (likewise) have  *)
(* turns of blocks, with the system messages apart and the results of      *)
(* consecutive tool messages in one user turn. A block keeps its type, its *)
(* class of content and what it is matched by: the id of its call, or the  *)
(* name of its tool.                                                       *)
(***************************************************************************)
EXTENDS Conversation, SequencesExt

(* What message.rs makes: a system prompt is a text, a turn has text or    *)
(* none.  A tool message carries the name of its tool, here read off its   *)
(* id, so that an id goes with one name.                                   *)
WellMade(m) ==
    /\ m.role = "system" => m.content = "text"
    /\ m.role = "assistant" => m.content \in {"text", "empty", "none"}
ASSUME MessagesAssumption ==
    /\ \A h \in Histories : \A i \in 1..Len(h) : WellMade(h[i])
    /\ \A c, d \in Calls : c.id = d.id => c.tool = d.tool

HasContent(m) == m.content # "none"
Tool(id) == (CHOOSE c \in Calls : c.id = id).tool
(* By role of the model's turns: "model" matches by names, others by ids.  *)
Key(role, c) == IF role = "model" THEN c.tool ELSE c.id

Block(type, content, key) == [type |-> type, content |-> content, key |-> key]
Turn(role, blocks) == [role |-> role, blocks |-> blocks]
Push(acc, role, blocks) ==
    IF blocks = <<>> THEN acc ELSE [acc EXCEPT !.out = Append(@, Turn(role, blocks))]
(* flush_tool_results, flush_responses                                     *)
Flushed_Keeps(acc) == Push(acc, "user", acc.pending)
Flushed(acc) == [Push(acc, "user", acc.pending) EXCEPT !.pending = <<>>]
NoTurns == [out |-> <<>>, pending |-> <<>>]

UserBlocks(m) == IF HasContent(m) THEN <<Block("text", m.content, NoId)>> ELSE <<>>
AssistantBlocks(m, role) ==
    (IF m.content \in {"none", "empty"} THEN <<>> ELSE <<Block("text", m.content, NoId)>>)
        \o [k \in DOMAIN m.calls |-> Block("call", "none", Key(role, m.calls[k]))]
(* Anthropic and Bedrock: a result carries the id of its call.             *)
ToolResult(m) == Block("result", m.content, m.callId)
(* Gemini and Vertex: a response carries the name of its tool.             *)
FunctionResponse(m) == Block("result", m.content, Tool(m.callId))

(* One message more.                                                       *)
Converted(acc, m, role) ==
    CASE m.role = "system" -> acc
      [] m.role = "user" -> Push(Flushed(acc), "user", UserBlocks(m))
      [] m.role = "assistant" -> Push(Flushed(acc), role, AssistantBlocks(m, role))
      [] m.role = "tool" -> [acc EXCEPT !.pending = Append(@,
           IF role = "model" THEN FunctionResponse(m) ELSE ToolResult(m))]
Conversion(ms, role) ==
    LET acc[n \in 0..Len(ms)] ==
          IF n = 0 THEN NoTurns ELSE Converted(acc[n - 1], ms[n], role)
    IN  acc
Turns(ms, role) == Flushed(Conversion(ms, role)[Len(ms)]).out
SystemParts(ms) == {i \in DOMAIN ms : ms[i].role = "system" /\ HasContent(ms[i])}
Body(ms, turns) == [system |-> SystemParts(ms) # {}, turns |-> turns]

AnthropicTurns(ms) == Turns(ms, "assistant")
AnthropicBody(ms) == Body(ms, AnthropicTurns(ms))
BedrockTurns(ms) == Turns(ms, "assistant")
BedrockBody(ms) == Body(ms, BedrockTurns(ms))

GeminiTurns(ms) == Turns(ms, "model")
GeminiBody(ms) == Body(ms, GeminiTurns(ms))
VertexTurns(ms) == Turns(ms, "model")
VertexBody(ms) == Body(ms, VertexTurns(ms))

(* OpenAI: one entry per message, and a null content where only calls are. *)
OpenAiMessage(m) ==
    [m EXCEPT !.content = IF ~HasContent(m) /\ m.role = "assistant" /\ m.calls # <<>> THEN "null" ELSE @]
OpenAiBody(ms) == [i \in DOMAIN ms |-> OpenAiMessage(ms[i])]

-----------------------------------------------------------------------------
(* Where a turn of the model calls tools, and where a turn has results.    *)
CallsAt(t, role) == {k \in DOMAIN t.blocks : t.role = role /\ t.blocks[k].type = "call"}
ResultsAt(t) == {k \in DOMAIN t.blocks : t.blocks[k].type = "result"}
(* The results of turn u are those of the calls of turn t, in their order. *)
Returns(u, t, role) ==
    \E f \in Bijection(CallsAt(t, role), ResultsAt(u)) :
        \A j, k \in CallsAt(t, role) :
            /\ u.blocks[f[j]].key = t.blocks[j].key
            /\ j < k => f[j] < f[k]
(* So it is of any two turns in a row; the first has no results, the last  *)
(* no calls.                                                               *)
TurnAt(turns, i) == IF i \in DOMAIN turns THEN turns[i] ELSE Turn("user", <<>>)
ResultsFollow(turns, role) ==
    \A i \in 0..Len(turns) : Returns(TurnAt(turns, i + 1), TurnAt(turns, i), role)
(* Every block of the history, in its order, and no turn without a block.  *)
Blocks(m) ==
    CASE m.role = "system" -> <<>>
      [] m.role = "tool" -> <<"result">>
      [] m.role = "user" -> IF HasContent(m) THEN <<"text">> ELSE <<>>
      [] OTHER -> (IF m.content = "text" THEN <<"text">> ELSE <<>>) \o [k \in DOMAIN m.calls |-> "call"]
Types(blocks) == [k \in DOMAIN blocks |-> blocks[k].type]
NothingLost(turns, ms) ==
    /\ FlattenSeq([i \in DOMAIN turns |-> Types(turns[i].blocks)])
          = FlattenSeq([i \in DOMAIN ms |-> Blocks(ms[i])])
    /\ \A i \in DOMAIN turns : turns[i].blocks # <<>>
SystemApart(body, ms) == body.system <=> \E i \in DOMAIN ms : ms[i].role = "system"
Follows(body, ms, role) ==
    ResultsFollow(body.turns, role) /\ NothingLost(body.turns, ms) /\ SystemApart(body, ms)
Faithful(ms) ==
    /\ \A body \in {AnthropicBody(ms), BedrockBody(ms)} : Follows(body, ms, "assistant")
    /\ \A body \in {GeminiBody(ms), VertexBody(ms)} : Follows(body, ms, "model")
    /\ Complete(OpenAiBody(ms))
=============================================================================
