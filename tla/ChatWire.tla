------------------------------ MODULE ChatWire ------------------------------
(* The conversations of a chat and the provider clients they are sent to.  *)
EXTENDS ChatSession, Wire

(* "Gemini also requires alternating user/model turns", "the same          *)
(* collapsing rule as Anthropic" (convert_messages of gemini.rs): no two   *)
(* turns in a row of a request have the same role, if nothing was cut off  *)
(* between a call and its answer.  Only tool messages are collapsed: a     *)
(* user who goes on after a run without a reply makes two user turns.      *)
Alternating(turns) == \A i \in 2..Len(turns) : turns[i].role # turns[i - 1].role
TurnsAlternate ==
    Asking /\ sid \notin cut =>
        \A turns \in {AnthropicTurns(snapshot), BedrockTurns(snapshot),
                      GeminiTurns(snapshot), VertexTurns(snapshot)} : Alternating(turns)
=============================================================================
