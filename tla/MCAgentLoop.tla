---------------------------- MODULE MCAgentLoop ----------------------------
(* Small instance of AgentLoop: one registered tool and one the registry   *)
(* does not know, turns of up to two calls (twice the same id included),   *)
(* a fresh history, one that already holds an answered call, and one with  *)
(* an empty turn and a run that was cut off.                               *)
EXTENDS AgentWire

CONSTANTS c1, c2, shell, ghost

Known   == [id |-> c1, tool |-> shell]
Unknown == [id |-> c2, tool |-> ghost]
MCCalls == {Known, Unknown}
MCCallLists == {<<>>, <<Known>>, <<Known, Known>>, <<Known, Unknown>>}
MCHistories == {
    <<SystemMessage, UserMessage>>,
    <<UserMessage, AssistantMessage(FALSE, <<Unknown>>),
      ToolResponse(Unknown, "unknown"), AssistantMessage(TRUE, <<>>), UserMessage>>,
    <<UserMessage, AssistantMessage(FALSE, <<>>), UserMessage, UserMessage>>}
=============================================================================
