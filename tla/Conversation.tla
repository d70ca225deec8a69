---------------------------- MODULE Conversation ----------------------------
(***************************************************************************)
(* The data every other module talks about: chat messages and the rule a   *)
(* chat-completions provider imposes on a history (merlion-core            *)
(* message.rs).  A message keeps what the rule can tell apart: its role,   *)
(* the tool calls an assistant turn carries, the call a tool turn answers  *)
(* and a class of content instead of the text.                             *)
(***************************************************************************)
EXTENDS Sequences, Integers

CONSTANTS
    Calls,      \* tool calls the model can make: records with fields id and tool
    NoId,       \* the tool_call_id of a message that answers no call
    CallLists,  \* the lists of calls a turn of the model may carry
    Histories   \* the histories a conversation may start from

Ids == {c.id : c \in Calls}

Contents == {"text", "empty", "none", "result", "truncated", "rejected", "unknown"}

Message == [role    : {"system", "user", "assistant", "tool"},
            content : Contents,
            calls   : Seq(Calls),
            callId  : Ids \cup {NoId}]

SystemMessage == [role |-> "system", content |-> "text", calls |-> <<>>, callId |-> NoId]

UserMessage == [role |-> "user", content |-> "text", calls |-> <<>>, callId |-> NoId]

(* agent.rs builds the assistant turn in three ways: text only (possibly   *)
(* the empty string), calls only (no content), or both.                    *)
AssistantMessage(hasText, cs) ==
    [role    |-> "assistant",
     content |-> IF hasText THEN "text" ELSE IF cs = <<>> THEN "empty" ELSE "none",
     calls   |-> cs,
     callId  |-> NoId]

ToolResponse(call, content) ==
    [role |-> "tool", content |-> content, calls |-> <<>>, callId |-> call.id]

-----------------------------------------------------------------------------
(* The k-th message after position i of ms answers the k-th call of ms[i]. *)
Answered(ms, i, k) ==
    /\ ms[i + k].role = "tool"
    /\ ms[i + k].callId = ms[i].calls[k].id

(* The assistant turns among the first n messages have all their calls     *)
(* answered, in order and at once, by messages among the first n.          *)
CallsAnswered(ms, n) ==
    \A i \in 1..n :
        ms[i].role = "assistant" =>
            /\ i + Len(ms[i].calls) <= n
            /\ \A k \in 1..Len(ms[i].calls) : Answered(ms, i, k)

(* A tool message among the first n answers a call made before it.         *)
NoOrphanAnswer(ms, n) ==
    \A j \in 1..n :
        ms[j].role = "tool" =>
            \E i \in 1..(j - 1) :
                /\ ms[i].role = "assistant"
                /\ j - i <= Len(ms[i].calls)
                /\ Answered(ms, i, j - i)

(* A history the provider accepts as the messages of a request.            *)
Complete(ms) == CallsAnswered(ms, Len(ms)) /\ NoOrphanAnswer(ms, Len(ms))

ASSUME CallsAssumption == CallLists \subseteq Seq(Calls) /\ <<>> \in CallLists
ASSUME HistoriesAssumption ==
    /\ Histories \subseteq Seq(Message)
    /\ \A h \in Histories : Complete(h)
=============================================================================
