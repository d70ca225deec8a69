--------------------------- MODULE MCDispatcher ---------------------------
(* Small instance of Dispatcher: an account on the allowlist, with a       *)
(* session of its own and a key to a CLI session, and one that is not.     *)
EXTENDS Dispatcher

CONSTANTS c1, shell, ann, eve, cli, k1

TheCall == [id |-> c1, tool |-> shell]
MCCalls == {TheCall}
MCCallLists == {<<>>, <<TheCall>>}
MCHistories == {<<>>}
Says(u, cmd) == [user |-> u, cmd |-> cmd, key |-> NoKey]
Joins(u) == [user |-> u, cmd |-> "join", key |-> k1]
MCTraffic == {Says(ann, "chat"), Says(ann, "new"), Says(ann, "leave"), Joins(ann),
              Says(eve, "chat")}
MCInitialKeys == [k \in {k1} |-> cli]
MCAgentRuns == {
    <<AssistantMessage(FALSE, <<TheCall>>), ToolResponse(TheCall, "result"),
      AssistantMessage(TRUE, <<>>)>>}
=============================================================================
