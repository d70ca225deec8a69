--------------------------- MODULE MCChatSession ---------------------------
(* Small instance of ChatSession and the clients its requests go through:  *)
(* turns of no, one or two calls.                                          *)
EXTENDS ChatWire

CONSTANTS c1, c2, shell

First  == [id |-> c1, tool |-> shell]
Second == [id |-> c2, tool |-> shell]
MCCalls == {First, Second}
MCCallLists == {<<>>, <<First>>, <<First, Second>>}
MCHistories == {<<>>}
=============================================================================
