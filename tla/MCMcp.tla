-------------------------------- MODULE MCMcp --------------------------------
(* Both sides of MCP: the transport over stdio at the grain of its lock    *)
(* and its pipe, and the servers of the agent and the one over HTTP. They  *)
(* are two views of one client, so one run checks both: a behaviour is of  *)
(* one of them, while nothing moves in the other.                          *)
EXTENDS MCMcpStdio, MCMcpHttp

VARIABLE subject   \* whose behaviour it is

McpInit ==
    /\ Init /\ HttpInit
    /\ \/ subject = "http"
       \/ subject = "stdio" /\ program = "test" /\ current = 1

McpNext ==
    /\ UNCHANGED subject
    /\ \/ subject = "stdio" /\ Next /\ UNCHANGED httpVars
       \/ subject = "http" /\ HttpNext /\ UNCHANGED vars
       \* every call may have returned
       \/ subject = "http" /\ UNCHANGED <<vars, httpVars>>

(* The fairness of each, for its own behaviours.                           *)
McpSpec ==
    /\ McpInit /\ [][McpNext]_<<subject, vars, httpVars>>
    /\ \A c \in Callers : WF_vars(Caller(c))
    /\ WF_vars(ServerReads)
    /\ WF_httpVars(subject = "http" /\ LoadStep)
    /\ WF_httpVars(SkipStep) /\ WF_httpVars(LineTaken)
    /\ \A a \in Agents : WF_httpVars(Polled(a))
=============================================================================
