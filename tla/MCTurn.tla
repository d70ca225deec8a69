------------------------------- MODULE MCTurn -------------------------------
(* The agent loop, and the tools its calls run on the workspace. To the    *)
(* loop a tool is an answer, and to the tools a run of the loop is who     *)
(* calls: one run checks both models, and a behaviour is of one of them,   *)
(* before anything is prompted or after a request that failed.             *)
EXTENDS MCAgentLoop, MCWorkspace

VARIABLE subject   \* whose behaviour it is

TurnInit ==
    /\ Init /\ WorkspaceInit
    /\ \/ subject = "loop" /\ file[Skill] = Missing
       \/ subject = "tools" /\ messages = <<SystemMessage, UserMessage>>

TurnNext ==
    /\ UNCHANGED subject
    /\ \/ subject = "loop" /\ Next /\ UNCHANGED workspaceVars
       \/ subject = "tools" /\ Request /\ pc' = "llm_err" /\ UNCHANGED workspaceVars
       \/ subject = "tools" /\ pc = "llm_err" /\ UNCHANGED vars
            \* and there may be no further prompt
            /\ (WorkspaceNext \/ UNCHANGED workspaceVars)

(* The fairness of the loop; the tools owe nothing.                        *)
TurnSpec ==
    /\ TurnInit /\ [][TurnNext]_<<subject, vars, workspaceVars>>
    /\ WF_vars(Run) /\ WF_vars(StreamFails \/ StreamEnds) /\ WF_vars(Receive)
=============================================================================
