---------------------------- MODULE ChatProtocol ----------------------------
(***************************************************************************)
(* What a tool-calling conversation promises to the provider, with nothing *)
(* about streams, approvals, events or budgets: the model is asked again   *)
(* only when every call of its last turn has been answered, and answers    *)
(* are appended one by one in the order of the calls.                      *)
(***************************************************************************)
EXTENDS Conversation

VARIABLES
    history,    \* the messages so far
    open,       \* calls of the last turn that have no answer yet
    over        \* no further message will be added

cpVars == <<history, open, over>>

CPInit ==
    /\ history \in Histories
    /\ open = <<>>
    /\ over = FALSE

(* The model is asked and replies; a turn without calls ends the exchange. *)
Turn ==
    /\ ~over
    /\ open = <<>>
    /\ \E cs \in CallLists, hasText \in BOOLEAN :
        /\ history' = Append(history, AssistantMessage(hasText, cs))
        /\ open' = cs
        /\ over' = (cs = <<>>)

(* The first unanswered call gets its answer.                              *)
Answer ==
    /\ ~over
    /\ open # <<>>
    /\ \E content \in Contents :
        history' = Append(history, ToolResponse(Head(open), content))
    /\ open' = Tail(open)
    /\ over' = FALSE

(* The exchange is given up: the model failed, the budget is spent, or the *)
(* process died.                                                           *)
Stop ==
    /\ ~over
    /\ over' = TRUE
    /\ UNCHANGED <<history, open>>

CPNext == Turn \/ Answer \/ Stop

CPSpec == CPInit /\ [][CPNext]_cpVars

(* The contract itself: whenever nothing is open the history may be sent.  *)
SendableWhenClosed == open = <<>> => Complete(history)
=============================================================================
