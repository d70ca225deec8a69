----------------------------- MODULE AgentWire -----------------------------
(* The agent loop and the provider clients it sends its history to. What   *)
(* becomes of the turns of a longer chat is in ChatWire.                   *)
EXTENDS AgentLoop, Wire

(* What a client makes of the history of a request keeps its calls and     *)
(* results together: the results of a turn's calls stand in the turn right *)
(* after it, in the order of the calls and each under the key the provider *)
(* matches it by, and nothing of the history is lost.                      *)
RequestsAreFaithful == pc = "llm" => Faithful(messages)
=============================================================================
