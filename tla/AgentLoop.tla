----------------------------- MODULE AgentLoop -----------------------------
(***************************************************************************)
(* One call of Agent::run (merlion-core agent.rs): the assistant <-> tool  *)
(* loop with its provider stream, its approver, its tools and the bounded  *)
(* channel of events a renderer drains.  pc names the await the task is    *)
(* parked at; what runs between two awaits is one step.                    *)
(***************************************************************************)
EXTENDS Conversation, FiniteSets

CONSTANTS
    Registered,     \* names of the tools in the ToolRegistry
    MaxIterations,  \* AgentOptions.max_iterations
    Truncates,      \* max_tool_result_chars > 0
    MaxChunks,      \* bound: deltas and usage reports of one stream
    ChanCap         \* capacity of the event channel

ASSUME BoundsAssumption ==
    /\ MaxIterations \in Nat
    /\ MaxChunks \in Nat
    /\ ChanCap \in Nat \ {0}
    /\ Truncates \in BOOLEAN

VARIABLES
    pc,         \* the await the task is parked at, or how run ended
    messages,   \* the caller's Vec<Message>
    iter,       \* round-trips finished
    chunks,     \* deltas and usage reports seen in this stream
    hasText,    \* text_buf is not empty
    calls,      \* tool_calls of the current turn
    next,       \* the call being dispatched
    decision,   \* the approver's last ApprovalDecision
    outcome,    \* what the current call produced, not yet in messages
    chan,       \* events sent and not received
    rxOpen,     \* the receiver has not been dropped
    seen,       \* turns and results the receiver has been shown
    ledger,     \* history of approvals and tool runs, by answer position
    base        \* length of the history run was called with

stream == <<chunks, hasText, calls>>
consumer == <<chan, rxOpen, seen>>
vars == <<pc, messages, iter, stream, next, decision, outcome, consumer, ledger, base>>

Ended == {"ok", "llm_err", "budget", "panicked"}
\* awaits at which no call of the last turn is pending
Quiet == {"llm", "stream", "exhausted", "ok", "llm_err", "budget"}

\* awaits inside the loop over the calls of a turn
Dispatching == {"approve", "start", "dispatch", "report"}

Call == calls[next]
\* the position in messages at which the answer to Call will stand
Slot == Len(messages) + 1

Event(type, body) == [type |-> type, body |-> body]
Events == [type : {"turn", "finish"}, body : Message]
          \cup [type : {"start"}, body : Calls]
          \cup [type : {"chunk", "exhausted", "done"}, body : {<<>>}]
\* the events that carry a message of the history
Carries(e) == e.type \in {"turn", "finish"}

CanSend_OnlyIfOpen == rxOpen /\ Len(chan) < ChanCap

(* let _ = events.send(..).await: waits for room, and a dropped receiver   *)
(* makes it return at once with an error that is ignored.                  *)
CanSend == rxOpen => Len(chan) < ChanCap
Send(type, body) ==
    /\ CanSend
    /\ chan' = IF rxOpen THEN Append(chan, Event(type, body)) ELSE chan
    /\ UNCHANGED <<rxOpen, seen>>

(* The head of the for loop over 0..max_iterations.                        *)
LoopHead(i) == IF i < MaxIterations THEN "llm" ELSE "exhausted"

NoBody == <<>>

Init ==
    /\ messages \in Histories
    /\ base = Len(messages)
    /\ iter = 0
    /\ pc = LoopHead(0)
    /\ chunks = 0
    /\ hasText = FALSE
    /\ calls = <<>>
    /\ next = 1
    /\ decision = "deny"
    /\ outcome = "none"
    /\ chan = <<>>
    /\ rxOpen = TRUE
    /\ seen = <<>>
    /\ ledger = <<>>

-----------------------------------------------------------------------------
(* self.llm.stream(req).await?                                             *)
Request ==
    /\ pc = "llm"
    /\ \/ pc' = "stream"
       \/ pc' = "llm_err"
    /\ chunks' = 0
    /\ hasText' = FALSE
    /\ calls' = <<>>
    /\ UNCHANGED <<messages, iter, next, decision, outcome, consumer, ledger, base>>

(* A Delta grows text_buf and is forwarded, as is a Usage.                 *)
StreamChunk ==
    /\ pc = "stream"
    /\ chunks < MaxChunks
    /\ Send("chunk", NoBody)
    /\ chunks' = chunks + 1
    /\ \E isDelta \in BOOLEAN : hasText' = (hasText \/ isDelta)
    /\ UNCHANGED <<pc, messages, iter, calls, next, decision, outcome, ledger, base>>

(* ToolCalls(calls): the last list of the stream wins.                     *)
StreamToolCalls ==
    /\ pc = "stream"
    /\ \E cs \in CallLists : calls' = cs
    /\ UNCHANGED <<pc, messages, iter, chunks, hasText, next, decision, outcome,
                   consumer, ledger, base>>

(* ev? on a broken stream: text_buf and tool_calls are lost.               *)
StreamFails ==
    /\ pc = "stream"
    /\ pc' = "llm_err"
    /\ UNCHANGED <<messages, iter, stream, next, decision, outcome, consumer, ledger, base>>

(* Done, or the stream simply ends: the turn is pushed before it is shown. *)
StreamEnds ==
    /\ pc = "stream"
    /\ messages' = Append(messages, AssistantMessage(hasText, calls))
    /\ pc' = "announce"
    /\ next' = 1
    /\ UNCHANGED <<iter, stream, decision, outcome, consumer, ledger, base>>

(* events.send(AssistantMessage); a turn without calls is the last one.    *)
Announce ==
    /\ pc = "announce"
    /\ Send("turn", messages[Len(messages)])
    /\ pc' = IF calls = <<>> THEN "done" ELSE "approve"
    /\ UNCHANGED <<messages, iter, stream, next, decision, outcome, ledger, base>>

(* events.send(Done); return Ok(())                                        *)
Finish ==
    /\ pc = "done"
    /\ Send("done", NoBody)
    /\ pc' = "ok"
    /\ UNCHANGED <<messages, iter, stream, next, decision, outcome, ledger, base>>

-----------------------------------------------------------------------------
Note(what) == [act |-> what, call |-> Call, slot |-> Slot]

Approve_Stale ==
    /\ pc = "approve"
    /\ \E d \in {"allow", "deny"} :
        /\ decision' = IF next = 1 THEN d ELSE decision
        /\ ledger' = Append(ledger, Note(d))
    /\ pc' = "start"
    /\ UNCHANGED <<messages, iter, stream, next, outcome, consumer, base>>

(* self.approver.approve(name, arguments).await                            *)
Approve ==
    /\ pc = "approve"
    /\ \E d \in {"allow", "deny"} :
        /\ decision' = d
        /\ ledger' = Append(ledger, Note(d))
    /\ pc' = "start"
    /\ UNCHANGED <<messages, iter, stream, next, outcome, consumer, base>>

(* events.send(ToolCallStart), after the approval                          *)
Start ==
    /\ pc = "start"
    /\ Send("start", Call)
    /\ pc' = "dispatch"
    /\ UNCHANGED <<messages, iter, stream, next, decision, outcome, ledger, base>>

(* A tool's content against the cap: it fits, it is over and byte          *)
(* max_tool_result_chars starts a character, or it is over and that byte   *)
(* is inside one: String::truncate then panics.                            *)
Sizes == {"fits", "over", "over_inside_char"}
Capped(size) == IF Truncates /\ size = "over" THEN "truncated" ELSE "result"

(* match decision: only an allowed call of a registered tool runs.         *)
Dispatch ==
    /\ pc = "dispatch"
    /\ \/ /\ decision = "deny"
          /\ outcome' = "rejected"
          /\ pc' = "report"
          /\ ledger' = ledger
       \/ /\ decision = "allow"
          /\ Call.tool \notin Registered
          /\ outcome' = "unknown"
          /\ pc' = "report"
          /\ ledger' = ledger
       \/ /\ decision = "allow"
          /\ Call.tool \in Registered
          /\ ledger' = Append(ledger, Note("run"))
          /\ \E size \in Sizes :
              IF Truncates /\ size = "over_inside_char"
              THEN pc' = "panicked" /\ outcome' = outcome
              ELSE pc' = "report" /\ outcome' = Capped(size)
    /\ UNCHANGED <<messages, iter, stream, next, decision, consumer, base>>

AdvanceDispatch ==
    /\ next' = next + 1
    /\ IF next < Len(calls)
       THEN pc' = "approve" /\ iter' = iter
       ELSE pc' = LoopHead(iter + 1) /\ iter' = iter + 1

Report_DropRejected ==
    /\ pc = "report"
    /\ LET answer == ToolResponse(Call, outcome)
       IN  /\ Send("finish", answer)
           /\ messages' = IF outcome = "rejected" THEN messages ELSE Append(messages, answer)
    /\ AdvanceDispatch
    /\ UNCHANGED <<stream, decision, outcome, ledger, base>>

Report_ShowRaw ==
    /\ pc = "report"
    /\ Send("finish", ToolResponse(Call, IF outcome = "truncated" THEN "result" ELSE outcome))
    /\ messages' = Append(messages, ToolResponse(Call, outcome))
    /\ AdvanceDispatch
    /\ UNCHANGED <<stream, decision, outcome, ledger, base>>

Report_StopAtRejected ==
    /\ pc = "report"
    /\ LET answer == ToolResponse(Call, outcome)
       IN  Send("finish", answer) /\ messages' = Append(messages, answer)
    /\ next' = next + 1
    /\ IF next < Len(calls) /\ outcome # "rejected"
       THEN pc' = "approve" /\ iter' = iter
       ELSE pc' = LoopHead(iter + 1) /\ iter' = iter + 1
    /\ UNCHANGED <<stream, decision, outcome, ledger, base>>

(* events.send(ToolCallFinish), then the answer is pushed; after the last  *)
(* call the for loop over round-trips advances.                            *)
Report ==
    /\ pc = "report"
    /\ LET answer == ToolResponse(Call, outcome)
       IN  Send("finish", answer) /\ messages' = Append(messages, answer)
    /\ AdvanceDispatch
    /\ UNCHANGED <<stream, decision, outcome, ledger, base>>

(* events.send(IterationBudgetExhausted); Err(BudgetExhausted)             *)
GiveUp ==
    /\ pc = "exhausted"
    /\ Send("exhausted", NoBody)
    /\ pc' = "budget"
    /\ UNCHANGED <<messages, iter, stream, next, decision, outcome, ledger, base>>

-----------------------------------------------------------------------------
(* The renderer: rx.recv() until the channel closes, or it goes away.      *)
Receive ==
    /\ rxOpen
    /\ chan # <<>>
    /\ seen' = IF Carries(Head(chan)) THEN Append(seen, Head(chan).body) ELSE seen
    /\ chan' = Tail(chan)
    /\ UNCHANGED <<pc, messages, iter, stream, next, decision, outcome, rxOpen, ledger, base>>

DropReceiver ==
    /\ rxOpen
    /\ rxOpen' = FALSE
    /\ chan' = <<>>
    /\ UNCHANGED <<pc, messages, iter, stream, next, decision, outcome, seen, ledger, base>>

(* run has returned and its Sender is gone.                                *)
Returned == pc \in Ended /\ chan = <<>> /\ UNCHANGED vars

Run == \/ Request \/ StreamChunk \/ StreamToolCalls \/ StreamFails \/ StreamEnds
       \/ Announce \/ Finish \/ Approve \/ Start \/ Dispatch \/ Report \/ GiveUp

Next == Run \/ Receive \/ DropReceiver \/ Returned

(* The provider ends its stream (StreamChunk is bounded, StreamToolCalls   *)
(* is not forever preferred), the approver and the tool answer, and the    *)
(* renderer keeps receiving: all of them are polled by the same runtime.   *)
Spec == /\ Init /\ [][Next]_vars
        /\ WF_vars(Run)
        /\ WF_vars(StreamFails \/ StreamEnds)
        /\ WF_vars(Receive)
-----------------------------------------------------------------------------
Decisions == {"allow", "deny"}
Entry == [act : Decisions \cup {"run"}, call : Calls, slot : Nat]

(* Type invariant of the run, its channel and its ledger.                  *)
TypeOK ==
    /\ pc \in Ended \cup {"llm", "stream", "announce", "done", "approve", "start",
                         "dispatch", "report", "exhausted"}
    /\ messages \in Seq(Message)
    /\ iter \in 0..MaxIterations
    /\ chunks \in 0..MaxChunks
    /\ hasText \in BOOLEAN
    /\ calls \in Seq(Calls)
    /\ next \in Nat \ {0}
    /\ pc \in Dispatching => next <= Len(calls)
    /\ decision \in Decisions
    /\ outcome \in Contents
    /\ chan \in Seq(Events)
    /\ Len(chan) <= ChanCap
    /\ rxOpen \in BOOLEAN
    /\ seen \in Seq(Message)
    /\ ledger \in Seq(Entry)
    /\ base \in 0..Len(messages)

(* The provider contract: whenever the model is about to be asked, and     *)
(* whenever run returns (also with an error), every call in the caller's   *)
(* history is answered in order and no answer lacks its call.              *)
HistoryComplete == pc \in Quiet => Complete(messages)

(* The approval gate: a tool runs only right after its own call was        *)
(* allowed, whatever was decided for the calls before it, and no answer    *)
(* position is served by two runs.                                         *)
RunsAreApproved ==
    \A j \in 1..Len(ledger) : ledger[j].act = "run" =>
        /\ ledger[j].call.tool \in Registered
        /\ j > 1
        /\ ledger[j - 1] = [ledger[j] EXCEPT !.act = "allow"]
        /\ \A i \in 1..(j - 1) : ledger[i].act = "run" => ledger[i].slot < ledger[j].slot

(* What the history tells the model about its calls is what happened: an   *)
(* answer carries a tool's output exactly when the tool ran for it, and    *)
(* says "rejected" exactly when the approver denied it.                    *)
Noted(what, n) == \E j \in 1..Len(ledger) : ledger[j].act = what /\ ledger[j].slot = n
HistoryIsTruthful ==
    \A n \in (base + 1)..Len(messages) : messages[n].role = "tool" =>
        /\ messages[n].content \in {"result", "truncated"} <=> Noted("run", n)
        /\ messages[n].content = "rejected" <=> Noted("deny", n)

(* A renderer that only listens to events rebuilds exactly the turns and   *)
(* answers run appends, contents included, in the same order. Shown(i) is  *)
(* the position of the last message shown once i more events are received. *)
Shown(i) == base + Len(seen) + Cardinality({j \in 1..i : Carries(chan[j])})
EventsMirrorHistory ==
    rxOpen =>
        /\ Shown(Len(chan)) = IF pc = "announce" THEN Len(messages) - 1 ELSE Len(messages)
        /\ seen = SubSeq(messages, base + 1, base + Len(seen))
        /\ \A i \in 1..Len(chan) : Carries(chan[i]) => chan[i].body = messages[Shown(i)]

(* How run ends agrees with what it leaves: Ok after one final turn        *)
(* without calls, BudgetExhausted after exactly max_iterations turns that  *)
(* all asked for tools, and an error within the budget.                    *)
ModelTurns(withCalls) ==
    {n \in (base + 1)..Len(messages) : /\ messages[n].role = "assistant"
                                       /\ (messages[n].calls # <<>>) = withCalls}
OutcomeIsHonest ==
    /\ Cardinality(ModelTurns(TRUE)) <= MaxIterations
    /\ pc = "ok" => ModelTurns(FALSE) = {Len(messages)}
    /\ pc = "budget" => ModelTurns(FALSE) = {} /\ Cardinality(ModelTurns(TRUE)) = MaxIterations
    /\ pc = "llm_err" => ModelTurns(FALSE) = {} /\ Cardinality(ModelTurns(TRUE)) < MaxIterations

(* What the model, the renderer and the caller are told of a run agrees    *)
(* with what was run: the three parts above.                               *)
ReportsAreTruthful == HistoryIsTruthful /\ EventsMirrorHistory /\ OutcomeIsHonest

(* run returns: no event consumer, slow or gone, can hold it for ever.     *)
Terminates == <>(pc \in Ended)

(* run implements the contract of ChatProtocol, with the calls not yet     *)
(* answered as the open ones.                                              *)
Unanswered ==
    IF pc \in {"announce", "approve", "start", "dispatch", "report", "panicked"}
    THEN SubSeq(calls, next, Len(calls)) ELSE <<>>
Settled ==
    \/ pc \in Ended \cup {"done"}
    \/ pc = "announce" /\ calls = <<>>
Protocol == INSTANCE ChatProtocol WITH history <- messages, open <- Unanswered, over <- Settled
ImplementsProtocol == Protocol!CPSpec
=============================================================================
