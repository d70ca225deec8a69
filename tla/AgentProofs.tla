---------------------------- MODULE AgentProofs ----------------------------
(***************************************************************************)
(* Theorems about AgentLoop for every set of calls and tools, every budget *)
(* and channel capacity, and every complete history run may start from;    *)
(* about Wire, what the provider clients make of the histories it sends;   *)
(* and about Workspace, what the tools of any number of agents do to the   *)
(* files they share.                                                       *)
(***************************************************************************)
EXTENDS AgentWire, Workspace, ConversationProofs, FiniteSetTheorems, SequenceTheorems

(* What the awaits know about the loop counters and the turn.              *)
CountersOK ==
    /\ calls \in CallLists
    /\ pc \in {"llm", "stream", "announce", "done"} \cup Dispatching => iter < MaxIterations
    /\ pc = "announce" => next = 1 /\ messages # <<>>

LoopInv == TypeOK /\ CountersOK

LEMMA LoopHeadTyped ==
    ASSUME NEW i \in 0..MaxIterations
    PROVE  /\ LoopHead(i) \in {"llm", "exhausted"}
           /\ LoopHead(i) = "llm" => i < MaxIterations
  BY BoundsAssumption DEF LoopHead

LEMMA SendTyped ==
    ASSUME TypeOK, NEW type, NEW body, Event(type, body) \in Events, Send(type, body)
    PROVE  /\ chan' \in Seq(Events)
           /\ Len(chan') <= ChanCap
           /\ rxOpen' = rxOpen /\ seen' = seen
  <1>1. /\ chan \in Seq(Events) /\ Len(chan) \in Nat /\ Len(chan) <= ChanCap
        /\ ChanCap \in Nat
        BY BoundsAssumption DEF TypeOK
  <1>2. CASE rxOpen
        BY <1>1, <1>2 DEF Send, CanSend
  <1>3. CASE ~rxOpen
        BY <1>1, <1>3 DEF Send
  <1>4. rxOpen' = rxOpen /\ seen' = seen
        BY DEF Send
  <1> QED BY <1>2, <1>3, <1>4

LEMMA AppendTyped ==
    ASSUME NEW ms \in Seq(Message), NEW m \in Message
    PROVE  /\ Append(ms, m) \in Seq(Message)
           /\ Append(ms, m) # <<>>
           /\ \A n \in 0..Len(ms) : n \in 0..Len(Append(ms, m))
  OBVIOUS

LEMMA CurrentCallTyped ==
    ASSUME TypeOK, pc \in Dispatching
    PROVE  /\ Call \in Calls
           /\ Slot \in Nat
           /\ \A what \in Decisions \cup {"run"} : Note(what) \in Entry
  <1>1. next \in 1..Len(calls) /\ calls \in Seq(Calls) /\ messages \in Seq(Message)
        BY DEF TypeOK
  <1>2. Call \in Calls /\ Slot \in Nat
        BY <1>1 DEF Call, Slot
  <1> QED BY <1>2 DEF Note, Entry

LEMMA EntryTyped ==
    ASSUME TypeOK, NEW i \in 1..Len(ledger)
    PROVE  ledger[i] \in Entry /\ ledger[i].slot \in Nat
  <1>1. ledger \in Seq(Entry)
        BY DEF TypeOK
  <1>2. ledger[i] \in Entry
        BY <1>1
  <1> QED BY <1>2 DEF Entry

LEMMA InitLoopInv == Init => LoopInv
  <1> SUFFICES ASSUME Init PROVE LoopInv
      OBVIOUS
  <1>1. messages \in Seq(Message) /\ base = Len(messages)
        BY HistoriesAssumption DEF Init
  <1>2. iter = 0 /\ iter \in 0..MaxIterations /\ pc = LoopHead(iter)
        BY BoundsAssumption DEF Init
  <1>3. /\ pc \in {"llm", "exhausted"} /\ (pc = "llm" => iter < MaxIterations)
        BY <1>2, LoopHeadTyped
  <1>4. Len(<<>>) <= ChanCap
        BY BoundsAssumption
  <1>5. rxOpen \in BOOLEAN /\ hasText \in BOOLEAN
        BY DEF Init
  <1> QED BY <1>1, <1>2, <1>3, <1>4, <1>5, BoundsAssumption, CallsAssumption
          DEF Init, LoopInv, TypeOK, CountersOK, Ended, Dispatching, Decisions, Contents

LEMMA NextLoopInv == LoopInv /\ [Next]_vars => LoopInv'
  <1> SUFFICES ASSUME LoopInv, [Next]_vars PROVE LoopInv'
      OBVIOUS
  <1> USE DEF LoopInv
  <1>1. CASE Request
        <2>1. hasText' \in BOOLEAN
              BY <1>1 DEF Request
        <2>2. chunks' \in 0..MaxChunks /\ calls' \in Seq(Calls)
              BY <1>1, BoundsAssumption DEF Request
        <2> QED BY <1>1, <2>1, <2>2, CallsAssumption DEF Request, TypeOK, CountersOK, consumer, Ended, Dispatching
  <1>2. CASE StreamChunk
        <2>1. Event("chunk", NoBody) \in Events
              BY DEF Event, Events, NoBody
        <2>2. /\ chan' \in Seq(Events) /\ Len(chan') <= ChanCap
              /\ rxOpen' = rxOpen /\ seen' = seen
              BY <1>2, <2>1, SendTyped DEF StreamChunk
        <2>3. chunks' \in 0..MaxChunks
              BY <1>2, BoundsAssumption DEF StreamChunk, TypeOK
        <2>4. hasText' \in BOOLEAN
              BY <1>2 DEF StreamChunk, TypeOK
        <2> QED BY <1>2, <2>2, <2>3, <2>4 DEF StreamChunk, TypeOK, CountersOK, Dispatching
  <1>3. CASE StreamToolCalls
        BY <1>3, CallsAssumption DEF StreamToolCalls, TypeOK, CountersOK, consumer, Dispatching
  <1>4. CASE StreamFails
        BY <1>4 DEF StreamFails, TypeOK, CountersOK, consumer, stream, Ended, Dispatching
  <1>5. CASE StreamEnds
        <2>1. AssistantMessage(hasText, calls) \in Message
              BY NewMessages DEF TypeOK
        <2>2. messages' = Append(messages, AssistantMessage(hasText, calls))
              BY <1>5 DEF StreamEnds
        <2>3. messages' \in Seq(Message) /\ base \in 0..Len(messages') /\ messages' # <<>>
              BY <2>1, <2>2, AppendTyped DEF TypeOK
        <2> QED BY <1>5, <2>3 DEF StreamEnds, TypeOK, CountersOK, consumer, stream, Dispatching
  <1>6. CASE Announce
        <2>1. pc = "announce" /\ next = 1 /\ iter < MaxIterations /\ messages # <<>>
              BY <1>6 DEF Announce, CountersOK
        <2>2. messages[Len(messages)] \in Message
              BY <2>1 DEF TypeOK
        <2>3. Event("turn", messages[Len(messages)]) \in Events
              BY <2>2 DEF Event, Events
        <2>4. /\ chan' \in Seq(Events) /\ Len(chan') <= ChanCap
              /\ rxOpen' = rxOpen /\ seen' = seen
              BY <1>6, <2>3, SendTyped DEF Announce
        <2>5. calls # <<>> => Len(calls) >= 1
              BY DEF TypeOK
        <2> QED BY <1>6, <2>1, <2>4, <2>5 DEF Announce, TypeOK, CountersOK, stream, Dispatching
  <1>7. CASE Finish
        <2>1. Event("done", NoBody) \in Events
              BY DEF Event, Events, NoBody
        <2>2. /\ chan' \in Seq(Events) /\ Len(chan') <= ChanCap
              /\ rxOpen' = rxOpen /\ seen' = seen
              BY <1>7, <2>1, SendTyped DEF Finish
        <2> QED BY <1>7, <2>2 DEF Finish, TypeOK, CountersOK, stream, Ended, Dispatching
  <1>8. CASE Approve
        <2>1. ledger' \in Seq(Entry)
              BY <1>8, CurrentCallTyped DEF Approve, TypeOK, Decisions, Dispatching
        <2>2. decision' \in Decisions
              BY <1>8 DEF Approve, Decisions
        <2>3. /\ pc = "approve" /\ pc' = "start"
              /\ UNCHANGED <<messages, iter, stream, next, outcome, consumer, base>>
              BY <1>8 DEF Approve
        <2> QED BY <2>1, <2>2, <2>3 DEF TypeOK, CountersOK, stream, consumer, Ended, Dispatching
  <1>9. CASE Start
        <2>1. Event("start", Call) \in Events
              BY <1>9, CurrentCallTyped DEF Start, Dispatching, Event, Events
        <2>2. /\ chan' \in Seq(Events) /\ Len(chan') <= ChanCap
              /\ rxOpen' = rxOpen /\ seen' = seen
              BY <1>9, <2>1, SendTyped DEF Start
        <2> QED BY <1>9, <2>2 DEF Start, TypeOK, CountersOK, stream, Dispatching
  <1>10. CASE Dispatch
        <2>1. ledger' \in Seq(Entry)
              <3>1. Note("run") \in Entry /\ ledger \in Seq(Entry)
                    BY <1>10, CurrentCallTyped DEF Dispatch, TypeOK, Dispatching
              <3>2. ledger' = ledger \/ ledger' = Append(ledger, Note("run"))
                    BY <1>10, Zenon DEF Dispatch
              <3> QED BY <3>1, <3>2
        <2>2. outcome' \in Contents
              <3>1. \A size \in Sizes : Capped(size) \in Contents
                    BY DEF Capped, Contents
              <3>2. "rejected" \in Contents /\ "unknown" \in Contents /\ outcome \in Contents
                    BY DEF TypeOK, Contents
              <3>3. \/ outcome' \in {"rejected", "unknown", outcome}
                    \/ \E size \in Sizes : outcome' = Capped(size)
                    BY <1>10, Zenon DEF Dispatch
              <3> QED BY <3>1, <3>2, <3>3
        <2> QED BY <1>10, <2>1, <2>2
                DEF Dispatch, TypeOK, CountersOK, stream, consumer, Ended, Dispatching
  <1>11. CASE Report
        <2> DEFINE answer == ToolResponse(Call, outcome)
        <2>1. answer \in Message
              BY <1>11, CurrentCallTyped, NewMessages DEF Report, TypeOK, Dispatching
        <2>2. Event("finish", answer) \in Events
              BY <2>1 DEF Event, Events
        <2>3. /\ chan' \in Seq(Events) /\ Len(chan') <= ChanCap
              /\ rxOpen' = rxOpen /\ seen' = seen
              BY <1>11, <2>2, SendTyped DEF Report
        <2>4. messages' \in Seq(Message) /\ base \in 0..Len(messages')
              BY <1>11, <2>1 DEF Report, TypeOK
        <2>5. iter + 1 \in 0..MaxIterations
              BY <1>11, BoundsAssumption DEF Report, TypeOK, CountersOK, Dispatching
        <2>6. CASE next < Len(calls)
              <3>1. /\ pc = "report" /\ pc' = "approve" /\ iter' = iter /\ next' = next + 1
                    /\ UNCHANGED <<stream, decision, outcome, ledger, base>>
                    BY <1>11, <2>6 DEF Report, AdvanceDispatch
              <3>2. next' \in Nat \ {0} /\ next' <= Len(calls)
                    BY <2>6, <3>1 DEF TypeOK
              <3> QED BY <2>3, <2>4, <3>1, <3>2 DEF TypeOK, CountersOK, stream, Dispatching
        <2>7. CASE ~(next < Len(calls))
              <3>1. /\ pc' = LoopHead(iter + 1) /\ iter' = iter + 1 /\ next' = next + 1
                    BY <1>11, <2>7 DEF Report, AdvanceDispatch
              <3>2. pc' \in {"llm", "exhausted"} /\ (pc' = "llm" => iter' < MaxIterations)
                    BY <3>1, <2>5, LoopHeadTyped
              <3> QED BY <1>11, <2>3, <2>4, <2>5, <3>1, <3>2
                      DEF Report, TypeOK, CountersOK, stream, Dispatching
        <2> QED BY <2>6, <2>7
  <1>12. CASE GiveUp
        <2>1. Event("exhausted", NoBody) \in Events
              BY DEF Event, Events, NoBody
        <2>2. /\ chan' \in Seq(Events) /\ Len(chan') <= ChanCap
              /\ rxOpen' = rxOpen /\ seen' = seen
              BY <1>12, <2>1, SendTyped DEF GiveUp
        <2> QED BY <1>12, <2>2 DEF GiveUp, TypeOK, CountersOK, stream, Ended, Dispatching
  <1>13. CASE Receive
        <2>1. /\ chan \in Seq(Events) /\ chan # <<>> /\ chan' = Tail(chan)
              BY <1>13 DEF Receive, TypeOK
        <2>2. /\ Head(chan) \in Events /\ chan' \in Seq(Events) /\ Len(chan') <= Len(chan)
              BY <2>1
        <2>3. Carries(Head(chan)) => Head(chan).body \in Message
              BY <2>2 DEF Carries, Events
        <2>4. seen' \in Seq(Message)
              BY <1>13, <2>3 DEF Receive, TypeOK
        <2>5. Len(chan') <= ChanCap
              BY <2>1, <2>2, BoundsAssumption DEF TypeOK
        <2> QED BY <1>13, <2>2, <2>4, <2>5 DEF Receive, TypeOK, CountersOK, stream
  <1>14. CASE DropReceiver
        <2>1. chan' \in Seq(Events) /\ Len(chan') <= ChanCap
              BY <1>14, BoundsAssumption DEF DropReceiver
        <2>2. rxOpen' \in BOOLEAN
              BY <1>14 DEF DropReceiver
        <2> QED BY <1>14, <2>1, <2>2 DEF DropReceiver, TypeOK, CountersOK, stream
  <1>15. CASE Returned \/ UNCHANGED vars
        BY <1>15 DEF Returned, vars, stream, consumer, TypeOK, CountersOK
  <1> QED BY <1>1, <1>2, <1>3, <1>4, <1>5, <1>6, <1>7, <1>8, <1>9, <1>10, <1>11, <1>12,
             <1>13, <1>14, <1>15 DEF Next, Run

(* Every value a run keeps stays in its type; the channel never holds more *)
(* than its capacity and a dispatched call is one of the current turn.     *)
THEOREM TypeCorrect == Spec => []TypeOK
  <1>1. LoopInv => TypeOK
        BY DEF LoopInv
  <1> QED BY <1>1, InitLoopInv, NextLoopInv, PTL DEF Spec

-----------------------------------------------------------------------------
(* The calls not yet answered, at the awaits that change them.             *)
LEMMA UnansweredSteps ==
    ASSUME TypeOK, pc = "report"
    PROVE  /\ Unanswered \in Seq(Calls) /\ Unanswered # <<>>
           /\ Head(Unanswered) = Call
           /\ Tail(Unanswered) = SubSeq(calls, next + 1, Len(calls))
  <1>1. calls \in Seq(Calls) /\ next \in 1..Len(calls)
        BY DEF TypeOK, Dispatching
  <1>2. Unanswered = SubSeq(calls, next, Len(calls))
        BY DEF Unanswered
  <1>3. Tail(SubSeq(calls, next, Len(calls))) = SubSeq(calls, next + 1, Len(calls))
        BY <1>1, HeadTailOfSubSeq
  <1>4. Head(SubSeq(calls, next, Len(calls))) = calls[next]
        BY <1>1, HeadTailOfSubSeq
  <1>5. Len(SubSeq(calls, next, Len(calls))) # 0
        BY <1>1
  <1>6. SubSeq(calls, next, Len(calls)) # <<>>
        <2>1. \A u : Len(u) # 0 => u # <<>>
              OBVIOUS
        <2> QED BY <2>1, <1>5, Zenon
  <1>7. SubSeq(calls, next, Len(calls)) \in Seq(Calls)
        BY <1>1
  <1> QED BY <1>2, <1>3, <1>4, <1>6, <1>7 DEF Call

(* The instance's copies of the message operators are the module's own.    *)
LEMMA SameMessages ==
    /\ \A t, cs : Protocol!AssistantMessage(t, cs) = AssistantMessage(t, cs)
    /\ \A c, content : Protocol!ToolResponse(c, content) = ToolResponse(c, content)
    /\ Protocol!Contents = Contents
    /\ \A ms : Protocol!Complete(ms) <=> Complete(ms)
  BY DEF Protocol!AssistantMessage, AssistantMessage, Protocol!ToolResponse, ToolResponse,
         Protocol!Contents, Contents, Protocol!Complete, Complete, Protocol!CallsAnswered,
         CallsAnswered, Protocol!NoOrphanAnswer, NoOrphanAnswer, Protocol!Answered, Answered

LEMMA InitImplements == Init => Protocol!CPInit
  <1> SUFFICES ASSUME Init PROVE Protocol!CPInit
      OBVIOUS
  <1>1. pc \in {"llm", "exhausted"}
        BY LoopHeadTyped, BoundsAssumption DEF Init
  <1>2. Unanswered = <<>> /\ Settled = FALSE
        BY <1>1 DEF Unanswered, Settled, Ended
  <1> QED BY <1>2 DEF Init, Protocol!CPInit

LEMMA StepImplements == LoopInv /\ [Next]_vars => [Protocol!CPNext]_(Protocol!cpVars)
  <1> SUFFICES ASSUME LoopInv, [Next]_vars PROVE [Protocol!CPNext]_(Protocol!cpVars)
      OBVIOUS
  <1> USE DEF LoopInv, Protocol!CPNext, Protocol!cpVars
  <1>1. CASE Request
        BY <1>1 DEF Request, Protocol!Stop, Unanswered, Settled, Ended
  <1>2. CASE StreamChunk
        BY <1>2 DEF StreamChunk, Unanswered, Settled, Ended
  <1>3. CASE StreamToolCalls
        BY <1>3 DEF StreamToolCalls, Unanswered, Settled, Ended
  <1>4. CASE StreamFails
        BY <1>4 DEF StreamFails, stream, Protocol!Stop, Unanswered, Settled, Ended
  <1>5. CASE StreamEnds
        <2>1. /\ pc = "stream" /\ pc' = "announce" /\ next' = 1 /\ calls' = calls
              /\ messages' = Append(messages, AssistantMessage(hasText, calls))
              BY <1>5 DEF StreamEnds, stream
        <2>2. calls \in CallLists /\ calls \in Seq(Calls) /\ hasText \in BOOLEAN
              BY DEF TypeOK, CountersOK
        <2>3. Unanswered = <<>> /\ Settled = FALSE
              BY <2>1 DEF Unanswered, Settled, Ended
        <2>4. SubSeq(calls, 1, Len(calls)) = calls
              BY <2>2
        <2>5. Unanswered' = calls /\ Settled' = (calls = <<>>)
              BY <2>1, <2>4 DEF Unanswered, Settled, Ended
        <2>6. Protocol!Turn
              BY <2>1, <2>2, <2>3, <2>5, SameMessages DEF Protocol!Turn
        <2> QED BY <2>6
  <1>6. CASE Announce
        <2>1. /\ pc = "announce" /\ pc' = (IF calls = <<>> THEN "done" ELSE "approve")
              /\ UNCHANGED <<messages, next, calls>>
              BY <1>6 DEF Announce, stream
        <2>2. calls = <<>> => SubSeq(calls, next, Len(calls)) = <<>>
              BY <2>1 DEF CountersOK
        <2>3. Unanswered' = Unanswered /\ Settled' = Settled
              BY <2>1, <2>2 DEF Unanswered, Settled, Ended
        <2> QED BY <2>1, <2>3
  <1>7. CASE Finish
        BY <1>7 DEF Finish, stream, Unanswered, Settled, Ended
  <1>8. CASE Approve
        BY <1>8 DEF Approve, stream, Unanswered, Settled, Ended
  <1>9. CASE Start
        BY <1>9 DEF Start, stream, Unanswered, Settled, Ended
  <1>10. CASE Dispatch
        BY <1>10 DEF Dispatch, stream, Protocol!Stop, Unanswered, Settled, Ended
  <1>11. CASE Report
        <2>1. /\ pc = "report" /\ next' = next + 1 /\ calls' = calls
              /\ messages' = Append(messages, ToolResponse(Call, outcome))
              BY <1>11 DEF Report, AdvanceDispatch, stream
        <2>2. outcome \in Contents /\ calls \in Seq(Calls) /\ next \in 1..Len(calls)
              BY <2>1 DEF TypeOK, Dispatching
        <2>3. /\ Unanswered # <<>> /\ Head(Unanswered) = Call
              /\ Tail(Unanswered) = SubSeq(calls, next + 1, Len(calls))
              BY <2>1, UnansweredSteps
        <2>4. Settled = FALSE /\ Settled' = FALSE
              <3>1. pc' \in {"approve", "llm", "exhausted"}
                    BY <1>11 DEF Report, AdvanceDispatch, LoopHead
              <3> QED BY <2>1, <3>1 DEF Settled, Ended
        <2>5. Unanswered' = Tail(Unanswered)
              <3>1. CASE next < Len(calls)
                    BY <1>11, <2>1, <2>3, <3>1 DEF Report, AdvanceDispatch, Unanswered
              <3>2. CASE ~(next < Len(calls))
                    <4>1. pc' \in {"llm", "exhausted"}
                          BY <1>11, <3>2 DEF Report, AdvanceDispatch, LoopHead
                    <4>2. SubSeq(calls, next + 1, Len(calls)) = <<>>
                          BY <2>2, <3>2
                    <4> QED BY <2>3, <4>1, <4>2 DEF Unanswered
              <3> QED BY <3>1, <3>2
        <2>6. Protocol!Answer
              BY <2>1, <2>2, <2>3, <2>4, <2>5, SameMessages DEF Protocol!Answer
        <2> QED BY <2>6
  <1>12. CASE GiveUp
        BY <1>12 DEF GiveUp, stream, Protocol!Stop, Unanswered, Settled, Ended
  <1>13. CASE Receive \/ DropReceiver
        BY <1>13 DEF Receive, DropReceiver, stream, Unanswered, Settled, Ended
  <1>14. CASE Returned \/ UNCHANGED vars
        BY <1>14 DEF Returned, vars, stream, Unanswered, Settled, Ended
  <1> QED BY <1>1, <1>2, <1>3, <1>4, <1>5, <1>6, <1>7, <1>8, <1>9, <1>10, <1>11, <1>12,
             <1>13, <1>14 DEF Next, Run

(* Agent::run is an implementation of the chat contract: every step of it  *)
(* is a turn, an answer to the first open call, a stop, or changes neither *)
(* the history nor what is open.                                           *)
THEOREM LoopImplementsProtocol == Spec => ImplementsProtocol
  BY InitLoopInv, NextLoopInv, InitImplements, StepImplements, PTL
     DEF Spec, ImplementsProtocol, Protocol!CPSpec

(* The history and the open calls, over a step of the contract.            *)
LEMMA HistoryInvSteps ==
    ASSUME HistoryInv(messages, Unanswered), [Protocol!CPNext]_(Protocol!cpVars)
    PROVE  HistoryInv(messages', Unanswered')
  <1>1. CASE Protocol!Turn
        <2>1. PICK cs \in CallLists, t \in BOOLEAN :
                  /\ messages' = Append(messages, AssistantMessage(t, cs))
                  /\ Unanswered' = cs
              BY <1>1, SameMessages DEF Protocol!Turn
        <2>2. HistoryInv(messages, <<>>)
              BY <1>1 DEF Protocol!Turn
        <2>3. cs \in Seq(Calls) /\ AssistantMessage(t, cs) \in Message
              BY CallsAssumption, NewMessages
        <2> QED BY <2>1, <2>2, <2>3, TurnOpens DEF AssistantMessage
  <1>2. CASE Protocol!Answer
        <2>1. PICK content \in Contents :
                  messages' = Append(messages, ToolResponse(Head(Unanswered), content))
              BY <1>2, SameMessages DEF Protocol!Answer
        <2>2. /\ Unanswered # <<>> /\ Unanswered' = Tail(Unanswered)
              /\ Head(Unanswered) \in Calls
              BY <1>2 DEF Protocol!Answer, HistoryInv
        <2>3. ToolResponse(Head(Unanswered), content) \in Message
              BY <2>2, NewMessages
        <2> QED BY <2>1, <2>2, <2>3, AnswerCloses DEF ToolResponse
  <1>3. CASE Protocol!Stop \/ UNCHANGED Protocol!cpVars
        BY <1>3 DEF Protocol!Stop, Protocol!cpVars
  <1> QED BY <1>1, <1>2, <1>3 DEF Protocol!CPNext

(* Whenever the model is about to be asked, and whenever run returns, the  *)
(* caller's history is complete.                                           *)
THEOREM HistoryStaysComplete == Spec => []HistoryComplete
  <1> DEFINE Inv == HistoryInv(messages, Unanswered)
  <1>1. Protocol!CPInit => Inv
        BY HistoriesAssumption DEF Protocol!CPInit, HistoryInv, Answering
  <1>2. Inv /\ [Protocol!CPNext]_(Protocol!cpVars) => Inv'
        BY HistoryInvSteps
  <1>3. Inv => HistoryComplete
        BY DEF HistoryInv, HistoryComplete, Quiet, Unanswered
  <1> QED BY <1>1, <1>2, <1>3, LoopImplementsProtocol, PTL
          DEF ImplementsProtocol, Protocol!CPSpec

-----------------------------------------------------------------------------
(* What the clients make of a history, message by message.                 *)

(* A set of numbers has a least one.                                       *)
LEMMA LeastNumber ==
    ASSUME NEW S \in SUBSET Nat, S # {}
    PROVE  \E i \in S : \A k \in S : i <= k
  <1>1. PICK i \in S : \A k \in S : <<k, i>> \notin OpToRel(<, Nat)
        BY WFMin, NatLessThanWellFounded, Zenon
  <1>2. ASSUME NEW k \in S PROVE i <= k
    <2>1. <<k, i>> \in Nat \X Nat /\ <<k, i>> \notin OpToRel(<, Nat)
          BY <1>1
    <2>2. ~(<<k, i>>[1] < <<k, i>>[2])
          BY <2>1 DEF OpToRel
    <2>3. ~(k < i)
          BY <2>2
    <2> QED BY <2>3
  <1> QED BY <1>2

(* A conversion goes through the messages one by one.                      *)
LEMMA ConversionSteps ==
    ASSUME NEW ms \in Seq(Message), NEW role
    PROVE  /\ Conversion(ms, role)[0] = NoTurns
           /\ \A n \in 1..Len(ms) :
                 Conversion(ms, role)[n] = Converted(Conversion(ms, role)[n - 1], ms[n], role)
  <1> DEFINE L == Len(ms)
             Does(g, k) == /\ g = [n \in 0..k |-> g[n]]
                           /\ g[0] = NoTurns
                           /\ \A n \in 1..k : g[n] = Converted(g[n - 1], ms[n], role)
             acc[n \in 0..L] ==
                 IF n = 0 THEN NoTurns ELSE Converted(acc[n - 1], ms[n], role)
  <1>1. L \in Nat
        OBVIOUS
  <1>2. \E g : Does(g, L)
    <2> HIDE DEF Does
    <2> DEFINE S == {k \in Nat : ~ \E g : Does(g, k)}
    <2> SUFFICES ASSUME S # {} PROVE FALSE
        BY <1>1
    <2>1. PICK k \in S : \A o \in S : k <= o
      <3>1. S \in SUBSET Nat
            OBVIOUS
      <3> QED BY <3>1, LeastNumber
    <2>2. CASE k = 0
      <3>1. Does([n \in 0..0 |-> NoTurns], 0)
            BY DEF Does
      <3> QED BY <2>1, <2>2, <3>1
    <2>3. CASE k # 0
      <3>1. k - 1 \in Nat /\ k - 1 \notin S /\ k \in Nat
            BY <2>1, <2>3
      <3>2. PICK g : Does(g, k - 1)
            BY <3>1
      <3>3. PICK h : h = [n \in 0..k |-> IF n = k THEN Converted(g[k - 1], ms[k], role) ELSE g[n]]
            OBVIOUS
      <3>4. h = [n \in 0..k |-> h[n]] /\ h[0] = NoTurns
            BY <2>3, <3>1, <3>2, <3>3 DEF Does
      <3>5. ASSUME NEW n \in 1..k PROVE h[n] = Converted(h[n - 1], ms[n], role)
        <4>1. n - 1 \in 0..k /\ n - 1 # k /\ h[n - 1] = g[n - 1]
              BY <3>1, <3>3
        <4>2. CASE n = k
              BY <3>3, <4>1, <4>2
        <4>3. CASE n # k
          <5>1. n \in 1..(k - 1) /\ h[n] = g[n]
                BY <3>1, <3>3, <4>3
          <5> QED BY <3>2, <4>1, <5>1 DEF Does
        <4> QED BY <4>2, <4>3
      <3>6. Does(h, k)
            BY <3>4, <3>5 DEF Does
      <3> QED BY <2>1, <3>6
    <2> QED BY <2>2, <2>3
  <1>3. acc = [n \in 0..L |-> IF n = 0 THEN NoTurns ELSE Converted(acc[n - 1], ms[n], role)]
    <2>1. PICK g : Does(g, L)
          BY <1>2
    <2>2. g = [n \in 0..L |-> IF n = 0 THEN NoTurns ELSE Converted(g[n - 1], ms[n], role)]
      <3>1. \A n \in 0..L : n = 0 \/ n \in 1..L
            BY <1>1
      <3>2. \A n \in 0..L : g[n] = IF n = 0 THEN NoTurns ELSE Converted(g[n - 1], ms[n], role)
            BY <2>1, <3>1
      <3>3. g = [n \in 0..L |-> g[n]]
            BY <2>1
      <3> HIDE DEF Does, L
      <3> QED BY <3>2, <3>3, Zenon
    <2> HIDE DEF Does, L
    <2> QED BY <2>2
  <1>4. Conversion(ms, role) = acc
        BY DEF Conversion
  <1> HIDE DEF acc
  <1>5. acc[0] = NoTurns /\ \A n \in 1..L : acc[n] = Converted(acc[n - 1], ms[n], role)
    <2>1. 0 \in 0..L /\ \A n \in 1..L : n \in 0..L /\ n # 0
          BY <1>1
    <2> HIDE DEF L
    <2> QED BY <1>3, <2>1
  <1> QED BY <1>4, <1>5

(* One list more is flattened onto the end.                                *)
LEMMA FlatIsBuilt ==
    ASSUME NEW A, NEW s \in Seq(Seq(A)), s # <<>>
    PROVE  \E f : /\ FlattenSeq(s) = f[Len(s)]
                  /\ f[1] = s[1]
                  /\ \A i \in 2..Len(s) : f[i] = f[i - 1] \o s[i]
  <1> DEFINE L == Len(s)
             Does(g, k) == /\ g = [i \in 1..k |-> g[i]]
                           /\ g[1] = s[1]
                           /\ \A i \in 2..k : g[i] = g[i - 1] \o s[i]
             flatten[i \in 1..L] == IF i = 1 THEN s[i] ELSE flatten[i-1] \o s[i]
  <1>1. L \in Nat \ {0}
        BY EmptySeq
  <1>2. \E g : Does(g, L)
    <2> HIDE DEF Does
    <2> DEFINE S == {k \in Nat : k # 0 /\ ~ \E g : Does(g, k)}
    <2> SUFFICES ASSUME S # {} PROVE FALSE
        BY <1>1
    <2>1. PICK k \in S : \A o \in S : k <= o
      <3>1. S \in SUBSET Nat
            OBVIOUS
      <3> QED BY <3>1, LeastNumber
    <2>2. CASE k = 1
      <3>1. Does([i \in 1..1 |-> s[1]], 1)
            BY DEF Does
      <3> QED BY <2>1, <2>2, <3>1
    <2>3. CASE k # 1
      <3>1. k - 1 \in Nat /\ k - 1 # 0 /\ k - 1 \notin S /\ k \in Nat
        <4>1. k \in Nat /\ k # 0
              OBVIOUS
        <4>2. k - 1 \in Nat /\ k - 1 # 0 /\ ~(k <= k - 1)
              BY <2>3, <4>1
        <4> HIDE DEF S
        <4> QED BY <2>1, <4>1, <4>2
      <3>2. PICK g : Does(g, k - 1)
            BY <3>1
      <3> DEFINE last == g[k - 1] \o s[k]
      <3>3. PICK h : h = [i \in 1..k |-> IF i = k THEN last ELSE g[i]]
            OBVIOUS
      <3> HIDE DEF last
      <3>4. h = [i \in 1..k |-> h[i]] /\ h[1] = s[1]
            BY <2>3, <3>1, <3>2, <3>3 DEF Does
      <3>5. ASSUME NEW i \in 2..k PROVE h[i] = h[i - 1] \o s[i]
        <4>1. i - 1 \in 1..k /\ i - 1 # k /\ h[i - 1] = g[i - 1]
              BY <3>1, <3>3
        <4>2. CASE i = k
          <5>1. h[i] = last
                BY <3>1, <3>3, <4>2
          <5> QED BY <4>1, <4>2, <5>1 DEF last
        <4>3. CASE i # k
          <5>1. i \in 2..(k - 1) /\ h[i] = g[i]
                BY <3>1, <3>3, <4>3
          <5>2. g[i] = g[i - 1] \o s[i]
                BY <3>2, <5>1 DEF Does
          <5> QED BY <4>1, <5>1, <5>2
        <4> QED BY <4>2, <4>3
      <3>6. Does(h, k)
            BY <3>4, <3>5 DEF Does
      <3> QED BY <2>1, <3>6
    <2> QED BY <2>2, <2>3
  <1>3. flatten = [i \in 1..L |-> IF i = 1 THEN s[i] ELSE flatten[i-1] \o s[i]]
    <2>1. PICK g : Does(g, L)
          BY <1>2
    <2>2. g = [i \in 1..L |-> IF i = 1 THEN s[i] ELSE g[i-1] \o s[i]]
      <3>1. \A i \in 1..L : i = 1 \/ i \in 2..L
            BY <1>1
      <3>2. \A i \in 1..L : g[i] = IF i = 1 THEN s[i] ELSE g[i-1] \o s[i]
            BY <2>1, <3>1
      <3>3. g = [i \in 1..L |-> g[i]]
            BY <2>1
      <3> HIDE DEF Does, L
      <3> QED BY <3>2, <3>3, Zenon
    <2> HIDE DEF Does, L
    <2> QED BY <2>2
  <1>4. FlattenSeq(s) = flatten[L]
        BY <1>1 DEF FlattenSeq
  <1> HIDE DEF flatten
  <1>5. flatten[1] = s[1] /\ \A i \in 2..L : flatten[i] = flatten[i - 1] \o s[i]
    <2>1. 1 \in 1..L /\ \A i \in 2..L : i \in 1..L /\ i # 1
          BY <1>1
    <2> HIDE DEF L
    <2> QED BY <1>3, <2>1
  <1> QED BY <1>4, <1>5

LEMMA FlatMore ==
    ASSUME NEW A, NEW s \in Seq(Seq(A)), NEW x \in Seq(A)
    PROVE  /\ FlattenSeq(s) \in Seq(A)
           /\ FlattenSeq(Append(s, x)) = FlattenSeq(s) \o x
  <1> DEFINE n == Len(s)
             t == Append(s, x)
  <1>1. /\ n \in Nat /\ t \in Seq(Seq(A)) /\ t # <<>> /\ Len(t) = n + 1
        /\ t[n + 1] = x /\ \A i \in 1..n : t[i] = s[i] /\ s[i] \in Seq(A)
    <2>1. n \in Nat /\ \A i \in 1..n : s[i] \in Seq(A)
          OBVIOUS
    <2>2. t \in Seq(Seq(A)) /\ Len(t) = n + 1 /\ t[n + 1] = x
          BY AppendProperties
    <2>3. \A i \in 1..n : t[i] = s[i]
          BY AppendProperties
    <2>4. t # <<>>
          BY <2>1, <2>2, EmptySeq
    <2> HIDE DEF t, n
    <2> QED BY <2>1, <2>2, <2>3, <2>4
  <1> HIDE DEF t
  <1>2. PICK g : /\ FlattenSeq(t) = g[n + 1] /\ g[1] = t[1]
                 /\ \A i \in 2..(n + 1) : g[i] = g[i - 1] \o t[i]
    <2>1. t \in Seq(Seq(A)) /\ t # <<>>
          BY <1>1
    <2>2. \E g : /\ FlattenSeq(t) = g[Len(t)] /\ g[1] = t[1]
                 /\ \A i \in 2..Len(t) : g[i] = g[i - 1] \o t[i]
          BY <2>1, FlatIsBuilt, Zenon
    <2>3. Len(t) = n + 1
          BY <1>1
    <2> QED BY <2>2, <2>3, Zenon
  <1>3. CASE s = <<>>
    <2>1. n = 0 /\ FlattenSeq(s) = <<>>
          BY <1>3 DEF FlattenSeq
    <2>2. FlattenSeq(t) = x
          BY <1>1, <1>2, <2>1
    <2> QED BY <2>1, <2>2 DEF t
  <1>4. CASE s # <<>>
    <2>1. n \in Nat \ {0}
          BY <1>4, EmptySeq
    <2>2. PICK f : /\ FlattenSeq(s) = f[n] /\ f[1] = s[1]
                   /\ \A i \in 2..n : f[i] = f[i - 1] \o s[i]
          BY <1>4, FlatIsBuilt
    <2> DEFINE Bad == {i \in 1..n : ~(f[i] = g[i] /\ f[i] \in Seq(A))}
    <2>3. Bad = {}
      <3> SUFFICES ASSUME Bad # {} PROVE FALSE
          OBVIOUS
      <3>1. PICK i \in Bad : \A k \in Bad : i <= k
        <4>1. Bad \in SUBSET Nat
              OBVIOUS
        <4> HIDE DEF Bad
        <4> QED BY <4>1, LeastNumber
      <3>2. i \in 1..n
            OBVIOUS
      <3>3. i # 1
            BY <1>1, <1>2, <2>1, <2>2
      <3>4. i - 1 \in 1..n /\ i - 1 \notin Bad
            BY <2>1, <3>1, <3>2, <3>3
      <3>5. f[i - 1] = g[i - 1] /\ f[i - 1] \in Seq(A)
            BY <3>4
      <3>6. f[i] = f[i - 1] \o s[i] /\ g[i] = g[i - 1] \o t[i] /\ t[i] = s[i] /\ s[i] \in Seq(A)
        <4>1. i \in 2..n /\ i \in 2..(n + 1)
              BY <2>1, <3>2, <3>3
        <4> QED BY <1>1, <1>2, <2>2, <4>1
      <3>7. f[i] = g[i] /\ f[i] \in Seq(A)
        <4>1. f[i - 1] \o s[i] \in Seq(A)
              BY <3>5, <3>6, ConcatProperties
        <4> QED BY <3>5, <3>6, <4>1
      <3> QED BY <3>7
    <2>4. n \in 1..n
          BY <2>1
    <2>5. f[n] = g[n] /\ f[n] \in Seq(A)
          BY <2>3, <2>4
    <2>6. g[n + 1] = g[n] \o x
      <3>1. n + 1 \in 2..(n + 1) /\ (n + 1) - 1 = n
            BY <2>1
      <3> QED BY <1>1, <1>2, <3>1
    <2> QED BY <1>2, <2>2, <2>5, <2>6 DEF t
  <1> QED BY <1>3, <1>4

(* The turn at position a is answered after position n.                    *)
Due(ms, n, a) == a \in 1..n /\ ms[a].role = "assistant" /\ n < a + Len(ms[a].calls)

(* At most one turn is due after position n, the message after it answers  *)
(* the next of its calls, and no tool message stands elsewhere; after the  *)
(* last message none is due.                                               *)
LEMMA OneIsDue ==
    ASSUME NEW ms \in Seq(Message), Complete(ms), NEW n \in 0..Len(ms)
    PROVE  /\ \A a, b : Due(ms, n, a) /\ Due(ms, n, b) => a = b
           /\ n < Len(ms) => \A a : Due(ms, n, a) =>
                 ms[n + 1].role = "tool" /\ ms[n + 1].callId = ms[a].calls[n + 1 - a].id
           /\ n < Len(ms) /\ ms[n + 1].role = "tool" => \E a : Due(ms, n, a)
           /\ n = Len(ms) => \A a : ~Due(ms, n, a)
  <1> DEFINE L == Len(ms)
             C(i) == Len(ms[i].calls)
  <1>1. L \in Nat /\ \A i \in 1..L : C(i) \in Nat
    <2>1. \A i \in 1..L : ms[i] \in Message
          OBVIOUS
    <2> QED BY <2>1 DEF Message
  <1>2. \A i \in 1..L : ms[i].role = "assistant" =>
           i + C(i) <= L /\ \A k \in 1..C(i) : Answered(ms, i, k)
        BY DEF Complete, CallsAnswered
  <1>3. \A j \in 1..L : ms[j].role = "tool" =>
           \E i \in 1..(j - 1) : ms[i].role = "assistant" /\ j - i <= C(i) /\ Answered(ms, i, j - i)
        BY DEF Complete, NoOrphanAnswer
  <1>4. \A a : Due(ms, n, a) => a \in 1..n /\ a \in 1..L /\ ms[a].role = "assistant" /\ n < a + C(a)
        BY <1>1 DEF Due
  <1>5. \A i, k : i \in 1..L /\ k \in 1..C(i) /\ Answered(ms, i, k) =>
           ms[i + k].role = "tool" /\ ms[i + k].callId = ms[i].calls[k].id
        BY DEF Answered
  <1> HIDE DEF L, C
  <1>6. ASSUME NEW a, NEW b, Due(ms, n, a), Due(ms, n, b), a < b PROVE FALSE
    <2>1. /\ a \in 1..n /\ a \in 1..L /\ ms[a].role = "assistant" /\ n < a + C(a)
          /\ b \in 1..n /\ ms[b].role = "assistant"
          BY <1>4, <1>6
    <2>2. b - a \in 1..C(a) /\ a + (b - a) = b
          BY <1>1, <1>6, <2>1
    <2>3. ms[b].role = "tool"
          BY <1>2, <1>5, <2>1, <2>2
    <2> QED BY <2>1, <2>3
  <1>7. ASSUME NEW a, NEW b, Due(ms, n, a), Due(ms, n, b) PROVE a = b
    <2>1. a \in Nat /\ b \in Nat
          BY <1>4, <1>7
    <2>2. ~(a < b) /\ ~(b < a)
          BY <1>6, <1>7
    <2> QED BY <2>1, <2>2
  <1>8. ASSUME n < L, NEW a, Due(ms, n, a)
        PROVE  ms[n + 1].role = "tool" /\ ms[n + 1].callId = ms[a].calls[n + 1 - a].id
    <2>1. a \in 1..n /\ a \in 1..L /\ ms[a].role = "assistant" /\ n < a + C(a)
          BY <1>4, <1>8
    <2>2. n + 1 - a \in 1..C(a) /\ a + (n + 1 - a) = n + 1
          BY <1>1, <2>1
    <2> QED BY <1>2, <1>5, <2>1, <2>2
  <1>9. ASSUME n < L, ms[n + 1].role = "tool" PROVE \E a : Due(ms, n, a)
    <2>1. n \in Nat /\ n + 1 \in 1..L
      <3>1. n \in Nat /\ Len(ms) \in Nat /\ L = Len(ms)
            BY DEF L
      <3> QED BY <1>9, <3>1
    <2>2. PICK i \in 1..((n + 1) - 1) : ms[i].role = "assistant" /\ (n + 1) - i <= C(i)
          BY <1>3, <1>9, <2>1
    <2>3. i \in 1..n /\ n < i + C(i)
          BY <1>1, <2>1, <2>2
    <2> QED BY <2>2, <2>3 DEF Due, C
  <1>10. ASSUME n = L, NEW a, Due(ms, n, a) PROVE FALSE
    <2>1. a \in 1..L /\ ms[a].role = "assistant" /\ n < a + C(a)
          BY <1>4, <1>10
    <2> QED BY <1>1, <1>2, <1>10, <2>1
  <1> QED BY <1>7, <1>8, <1>9, <1>10 DEF L

(* What is due after one message more, by the role of that message.        *)
LEMMA DueNext ==
    ASSUME NEW ms \in Seq(Message), Complete(ms), NEW n \in 0..Len(ms), n < Len(ms)
    PROVE  /\ ms[n + 1].role = "tool" =>
                 \A a : Due(ms, n + 1, a) <=> Due(ms, n, a) /\ n + 1 < a + Len(ms[a].calls)
           /\ ms[n + 1].role # "tool" =>
                 \A a : /\ ~Due(ms, n, a)
                        /\ Due(ms, n + 1, a) <=>
                              a = n + 1 /\ ms[a].role = "assistant" /\ ms[a].calls # <<>>
  <1> DEFINE C(i) == Len(ms[i].calls)
  <1>1. n \in Nat /\ \A i \in 1..(n + 1) : C(i) \in Nat /\ (C(i) = 0 <=> ms[i].calls = <<>>)
    <2>1. n \in Nat /\ \A i \in 1..(n + 1) : ms[i] \in Message
      <3>1. n \in Nat /\ Len(ms) \in Nat /\ n + 1 <= Len(ms)
            OBVIOUS
      <3>2. \A i \in 1..(n + 1) : i \in 1..Len(ms)
            BY <3>1
      <3> QED BY <3>1, <3>2
    <2>2. \A i \in 1..(n + 1) : ms[i].calls \in Seq(Calls)
          BY <2>1 DEF Message
    <2>3. ASSUME NEW i \in 1..(n + 1) PROVE C(i) \in Nat /\ (C(i) = 0 <=> ms[i].calls = <<>>)
      <3> DEFINE cs == ms[i].calls
      <3>1. cs \in Seq(Calls)
            BY <2>2
      <3> HIDE DEF cs
      <3>2. Len(cs) \in Nat /\ (Len(cs) = 0 <=> cs = <<>>)
            BY <3>1, EmptySeq
      <3> QED BY <3>2 DEF cs
    <2> HIDE DEF C
    <2> QED BY <2>1, <2>3
  <1>2. \A a : a \in 1..(n + 1) <=> a \in 1..n \/ a = n + 1
        BY <1>1
  <1>3. \A k, a : Due(ms, k, a) <=> a \in 1..k /\ ms[a].role = "assistant" /\ k < a + C(a)
        BY DEF Due
  <1> HIDE DEF C
  <1>4. \A a : Due(ms, n + 1, a) /\ a # n + 1 => Due(ms, n, a)
    <2> SUFFICES ASSUME NEW a, Due(ms, n + 1, a), a # n + 1 PROVE Due(ms, n, a)
        OBVIOUS
    <2>1. a \in 1..(n + 1) /\ a \in 1..n /\ ms[a].role = "assistant" /\ n + 1 < a + C(a)
          BY <1>2, <1>3
    <2>2. n < a + C(a)
          BY <1>1, <2>1
    <2> QED BY <1>3, <2>1, <2>2
  <1>5. ASSUME ms[n + 1].role = "tool", NEW a
        PROVE  Due(ms, n + 1, a) <=> Due(ms, n, a) /\ n + 1 < a + C(a)
    <2>1. Due(ms, n + 1, a) => a # n + 1
          BY <1>3, <1>5
    <2> QED BY <1>2, <1>3, <1>4, <2>1
  <1>6. ASSUME ms[n + 1].role # "tool", NEW a
        PROVE  /\ ~Due(ms, n, a)
               /\ Due(ms, n + 1, a) <=> a = n + 1 /\ ms[a].role = "assistant" /\ ms[a].calls # <<>>
    <2>1. ~Due(ms, n, a)
          BY <1>6, OneIsDue
    <2>2. Due(ms, n + 1, a) => a = n + 1
          BY <1>4, <2>1
    <2>3. n + 1 \in 1..(n + 1) /\ (n + 1 < n + 1 + C(n + 1) <=> ms[n + 1].calls # <<>>)
          BY <1>1
    <2> QED BY <1>3, <2>1, <2>2, <2>3
  <1> QED BY <1>5, <1>6 DEF C

-----------------------------------------------------------------------------
Names == {c.tool : c \in Calls}
BlockTypes == {"text", "call", "result"}
WireBlock == [type : BlockTypes, content : Contents, key : Ids \cup Names \cup {NoId}]
TurnsOf(role) == [role : {"user", role}, blocks : Seq(WireBlock)]
Converting(role) == [out : Seq(TurnsOf(role)), pending : Seq(WireBlock)]
TypesOf(turns) == [i \in DOMAIN turns |-> Types(turns[i].blocks)]

(* What is converted says ts, and no turn says nothing.                    *)
SaysAll(acc, role, ts) ==
    /\ acc \in Converting(role)
    /\ \A i \in 1..Len(acc.out) : acc.out[i].blocks # <<>>
    /\ FlattenSeq(TypesOf(acc.out)) \o Types(acc.pending) = ts

LEMMA TypesTyped ==
    ASSUME NEW bs \in Seq(WireBlock)
    PROVE  Types(bs) \in Seq(BlockTypes) /\ Len(Types(bs)) = Len(bs) /\ Types(<<>>) = <<>>
  <1>1. \A k \in 1..Len(bs) : bs[k].type \in BlockTypes
    <2>1. \A k \in 1..Len(bs) : bs[k] \in WireBlock
          OBVIOUS
    <2> QED BY <2>1 DEF WireBlock
  <1>2. Types(bs) = [k \in 1..Len(bs) |-> bs[k].type]
        BY DEF Types
  <1>3. Types(<<>>) = <<>>
        BY DEF Types
  <1> QED BY <1>1, <1>2, <1>3

LEMMA TypesOfTyped ==
    ASSUME NEW role, NEW turns \in Seq(TurnsOf(role))
    PROVE  TypesOf(turns) \in Seq(Seq(BlockTypes)) /\ FlattenSeq(TypesOf(turns)) \in Seq(BlockTypes)
  <1>1. \A i \in 1..Len(turns) : Types(turns[i].blocks) \in Seq(BlockTypes)
    <2>1. \A i \in 1..Len(turns) : turns[i] \in TurnsOf(role)
          OBVIOUS
    <2>2. \A i \in 1..Len(turns) : turns[i].blocks \in Seq(WireBlock)
          BY <2>1 DEF TurnsOf
    <2> QED BY <2>2, TypesTyped
  <1>2. TypesOf(turns) = [i \in 1..Len(turns) |-> Types(turns[i].blocks)]
        BY DEF TypesOf
  <1>3. TypesOf(turns) \in Seq(Seq(BlockTypes))
    <2> DEFINE B == Seq(BlockTypes)
               n == Len(turns)
               T(i) == Types(turns[i].blocks)
    <2>1. n \in Nat /\ (\A i \in 1..n : T(i) \in B) /\ TypesOf(turns) = [i \in 1..n |-> T(i)]
          BY <1>1, <1>2
    <2> HIDE DEF B, n, T
    <2>2. TypesOf(turns) \in Seq(B)
          BY <2>1
    <2> QED BY <2>2 DEF B
  <1> QED BY <1>3, FlatMore, EmptySeq

(* A turn is pushed for blocks, and none for none.                         *)
LEMMA PushSays ==
    ASSUME NEW role, NEW acc \in Converting(role), NEW r \in {"user", role},
           NEW bs \in Seq(WireBlock), \A i \in 1..Len(acc.out) : acc.out[i].blocks # <<>>
    PROVE  /\ Push(acc, r, bs) \in Converting(role)
           /\ Push(acc, r, bs).pending = acc.pending
           /\ \A i \in 1..Len(Push(acc, r, bs).out) : Push(acc, r, bs).out[i].blocks # <<>>
           /\ FlattenSeq(TypesOf(Push(acc, r, bs).out)) = FlattenSeq(TypesOf(acc.out)) \o Types(bs)
  <1>1. acc.out \in Seq(TurnsOf(role)) /\ acc.pending \in Seq(WireBlock)
        /\ acc = [out |-> acc.out, pending |-> acc.pending]
        BY DEF Converting
  <1>2. CASE bs = <<>>
    <2>1. Push(acc, r, bs) = acc
          BY <1>2 DEF Push
    <2>2. Types(bs) = <<>> /\ FlattenSeq(TypesOf(acc.out)) \in Seq(BlockTypes)
          BY <1>1, <1>2, TypesTyped, TypesOfTyped
    <2>3. FlattenSeq(TypesOf(acc.out)) \o <<>> = FlattenSeq(TypesOf(acc.out))
          BY <2>2, ConcatEmptySeq
    <2> QED BY <2>1, <2>2, <2>3
  <1>3. CASE bs # <<>>
    <2> DEFINE turn == Turn(r, bs)
               out == acc.out
    <2>1. turn \in TurnsOf(role) /\ turn.blocks = bs
          BY DEF Turn, TurnsOf
    <2>2. Push(acc, r, bs) = [out |-> Append(out, turn), pending |-> acc.pending]
          BY <1>1, <1>3 DEF Push
    <2> HIDE DEF turn
    <2>3. /\ Append(out, turn) \in Seq(TurnsOf(role)) /\ Len(Append(out, turn)) = Len(out) + 1
          /\ Append(out, turn)[Len(out) + 1] = turn
          /\ \A i \in 1..Len(out) : Append(out, turn)[i] = out[i]
          BY <1>1, <2>1, AppendProperties
    <2>4. \A i \in 1..Len(Append(out, turn)) : Append(out, turn)[i].blocks # <<>>
      <3>1. Len(out) \in Nat
            BY <1>1
      <3>2. \A i \in 1..(Len(out) + 1) : i \in 1..Len(out) \/ i = Len(out) + 1
            BY <3>1
      <3> QED BY <1>3, <2>1, <2>3, <3>2
    <2>5. TypesOf(Append(out, turn)) = Append(TypesOf(out), Types(bs))
      <3> DEFINE n == Len(out)
                 T(i) == Types(out[i].blocks)
                 U(i) == Types(Append(out, turn)[i].blocks)
      <3>1. n \in Nat /\ TypesOf(out) = [i \in 1..n |-> T(i)] /\ TypesOf(Append(out, turn)) = [i \in 1..(n + 1) |-> U(i)]
            BY <1>1, <2>3 DEF TypesOf
      <3>2. U(n + 1) = Types(bs) /\ \A i \in 1..n : U(i) = T(i)
            BY <2>1, <2>3
      <3> HIDE DEF n, T, U
      <3> QED BY <3>1, <3>2
    <2>6. FlattenSeq(Append(TypesOf(out), Types(bs))) = FlattenSeq(TypesOf(out)) \o Types(bs)
      <3>1. TypesOf(out) \in Seq(Seq(BlockTypes)) /\ Types(bs) \in Seq(BlockTypes)
            BY <1>1, TypesTyped, TypesOfTyped
      <3> QED BY <3>1, FlatMore
    <2>7. Push(acc, r, bs).out = Append(out, turn) /\ Push(acc, r, bs).pending = acc.pending
          BY <2>2
    <2>8. Push(acc, r, bs) \in Converting(role)
          BY <1>1, <2>2, <2>3 DEF Converting
    <2> HIDE DEF out
    <2> QED BY <2>4, <2>5, <2>6, <2>7, <2>8 DEF out
  <1> QED BY <1>2, <1>3

(* A flush moves what is pending into a turn of its own.                   *)
LEMMA FlushSays ==
    ASSUME NEW role, NEW acc, NEW ts, SaysAll(acc, role, ts)
    PROVE  SaysAll(Flushed(acc), role, ts) /\ Flushed(acc).pending = <<>>
           /\ Flushed(acc).out = Push(acc, "user", acc.pending).out
  <1> DEFINE new == Push(acc, "user", acc.pending)
  <1>1. /\ acc \in Converting(role) /\ acc.pending \in Seq(WireBlock)
        /\ \A i \in 1..Len(acc.out) : acc.out[i].blocks # <<>>
        BY DEF SaysAll, Converting
  <1>2. /\ new \in Converting(role)
        /\ \A i \in 1..Len(new.out) : new.out[i].blocks # <<>>
        /\ FlattenSeq(TypesOf(new.out)) = FlattenSeq(TypesOf(acc.out)) \o Types(acc.pending)
        BY <1>1, PushSays
  <1>3. Flushed(acc) = [new EXCEPT !.pending = <<>>]
        BY DEF Flushed
  <1> HIDE DEF new
  <1>4. Flushed(acc).out = new.out /\ Flushed(acc).pending = <<>> /\ Flushed(acc) \in Converting(role)
    <2>1. <<>> \in Seq(WireBlock)
          BY EmptySeq
    <2> QED BY <1>2, <1>3, <2>1 DEF Converting
  <1>5. FlattenSeq(TypesOf(new.out)) \o Types(<<>>) = ts
    <2>1. FlattenSeq(TypesOf(new.out)) = ts
          BY <1>2 DEF SaysAll
    <2>2. FlattenSeq(TypesOf(new.out)) \in Seq(BlockTypes)
          BY <1>2, TypesOfTyped DEF Converting
    <2>3. Types(<<>>) = <<>>
          BY DEF Types
    <2> QED BY <2>1, <2>2, <2>3, ConcatEmptySeq
  <1> QED BY <1>2, <1>4, <1>5 DEF SaysAll, new

(* A message of a role of its own: the results are flushed, then its       *)
(* blocks.                                                                 *)
LEMMA TurnSays ==
    ASSUME NEW role, NEW acc, NEW ts, SaysAll(acc, role, ts), acc.pending = <<>>,
           NEW r \in {"user", role}, NEW bs \in Seq(WireBlock)
    PROVE  SaysAll(Push(acc, r, bs), role, ts \o Types(bs)) /\ Push(acc, r, bs).pending = <<>>
  <1> DEFINE new == Push(acc, r, bs)
  <1>1. /\ acc \in Converting(role)
        /\ \A i \in 1..Len(acc.out) : acc.out[i].blocks # <<>>
        /\ FlattenSeq(TypesOf(acc.out)) \o Types(<<>>) = ts
        BY DEF SaysAll
  <1>2. /\ new \in Converting(role) /\ new.pending = <<>>
        /\ \A i \in 1..Len(new.out) : new.out[i].blocks # <<>>
        /\ FlattenSeq(TypesOf(new.out)) = FlattenSeq(TypesOf(acc.out)) \o Types(bs)
        BY <1>1, PushSays
  <1>3. FlattenSeq(TypesOf(acc.out)) \in Seq(BlockTypes) /\ Types(<<>>) = <<>>
        BY <1>1, TypesOfTyped DEF Converting, Types
  <1>4. FlattenSeq(TypesOf(acc.out)) = ts
        BY <1>1, <1>3, ConcatEmptySeq
  <1> HIDE DEF new
  <1>5. FlattenSeq(TypesOf(new.out)) \o Types(<<>>) = ts \o Types(bs)
    <2>1. FlattenSeq(TypesOf(new.out)) \in Seq(BlockTypes)
          BY <1>2, TypesOfTyped DEF Converting
    <2> QED BY <1>2, <1>3, <1>4, <2>1, ConcatEmptySeq
  <1> QED BY <1>2, <1>5 DEF SaysAll, new

(* A tool message adds its result to what is pending.                      *)
LEMMA ResultSays ==
    ASSUME NEW role, NEW acc, NEW ts, SaysAll(acc, role, ts), NEW b \in WireBlock
    PROVE  SaysAll([acc EXCEPT !.pending = Append(@, b)], role, ts \o <<b.type>>)
  <1> DEFINE new == [acc EXCEPT !.pending = Append(@, b)]
             p == acc.pending
             q == Append(p, b)
             f == FlattenSeq(TypesOf(acc.out))
             B == Seq(WireBlock)
             T == Seq(TurnsOf(role))
  <1>1. /\ acc \in [out : T, pending : B] /\ acc.out \in T /\ p \in B
        /\ \A i \in 1..Len(acc.out) : acc.out[i].blocks # <<>>
        /\ f \o Types(p) = ts
        BY DEF SaysAll, Converting
  <1>2. q \in B /\ Len(q) = Len(p) + 1 /\ q[Len(p) + 1] = b /\ \A k \in 1..Len(p) : q[k] = p[k]
        BY <1>1, AppendProperties
  <1>3. new = [acc EXCEPT !.pending = q]
        OBVIOUS
  <1>4. Types(q) = Append(Types(p), b.type)
    <2> DEFINE n == Len(p)
               S(k) == p[k].type
               U(k) == q[k].type
    <2>1. n \in Nat /\ Types(p) = [k \in 1..n |-> S(k)] /\ Types(q) = [k \in 1..(n + 1) |-> U(k)]
      <3>1. DOMAIN p = 1..Len(p) /\ DOMAIN q = 1..Len(q) /\ Len(p) \in Nat
            BY <1>1, <1>2
      <3> HIDE DEF p, q
      <3> QED BY <1>2, <3>1 DEF Types
    <2>2. U(n + 1) = b.type /\ \A k \in 1..n : U(k) = S(k)
          BY <1>2
    <2> HIDE DEF n, S, U
    <2> QED BY <2>1, <2>2
  <1>5. f \in Seq(BlockTypes) /\ Types(p) \in Seq(BlockTypes) /\ b.type \in BlockTypes
        BY <1>1, TypesTyped, TypesOfTyped DEF WireBlock
  <1> HIDE DEF p, f, q
  <1>6. f \o Types(q) = ts \o <<b.type>>
    <2> DEFINE t == Types(p)
               e == <<b.type>>
    <2>1. Types(q) = t \o e /\ e \in Seq(BlockTypes)
          BY <1>4, <1>5, AppendIsConcat
    <2> HIDE DEF t, e
    <2>2. (f \o t) \o e = f \o (t \o e)
          BY <1>5, <2>1, ConcatAssociative DEF t
    <2> QED BY <1>1, <2>1, <2>2 DEF t, e
  <1> HIDE DEF B, T, new
  <1>7. new.out = acc.out /\ new.pending = q /\ new \in [out : T, pending : B]
        BY <1>1, <1>2, <1>3
  <1> QED BY <1>1, <1>6, <1>7 DEF SaysAll, f, new, B, T, Converting

LastOf(turns) == TurnAt(turns, Len(turns))
Paired(turns, role) ==
    \A i \in 0..(Len(turns) - 1) : Returns(TurnAt(turns, i + 1), TurnAt(turns, i), role)

(* Turn t calls cs, in this order.                                         *)
Asks(t, role, cs) ==
    \E o \in Nat : /\ CallsAt(t, role) = {o + k : k \in 1..Len(cs)}
                   /\ \A k \in 1..Len(cs) : t.blocks[o + k].key = Key(role, cs[k])

(* The last turn has called cs; the results of the first are there.        *)
Pends(acc, role, cs) ==
    /\ cs \in Seq(Calls) /\ Asks(LastOf(acc.out), role, cs)
    /\ Len(acc.pending) <= Len(cs)
    /\ \A k \in 1..Len(acc.pending) :
          acc.pending[k].type = "result" /\ acc.pending[k].key = Key(role, cs[k])

(* A turn without results returns the calls of one without calls.          *)
LEMMA NoneReturned ==
    ASSUME NEW t, NEW u, NEW role, CallsAt(t, role) = {}, ResultsAt(u) = {}
    PROVE  Returns(u, t, role)
  <1> DEFINE f == [j \in {} |-> j]
  <1>1. f \in Bijection({}, {})
        BY DEF Bijection, Injection, Surjection, IsInjective
  <1> HIDE DEF f
  <1> QED BY <1>1 DEF Returns

(* A turn asks no calls exactly if it has none.                            *)
LEMMA NoneAsked ==
    ASSUME NEW t, NEW role
    PROVE  CallsAt(t, role) = {} <=> Asks(t, role, <<>>)
  <1>1. {0 + k : k \in 1..Len(<<>>)} = {} /\ \A o \in Nat : {o + k : k \in 1..Len(<<>>)} = {}
        OBVIOUS
  <1>2. \A k : k \notin 1..Len(<<>>)
        OBVIOUS
  <1> QED BY <1>1, <1>2 DEF Asks

(* Calls cs in a turn and results with their keys in the next are paired   *)
(* by position.                                                            *)
LEMMA ResultsReturn ==
    ASSUME NEW t, NEW role, NEW cs \in Seq(Calls), Asks(t, role, cs), NEW bs \in Seq(WireBlock),
           Len(bs) = Len(cs),
           \A k \in 1..Len(bs) : bs[k].type = "result" /\ bs[k].key = Key(role, cs[k])
    PROVE  Returns(Turn("user", bs), t, role)
  <1> DEFINE n == Len(cs)
             u == Turn("user", bs)
             A == CallsAt(t, role)
  <1>1. PICK o \in Nat : /\ A = {o + k : k \in 1..n}
                         /\ \A k \in 1..n : t.blocks[o + k].key = Key(role, cs[k])
        BY DEF Asks
  <1>2. n \in Nat /\ u.blocks = bs /\ ResultsAt(u) = 1..n
    <2>1. n \in Nat /\ DOMAIN bs = 1..n /\ u.blocks = bs
          BY DEF Turn
    <2> QED BY <2>1 DEF ResultsAt
  <1> HIDE DEF n, u, A
  <1>3. PICK f : f = [j \in A |-> j - o]
        OBVIOUS
  <1>4. \A j \in A : j \in Nat /\ f[j] = j - o /\ f[j] \in 1..n /\ j = o + f[j]
    <2> SUFFICES ASSUME NEW j \in A PROVE j \in Nat /\ f[j] = j - o /\ f[j] \in 1..n /\ j = o + f[j]
        OBVIOUS
    <2>1. PICK k \in 1..n : j = o + k
          BY <1>1
    <2>2. f[j] = j - o
          BY <1>3
    <2> QED BY <2>1, <2>2, <1>2
  <1>5. \A k \in 1..n : o + k \in A /\ f[o + k] = k
    <2> SUFFICES ASSUME NEW k \in 1..n PROVE o + k \in A /\ f[o + k] = k
        OBVIOUS
    <2>1. o + k \in A
          BY <1>1
    <2> QED BY <1>4, <2>1
  <1>6. f \in Bijection(A, 1..n)
    <2>1. f \in [A -> 1..n]
          BY <1>3, <1>4
    <2>2. \A i, j \in A : f[i] = f[j] => i = j
          BY <1>4
    <2>3. \A k \in 1..n : \E j \in A : f[j] = k
          BY <1>5
    <2> QED BY <2>1, <2>2, <2>3 DEF Bijection, Injection, Surjection, IsInjective
  <1>7. \A j \in A : u.blocks[f[j]].key = t.blocks[j].key
    <2> SUFFICES ASSUME NEW j \in A PROVE u.blocks[f[j]].key = t.blocks[j].key
        OBVIOUS
    <2>1. f[j] \in 1..n /\ j = o + f[j]
          BY <1>4
    <2>2. t.blocks[o + f[j]].key = Key(role, cs[f[j]])
          BY <1>1, <2>1
    <2>3. bs[f[j]].key = Key(role, cs[f[j]])
          BY <2>1 DEF n
    <2> QED BY <1>2, <2>1, <2>2, <2>3
  <1>8. \A j, k \in A : j < k => f[j] < f[k]
        BY <1>4
  <1> QED BY <1>2, <1>6, <1>7, <1>8 DEF Returns, A, u

(* A turn that returns the calls of the last keeps all turns paired.       *)
LEMMA OneMorePairs ==
    ASSUME NEW role, NEW out \in Seq(TurnsOf(role)), NEW t \in TurnsOf(role),
           Paired(out, role), Returns(t, LastOf(out), role)
    PROVE  Paired(Append(out, t), role) /\ LastOf(Append(out, t)) = t
  <1> DEFINE n == Len(out)
             new == Append(out, t)
  <1>1. /\ n \in Nat /\ Len(new) = n + 1 /\ DOMAIN new = 1..(n + 1) /\ DOMAIN out = 1..n
        /\ new[n + 1] = t /\ \A i \in 1..n : new[i] = out[i]
        BY AppendProperties
  <1>2. TurnAt(new, n + 1) = t
    <2> HIDE DEF new, n
    <2> QED BY <1>1 DEF TurnAt
  <1>3. \A i \in 0..n : TurnAt(new, i) = TurnAt(out, i)
    <2>1. \A i \in 0..n : (i \in 1..n <=> i \in 1..(n + 1)) /\ (i \in 1..n => new[i] = out[i])
          BY <1>1
    <2> HIDE DEF new, n
    <2> QED BY <1>1, <2>1 DEF TurnAt
  <1>4. ASSUME NEW i \in 0..(Len(new) - 1)
        PROVE  Returns(TurnAt(new, i + 1), TurnAt(new, i), role)
    <2> HIDE DEF new
    <2>1. CASE i = n
          BY <1>1, <1>2, <1>3, <2>1 DEF LastOf
    <2>2. CASE i # n
      <3>1. i \in 0..(n - 1) /\ i \in 0..n /\ i + 1 \in 0..n
        <4>1. n \in Nat /\ i \in 0..((n + 1) - 1)
              BY <1>1
        <4> HIDE DEF n
        <4> QED BY <2>2, <4>1
      <3>2. Returns(TurnAt(out, i + 1), TurnAt(out, i), role)
            BY <3>1 DEF Paired
      <3> QED BY <1>3, <3>1, <3>2
    <2> QED BY <2>1, <2>2
  <1> HIDE DEF new
  <1> QED BY <1>1, <1>2, <1>4 DEF Paired, LastOf, new

(* A flush of all the results the last turn waits for keeps the turns      *)
(* paired.                                                                 *)
LEMMA FlushPairs ==
    ASSUME NEW role, role # "user", NEW acc \in Converting(role), Paired(acc.out, role),
           NEW cs, Pends(acc, role, cs), Len(acc.pending) = Len(cs)
    PROVE  /\ Paired(Push(acc, "user", acc.pending).out, role)
           /\ CallsAt(LastOf(Push(acc, "user", acc.pending).out), role) = {}
  <1> DEFINE p == acc.pending
             out == acc.out
             turn == Turn("user", p)
  <1>1. out \in Seq(TurnsOf(role)) /\ p \in Seq(WireBlock)
        BY DEF Converting
  <1>2. /\ cs \in Seq(Calls) /\ Asks(LastOf(out), role, cs)
        /\ \A k \in 1..Len(p) : p[k].type = "result" /\ p[k].key = Key(role, cs[k])
        BY DEF Pends
  <1>3. CASE p = <<>>
    <2>1. cs = <<>>
      <3>1. Len(cs) = 0
            BY <1>3
      <3> QED BY <1>2, <3>1, EmptySeq
    <2>2. CallsAt(LastOf(out), role) = {}
          BY <1>2, <2>1, NoneAsked
    <2>3. Push(acc, "user", p) = acc
          BY <1>3 DEF Push
    <2> QED BY <2>2, <2>3
  <1>4. CASE p # <<>>
    <2>1. turn \in TurnsOf(role)
          BY <1>1 DEF Turn, TurnsOf
    <2>2. Push(acc, "user", p).out = Append(out, turn)
          BY <1>4 DEF Push, Converting
    <2>3. Returns(turn, LastOf(out), role)
      <3>1. Len(p) = Len(cs)
            OBVIOUS
      <3> HIDE DEF p, out
      <3> QED BY <1>1, <1>2, <3>1, ResultsReturn
    <2>4. CallsAt(turn, role) = {}
          BY DEF Turn, CallsAt
    <2> HIDE DEF turn, p, out
    <2>5. Paired(Append(out, turn), role) /\ LastOf(Append(out, turn)) = turn
      <3>1. Paired(out, role)
            BY DEF out
      <3> QED BY <1>1, <2>1, <2>3, <3>1, OneMorePairs
    <2> QED BY <2>2, <2>4, <2>5 DEF p
  <1> QED BY <1>3, <1>4

(* So does a message of a role of its own, which is now the last turn, if  *)
(* it has a block.                                                         *)
LEMMA TurnPairs ==
    ASSUME NEW role, NEW acc \in Converting(role), Paired(acc.out, role),
           CallsAt(LastOf(acc.out), role) = {},
           NEW r \in {"user", role}, NEW bs \in Seq(WireBlock),
           \A k \in 1..Len(bs) : bs[k].type # "result"
    PROVE  /\ Paired(Push(acc, r, bs).out, role)
           /\ bs # <<>> => LastOf(Push(acc, r, bs).out) = Turn(r, bs)
           /\ bs = <<>> => LastOf(Push(acc, r, bs).out) = LastOf(acc.out)
  <1> DEFINE turn == Turn(r, bs)
  <1>1. acc.out \in Seq(TurnsOf(role)) /\ turn \in TurnsOf(role)
        BY DEF Converting, Turn, TurnsOf
  <1>2. CASE bs = <<>>
        BY <1>2 DEF Push
  <1>3. CASE bs # <<>>
    <2>1. Push(acc, r, bs).out = Append(acc.out, turn)
          BY <1>3 DEF Push, Converting
    <2>2. ResultsAt(turn) = {}
          BY DEF ResultsAt, Turn
    <2>3. Returns(turn, LastOf(acc.out), role)
      <3> HIDE DEF turn
      <3> QED BY <2>2, NoneReturned
    <2> HIDE DEF turn
    <2> QED BY <1>1, <1>3, <2>1, <2>3, OneMorePairs DEF turn
  <1> QED BY <1>2, <1>3

ModelRoles == {"assistant", "model"}

LEMMA KeysTyped ==
    ASSUME NEW role \in ModelRoles, NEW c \in Calls
    PROVE  /\ c.id \in Ids /\ Key(role, c) \in Ids \cup Names
           /\ Tool(c.id) = c.tool
  <1>1. c.id \in Ids /\ c.tool \in Names
        BY DEF Ids, Names
  <1>2. Tool(c.id) = c.tool
    <2> DEFINE d == CHOOSE d \in Calls : d.id = c.id
    <2>1. d \in Calls /\ d.id = c.id
          OBVIOUS
    <2>2. d.tool = c.tool
          BY <2>1, MessagesAssumption
    <2> QED BY <2>2 DEF Tool
  <1> QED BY <1>1, <1>2 DEF Key

LEMMA BlocksTyped == \A m \in Message : Blocks(m) \in Seq(BlockTypes)
  <1> SUFFICES ASSUME NEW m \in Message PROVE Blocks(m) \in Seq(BlockTypes)
      OBVIOUS
  <1>1. m.calls \in Seq(Calls)
        BY DEF Message
  <1>2. [k \in DOMAIN m.calls |-> "call"] \in Seq(BlockTypes)
    <2> DEFINE n == Len(m.calls)
    <2>1. n \in Nat /\ DOMAIN m.calls = 1..n
          BY <1>1
    <2> HIDE DEF n
    <2>2. [k \in 1..n |-> "call"] \in Seq(BlockTypes)
          BY <2>1 DEF BlockTypes
    <2> QED BY <2>1, <2>2
  <1>3. <<>> \in Seq(BlockTypes) /\ <<"text">> \in Seq(BlockTypes) /\ <<"result">> \in Seq(BlockTypes)
        BY DEF BlockTypes
  <1> DEFINE cp == [k \in DOMAIN m.calls |-> "call"]
  <1> HIDE DEF cp
  <1>4. <<>> \o cp \in Seq(BlockTypes) /\ <<"text">> \o cp \in Seq(BlockTypes)
        BY <1>2, <1>3, ConcatProperties DEF cp
  <1>5. Blocks(m) \in {<<>>, <<"text">>, <<"result">>, <<>> \o cp, <<"text">> \o cp}
    <2>1. m.role \in {"system", "user", "assistant", "tool"}
          BY DEF Message
    <2> QED BY <2>1 DEF Blocks, cp
  <1> QED BY <1>3, <1>4, <1>5

HistoryTo(ms, n) == [i \in 1..n |-> Blocks(ms[i])]

(* The blocks of one message more.                                         *)
LEMMA HistoryMore ==
    ASSUME NEW ms \in Seq(Message), NEW n \in 0..Len(ms)
    PROVE  /\ HistoryTo(ms, n) \in Seq(Seq(BlockTypes))
           /\ FlattenSeq(HistoryTo(ms, n)) \in Seq(BlockTypes)
           /\ n < Len(ms) => FlattenSeq(HistoryTo(ms, n + 1)) =
                                FlattenSeq(HistoryTo(ms, n)) \o Blocks(ms[n + 1])
  <1> DEFINE B == Seq(BlockTypes)
             T(i) == Blocks(ms[i])
  <1>1. n \in Nat /\ n <= Len(ms) /\ \A i \in 1..Len(ms) : T(i) \in B
    <2>1. \A i \in 1..Len(ms) : ms[i] \in Message
          OBVIOUS
    <2>2. n \in Nat /\ n <= Len(ms)
          OBVIOUS
    <2> QED BY <2>1, <2>2, BlocksTyped
  <1>2. \A k : HistoryTo(ms, k) = [i \in 1..k |-> T(i)]
        BY DEF HistoryTo
  <1> HIDE DEF B, T
  <1>3. HistoryTo(ms, n) \in Seq(B)
    <2>1. \A i \in 1..n : T(i) \in B
      <3>1. \A i \in 1..n : i \in 1..Len(ms)
            BY <1>1
      <3> QED BY <1>1, <3>1
    <2> QED BY <1>1, <1>2, <2>1
  <1>4. ASSUME n < Len(ms) PROVE HistoryTo(ms, n + 1) = Append(HistoryTo(ms, n), T(n + 1)) /\ T(n + 1) \in B
    <2>1. HistoryTo(ms, n) = [i \in 1..n |-> T(i)] /\ HistoryTo(ms, n + 1) = [i \in 1..(n + 1) |-> T(i)]
          BY <1>2
    <2>2. n + 1 \in 1..Len(ms)
          BY <1>1, <1>4
    <2>3. T(n + 1) \in B
          BY <1>1, <2>2
    <2>4. HistoryTo(ms, n + 1) = Append(HistoryTo(ms, n), T(n + 1))
          BY <1>1, <2>1
    <2> QED BY <2>3, <2>4
  <1>5. \A s \in Seq(B) : FlattenSeq(s) \in B /\ \A x \in B : FlattenSeq(Append(s, x)) = FlattenSeq(s) \o x
        BY FlatMore DEF B
  <1> QED BY <1>3, <1>4, <1>5 DEF B, T

(* The blocks of a user message are those the history counts.              *)
LEMMA UserSays ==
    ASSUME NEW m \in Message, m.role = "user"
    PROVE  /\ UserBlocks(m) \in Seq(WireBlock) /\ Types(UserBlocks(m)) = Blocks(m)
           /\ \A k \in 1..Len(UserBlocks(m)) : UserBlocks(m)[k].type = "text"
  <1>1. Block("text", m.content, NoId) \in WireBlock /\ Block("text", m.content, NoId).type = "text"
    <2>1. m.content \in Contents
          BY DEF Message
    <2> QED BY <2>1 DEF Block, WireBlock, BlockTypes
  <1> DEFINE b == Block("text", m.content, NoId)
  <1> HIDE DEF b
  <1>2. UserBlocks(m) = IF HasContent(m) THEN <<b>> ELSE <<>>
        BY DEF UserBlocks, b
  <1>3. Blocks(m) = IF HasContent(m) THEN <<"text">> ELSE <<>>
        BY DEF Blocks
  <1>4. /\ b \in WireBlock /\ b.type = "text"
        BY <1>1 DEF b
  <1>5. Types(<<b>>) = <<"text">> /\ Types(<<>>) = <<>>
        BY <1>4 DEF Types
  <1>6. <<b>> \in Seq(WireBlock) /\ <<>> \in Seq(WireBlock)
        BY <1>4
  <1>7. \A k \in 1..Len(<<b>>) : <<b>>[k].type = "text"
    <2>1. \A k \in 1..Len(<<b>>) : k = 1
          OBVIOUS
    <2> QED BY <1>4, <2>1
  <1> QED BY <1>2, <1>3, <1>5, <1>6, <1>7

(* So are those of an assistant message, and they call what it calls.      *)
LEMMA AssistantSays ==
    ASSUME NEW m \in Message, m.role = "assistant", WellMade(m), NEW role \in ModelRoles
    PROVE  /\ AssistantBlocks(m, role) \in Seq(WireBlock)
           /\ Types(AssistantBlocks(m, role)) = Blocks(m)
           /\ \A k \in 1..Len(AssistantBlocks(m, role)) :
                 AssistantBlocks(m, role)[k].type # "result"
           /\ Asks(Turn(role, AssistantBlocks(m, role)), role, m.calls)
           /\ AssistantBlocks(m, role) = <<>> => m.calls = <<>>
  <1> DEFINE cs == m.calls
             b == Block("text", m.content, NoId)
             c(k) == Block("call", "none", Key(role, cs[k]))
             tp == IF m.content \in {"none", "empty"} THEN <<>> ELSE <<b>>
             n == Len(cs)
             cp == [k \in 1..n |-> c(k)]
             bs == AssistantBlocks(m, role)
             o == Len(tp)
  <1>1. cs \in Seq(Calls) /\ n \in Nat /\ DOMAIN cs = 1..n /\ m.content \in Contents
        BY DEF Message
  <1>2. b \in WireBlock /\ b.type = "text"
        BY <1>1 DEF Block, WireBlock, BlockTypes
  <1>3. ASSUME NEW k \in 1..n
        PROVE  c(k) \in WireBlock /\ c(k).type = "call" /\ c(k).key = Key(role, cs[k])
    <2>1. Key(role, cs[k]) \in Ids \cup Names
      <3>1. cs[k] \in Calls
            BY <1>1
      <3> QED BY <3>1, KeysTyped
    <2> QED BY <2>1 DEF Block, WireBlock, BlockTypes, Contents
  <1>4. bs = tp \o cp
    <2>1. [k \in DOMAIN m.calls |-> Block("call", "none", Key(role, m.calls[k]))] = cp
          BY <1>1
    <2> QED BY <2>1 DEF AssistantBlocks
  <1> HIDE DEF b, c, bs
  <1>5. tp \in Seq(WireBlock) /\ o \in Nat /\ cp \in Seq(WireBlock) /\ Len(cp) = n
        /\ (\A k \in 1..o : tp[k].type = "text") /\ (\A k \in 1..n : cp[k] = c(k))
    <2>1. tp \in Seq(WireBlock) /\ o \in Nat /\ \A k \in 1..o : tp[k].type = "text"
          BY <1>2
    <2> HIDE DEF n
    <2>2. cp \in Seq(WireBlock) /\ Len(cp) = n /\ \A k \in 1..n : cp[k] = c(k)
          BY <1>1, <1>3
    <2> QED BY <2>1, <2>2
  <1> HIDE DEF cp, n
  <1>6. /\ bs \in Seq(WireBlock) /\ Len(bs) = o + n
        /\ \A k \in 1..o : bs[k].type = "text"
        /\ \A k \in 1..n : bs[o + k] = c(k)
    <2> HIDE DEF tp, o
    <2>1. bs \in Seq(WireBlock) /\ Len(bs) = o + n
          BY <1>4, <1>5, ConcatProperties DEF o
    <2>2. \A k \in 1..(o + n) : bs[k] = IF k <= o THEN tp[k] ELSE cp[k - o]
          BY <1>4, <1>5, ConcatProperties DEF o
    <2>3. \A k \in 1..o : k \in 1..(o + n) /\ k <= o
          BY <1>1, <1>5
    <2>4. \A k \in 1..n : o + k \in 1..(o + n) /\ ~(o + k <= o) /\ (o + k) - o = k
          BY <1>1, <1>5
    <2>5. \A k \in 1..n : bs[o + k] = cp[k]
          BY <2>2, <2>4
    <2> QED BY <1>5, <2>1, <2>2, <2>3, <2>5
  <1>7. o = IF m.content = "text" THEN 1 ELSE 0
    <2>1. m.content \in {"text", "empty", "none"}
          BY DEF WellMade
    <2> QED BY <2>1
  <1> HIDE DEF o, tp
  <1>8. \A k \in 1..Len(bs) :
           /\ k \in 1..o => bs[k].type = "text"
           /\ k \notin 1..o => (k - o) \in 1..n /\ k = o + (k - o) /\ bs[k].type = "call"
    <2> SUFFICES ASSUME NEW k \in 1..Len(bs), k \notin 1..o
                 PROVE  (k - o) \in 1..n /\ k = o + (k - o) /\ bs[k].type = "call"
        BY <1>6
    <2>1. k \in 1..(o + n)
          BY <1>6
    <2>2. (k - o) \in 1..n /\ k = o + (k - o)
          BY <1>1, <1>5, <2>1
    <2> QED BY <1>3, <1>6, <2>2
  <1>9. Asks(Turn(role, bs), role, cs)
    <2> HIDE DEF cs
    <2> DEFINE t == Turn(role, bs)
    <2>1. t.role = role /\ t.blocks = bs /\ DOMAIN bs = 1..Len(bs)
          BY <1>6 DEF Turn
    <2> HIDE DEF t
    <2>2. CallsAt(t, role) = {k \in 1..Len(bs) : bs[k].type = "call"}
          BY <2>1 DEF CallsAt
    <2>3. \A k \in 1..n : o + k \in 1..Len(bs) /\ bs[o + k].type = "call"
          /\ bs[o + k].key = Key(role, cs[k])
      <3>1. \A k \in 1..n : o + k \in 1..(o + n)
            BY <1>1, <1>5
      <3> QED BY <1>3, <1>6, <3>1
    <2>4. \A k \in 1..Len(bs) : bs[k].type = "call" => (k - o) \in 1..n /\ k = o + (k - o)
          BY <1>8
    <2>5. CallsAt(t, role) = {o + k : k \in 1..n}
          BY <2>2, <2>3, <2>4
    <2> QED BY <1>5, <2>1, <2>3, <2>5 DEF Asks, t, n
  <1>10. Types(bs) = Blocks(m)
    <2>1. Types(bs) = [k \in 1..(o + n) |-> IF k <= o THEN "text" ELSE "call"]
      <3>1. Types(bs) = [k \in 1..Len(bs) |-> bs[k].type] /\ Len(bs) = o + n
            BY <1>6 DEF Types
      <3>2. \A k \in 1..Len(bs) : bs[k].type = IF k <= o THEN "text" ELSE "call"
        <4>1. \A k \in 1..Len(bs) : k \in Nat /\ Len(bs) \in Nat /\ (k \in 1..o <=> k <= o)
              BY <1>5, <1>6
        <4> QED BY <1>8, <4>1
      <3> QED BY <3>1, <3>2
    <2> DEFINE dp == [k \in DOMAIN m.calls |-> "call"]
    <2>2. dp = [k \in 1..n |-> "call"] /\ dp \in Seq(BlockTypes) /\ Len(dp) = n
      <3>1. dp = [k \in 1..n |-> "call"]
            BY <1>1
      <3> HIDE DEF dp
      <3> QED BY <1>1, <3>1 DEF BlockTypes
    <2>3. Blocks(m) = (IF m.content = "text" THEN <<"text">> ELSE <<>>) \o dp
          BY DEF Blocks
    <2> DEFINE ep == IF m.content = "text" THEN <<"text">> ELSE <<>>
    <2>4. ASSUME m.content = "text"
          PROVE  Len(ep) = o /\ ep \in Seq(BlockTypes) /\ \A k \in 1..o : ep[k] = "text"
      <3>1. ep = <<"text">> /\ o = 1
            BY <1>7, <2>4
      <3>2. Len(<<"text">>) = 1 /\ <<"text">>[1] = "text" /\ <<"text">> \in Seq(BlockTypes)
            BY DEF BlockTypes
      <3>3. \A k \in 1..1 : k = 1
            OBVIOUS
      <3> QED BY <3>1, <3>2, <3>3
    <2>5. Len(ep) = o /\ ep \in Seq(BlockTypes) /\ \A k \in 1..o : ep[k] = "text"
      <3>1. ASSUME m.content # "text"
            PROVE  Len(ep) = o /\ ep \in Seq(BlockTypes) /\ \A k \in 1..o : ep[k] = "text"
        <4>1. ep = <<>> /\ o = 0
              BY <1>7, <3>1
        <4> HIDE DEF ep
        <4> QED BY <4>1
      <3> HIDE DEF ep
      <3> QED BY <2>4, <3>1
    <2> HIDE DEF dp, ep
    <2>6. ep \o dp = [k \in 1..(o + n) |-> IF k <= o THEN "text" ELSE "call"]
      <3> DEFINE e == ep \o dp
      <3>1. /\ e \in Seq(BlockTypes) /\ Len(e) = Len(ep) + Len(dp)
            /\ \A k \in 1..(Len(ep) + Len(dp)) : e[k] = IF k <= Len(ep) THEN ep[k] ELSE dp[k - Len(ep)]
        <4>1. ep \in Seq(BlockTypes) /\ dp \in Seq(BlockTypes)
              BY <2>2, <2>5
        <4> QED BY <4>1, ConcatProperties
      <3> HIDE DEF e
      <3>2. /\ e \in Seq(BlockTypes) /\ Len(e) = o + n
            /\ \A k \in 1..(o + n) : e[k] = IF k <= o THEN ep[k] ELSE dp[k - o]
            BY <2>2, <2>5, <3>1
      <3>3. \A k \in 1..(o + n) : e[k] = IF k <= o THEN "text" ELSE "call"
        <4> SUFFICES ASSUME NEW k \in 1..(o + n)
                     PROVE  e[k] = IF k <= o THEN "text" ELSE "call"
            OBVIOUS
        <4>1. CASE k <= o
          <5>1. k \in 1..o
                BY <1>1, <1>5, <4>1
          <5> QED BY <2>5, <3>2, <4>1, <5>1
        <4>2. CASE ~(k <= o)
          <5>1. k - o \in 1..n
                BY <1>1, <1>5, <4>2
          <5>2. dp[k - o] = "call"
                BY <2>2, <5>1
          <5> QED BY <3>2, <4>2, <5>2
        <4> QED BY <4>1, <4>2
      <3>4. e = [k \in 1..(o + n) |-> IF k <= o THEN "text" ELSE "call"]
            BY <3>2, <3>3
      <3> QED BY <3>4 DEF e
    <2> QED BY <2>1, <2>3, <2>6 DEF ep
  <1>11. bs = <<>> => cs = <<>>
    <2> HIDE DEF cs
    <2>1. bs = <<>> => o + n = 0
          BY <1>6, EmptySeq
    <2>2. bs = <<>> => n = 0
          BY <1>1, <1>5, <2>1
    <2> QED BY <1>1, <2>2, EmptySeq DEF n
  <1> QED BY <1>6, <1>8, <1>9, <1>10, <1>11 DEF bs

(* Of the first n messages, acc has made all there is to be made: only the *)
(* results of the turn still due, or of the last, are pending.             *)
Stands(ms, role, n, acc) ==
    /\ SaysAll(acc, role, FlattenSeq(HistoryTo(ms, n)))
    /\ Paired(acc.out, role)
    /\ \E cs : /\ Pends(acc, role, cs)
               /\ \A a : Due(ms, n, a) => cs = ms[a].calls /\ Len(acc.pending) = n - a
               /\ (\A a : ~Due(ms, n, a)) => Len(acc.pending) = Len(cs)

(* Before the first message nothing is converted.                          *)
LEMMA NothingStands ==
    ASSUME NEW ms \in Seq(Message), NEW role \in ModelRoles
    PROVE  Stands(ms, role, 0, NoTurns)
  <1>1. NoTurns \in Converting(role) /\ NoTurns.out = <<>> /\ NoTurns.pending = <<>>
        BY DEF NoTurns, Converting
  <1>2. FlattenSeq(HistoryTo(ms, 0)) = <<>>
    <2>1. HistoryTo(ms, 0) = <<>>
          BY DEF HistoryTo
    <2> QED BY <2>1 DEF FlattenSeq
  <1>3. FlattenSeq(TypesOf(<<>>)) \o Types(<<>>) = <<>>
    <2>1. TypesOf(<<>>) = <<>> /\ Types(<<>>) = <<>>
          BY DEF TypesOf, Types
    <2>2. FlattenSeq(<<>>) = <<>>
          BY DEF FlattenSeq
    <2> QED BY <2>1, <2>2
  <1>4. SaysAll(NoTurns, role, FlattenSeq(HistoryTo(ms, 0)))
    <2>1. \A i \in 1..Len(<<>>) : <<>>[i].blocks # <<>>
          OBVIOUS
    <2> QED BY <1>1, <1>2, <1>3, <2>1 DEF SaysAll
  <1>5. Paired(<<>>, role)
    <2>1. \A i : i \notin 0..(Len(<<>>) - 1)
          OBVIOUS
    <2> QED BY <2>1 DEF Paired
  <1>6. Pends(NoTurns, role, <<>>)
    <2>1. CallsAt(LastOf(<<>>), role) = {}
          BY DEF LastOf, TurnAt, Turn, CallsAt
    <2>2. Asks(LastOf(<<>>), role, <<>>)
          BY <2>1, NoneAsked
    <2>3. <<>> \in Seq(Calls) /\ Len(<<>>) <= Len(<<>>) /\ \A k : k \notin 1..Len(<<>>)
          OBVIOUS
    <2> QED BY <1>1, <2>2, <2>3 DEF Pends
  <1>7. \A a : ~Due(ms, 0, a)
        BY DEF Due
  <1> QED BY <1>1, <1>4, <1>5, <1>6, <1>7 DEF Stands

(* What a user or an assistant message finds, and what it leaves.          *)
LEMMA TurnFinds ==
    ASSUME NEW ms \in Seq(Message), NEW role \in ModelRoles, NEW n \in 0..Len(ms), NEW acc,
           Stands(ms, role, n, acc), \A a : ~Due(ms, n, a)
    PROVE  /\ SaysAll(Flushed(acc), role, FlattenSeq(HistoryTo(ms, n)))
           /\ Flushed(acc).pending = <<>> /\ Flushed(acc) \in Converting(role)
           /\ Paired(Flushed(acc).out, role)
           /\ CallsAt(LastOf(Flushed(acc).out), role) = {}
  <1>1. PICK cs : Pends(acc, role, cs) /\ Len(acc.pending) = Len(cs)
        BY DEF Stands
  <1>2. SaysAll(acc, role, FlattenSeq(HistoryTo(ms, n))) /\ Paired(acc.out, role)
        BY DEF Stands
  <1>3. acc \in Converting(role) /\ role # "user"
        BY <1>2 DEF SaysAll, ModelRoles
  <1>4. /\ SaysAll(Flushed(acc), role, FlattenSeq(HistoryTo(ms, n)))
        /\ Flushed(acc).pending = <<>>
        /\ Flushed(acc).out = Push(acc, "user", acc.pending).out
        BY <1>2, FlushSays
  <1>5. /\ Paired(Flushed(acc).out, role)
        /\ CallsAt(LastOf(Flushed(acc).out), role) = {}
        BY <1>1, <1>2, <1>3, <1>4, FlushPairs
  <1>6. Flushed(acc) \in Converting(role)
        BY <1>4 DEF SaysAll
  <1> QED BY <1>4, <1>5, <1>6

(* A user or an assistant message comes when no turn is due.               *)
LEMMA TurnStands ==
    ASSUME NEW ms \in Seq(Message), Complete(ms), NEW role \in ModelRoles,
           NEW n \in 0..Len(ms), n < Len(ms), NEW acc, Stands(ms, role, n, acc),
           ms[n + 1].role \in {"user", "assistant"},
           NEW r \in {"user", role}, NEW bs \in Seq(WireBlock), Types(bs) = Blocks(ms[n + 1]),
           \A k \in 1..Len(bs) : bs[k].type # "result",
           NEW cs, cs \in Seq(Calls), Asks(Turn(r, bs), role, cs), bs = <<>> => cs = <<>>,
           ms[n + 1].role = "assistant" => cs = ms[n + 1].calls,
           ms[n + 1].role = "user" => cs = <<>>
    PROVE  Stands(ms, role, n + 1, Push(Flushed(acc), r, bs))
  <1> DEFINE old == Flushed(acc)
             new == Push(old, r, bs)
  <1>1. (\A a : ~Due(ms, n, a)) /\
        \A a : Due(ms, n + 1, a) <=> a = n + 1 /\ ms[a].role = "assistant" /\ ms[a].calls # <<>>
        BY DueNext
  <1>2. /\ SaysAll(old, role, FlattenSeq(HistoryTo(ms, n)))
        /\ old.pending = <<>> /\ old \in Converting(role)
        /\ Paired(old.out, role) /\ CallsAt(LastOf(old.out), role) = {}
        BY <1>1, TurnFinds
  <1> HIDE DEF old
  <1>3. SaysAll(new, role, FlattenSeq(HistoryTo(ms, n + 1))) /\ new.pending = <<>>
    <2>1. SaysAll(new, role, FlattenSeq(HistoryTo(ms, n)) \o Types(bs)) /\ new.pending = <<>>
          BY <1>2, TurnSays
    <2>2. FlattenSeq(HistoryTo(ms, n + 1)) = FlattenSeq(HistoryTo(ms, n)) \o Blocks(ms[n + 1])
          BY HistoryMore
    <2> QED BY <2>1, <2>2
  <1>4. /\ Paired(new.out, role)
        /\ bs # <<>> => LastOf(new.out) = Turn(r, bs)
        /\ bs = <<>> => LastOf(new.out) = LastOf(old.out)
        BY <1>2, TurnPairs
  <1>5. Asks(LastOf(new.out), role, cs)
    <2>1. CASE bs # <<>>
          BY <1>4, <2>1
    <2>2. CASE bs = <<>>
          BY <1>2, <1>4, <2>2, NoneAsked
    <2> QED BY <2>1, <2>2
  <1> HIDE DEF new
  <1>6. Pends(new, role, cs)
    <2>1. Len(<<>>) = 0 /\ Len(cs) \in Nat /\ \A k : k \notin 1..Len(<<>>)
          OBVIOUS
    <2> QED BY <1>3, <1>5, <2>1 DEF Pends
  <1>7. \A a : Due(ms, n + 1, a) => cs = ms[a].calls /\ Len(new.pending) = (n + 1) - a
    <2> SUFFICES ASSUME NEW a, Due(ms, n + 1, a)
                 PROVE  cs = ms[a].calls /\ Len(new.pending) = (n + 1) - a
        OBVIOUS
    <2>1. a = n + 1 /\ ms[n + 1].role = "assistant"
          BY <1>1
    <2>2. n \in Nat /\ Len(<<>>) = 0
          OBVIOUS
    <2> QED BY <1>3, <2>1, <2>2
  <1>8. (\A a : ~Due(ms, n + 1, a)) => Len(new.pending) = Len(cs)
    <2> SUFFICES ASSUME \A a : ~Due(ms, n + 1, a) PROVE cs = <<>>
        BY <1>3
    <2>1. ms[n + 1].role = "assistant" => ms[n + 1].calls = <<>>
          BY <1>1
    <2> QED BY <2>1
  <1> QED BY <1>3, <1>4, <1>6, <1>7, <1>8 DEF Stands, new, old

(* A tool message brings the result of the next call of the turn that is   *)
(* due.                                                                    *)
LEMMA ToolStands ==
    ASSUME NEW ms \in Seq(Message), Complete(ms), NEW role \in ModelRoles,
           NEW n \in 0..Len(ms), n < Len(ms), NEW acc, Stands(ms, role, n, acc),
           ms[n + 1].role = "tool"
    PROVE  Stands(ms, role, n + 1, Converted(acc, ms[n + 1], role))
  <1> DEFINE m == ms[n + 1]
             b == IF role = "model" THEN FunctionResponse(m) ELSE ToolResult(m)
             p == acc.pending
             new == [acc EXCEPT !.pending = Append(@, b)]
  <1>1. n \in Nat /\ m \in Message
    <2>1. n \in Nat /\ n + 1 \in 1..Len(ms)
          OBVIOUS
    <2> QED BY <2>1
  <1>2. PICK a : Due(ms, n, a)
        BY OneIsDue
  <1>3. PICK cs : /\ Pends(acc, role, cs)
                  /\ \A d : Due(ms, n, d) => cs = ms[d].calls /\ Len(p) = n - d
        BY DEF Stands
  <1>4. /\ cs = ms[a].calls /\ Len(p) = n - a /\ a \in 1..n /\ n < a + Len(cs)
        /\ m.callId = cs[n + 1 - a].id
        /\ \A d : Due(ms, n, d) => d = a
    <2>1. cs = ms[a].calls /\ Len(p) = n - a
          BY <1>2, <1>3
    <2>2. a \in 1..n /\ n < a + Len(ms[a].calls)
          BY <1>2 DEF Due
    <2>3. m.callId = ms[a].calls[n + 1 - a].id
          BY <1>2, OneIsDue
    <2>4. \A d : Due(ms, n, d) => d = a
          BY <1>2, OneIsDue
    <2> QED BY <2>1, <2>2, <2>3, <2>4
  <1>5. cs \in Seq(Calls) /\ Len(cs) \in Nat /\ n + 1 - a \in 1..Len(cs) /\ n + 1 - a = Len(p) + 1
    <2>1. cs \in Seq(Calls)
          BY <1>3 DEF Pends
    <2>2. Len(cs) \in Nat
          BY <2>1
    <2> HIDE DEF p
    <2> QED BY <1>1, <1>4, <2>1, <2>2
  <1> DEFINE c == cs[n + 1 - a]
  <1>6. c \in Calls
        BY <1>5
  <1> HIDE DEF c
  <1>7. b \in WireBlock /\ b.type = "result" /\ b.key = Key(role, c)
    <2>1. m.callId = c.id
          BY <1>4 DEF c
    <2>2. c.id \in Ids /\ Key(role, c) \in Ids \cup Names /\ Tool(c.id) = c.tool
          BY <1>6, KeysTyped
    <2>3. m.content \in Contents
          BY <1>1 DEF Message
    <2> DEFINE k == IF role = "model" THEN Tool(m.callId) ELSE m.callId
    <2>4. k = Key(role, c)
          BY <2>1, <2>2 DEF Key
    <2>5. b = [type |-> "result", content |-> m.content, key |-> k]
          BY DEF FunctionResponse, ToolResult, Block
    <2> HIDE DEF k, b, m
    <2> QED BY <2>2, <2>3, <2>4, <2>5 DEF WireBlock, BlockTypes
  <1>8. Converted(acc, m, role) = new
        BY DEF Converted
  <1>9. Blocks(m) = <<"result">>
        BY DEF Blocks
  <1> HIDE DEF m, b
  <1>10. acc \in Converting(role) /\ p \in Seq(WireBlock)
        BY DEF Stands, SaysAll, Converting
  <1>11. /\ new.out = acc.out /\ new.pending = Append(p, b) /\ Len(new.pending) = Len(p) + 1
         /\ new.pending[Len(p) + 1] = b /\ \A k \in 1..Len(p) : new.pending[k] = p[k]
    <2>1. new.out = acc.out /\ new.pending = Append(p, b)
          BY <1>10 DEF Converting
    <2> HIDE DEF new, p
    <2>2. b \in WireBlock
          BY <1>7
    <2> QED BY <1>10, <2>1, <2>2, AppendProperties
  <1>12. SaysAll(new, role, FlattenSeq(HistoryTo(ms, n + 1)))
    <2>1. SaysAll(acc, role, FlattenSeq(HistoryTo(ms, n)))
          BY DEF Stands
    <2>2. SaysAll(new, role, FlattenSeq(HistoryTo(ms, n)) \o <<b.type>>)
          BY <1>7, <2>1, ResultSays
    <2>3. FlattenSeq(HistoryTo(ms, n + 1)) = FlattenSeq(HistoryTo(ms, n)) \o <<"result">>
          BY <1>9, HistoryMore DEF m
    <2> QED BY <1>7, <2>2, <2>3
  <1> HIDE DEF new, p
  <1>13. Pends(new, role, cs)
    <2>1. Len(p) \in Nat
          BY <1>10
    <2>2. \A k \in 1..(Len(p) + 1) : k \in 1..Len(p) \/ k = Len(p) + 1
          BY <2>1
    <2>3. \A k \in 1..Len(p) : p[k].type = "result" /\ p[k].key = Key(role, cs[k])
          BY <1>3 DEF Pends, p
    <2>4. b.type = "result" /\ b.key = Key(role, cs[Len(p) + 1])
          BY <1>5, <1>7 DEF c
    <2>5. Len(p) + 1 <= Len(cs)
          BY <1>5
    <2> QED BY <1>3, <1>11, <2>2, <2>3, <2>4, <2>5 DEF Pends
  <1>14. \A d : Due(ms, n + 1, d) => cs = ms[d].calls /\ Len(new.pending) = (n + 1) - d
    <2>1. \A d : Due(ms, n + 1, d) => d = a
          BY <1>4, DueNext
    <2> QED BY <1>1, <1>4, <1>5, <1>11, <2>1
  <1>15. (\A d : ~Due(ms, n + 1, d)) => Len(new.pending) = Len(cs)
    <2>1. Due(ms, n + 1, a) <=> n + 1 < a + Len(cs)
          BY <1>2, <1>4, DueNext
    <2>2. ~Due(ms, n + 1, a) => Len(cs) = (n + 1) - a
      <3> DEFINE size == Len(cs)
      <3>1. size \in Nat /\ n \in Nat /\ a \in Nat /\ n < a + size
            BY <1>1, <1>4, <1>5
      <3> HIDE DEF size
      <3>2. ~(n + 1 < a + size) => size = (n + 1) - a
            BY <3>1
      <3> QED BY <2>1, <3>2 DEF size
    <2>3. Len(new.pending) = (n + 1) - a
          BY <1>1, <1>4, <1>5, <1>11
    <2> QED BY <2>2, <2>3
  <1>16. Paired(new.out, role)
         BY <1>11 DEF Stands
  <1> QED BY <1>8, <1>12, <1>13, <1>14, <1>15, <1>16 DEF Stands, m

(* A system message is left to the body, and no turn is due then.          *)
LEMMA SystemStands ==
    ASSUME NEW ms \in Seq(Message), Complete(ms), NEW role \in ModelRoles,
           NEW n \in 0..Len(ms), n < Len(ms), NEW acc, Stands(ms, role, n, acc),
           ms[n + 1].role = "system"
    PROVE  Stands(ms, role, n + 1, Converted(acc, ms[n + 1], role))
  <1>1. (\A a : ~Due(ms, n, a)) /\ \A a : ~Due(ms, n + 1, a)
        BY DueNext
  <1>2. Converted(acc, ms[n + 1], role) = acc
        BY DEF Converted
  <1>3. FlattenSeq(HistoryTo(ms, n + 1)) = FlattenSeq(HistoryTo(ms, n))
    <2>1. Blocks(ms[n + 1]) = <<>>
          BY DEF Blocks
    <2>2. FlattenSeq(HistoryTo(ms, n)) \in Seq(BlockTypes)
          BY HistoryMore
    <2>3. FlattenSeq(HistoryTo(ms, n)) \o <<>> = FlattenSeq(HistoryTo(ms, n))
          BY <2>2, ConcatEmptySeq
    <2>4. FlattenSeq(HistoryTo(ms, n + 1)) = FlattenSeq(HistoryTo(ms, n)) \o Blocks(ms[n + 1])
          BY HistoryMore
    <2> QED BY <2>1, <2>3, <2>4
  <1> QED BY <1>1, <1>2, <1>3 DEF Stands

LEMMA OneMoreStands ==
    ASSUME NEW ms \in Seq(Message), Complete(ms), NEW role \in ModelRoles,
           NEW n \in 0..Len(ms), n < Len(ms), NEW acc, Stands(ms, role, n, acc),
           WellMade(ms[n + 1])
    PROVE  Stands(ms, role, n + 1, Converted(acc, ms[n + 1], role))
  <1> DEFINE m == ms[n + 1]
  <1>1. m \in Message /\ m.role \in {"system", "user", "assistant", "tool"}
    <2>1. n + 1 \in 1..Len(ms)
          OBVIOUS
    <2>2. m \in Message
          BY <2>1
    <2> QED BY <2>2 DEF Message
  <1>2. CASE m.role = "system"
        BY <1>2, SystemStands
  <1>3. CASE m.role = "tool"
        BY <1>3, ToolStands
  <1>4. CASE m.role = "user"
    <2> DEFINE bs == UserBlocks(m)
    <2>1. Converted(acc, m, role) = Push(Flushed(acc), "user", bs)
          BY <1>4 DEF Converted
    <2>2. /\ bs \in Seq(WireBlock) /\ Types(bs) = Blocks(m)
          /\ \A k \in 1..Len(bs) : bs[k].type = "text"
          BY <1>1, <1>4, UserSays
    <2>3. Asks(Turn("user", bs), role, <<>>)
      <3>1. CallsAt(Turn("user", bs), role) = {}
            BY DEF CallsAt, Turn, ModelRoles
      <3> QED BY <3>1, NoneAsked
    <2>4. <<>> \in Seq(Calls) /\ "user" \in {"user", role}
          OBVIOUS
    <2>5. \A k \in 1..Len(bs) : bs[k].type # "result"
          BY <2>2
    <2> HIDE DEF bs
    <2>6. Stands(ms, role, n + 1, Push(Flushed(acc), "user", bs))
          BY <1>4, <2>2, <2>3, <2>4, <2>5, TurnStands
    <2> QED BY <2>1, <2>6
  <1>5. CASE m.role = "assistant"
    <2> DEFINE bs == AssistantBlocks(m, role)
    <2>1. Converted(acc, m, role) = Push(Flushed(acc), role, bs)
          BY <1>5 DEF Converted
    <2>2. /\ bs \in Seq(WireBlock) /\ Types(bs) = Blocks(m)
          /\ \A k \in 1..Len(bs) : bs[k].type # "result"
          /\ Asks(Turn(role, bs), role, m.calls)
          /\ bs = <<>> => m.calls = <<>>
          BY <1>1, <1>5, AssistantSays
    <2>3. m.calls \in Seq(Calls) /\ role \in {"user", role}
          BY <1>1 DEF Message
    <2> HIDE DEF bs
    <2>4. Stands(ms, role, n + 1, Push(Flushed(acc), role, bs))
          BY <1>5, <2>2, <2>3, TurnStands
    <2> QED BY <2>1, <2>4
  <1> QED BY <1>1, <1>2, <1>3, <1>4, <1>5

(* The whole history: nothing is pending but the results of the last turn. *)
LEMMA WholeHistoryStands ==
    ASSUME NEW ms \in Seq(Message), Complete(ms), NEW role \in ModelRoles,
           \A i \in 1..Len(ms) : WellMade(ms[i])
    PROVE  Stands(ms, role, Len(ms), Conversion(ms, role)[Len(ms)])
  <1> DEFINE L == Len(ms)
             At(k) == Stands(ms, role, k, Conversion(ms, role)[k])
             Bad == {k \in 0..L : ~At(k)}
  <1>1. SUFFICES ASSUME Bad # {} PROVE FALSE
    <2>1. L \in 0..L
          OBVIOUS
    <2> QED BY <2>1
  <1>2. PICK k \in Bad : \A j \in Bad : k <= j
    <2>1. Bad \in SUBSET Nat
          OBVIOUS
    <2> HIDE DEF Bad
    <2> QED BY <1>1, <2>1, LeastNumber
  <1>3. k \in 0..L /\ ~At(k) /\ L \in Nat
        OBVIOUS
  <1>4. k # 0
    <2>1. At(0)
          BY NothingStands, ConversionSteps
    <2> HIDE DEF At
    <2> QED BY <1>3, <2>1
  <1>5. k - 1 \in 0..L /\ k - 1 < L /\ (k - 1) + 1 = k /\ k \in 1..L /\ k - 1 \notin Bad
    <2> HIDE DEF Bad
    <2> QED BY <1>2, <1>3, <1>4
  <1>6. At(k - 1)
        BY <1>5
  <1>7. Conversion(ms, role)[k] = Converted(Conversion(ms, role)[k - 1], ms[k], role)
        BY <1>5, ConversionSteps
  <1>8. At(k)
    <2> DEFINE n == k - 1
               acc == Conversion(ms, role)[n]
    <2>1. n \in 0..Len(ms) /\ n < Len(ms) /\ n + 1 = k
          BY <1>5
    <2>2. Stands(ms, role, n, acc)
          BY <1>6
    <2>3. WellMade(ms[n + 1])
          BY <1>5, <2>1
    <2> HIDE DEF n, acc
    <2>4. Stands(ms, role, n + 1, Converted(acc, ms[n + 1], role))
          BY <2>1, <2>2, <2>3, OneMoreStands
    <2>5. Converted(acc, ms[n + 1], role) = Conversion(ms, role)[k]
          BY <1>7, <2>1 DEF n, acc
    <2> QED BY <2>1, <2>4, <2>5
  <1> QED BY <1>3, <1>8

(* A body of turns is a conversation its provider can follow.              *)
LEMMA BodiesFollow ==
    ASSUME NEW ms \in Seq(Message), Complete(ms), NEW role \in ModelRoles,
           \A i \in 1..Len(ms) : WellMade(ms[i])
    PROVE  Follows(Body(ms, Turns(ms, role)), ms, role)
  <1> DEFINE L == Len(ms)
             acc == Conversion(ms, role)[L]
             turns == Turns(ms, role)
  <1>1. L \in 0..Len(ms) /\ Stands(ms, role, L, acc) /\ \A a : ~Due(ms, L, a)
    <2>1. L \in 0..Len(ms)
          OBVIOUS
    <2> QED BY <2>1, WholeHistoryStands, OneIsDue
  <1>2. turns = Flushed(acc).out
        BY DEF Turns
  <1> HIDE DEF acc, turns
  <1>3. /\ SaysAll(Flushed(acc), role, FlattenSeq(HistoryTo(ms, L)))
        /\ Flushed(acc).pending = <<>> /\ Flushed(acc) \in Converting(role)
        /\ Paired(turns, role) /\ CallsAt(LastOf(turns), role) = {}
        BY <1>1, <1>2, TurnFinds
  <1>4. turns \in Seq(TurnsOf(role)) /\ Len(turns) \in Nat
        BY <1>2, <1>3 DEF Converting
  <1>5. NothingLost(turns, ms)
    <2>1. FlattenSeq(TypesOf(turns)) = FlattenSeq(HistoryTo(ms, L))
      <3>1. FlattenSeq(TypesOf(turns)) \o Types(<<>>) = FlattenSeq(HistoryTo(ms, L))
            BY <1>2, <1>3 DEF SaysAll
      <3>2. FlattenSeq(TypesOf(turns)) \in Seq(BlockTypes) /\ Types(<<>>) = <<>>
            BY <1>4, TypesOfTyped DEF Types
      <3> QED BY <3>1, <3>2, ConcatEmptySeq
    <2>2. HistoryTo(ms, L) = [i \in DOMAIN ms |-> Blocks(ms[i])]
          BY DEF HistoryTo
    <2>3. TypesOf(turns) = [i \in DOMAIN turns |-> Types(turns[i].blocks)]
          BY DEF TypesOf
    <2>4. \A i \in DOMAIN turns : turns[i].blocks # <<>>
      <3>1. DOMAIN turns = 1..Len(turns)
            BY <1>4
      <3> QED BY <1>2, <1>3, <3>1 DEF SaysAll
    <2> QED BY <2>1, <2>2, <2>3, <2>4 DEF NothingLost
  <1>6. ResultsFollow(turns, role)
    <2> SUFFICES ASSUME NEW i \in 0..Len(turns)
                 PROVE  Returns(TurnAt(turns, i + 1), TurnAt(turns, i), role)
        BY DEF ResultsFollow
    <2>1. CASE i = Len(turns)
      <3>1. i + 1 \notin DOMAIN turns
            BY <1>4, <2>1
      <3>2. ResultsAt(TurnAt(turns, i + 1)) = {}
            BY <3>1 DEF TurnAt, Turn, ResultsAt
      <3>3. CallsAt(TurnAt(turns, i), role) = {}
            BY <1>3, <2>1 DEF LastOf
      <3> QED BY <3>2, <3>3, NoneReturned
    <2>2. CASE i # Len(turns)
      <3>1. i \in 0..(Len(turns) - 1)
            BY <1>4, <2>2
      <3> QED BY <1>3, <3>1 DEF Paired
    <2> QED BY <2>1, <2>2
  <1>7. SystemApart(Body(ms, turns), ms)
    <2>1. \A i \in DOMAIN ms : ms[i].role = "system" => HasContent(ms[i])
          BY DEF WellMade, HasContent
    <2>2. Body(ms, turns).system <=> SystemParts(ms) # {}
          BY DEF Body
    <2> QED BY <2>1, <2>2 DEF SystemApart, SystemParts
  <1>8. Body(ms, turns).turns = turns
        BY DEF Body
  <1> QED BY <1>5, <1>6, <1>7, <1>8 DEF Follows, turns

(* OpenAI's body keeps roles, calls and ids where they are.                *)
LEMMA OpenAiStaysComplete ==
    ASSUME NEW ms \in Seq(Message), Complete(ms)
    PROVE  Complete(OpenAiBody(ms))
  <1> DEFINE new == OpenAiBody(ms)
             L == Len(ms)
  <1>1. L \in Nat /\ Len(new) = L
    <2>1. new = [i \in 1..L |-> OpenAiMessage(ms[i])] /\ L \in Nat
          BY DEF OpenAiBody
    <2> HIDE DEF L, new
    <2> QED BY <2>1
  <1>2. \A i \in 1..L : /\ new[i].role = ms[i].role /\ new[i].calls = ms[i].calls
                        /\ new[i].callId = ms[i].callId /\ Len(ms[i].calls) \in Nat
    <2> SUFFICES ASSUME NEW i \in 1..L
                 PROVE  /\ new[i].role = ms[i].role /\ new[i].calls = ms[i].calls
                        /\ new[i].callId = ms[i].callId /\ Len(ms[i].calls) \in Nat
        OBVIOUS
    <2>1. new[i] = OpenAiMessage(ms[i])
          BY DEF OpenAiBody
    <2>2. ms[i] \in Message
          OBVIOUS
    <2> DEFINE m == ms[i]
    <2> HIDE DEF m
    <2>3. OpenAiMessage(m).role = m.role /\ OpenAiMessage(m).calls = m.calls
          /\ OpenAiMessage(m).callId = m.callId /\ Len(m.calls) \in Nat
      <3>1. m \in Message
            BY <2>2 DEF m
      <3> QED BY <3>1 DEF OpenAiMessage, Message
    <2> QED BY <2>1, <2>3 DEF m
  <1> HIDE DEF new
  <1>3. CallsAnswered(new, L)
    <2> SUFFICES ASSUME NEW i \in 1..L, ms[i].role = "assistant"
                 PROVE  i + Len(ms[i].calls) <= L
                        /\ \A k \in 1..Len(ms[i].calls) : Answered(new, i, k)
        BY <1>2 DEF CallsAnswered
    <2>1. i + Len(ms[i].calls) <= L /\ \A k \in 1..Len(ms[i].calls) : Answered(ms, i, k)
          BY DEF Complete, CallsAnswered
    <2>2. \A k \in 1..Len(ms[i].calls) : i + k \in 1..L
      <3> DEFINE c == Len(ms[i].calls)
      <3>1. c \in Nat /\ i + c <= L /\ i \in Nat /\ L \in Nat
            BY <1>1, <1>2, <2>1
      <3> HIDE DEF c, L
      <3> QED BY <3>1 DEF c
    <2> QED BY <1>2, <2>1, <2>2 DEF Answered
  <1>4. NoOrphanAnswer(new, L)
    <2> SUFFICES ASSUME NEW j \in 1..L, new[j].role = "tool"
                 PROVE  \E i \in 1..(j - 1) : /\ new[i].role = "assistant"
                                              /\ j - i <= Len(new[i].calls)
                                              /\ Answered(new, i, j - i)
        BY DEF NoOrphanAnswer
    <2>1. PICK i \in 1..(j - 1) : ms[i].role = "assistant" /\ j - i <= Len(ms[i].calls)
                                  /\ Answered(ms, i, j - i)
          BY <1>2 DEF Complete, NoOrphanAnswer
    <2>2. i \in 1..L /\ i + (j - i) = j
          BY <1>1
    <2>3. Answered(new, i, j - i)
          BY <1>2, <2>1, <2>2 DEF Answered
    <2> QED BY <1>2, <2>1, <2>2, <2>3
  <1> QED BY <1>1, <1>3, <1>4 DEF Complete, new

(* A complete history of messages as message.rs makes them is faithful in  *)
(* all bodies.                                                             *)
LEMMA CompleteIsFaithful ==
    ASSUME NEW ms \in Seq(Message), Complete(ms), \A i \in 1..Len(ms) : WellMade(ms[i])
    PROVE  Faithful(ms)
  <1>1. "assistant" \in ModelRoles /\ "model" \in ModelRoles
        BY DEF ModelRoles
  <1>2. Follows(Body(ms, Turns(ms, "assistant")), ms, "assistant")
        BY <1>1, BodiesFollow
  <1>3. Follows(Body(ms, Turns(ms, "model")), ms, "model")
        BY <1>1, BodiesFollow
  <1> QED BY <1>2, <1>3, OpenAiStaysComplete
          DEF Faithful, AnthropicBody, BedrockBody, GeminiBody, VertexBody,
              AnthropicTurns, BedrockTurns, GeminiTurns, VertexTurns

(* Every message was made by one of the constructors of message.rs.        *)
MessagesWellMade ==
    messages \in Seq(Message) /\ \A i \in 1..Len(messages) : WellMade(messages[i])

LEMMA AppendWellMade ==
    ASSUME MessagesWellMade, NEW m \in Message, WellMade(m), messages' = Append(messages, m)
    PROVE  MessagesWellMade'
  <1>1. /\ messages' \in Seq(Message) /\ Len(messages') = Len(messages) + 1
        /\ messages'[Len(messages) + 1] = m /\ Len(messages) \in Nat
        /\ \A i \in 1..Len(messages) : messages'[i] = messages[i]
        BY DEF MessagesWellMade
  <1>2. ASSUME NEW i \in 1..Len(messages') PROVE WellMade(messages'[i])
    <2>1. i \in 1..Len(messages) \/ i = Len(messages) + 1
          BY <1>1
    <2>2. CASE i \in 1..Len(messages)
      <3>1. WellMade(messages[i])
            BY <2>2 DEF MessagesWellMade
      <3>2. messages'[i] = messages[i]
            BY <1>1, <2>2
      <3> QED BY <3>1, <3>2
    <2>3. CASE i = Len(messages) + 1
      <3>1. messages'[i] = m
            BY <1>1, <2>3
      <3> QED BY <3>1
    <2> QED BY <2>1, <2>2, <2>3
  <1> QED BY <1>1, <1>2 DEF MessagesWellMade

LEMMA StepWellMade ==
    ASSUME MessagesWellMade, HistoryInv(messages, Unanswered),
           [Protocol!CPNext]_(Protocol!cpVars)
    PROVE  MessagesWellMade'
  <1>1. CASE Protocol!Turn
    <2>1. PICK cs \in CallLists, t \in BOOLEAN :
              messages' = Append(messages, AssistantMessage(t, cs))
          BY <1>1, SameMessages DEF Protocol!Turn
    <2>2. cs \in Seq(Calls) /\ AssistantMessage(t, cs) \in Message
          BY CallsAssumption, NewMessages
    <2>3. WellMade(AssistantMessage(t, cs))
          BY DEF WellMade, AssistantMessage
    <2> QED BY <2>1, <2>2, <2>3, AppendWellMade
  <1>2. CASE Protocol!Answer
    <2>1. PICK content \in Contents :
              messages' = Append(messages, ToolResponse(Head(Unanswered), content))
          BY <1>2, SameMessages DEF Protocol!Answer
    <2>2. Head(Unanswered) \in Calls
          BY <1>2 DEF Protocol!Answer, HistoryInv
    <2>3. ToolResponse(Head(Unanswered), content) \in Message
          BY <2>2, NewMessages
    <2>4. WellMade(ToolResponse(Head(Unanswered), content))
          BY DEF WellMade, ToolResponse
    <2> QED BY <2>1, <2>3, <2>4, AppendWellMade
  <1>3. CASE Protocol!Stop \/ UNCHANGED Protocol!cpVars
        BY <1>3 DEF Protocol!Stop, Protocol!cpVars, MessagesWellMade
  <1> QED BY <1>1, <1>2, <1>3 DEF Protocol!CPNext

(* Whatever the clients of Anthropic, Bedrock, Gemini, Vertex and OpenAI   *)
(* are given to send is turned into a conversation their provider can      *)
(* follow: every call's result in the turn right after it, in order and    *)
(* under its key, and no block of the history lost.                        *)
THEOREM RequestsStayFaithful == Spec => []RequestsAreFaithful
  <1> DEFINE Inv == HistoryInv(messages, Unanswered) /\ MessagesWellMade
  <1>1. Protocol!CPInit => Inv
    <2> SUFFICES ASSUME Protocol!CPInit PROVE Inv
        OBVIOUS
    <2>1. messages \in Histories /\ HistoryInv(messages, Unanswered)
          BY HistoriesAssumption DEF Protocol!CPInit, HistoryInv, Answering
    <2>2. MessagesWellMade
          BY <2>1, HistoriesAssumption, MessagesAssumption DEF MessagesWellMade
    <2> QED BY <2>1, <2>2
  <1>2. Inv /\ [Protocol!CPNext]_(Protocol!cpVars) => Inv'
        BY HistoryInvSteps, StepWellMade
  <1>3. Inv /\ HistoryComplete => RequestsAreFaithful
    <2> SUFFICES ASSUME Inv, HistoryComplete, pc = "llm" PROVE Faithful(messages)
        BY DEF RequestsAreFaithful
    <2>1. Complete(messages)
          BY DEF HistoryComplete, Quiet
    <2> QED BY <2>1, CompleteIsFaithful DEF MessagesWellMade
  <1> QED BY <1>1, <1>2, <1>3, HistoryStaysComplete, LoopImplementsProtocol, PTL
          DEF ImplementsProtocol, Protocol!CPSpec

-----------------------------------------------------------------------------
(* Why the approval gate holds: the last entry of the ledger is the        *)
(* decision on the call about to be dispatched, and the slots of the runs  *)
(* so far are answered, but for the run whose answer is still to be pushed.*)
ServedUpTo == IF pc \in {"report", "panicked"} THEN Slot ELSE Len(messages)

GateInv ==
    /\ RunsAreApproved
    /\ pc \in {"start", "dispatch"} =>
           ledger # <<>> /\ ledger[Len(ledger)] = Note(decision)
    /\ \A i \in 1..Len(ledger) : ledger[i].act = "run" => ledger[i].slot <= ServedUpTo

(* A step that leaves the ledger alone and serves no fewer slots keeps the *)
(* gate, provided it does not enter the dispatch of another call.          *)
LEMMA GateUntouched ==
    ASSUME LoopInv, GateInv, UNCHANGED ledger, ServedUpTo <= ServedUpTo',
           ServedUpTo \in Nat, ServedUpTo' \in Nat,
           pc' \in {"start", "dispatch"} =>
               /\ pc \in {"start", "dispatch"}
               /\ UNCHANGED <<decision, calls, next, messages>>
    PROVE  GateInv'
  <1>1. \A i \in 1..Len(ledger) : ledger[i].slot \in Nat
        BY EntryTyped DEF LoopInv
  <1>2. RunsAreApproved'
        BY DEF GateInv, RunsAreApproved
  <1>3. (pc \in {"start", "dispatch"} => ledger # <<>> /\ ledger[Len(ledger)] = Note(decision))'
        BY DEF GateInv, Note, Call, Slot
  <1>4. (\A i \in 1..Len(ledger) : ledger[i].act = "run" => ledger[i].slot <= ServedUpTo)'
        BY <1>1 DEF GateInv
  <1> QED BY <1>2, <1>3, <1>4 DEF GateInv

LEMMA NextGateInv == LoopInv /\ GateInv /\ [Next]_vars => GateInv'
  <1> SUFFICES ASSUME LoopInv, GateInv, [Next]_vars PROVE GateInv'
      OBVIOUS
  <1>1. messages \in Seq(Message) /\ ledger \in Seq(Entry) /\ Len(messages) \in Nat
        BY DEF LoopInv, TypeOK
  <1>2. CASE Approve
        <2>1. PICK d \in Decisions : decision' = d /\ ledger' = Append(ledger, Note(d))
              BY <1>2 DEF Approve, Decisions
        <2>2. /\ pc = "approve" /\ pc' = "start"
              /\ UNCHANGED <<messages, calls, next>>
              BY <1>2 DEF Approve, stream
        <2>3. Note(d) \in Entry /\ Note(d).act # "run"
              BY <2>2, CurrentCallTyped DEF LoopInv, Dispatching, Note, Decisions
        <2>4. /\ Len(ledger') = Len(ledger) + 1 /\ ledger'[Len(ledger) + 1] = Note(d)
              /\ \A i \in 1..Len(ledger) : ledger'[i] = ledger[i]
              BY <1>1, <2>1, <2>3
        <2>5. RunsAreApproved'
              <3> SUFFICES ASSUME NEW j \in 1..(Len(ledger) + 1), ledger'[j].act = "run"
                           PROVE  /\ ledger'[j].call.tool \in Registered
                                  /\ j > 1
                                  /\ ledger'[j - 1] = [ledger'[j] EXCEPT !.act = "allow"]
                                  /\ \A i \in 1..(j - 1) : ledger'[i].act = "run" =>
                                         ledger'[i].slot < ledger'[j].slot
                  BY <2>4 DEF RunsAreApproved
              <3>1. j \in 1..Len(ledger)
                    BY <1>1, <2>3, <2>4
              <3>2. ledger'[j] = ledger[j] /\ \A i \in 1..(j - 1) : ledger'[i] = ledger[i]
                    BY <1>1, <2>4, <3>1
              <3>3. /\ ledger[j].call.tool \in Registered
                    /\ j > 1
                    /\ ledger[j - 1] = [ledger[j] EXCEPT !.act = "allow"]
                    /\ \A i \in 1..(j - 1) : ledger[i].act = "run" =>
                           ledger[i].slot < ledger[j].slot
                    BY <3>1, <3>2 DEF GateInv, RunsAreApproved
              <3> QED BY <3>2, <3>3
        <2>6. ledger' # <<>> /\ ledger'[Len(ledger')] = Note(decision)'
              BY <1>1, <2>1, <2>2, <2>4 DEF Note, Call, Slot
        <2>7. ServedUpTo' = ServedUpTo
              BY <2>2 DEF ServedUpTo
        <2>8. (\A i \in 1..Len(ledger) : ledger[i].act = "run" => ledger[i].slot <= ServedUpTo)'
              BY <1>1, <2>3, <2>4, <2>7 DEF GateInv
        <2> QED BY <2>5, <2>6, <2>8 DEF GateInv
  <1>3. CASE Dispatch
        <2>1. /\ pc = "dispatch" /\ pc' \in {"report", "panicked"}
              /\ UNCHANGED <<messages, calls, next, decision>>
              BY <1>3 DEF Dispatch, stream
        <2>2. ServedUpTo = Len(messages) /\ ServedUpTo' = Len(messages) + 1
              BY <2>1 DEF ServedUpTo, Slot
        <2>3. CASE UNCHANGED ledger
              BY <1>1, <2>1, <2>2, <2>3, GateUntouched
        <2>4. CASE /\ decision = "allow" /\ Call.tool \in Registered
                   /\ ledger' = Append(ledger, Note("run"))
              <3>1. Note("run") \in Entry
                    BY <2>1, CurrentCallTyped DEF LoopInv, Dispatching
              <3>2. /\ Len(ledger') = Len(ledger) + 1 /\ ledger'[Len(ledger) + 1] = Note("run")
                    /\ \A i \in 1..Len(ledger) : ledger'[i] = ledger[i]
                    BY <1>1, <2>4, <3>1
              <3>3. ledger # <<>> /\ ledger[Len(ledger)] = Note("allow")
                    BY <2>1, <2>4 DEF GateInv
              <3>4. Len(ledger) >= 1
                    BY <1>1, <3>3
              <3>5. \A i \in 1..Len(ledger) : ledger[i].act = "run" => ledger[i].slot <= Len(messages)
                    BY <2>2 DEF GateInv
              <3>6. \A i \in 1..Len(ledger) : ledger[i].slot \in Nat
                    BY EntryTyped DEF LoopInv
              <3>7. /\ Note("run").slot = Len(messages) + 1
                    /\ Note("run").call.tool \in Registered
                    /\ Note("allow") = [Note("run") EXCEPT !.act = "allow"]
                    BY <2>4 DEF Note, Slot
              <3>8. RunsAreApproved'
                    <4> SUFFICES ASSUME NEW j \in 1..(Len(ledger) + 1), ledger'[j].act = "run"
                                 PROVE  /\ ledger'[j].call.tool \in Registered
                                        /\ j > 1
                                        /\ ledger'[j - 1] = [ledger'[j] EXCEPT !.act = "allow"]
                                        /\ \A i \in 1..(j - 1) : ledger'[i].act = "run" =>
                                               ledger'[i].slot < ledger'[j].slot
                        BY <3>2 DEF RunsAreApproved
                    <4>1. CASE j \in 1..Len(ledger)
                          <5>1. ledger'[j] = ledger[j] /\ \A i \in 1..(j - 1) : ledger'[i] = ledger[i]
                                BY <1>1, <3>2, <4>1
                          <5>2. /\ ledger[j].call.tool \in Registered
                                /\ j > 1
                                /\ ledger[j - 1] = [ledger[j] EXCEPT !.act = "allow"]
                                /\ \A i \in 1..(j - 1) : ledger[i].act = "run" =>
                                       ledger[i].slot < ledger[j].slot
                                BY <4>1, <5>1 DEF GateInv, RunsAreApproved
                          <5> QED BY <5>1, <5>2
                    <4>2. CASE j = Len(ledger) + 1
                          <5>1. ledger'[j] = Note("run") /\ j - 1 = Len(ledger) /\ j > 1
                                BY <3>2, <3>4, <4>2
                          <5>2. ledger'[j - 1] = Note("allow")
                                BY <3>2, <3>3, <3>4, <5>1
                          <5>3. \A i \in 1..(j - 1) : ledger'[i].act = "run" =>
                                   ledger'[i].slot < Len(messages) + 1
                                BY <1>1, <3>2, <3>5, <3>6, <5>1
                          <5> QED BY <3>7, <5>1, <5>2, <5>3
                    <4> QED BY <1>1, <4>1, <4>2
              <3>9. (\A i \in 1..Len(ledger) : ledger[i].act = "run" => ledger[i].slot <= ServedUpTo)'
                    BY <1>1, <2>2, <3>2, <3>5, <3>6, <3>7
              <3> QED BY <2>1, <3>8, <3>9 DEF GateInv
        <2> QED BY <1>3, <2>3, <2>4 DEF Dispatch
  <1>4. CASE Start
        <2>1. /\ pc = "start" /\ pc' = "dispatch"
              /\ UNCHANGED <<messages, calls, next, decision, ledger>>
              BY <1>4 DEF Start, stream
        <2> QED BY <1>1, <2>1, GateUntouched DEF ServedUpTo
  <1>5. CASE StreamEnds
        <2>1. /\ pc = "stream" /\ pc' = "announce" /\ UNCHANGED ledger
              /\ messages' = Append(messages, AssistantMessage(hasText, calls))
              BY <1>5 DEF StreamEnds
        <2>2. Len(messages') = Len(messages) + 1
              BY <1>1, <2>1
        <2> QED BY <1>1, <2>1, <2>2, GateUntouched DEF ServedUpTo
  <1>6. CASE Report
        <2>1. /\ pc = "report" /\ pc' \in {"approve", "llm", "exhausted"} /\ UNCHANGED ledger
              /\ messages' = Append(messages, ToolResponse(Call, outcome))
              BY <1>6 DEF Report, AdvanceDispatch, LoopHead
        <2>2. Len(messages') = Len(messages) + 1
              BY <1>1, <2>1
        <2> QED BY <1>1, <2>1, <2>2, GateUntouched DEF ServedUpTo, Slot
  <1>7. CASE \/ Request \/ StreamChunk \/ StreamToolCalls \/ StreamFails
             \/ Announce \/ Finish \/ GiveUp
        <2>1. /\ pc \notin {"start", "dispatch", "report", "panicked"}
              /\ pc' \notin {"start", "dispatch", "report", "panicked"}
              /\ UNCHANGED <<messages, ledger>>
              BY <1>7 DEF Request, StreamChunk, StreamToolCalls, StreamFails, Announce,
                          Finish, GiveUp
        <2> QED BY <1>1, <2>1, GateUntouched DEF ServedUpTo
  <1>8. CASE Receive \/ DropReceiver \/ Returned \/ UNCHANGED vars
        <2>1. UNCHANGED <<pc, messages, calls, next, decision, ledger>>
              BY <1>8 DEF Receive, DropReceiver, Returned, vars, stream
        <2> QED BY <1>1, <2>1, GateUntouched DEF ServedUpTo, Slot
  <1> QED BY <1>2, <1>3, <1>4, <1>5, <1>6, <1>7, <1>8 DEF Next, Run

(* No tool ever runs but right after the approver allowed that very call,  *)
(* and no answer position is served by two runs, whatever the approver     *)
(* decides and however many rounds and calls there are.                    *)
THEOREM NoToolRunsUnapproved == Spec => []RunsAreApproved
  <1>1. Init => GateInv
        BY LoopHeadTyped, BoundsAssumption DEF Init, GateInv, RunsAreApproved
  <1>2. GateInv => RunsAreApproved
        BY DEF GateInv
  <1> QED BY <1>1, <1>2, InitLoopInv, NextLoopInv, NextGateInv, PTL DEF Spec

-----------------------------------------------------------------------------
(* Why the answers are true: the ledger has no entry for a slot beyond the *)
(* one in service, and while that one is in service its entries say what   *)
(* the answer to come will say.                                            *)
InService == {"start", "dispatch", "report", "panicked"}
Entered == IF pc \in InService THEN Slot ELSE Len(messages)

TruthInv ==
    /\ HistoryIsTruthful
    /\ \A j \in 1..Len(ledger) : ledger[j].slot <= Entered
    /\ pc \in {"start", "dispatch"} =>
           /\ ~Noted("run", Slot)
           /\ Noted("deny", Slot) <=> decision = "deny"
    /\ pc = "report" =>
           /\ outcome \in {"result", "truncated"} <=> Noted("run", Slot)
           /\ outcome = "rejected" <=> Noted("deny", Slot)

(* One more entry in the ledger.                                           *)
LEMMA NotedAppend ==
    ASSUME TypeOK, NEW e \in Entry, ledger' = Append(ledger, e)
    PROVE  \A what, n : Noted(what, n)' <=> Noted(what, n) \/ (e.act = what /\ e.slot = n)
  <1>1. /\ Len(ledger') = Len(ledger) + 1 /\ Len(ledger) \in Nat
        /\ ledger'[Len(ledger) + 1] = e
        /\ \A i \in 1..Len(ledger) : ledger'[i] = ledger[i]
        BY DEF TypeOK
  <1>2. 1..Len(ledger') = 1..Len(ledger) \cup {Len(ledger) + 1}
        BY <1>1
  <1> QED BY <1>1, <1>2 DEF Noted

(* The ledger stays, no answer is added and no call comes into service.    *)
LEMMA TruthUntouched ==
    ASSUME LoopInv, TruthInv, UNCHANGED <<ledger, base>>,
           \/ UNCHANGED messages
           \/ \E m \in Message : m.role # "tool" /\ messages' = Append(messages, m),
           \/ UNCHANGED <<pc, messages, decision, outcome>>
           \/ pc \notin InService /\ pc' \notin InService
           \/ pc = "start" /\ pc' = "dispatch" /\ UNCHANGED <<messages, decision>>
    PROVE  TruthInv'
  <1>1. /\ messages \in Seq(Message) /\ Len(messages) \in Nat /\ base \in Nat
        /\ \A j \in 1..Len(ledger) : ledger[j].slot \in Nat
        BY EntryTyped DEF LoopInv, TypeOK
  <1>2. /\ Len(messages') \in Nat /\ Len(messages) <= Len(messages')
        /\ \A n \in (base + 1)..Len(messages') : messages'[n].role = "tool" =>
             n \in (base + 1)..Len(messages) /\ messages'[n] = messages[n]
    <2>1. CASE UNCHANGED messages
          BY <2>1, <1>1
    <2>2. ASSUME NEW m \in Message, m.role # "tool", messages' = Append(messages, m)
          PROVE  /\ Len(messages') \in Nat /\ Len(messages) <= Len(messages')
                 /\ \A n \in (base + 1)..Len(messages') : messages'[n].role = "tool" =>
                      n \in (base + 1)..Len(messages) /\ messages'[n] = messages[n]
      <3>1. /\ Len(messages') = Len(messages) + 1 /\ messages'[Len(messages) + 1] = m
            /\ \A n \in 1..Len(messages) : messages'[n] = messages[n]
            BY <2>2, <1>1
      <3> QED BY <3>1, <2>2, <1>1
    <2> QED BY <2>1, <2>2
  <1>3. \A what, n : Noted(what, n)' <=> Noted(what, n)
        BY DEF Noted
  <1>4. HistoryIsTruthful'
        BY <1>2, <1>3 DEF TruthInv, HistoryIsTruthful
  <1>5. Entered <= Entered' /\ Entered \in Nat /\ Entered' \in Nat
        BY <1>1, <1>2 DEF Entered, InService, Slot
  <1>6. \A j \in 1..Len(ledger') : ledger'[j].slot <= Entered'
        BY <1>1, <1>5 DEF TruthInv
  <1>7. pc' \in {"start", "dispatch"} =>
           /\ ~Noted("run", Slot)'
           /\ Noted("deny", Slot)' <=> decision' = "deny"
        BY <1>3 DEF TruthInv, InService, Slot, Noted
  <1>8. pc' = "report" =>
           /\ outcome' \in {"result", "truncated"} <=> Noted("run", Slot)'
           /\ outcome' = "rejected" <=> Noted("deny", Slot)'
        BY <1>3 DEF TruthInv, InService, Slot, Noted
  <1> QED BY <1>4, <1>6, <1>7, <1>8 DEF TruthInv

LEMMA NextTruthInv == LoopInv /\ TruthInv /\ [Next]_vars => TruthInv'
  <1> SUFFICES ASSUME LoopInv, TruthInv, [Next]_vars PROVE TruthInv'
      OBVIOUS
  <1>1. /\ TypeOK /\ messages \in Seq(Message) /\ Len(messages) \in Nat /\ base \in Nat
        /\ ledger \in Seq(Entry) /\ Len(ledger) \in Nat
        /\ \A j \in 1..Len(ledger) : ledger[j].slot \in Nat
        BY EntryTyped DEF LoopInv, TypeOK
  <1>2. CASE Approve
    <2>1. PICK d \in Decisions : decision' = d /\ ledger' = Append(ledger, Note(d))
          BY <1>2 DEF Approve, Decisions
    <2>2. pc = "approve" /\ pc' = "start" /\ UNCHANGED <<messages, base>>
          BY <1>2 DEF Approve
    <2>3. Note(d) \in Entry /\ Note(d).act = d /\ Note(d).slot = Slot /\ Slot' = Slot
          BY <2>2, <1>1, CurrentCallTyped DEF Dispatching, Note, Slot
    <2>4. \A what, n : Noted(what, n)' <=> Noted(what, n) \/ (d = what /\ Slot = n)
          BY <2>1, <2>3, <1>1, NotedAppend
    <2>5. Entered = Len(messages) /\ Entered' = Len(messages) + 1 /\ Slot = Len(messages) + 1
          BY <2>2 DEF Entered, InService, Slot
    <2>6. \A what : ~Noted(what, Slot)
          BY <2>5, <1>1 DEF TruthInv, Noted
    <2>7. HistoryIsTruthful'
      <3>1. \A n \in (base + 1)..Len(messages) : n # Slot
            BY <2>5, <1>1
      <3> QED BY <2>2, <2>4, <3>1 DEF TruthInv, HistoryIsTruthful
    <2>8. \A j \in 1..Len(ledger') : ledger'[j].slot <= Entered'
      <3>1. \A j \in 1..Len(ledger') : ledger'[j] = Note(d) \/ (j \in 1..Len(ledger) /\ ledger'[j] = ledger[j])
            BY <2>1, <2>3, <1>1
      <3> QED BY <3>1, <2>3, <2>5, <1>1 DEF TruthInv
    <2>9. ~Noted("run", Slot)' /\ (Noted("deny", Slot)' <=> decision' = "deny")
      <3>1. ~Noted("run", Slot') /\ ~Noted("deny", Slot')
            BY <2>3, <2>6
      <3>2. d # "run"
            BY DEF Decisions
      <3> QED BY <3>1, <3>2, <2>1, <2>3, <2>4 DEF Noted
    <2> QED BY <2>2, <2>7, <2>8, <2>9 DEF TruthInv
  <1>3. CASE Dispatch
    <2>1. /\ pc = "dispatch" /\ pc' \in {"report", "panicked"} /\ Slot' = Slot
          /\ UNCHANGED <<messages, base, decision>>
          BY <1>3 DEF Dispatch, Slot
    <2>2. ~Noted("run", Slot) /\ (Noted("deny", Slot) <=> decision = "deny")
          BY <2>1 DEF TruthInv
    <2>3. Entered' = Entered /\ Entered = Slot /\ Slot = Len(messages) + 1
          BY <2>1 DEF Entered, InService, Slot
    <2>4. CASE ledger' = ledger /\ outcome' \in {"rejected", "unknown"}
               /\ (outcome' = "rejected" <=> decision = "deny")
      <3>1. \A what, n : Noted(what, n)' <=> Noted(what, n)
            BY <2>4 DEF Noted
      <3>2. HistoryIsTruthful'
            BY <2>1, <3>1 DEF TruthInv, HistoryIsTruthful
      <3>3. \A j \in 1..Len(ledger') : ledger'[j].slot <= Entered'
            BY <2>3, <2>4 DEF TruthInv
      <3>4. /\ outcome' \in {"result", "truncated"} <=> Noted("run", Slot)'
            /\ outcome' = "rejected" <=> Noted("deny", Slot)'
            BY <2>1, <2>2, <2>4, <3>1 DEF Noted
      <3> QED BY <2>1, <3>2, <3>3, <3>4 DEF TruthInv
    <2>5. CASE /\ ledger' = Append(ledger, Note("run")) /\ decision = "allow"
               /\ pc' = "report" => outcome' \in {"result", "truncated"}
      <3>1. Note("run") \in Entry /\ Note("run").act = "run" /\ Note("run").slot = Slot
            BY <2>1, <1>1, CurrentCallTyped DEF Dispatching, Note
      <3>2. \A what, n : Noted(what, n)' <=> Noted(what, n) \/ ("run" = what /\ Slot = n)
            BY <2>5, <3>1, <1>1, NotedAppend
      <3>3. HistoryIsTruthful'
        <4>1. \A n \in (base + 1)..Len(messages) : n # Slot
              BY <2>3, <1>1
        <4> QED BY <2>1, <3>2, <4>1 DEF TruthInv, HistoryIsTruthful
      <3>4. \A j \in 1..Len(ledger') : ledger'[j].slot <= Entered'
        <4>1. \A j \in 1..Len(ledger') : ledger'[j] = Note("run") \/ (j \in 1..Len(ledger) /\ ledger'[j] = ledger[j])
              BY <2>5, <3>1, <1>1
        <4> QED BY <4>1, <3>1, <2>3, <1>1 DEF TruthInv
      <3>5. Noted("run", Slot)' /\ ~Noted("deny", Slot)'
        <4>1. ~Noted("deny", Slot)
              BY <2>2, <2>5
        <4>2. Slot' = Slot
              BY <2>1
        <4>3. Noted("run", Slot)'
              BY <4>2, <3>2 DEF Noted
        <4>4. ASSUME Noted("deny", Slot)' PROVE Noted("deny", Slot)
          <5>1. PICK j \in 1..Len(ledger') : ledger'[j].act = "deny" /\ ledger'[j].slot = Slot'
                BY <4>4 DEF Noted
          <5>2. j \in 1..Len(ledger) /\ ledger'[j] = ledger[j]
                BY <2>5, <3>1, <5>1, <1>1
          <5> QED BY <4>2, <5>1, <5>2 DEF Noted
        <4> QED BY <4>1, <4>3, <4>4
      <3>6. pc' = "report" =>
              /\ outcome' \in {"result", "truncated"} <=> Noted("run", Slot)'
              /\ outcome' = "rejected" <=> Noted("deny", Slot)'
        <4>1. pc' = "report" => outcome' \in {"result", "truncated"} /\ outcome' # "rejected"
              BY <2>5
        <4> QED BY <4>1, <3>5
      <3> QED BY <2>1, <3>3, <3>4, <3>6 DEF TruthInv
    <2>6. \A size \in Sizes : Capped(size) \in {"result", "truncated"}
          BY DEF Capped
    <2> QED BY <1>3, <2>4, <2>5, <2>6 DEF Dispatch
  <1>4. CASE Report
    <2> DEFINE answer == ToolResponse(Call, outcome)
    <2>1. /\ pc = "report" /\ pc' \notin InService /\ UNCHANGED <<ledger, base>>
          /\ messages' = Append(messages, answer)
          BY <1>4 DEF Report, AdvanceDispatch, LoopHead, InService
    <2>2. answer.role = "tool" /\ answer.content = outcome
          BY DEF ToolResponse
    <2> HIDE DEF answer
    <2>3. /\ Len(messages') = Len(messages) + 1 /\ messages'[Slot] = answer
          /\ Slot = Len(messages) + 1
          /\ \A n \in 1..Len(messages) : messages'[n] = messages[n]
          BY <2>1, <1>1 DEF Slot
    <2>4. /\ outcome \in {"result", "truncated"} <=> Noted("run", Slot)
          /\ outcome = "rejected" <=> Noted("deny", Slot)
          BY <2>1 DEF TruthInv
    <2>5. \A what, n : Noted(what, n)' <=> Noted(what, n)
          BY <2>1 DEF Noted
    <2>6. HistoryIsTruthful'
      <3> SUFFICES ASSUME NEW n \in (base + 1)..Len(messages'), messages'[n].role = "tool"
                   PROVE  /\ messages'[n].content \in {"result", "truncated"} <=> Noted("run", n)
                          /\ messages'[n].content = "rejected" <=> Noted("deny", n)
          BY <2>1, <2>5 DEF HistoryIsTruthful
      <3>1. CASE n = Slot
            BY <3>1, <2>2, <2>3, <2>4
      <3>2. CASE n # Slot
        <4>1. n \in (base + 1)..Len(messages) /\ messages'[n] = messages[n]
              BY <3>2, <2>3, <1>1
        <4> QED BY <4>1 DEF TruthInv, HistoryIsTruthful
      <3> QED BY <3>1, <3>2
    <2>7. Entered' = Entered
          BY <2>1, <2>3 DEF Entered, InService
    <2> QED BY <2>1, <2>6, <2>7 DEF TruthInv, InService
  <1>5. CASE StreamEnds
    <2>1. AssistantMessage(hasText, calls) \in Message /\ AssistantMessage(hasText, calls).role # "tool"
          BY <1>1, NewMessages DEF TypeOK, AssistantMessage
    <2>2. /\ pc = "stream" /\ pc' = "announce" /\ UNCHANGED <<ledger, base>>
          /\ messages' = Append(messages, AssistantMessage(hasText, calls))
          BY <1>5 DEF StreamEnds
    <2> QED BY <2>1, <2>2, TruthUntouched DEF InService
  <1>6. CASE Start
        BY <1>6, TruthUntouched DEF Start
  <1>7. CASE \/ Request \/ StreamChunk \/ StreamToolCalls \/ StreamFails
             \/ Announce \/ Finish \/ GiveUp
    <2>1. pc \notin InService /\ pc' \notin InService /\ UNCHANGED <<messages, ledger, base>>
          BY <1>7 DEF Request, StreamChunk, StreamToolCalls, StreamFails, Announce,
                      Finish, GiveUp, InService
    <2> QED BY <2>1, TruthUntouched
  <1>8. CASE Receive \/ DropReceiver \/ Returned \/ UNCHANGED vars
    <2>1. UNCHANGED <<pc, messages, decision, outcome, ledger, base>>
          BY <1>8 DEF Receive, DropReceiver, Returned, vars
    <2> QED BY <2>1, TruthUntouched
  <1> QED BY <1>2, <1>3, <1>4, <1>5, <1>6, <1>7, <1>8 DEF Next, Run

-----------------------------------------------------------------------------
(* Why the outcome is honest: the turns with calls are counted by the      *)
(* round-trips finished and the one whose calls are being dispatched, and  *)
(* a turn without calls is the last thing a run appends.                   *)
TurnInDispatch ==
    \/ pc \in Dispatching \cup {"panicked"}
    \/ pc = "announce" /\ calls # <<>>
Final ==
    \/ pc \in {"done", "ok"}
    \/ pc = "announce" /\ calls = <<>>

OutcomeInv ==
    /\ ModelTurns(FALSE) = IF Final THEN {Len(messages)} ELSE {}
    /\ Cardinality(ModelTurns(TRUE)) = IF TurnInDispatch THEN iter + 1 ELSE iter
    /\ pc \in {"exhausted", "budget"} => iter = MaxIterations
    /\ pc \in {"llm_err", "panicked"} => iter < MaxIterations

LEMMA TurnsFinite ==
    ASSUME TypeOK, NEW w \in BOOLEAN
    PROVE  /\ IsFiniteSet(ModelTurns(w))
           /\ Cardinality(ModelTurns(w)) \in Nat
           /\ Slot \notin ModelTurns(w)
  <1>1. base + 1 \in Int /\ Len(messages) \in Int /\ Slot = Len(messages) + 1
        BY DEF TypeOK, Slot
  <1>2. IsFiniteSet((base + 1)..Len(messages))
        BY <1>1, FS_Interval
  <1>3. ModelTurns(w) \subseteq (base + 1)..Len(messages)
        BY DEF ModelTurns
  <1>4. IsFiniteSet(ModelTurns(w))
        BY <1>2, <1>3, FS_Subset
  <1>5. Cardinality(ModelTurns(w)) \in Nat
        BY <1>4, FS_CardinalityType
  <1>6. Slot \notin ModelTurns(w)
        BY <1>1, <1>3
  <1> QED BY <1>4, <1>5, <1>6

(* One more message: a turn of the model counts where it belongs.          *)
LEMMA TurnsAppend ==
    ASSUME TypeOK, NEW m, messages' = Append(messages, m), base' = base, NEW w \in BOOLEAN
    PROVE  ModelTurns(w)' = ModelTurns(w) \cup
             {n \in {Slot} : m.role = "assistant" /\ (m.calls # <<>>) = w}
  <1>1. /\ messages \in Seq(Message) /\ Len(messages) \in Nat /\ base \in Nat
        /\ base <= Len(messages)
        BY DEF TypeOK
  <1>2. /\ Len(messages') = Slot /\ Slot = Len(messages) + 1 /\ messages'[Slot] = m
        /\ \A n \in 1..Len(messages) : messages'[n] = messages[n]
        BY <1>1 DEF Slot
  <1>3. (base + 1)..Len(messages') = (base + 1)..Len(messages) \cup {Slot}
        BY <1>1, <1>2
  <1>4. \A n \in (base + 1)..Len(messages) : messages'[n] = messages[n]
        BY <1>1, <1>2
  <1> QED BY <1>2, <1>3, <1>4 DEF ModelTurns

(* A step that appends nothing and neither opens nor closes a turn.        *)
LEMMA OutcomeUntouched ==
    ASSUME OutcomeInv, UNCHANGED <<messages, base, iter>>,
           Final' <=> Final, TurnInDispatch' <=> TurnInDispatch,
           pc' \in {"exhausted", "budget"} => pc \in {"exhausted", "budget"},
           pc' \in {"llm_err", "panicked"} =>
               pc \in {"llm_err", "panicked"} \/ iter < MaxIterations
    PROVE  OutcomeInv'
  <1>1. \A w : ModelTurns(w)' = ModelTurns(w)
        BY DEF ModelTurns
  <1>2. ModelTurns(FALSE)' = IF Final' THEN {Len(messages')} ELSE {}
        BY <1>1 DEF OutcomeInv
  <1>3. Cardinality(ModelTurns(TRUE)') = IF TurnInDispatch' THEN iter' + 1 ELSE iter'
        BY <1>1 DEF OutcomeInv
  <1> QED BY <1>2, <1>3 DEF OutcomeInv

LEMMA NextOutcomeInv == LoopInv /\ OutcomeInv /\ [Next]_vars => OutcomeInv'
  <1> SUFFICES ASSUME LoopInv, OutcomeInv, [Next]_vars PROVE OutcomeInv'
      OBVIOUS
  <1>1. /\ TypeOK /\ CountersOK /\ iter \in Nat /\ MaxIterations \in Nat
        /\ iter <= MaxIterations /\ Len(messages) \in Nat
        BY BoundsAssumption DEF LoopInv, TypeOK
  <1>2. CASE StreamEnds
    <2> DEFINE m == AssistantMessage(hasText, calls)
    <2>1. /\ pc = "stream" /\ pc' = "announce" /\ messages' = Append(messages, m)
          /\ UNCHANGED <<base, iter, calls>>
          BY <1>2 DEF StreamEnds, stream
    <2>2. m.role = "assistant" /\ m.calls = calls
          BY DEF AssistantMessage
    <2> HIDE DEF m
    <2>3. \A w \in BOOLEAN :
            ModelTurns(w)' = ModelTurns(w) \cup {n \in {Slot} : (calls # <<>>) = w}
          BY <2>1, <2>2, <1>1, TurnsAppend
    <2>4. ModelTurns(FALSE) = {} /\ Cardinality(ModelTurns(TRUE)) = iter
          BY <2>1 DEF OutcomeInv, Final, TurnInDispatch, Dispatching
    <2>5. Len(messages') = Slot
          BY <2>1, <1>1 DEF TypeOK, Slot
    <2>6. CASE calls = <<>>
      <3>1. Final' /\ ~TurnInDispatch'
            BY <2>1, <2>6 DEF Final, TurnInDispatch, Dispatching
      <3>2. ModelTurns(FALSE)' = {Slot} /\ ModelTurns(TRUE)' = ModelTurns(TRUE)
            BY <2>3, <2>4, <2>6
      <3> QED BY <2>1, <2>4, <2>5, <3>1, <3>2 DEF OutcomeInv
    <2>7. CASE calls # <<>>
      <3>1. ~Final' /\ TurnInDispatch'
            BY <2>1, <2>7 DEF Final, TurnInDispatch, Dispatching
      <3>2. ModelTurns(FALSE)' = {} /\ ModelTurns(TRUE)' = ModelTurns(TRUE) \cup {Slot}
            BY <2>3, <2>4, <2>7
      <3>3. Cardinality(ModelTurns(TRUE) \cup {Slot}) = iter + 1
            BY <2>4, <1>1, TurnsFinite, FS_AddElement
      <3> QED BY <2>1, <2>5, <3>1, <3>2, <3>3 DEF OutcomeInv
    <2> QED BY <2>6, <2>7
  <1>3. CASE Report
    <2> DEFINE m == ToolResponse(Call, outcome)
    <2>1. /\ pc = "report" /\ messages' = Append(messages, m) /\ UNCHANGED <<base, calls>>
          /\ \/ pc' = "approve" /\ iter' = iter
             \/ pc' = LoopHead(iter + 1) /\ iter' = iter + 1
          BY <1>3 DEF Report, AdvanceDispatch, stream
    <2>2. m.role = "tool"
          BY DEF ToolResponse
    <2> HIDE DEF m
    <2>3. \A w \in BOOLEAN : ModelTurns(w)' = ModelTurns(w)
          BY <2>1, <2>2, <1>1, TurnsAppend
    <2>4. /\ ModelTurns(FALSE) = {} /\ Cardinality(ModelTurns(TRUE)) = iter + 1
          /\ iter < MaxIterations
          BY <2>1, <1>1 DEF OutcomeInv, Final, TurnInDispatch, Dispatching, CountersOK
    <2>5. CASE pc' = "approve" /\ iter' = iter
      <3>1. ~Final' /\ TurnInDispatch'
            BY <2>5 DEF Final, TurnInDispatch, Dispatching
      <3> QED BY <2>3, <2>4, <2>5, <3>1 DEF OutcomeInv
    <2>6. CASE pc' = LoopHead(iter + 1) /\ iter' = iter + 1
      <3>1. pc' \in {"llm", "exhausted"} /\ (pc' = "exhausted" => iter' = MaxIterations)
            BY <2>4, <2>6, <1>1 DEF LoopHead
      <3>2. ~Final' /\ ~TurnInDispatch'
            BY <3>1 DEF Final, TurnInDispatch, Dispatching
      <3> QED BY <2>3, <2>4, <2>6, <3>1, <3>2 DEF OutcomeInv
    <2> QED BY <2>1, <2>5, <2>6
  <1>4. CASE Request \/ StreamChunk \/ StreamToolCalls \/ StreamFails \/ GiveUp
    <2>1. /\ pc \in {"llm", "stream", "exhausted"} /\ pc' \in {"llm", "stream", "llm_err", "budget"}
          /\ pc = "exhausted" <=> pc' = "budget"
          /\ UNCHANGED <<messages, base, iter>>
          BY <1>4 DEF Request, StreamChunk, StreamToolCalls, StreamFails, GiveUp
    <2>2. pc # "exhausted" => iter < MaxIterations
          BY <2>1, <1>1 DEF CountersOK
    <2>3. (Final' <=> Final) /\ (TurnInDispatch' <=> TurnInDispatch)
          BY <2>1 DEF Final, TurnInDispatch, Dispatching
    <2> QED BY <2>1, <2>2, <2>3, OutcomeUntouched
  <1>5. CASE Announce
    <2>1. /\ pc = "announce" /\ pc' = IF calls = <<>> THEN "done" ELSE "approve"
          /\ UNCHANGED <<messages, base, iter, calls>>
          BY <1>5 DEF Announce, stream
    <2>2. (Final' <=> Final) /\ (TurnInDispatch' <=> TurnInDispatch)
          BY <2>1 DEF Final, TurnInDispatch, Dispatching
    <2> QED BY <2>1, <2>2, OutcomeUntouched
  <1>6. CASE Finish
    <2>1. pc = "done" /\ pc' = "ok" /\ UNCHANGED <<messages, base, iter>>
          BY <1>6 DEF Finish
    <2>2. (Final' <=> Final) /\ (TurnInDispatch' <=> TurnInDispatch)
          BY <2>1 DEF Final, TurnInDispatch, Dispatching
    <2> QED BY <2>1, <2>2, OutcomeUntouched
  <1>7. CASE Approve \/ Start \/ Dispatch
    <2>1. /\ pc \in Dispatching /\ pc' \in Dispatching \cup {"panicked"}
          /\ UNCHANGED <<messages, base, iter>>
          BY <1>7 DEF Approve, Start, Dispatch, Dispatching
    <2>2. iter < MaxIterations
          BY <2>1, <1>1 DEF CountersOK
    <2>3. (Final' <=> Final) /\ (TurnInDispatch' <=> TurnInDispatch)
          BY <2>1 DEF Final, TurnInDispatch, Dispatching
    <2>4. pc' \notin {"exhausted", "budget"}
          BY <2>1 DEF Dispatching
    <2> QED BY <2>1, <2>2, <2>3, <2>4, OutcomeUntouched
  <1>8. CASE Receive \/ DropReceiver \/ Returned \/ UNCHANGED vars
    <2>1. UNCHANGED <<pc, messages, base, iter, calls>>
          BY <1>8 DEF Receive, DropReceiver, Returned, vars, stream
    <2>2. (Final' <=> Final) /\ (TurnInDispatch' <=> TurnInDispatch)
          BY <2>1 DEF Final, TurnInDispatch
    <2> QED BY <2>1, <2>2, OutcomeUntouched
  <1> QED BY <1>2, <1>3, <1>4, <1>5, <1>6, <1>7, <1>8 DEF Next, Run

-----------------------------------------------------------------------------
(* Why the renderer is told the history: the events in the channel that    *)
(* carry a message stand for the last messages appended, one each.         *)
CarriedIn(s, i) == {j \in 1..i : Carries(s[j])}

LEMMA CarriedFinite ==
    ASSUME NEW s, NEW i \in Nat
    PROVE  IsFiniteSet(CarriedIn(s, i)) /\ Cardinality(CarriedIn(s, i)) \in Nat
  <1>1. IsFiniteSet(1..i)
        BY FS_Interval
  <1>2. CarriedIn(s, i) \subseteq 1..i
        BY DEF CarriedIn
  <1> QED BY <1>1, <1>2, FS_Subset, FS_CardinalityType

LEMMA CarriedGrows ==
    ASSUME NEW s, NEW n \in Nat, NEW i \in 0..n
    PROVE  Cardinality(CarriedIn(s, i)) <= Cardinality(CarriedIn(s, n))
  <1>1. CarriedIn(s, i) \subseteq CarriedIn(s, n)
        BY DEF CarriedIn
  <1> QED BY <1>1, CarriedFinite, FS_Subset

LEMMA CarriedStep ==
    ASSUME NEW s, NEW i \in Nat
    PROVE  Cardinality(CarriedIn(s, i + 1)) =
               Cardinality(CarriedIn(s, i)) + IF Carries(s[i + 1]) THEN 1 ELSE 0
  <1>1. 1..(i + 1) = 1..i \cup {i + 1} /\ i + 1 \notin 1..i
        OBVIOUS
  <1>2. IsFiniteSet(CarriedIn(s, i)) /\ Cardinality(CarriedIn(s, i)) \in Nat
        BY CarriedFinite
  <1>3. CASE Carries(s[i + 1])
    <2>1. CarriedIn(s, i + 1) = CarriedIn(s, i) \cup {i + 1} /\ i + 1 \notin CarriedIn(s, i)
          BY <1>1, <1>3 DEF CarriedIn
    <2> QED BY <1>2, <1>3, <2>1, FS_AddElement
  <1>4. CASE ~Carries(s[i + 1])
    <2>1. CarriedIn(s, i + 1) = CarriedIn(s, i)
          BY <1>1, <1>4 DEF CarriedIn
    <2> QED BY <1>2, <1>4, <2>1
  <1> QED BY <1>3, <1>4

(* The head of the channel is counted first.                               *)
LEMMA CarriedTail ==
    ASSUME NEW s \in Seq(Events), s # <<>>, NEW i \in 0..(Len(s) - 1)
    PROVE  Cardinality(CarriedIn(s, i + 1)) =
               Cardinality(CarriedIn(Tail(s), i)) + IF Carries(s[1]) THEN 1 ELSE 0
  <1> DEFINE S == CarriedIn(Tail(s), i)
             T == {j \in 2..(i + 1) : Carries(s[j])}
             f == [j \in S |-> j + 1]
  <1>1. i \in Nat /\ Len(s) \in Nat /\ Len(Tail(s)) = Len(s) - 1
        OBVIOUS
  <1>2. \A j \in 1..i : Tail(s)[j] = s[j + 1]
        OBVIOUS
  <1>3. f \in Bijection(S, T)
    <2>1. f \in [S -> T]
          BY <1>1, <1>2 DEF CarriedIn
    <2>2. \A a, b \in S : f[a] = f[b] => a = b
          BY DEF CarriedIn
    <2>3. \A t \in T : \E a \in S : f[a] = t
      <3> TAKE t \in T
      <3>1. t - 1 \in S /\ (t - 1) + 1 = t
            BY <1>1, <1>2 DEF CarriedIn
      <3> QED BY <3>1
    <2> HIDE DEF S, T, f
    <2> QED BY <2>1, <2>2, <2>3 DEF Bijection, Injection, Surjection, IsInjective
  <1>4. ExistsBijection(S, T)
        BY <1>3 DEF ExistsBijection
  <1>5. IsFiniteSet(S) /\ Cardinality(S) \in Nat
        BY <1>1, CarriedFinite
  <1> HIDE DEF f
  <1>6. IsFiniteSet(T) /\ Cardinality(T) = Cardinality(S)
        BY <1>4, <1>5, FS_Bijection
  <1>7. CASE Carries(s[1])
    <2>1. CarriedIn(s, i + 1) = T \cup {1} /\ 1 \notin T
          BY <1>1, <1>7 DEF CarriedIn
    <2> QED BY <1>5, <1>6, <1>7, <2>1, FS_AddElement
  <1>8. CASE ~Carries(s[1])
    <2>1. CarriedIn(s, i + 1) = T
          BY <1>1, <1>8 DEF CarriedIn
    <2>2. Cardinality(CarriedIn(Tail(s), i)) \in Nat
          BY <1>1, CarriedFinite
    <2>3. Cardinality(CarriedIn(s, i + 1)) = Cardinality(CarriedIn(Tail(s), i))
          BY <1>6, <2>1
    <2>4. Cardinality(CarriedIn(s, i + 1)) = Cardinality(CarriedIn(Tail(s), i)) + 0
          BY <2>2, <2>3
    <2> QED BY <1>8, <2>4
  <1> QED BY <1>7, <1>8

LEMMA CarriedAppend ==
    ASSUME NEW s \in Seq(Events), NEW e \in Events, NEW i \in 0..Len(s)
    PROVE  CarriedIn(Append(s, e), i) = CarriedIn(s, i)
  <1>1. \A j \in 1..i : Append(s, e)[j] = s[j]
        OBVIOUS
  <1> QED BY <1>1 DEF CarriedIn

(* What the mirror says position by position.                              *)
LEMMA ShownCounts ==
    ASSUME NEW i \in Nat
    PROVE  Shown(i) = base + Len(seen) + Cardinality(CarriedIn(chan, i))
  BY DEF Shown, CarriedIn

LEMMA MirrorFacts ==
    ASSUME TypeOK, EventsMirrorHistory, rxOpen
    PROVE  /\ Len(chan) \in Nat /\ Shown(Len(chan)) \in Nat
           /\ Shown(Len(chan)) <= Len(messages)
           /\ base + Len(seen) <= Len(messages)
           /\ \A k \in 1..Len(seen) : seen[k] = messages[base + k]
           /\ \A i \in 1..Len(chan) : Carries(chan[i]) => Shown(i) \in 1..Len(messages)
  <1>1. /\ chan \in Seq(Events) /\ Len(chan) \in Nat /\ Len(seen) \in Nat
        /\ messages \in Seq(Message) /\ Len(messages) \in Nat /\ base \in Nat
        BY DEF TypeOK
  <1>2. \A i \in Nat : /\ Cardinality(CarriedIn(chan, i)) \in Nat
                       /\ Shown(i) = base + Len(seen) + Cardinality(CarriedIn(chan, i))
        BY CarriedFinite, ShownCounts
  <1>3. Shown(Len(chan)) \in Nat /\ Shown(Len(chan)) <= Len(messages)
    <2>1. Shown(Len(chan)) = IF pc = "announce" THEN Len(messages) - 1 ELSE Len(messages)
          BY DEF EventsMirrorHistory
    <2>2. Shown(Len(chan)) \in Nat
      <3>1. /\ Cardinality(CarriedIn(chan, Len(chan))) \in Nat
            /\ Shown(Len(chan)) = base + Len(seen) + Cardinality(CarriedIn(chan, Len(chan)))
            BY <1>1, CarriedFinite, ShownCounts
      <3> QED BY <1>1, <3>1
    <2> QED BY <1>1, <2>1, <2>2
  <1>4. base + Len(seen) <= Len(messages)
        BY <1>1, <1>2, <1>3
  <1>5. \A k \in 1..Len(seen) : seen[k] = messages[base + k]
    <2>1. seen = SubSeq(messages, base + 1, base + Len(seen))
          BY DEF EventsMirrorHistory
    <2>2. \A i \in (base + 1)..(base + Len(seen)) : messages[i] \in Message
          BY <1>1, <1>4
    <2>3. \A i \in 1..(base + Len(seen) - (base + 1) + 1) :
            SubSeq(messages, base + 1, base + Len(seen))[i] = messages[base + 1 + i - 1]
          BY <1>1, <2>2, SubSeqProperties
    <2>4. \A k \in 1..Len(seen) : /\ k \in 1..(base + Len(seen) - (base + 1) + 1)
                                  /\ base + 1 + k - 1 = base + k
          BY <1>1
    <2>5. \A k \in 1..Len(seen) :
            SubSeq(messages, base + 1, base + Len(seen))[k] = messages[base + k]
          BY <2>3, <2>4
    <2> QED BY <2>1, <2>5
  <1>6. ASSUME NEW i \in 1..Len(chan), Carries(chan[i])
        PROVE  Shown(i) \in 1..Len(messages)
    <2>1. i \in Nat /\ i - 1 \in Nat /\ i \in 0..Len(chan) /\ (i - 1) + 1 = i
          BY <1>1
    <2>2. Cardinality(CarriedIn(chan, i)) = Cardinality(CarriedIn(chan, i - 1)) + 1
          BY <1>6, <2>1, CarriedStep
    <2>3. Cardinality(CarriedIn(chan, i)) <= Cardinality(CarriedIn(chan, Len(chan)))
          BY <1>1, <2>1, CarriedGrows
    <2>4. /\ Cardinality(CarriedIn(chan, i)) \in Nat
          /\ Cardinality(CarriedIn(chan, i - 1)) \in Nat
          /\ Cardinality(CarriedIn(chan, Len(chan))) \in Nat
          BY <1>1, <2>1, CarriedFinite
    <2>5. /\ Shown(i) = base + Len(seen) + Cardinality(CarriedIn(chan, i))
          /\ Shown(Len(chan)) = base + Len(seen) + Cardinality(CarriedIn(chan, Len(chan)))
          BY <1>1, <2>1, ShownCounts
    <2> QED BY <1>1, <1>3, <2>2, <2>3, <2>4, <2>5
  <1> QED BY <1>1, <1>3, <1>4, <1>5, <1>6

LEMMA StretchFacts ==
    ASSUME NEW S, NEW s \in Seq(S), NEW b \in Nat, NEW k \in Nat, b + k <= Len(s)
    PROVE  /\ SubSeq(s, b + 1, b + k) \in Seq(S)
           /\ Len(SubSeq(s, b + 1, b + k)) = k
           /\ \A i \in 1..k : SubSeq(s, b + 1, b + k)[i] = s[b + i]
  <1>1. PICK m \in Int : m = b + 1
        OBVIOUS
  <1>2. PICK n \in Int : n = b + k
        OBVIOUS
  <1>3. Len(s) \in Nat /\ \A i \in m..n : s[i] \in S
        BY <1>1, <1>2
  <1>4. /\ SubSeq(s, m, n) \in Seq(S)
        /\ Len(SubSeq(s, m, n)) = IF m <= n THEN n - m + 1 ELSE 0
        /\ \A i \in 1..(n - m + 1) : SubSeq(s, m, n)[i] = s[m + i - 1]
        BY <1>3, SubSeqProperties, SMTT(30)
  <1>5. /\ n - m + 1 = k /\ (IF m <= n THEN n - m + 1 ELSE 0) = k
        /\ \A i \in 1..k : m + i - 1 = b + i
        BY <1>1, <1>2
  <1> QED BY <1>1, <1>2, <1>4, <1>5

(* The history grows behind what was shown.                                *)
LEMMA SeenStays ==
    ASSUME TypeOK, EventsMirrorHistory, rxOpen, TypeOK', UNCHANGED <<seen, base>>,
           Len(messages) <= Len(messages'),
           \A n \in 1..Len(messages) : messages'[n] = messages[n]
    PROVE  seen' = SubSeq(messages', base' + 1, base' + Len(seen'))
  <1>1. /\ seen \in Seq(Message) /\ messages' \in Seq(Message)
        /\ Len(seen) \in Nat /\ Len(messages) \in Nat /\ Len(messages') \in Nat /\ base \in Nat
        BY DEF TypeOK
  <1>2. base + Len(seen) <= Len(messages) /\ \A k \in 1..Len(seen) : seen[k] = messages[base + k]
        BY MirrorFacts
  <1>3. base + Len(seen) <= Len(messages')
        BY <1>1, <1>2
  <1>4. PICK t : t = SubSeq(messages', base + 1, base + Len(seen))
        OBVIOUS
  <1>5. /\ t \in Seq(Message) /\ Len(t) = Len(seen)
        /\ \A i \in 1..Len(seen) : t[i] = messages'[base + i]
        BY <1>1, <1>3, <1>4, StretchFacts
  <1>6. ASSUME NEW i \in 1..Len(seen) PROVE t[i] = seen[i]
    <2>1. base + i \in 1..Len(messages)
          BY <1>1, <1>2
    <2>2. t[i] = messages'[base + i] /\ messages'[base + i] = messages[base + i]
          BY <1>5, <2>1
    <2> QED BY <1>2, <2>2
  <1>7. t = seen
        BY <1>1, <1>5, <1>6, SeqEqual
  <1> QED BY <1>4, <1>7

(* What the renderer has been told, or will be by the events in flight.    *)
Announced == IF pc = "announce" THEN Len(messages) - 1 ELSE Len(messages)

(* The channel stays and the history at most grows.                        *)
LEMMA MirrorKept ==
    ASSUME TypeOK, TypeOK', EventsMirrorHistory, UNCHANGED <<consumer, base>>,
           Len(messages) <= Len(messages'),
           \A n \in 1..Len(messages) : messages'[n] = messages[n],
           Announced' = Announced
    PROVE  EventsMirrorHistory'
  <1> SUFFICES ASSUME rxOpen
               PROVE  /\ Shown(Len(chan))' = Announced'
                      /\ seen' = SubSeq(messages', base' + 1, base' + Len(seen'))
                      /\ \A i \in 1..Len(chan') :
                           Carries(chan'[i]) => chan'[i].body = messages'[Shown(i)']
      BY DEF EventsMirrorHistory, Announced, consumer
  <1>1. UNCHANGED <<chan, seen, rxOpen, base>>
        BY DEF consumer
  <1>2. \A i : Shown(i)' = Shown(i)
        BY <1>1 DEF Shown
  <1>3. Shown(Len(chan))' = Announced'
        BY <1>1, <1>2 DEF EventsMirrorHistory, Announced, Shown
  <1>4. seen' = SubSeq(messages', base' + 1, base' + Len(seen'))
        BY <1>1, SeenStays
  <1>5. \A i \in 1..Len(chan) : Carries(chan[i]) => chan[i].body = messages'[Shown(i)]
        BY MirrorFacts DEF EventsMirrorHistory
  <1> QED BY <1>1, <1>2, <1>3, <1>4, <1>5

(* One event is sent: if it carries a message, that is the next to show.   *)
LEMMA MirrorSent ==
    ASSUME TypeOK, TypeOK', EventsMirrorHistory, UNCHANGED <<rxOpen, seen, base>>,
           NEW e \in Events, chan' = IF rxOpen THEN Append(chan, e) ELSE chan,
           Len(messages) <= Len(messages'),
           \A n \in 1..Len(messages) : messages'[n] = messages[n],
           Announced' = Announced + (IF Carries(e) THEN 1 ELSE 0),
           Carries(e) => e.body = messages'[Announced + 1]
    PROVE  EventsMirrorHistory'
  <1> SUFFICES ASSUME rxOpen
               PROVE  /\ Shown(Len(chan))' = Announced'
                      /\ seen' = SubSeq(messages', base' + 1, base' + Len(seen'))
                      /\ \A i \in 1..Len(chan') :
                           Carries(chan'[i]) => chan'[i].body = messages'[Shown(i)']
      BY DEF EventsMirrorHistory, Announced
  <1>1. chan \in Seq(Events) /\ Len(chan) \in Nat /\ base \in Nat /\ Len(seen) \in Nat
        BY DEF TypeOK
  <1>n. PICK n \in Nat : n = Len(chan)
        BY <1>1
  <1>2. /\ chan' = Append(chan, e) /\ Len(chan') = Len(chan) + 1
        /\ chan'[Len(chan) + 1] = e
        /\ \A i \in 1..Len(chan) : chan'[i] = chan[i]
        BY <1>1
  <1>3. \A i \in Nat : Shown(i)' = base + Len(seen) + Cardinality(CarriedIn(Append(chan, e), i))
        BY <1>2 DEF Shown, CarriedIn
  <1>4. \A i \in 0..Len(chan) : Shown(i)' = Shown(i)
    <2> TAKE i \in 0..Len(chan)
    <2>1. i \in Nat
          BY <1>1
    <2>2. CarriedIn(Append(chan, e), i) = CarriedIn(chan, i)
          BY <1>1, CarriedAppend
    <2> QED BY <1>3, <2>1, <2>2, ShownCounts
  <1>5. Shown(Len(chan)) = Announced
        BY DEF EventsMirrorHistory, Announced
  <1>6. Shown(n + 1)' = Announced + (IF Carries(e) THEN 1 ELSE 0)
    <2> DEFINE s == Append(chan, e)
    <2>1. s[Len(chan) + 1] = e /\ Len(chan) \in 0..Len(chan) /\ Len(chan) + 1 \in Nat
          BY <1>1
    <2>2. /\ Cardinality(CarriedIn(s, Len(chan))) \in Nat
          /\ CarriedIn(s, Len(chan)) = CarriedIn(chan, Len(chan))
          BY <1>1, <2>1, CarriedFinite, CarriedAppend
    <2>3. Cardinality(CarriedIn(s, Len(chan) + 1)) =
            Cardinality(CarriedIn(s, Len(chan))) + IF Carries(s[Len(chan) + 1]) THEN 1 ELSE 0
          BY <1>1, CarriedStep
    <2>4. Announced = base + Len(seen) + Cardinality(CarriedIn(s, Len(chan)))
          BY <1>1, <1>5, <2>2, ShownCounts
    <2>5. Shown(n + 1)' = base + Len(seen) + Cardinality(CarriedIn(s, Len(chan) + 1))
          BY <1>n, <1>3, <2>1
    <2>6. PICK c : c = IF Carries(e) THEN 1 ELSE 0
          OBVIOUS
    <2>7. c \in Nat
          BY <2>6
    <2>8. Cardinality(CarriedIn(s, Len(chan) + 1)) = Cardinality(CarriedIn(s, Len(chan))) + c
          BY <2>1, <2>3, <2>6
    <2> HIDE DEF s
    <2>9. Shown(n + 1)' = Announced + c
          BY <1>1, <2>2, <2>4, <2>5, <2>7, <2>8
    <2> QED BY <2>6, <2>9
  <1>7. Shown(Len(chan))' = Announced'
        BY <1>n, <1>2, <1>6 DEF Shown
  <1>8. seen' = SubSeq(messages', base' + 1, base' + Len(seen'))
        BY SeenStays
  <1>9. ASSUME NEW i \in 1..Len(chan'), Carries(chan'[i])
        PROVE  chan'[i].body = messages'[Shown(i)']
    <2>1. CASE i \in 1..Len(chan)
      <3>1. chan'[i] = chan[i] /\ Shown(i)' = Shown(i)
            BY <1>1, <1>2, <1>4, <2>1
      <3>2. chan[i].body = messages[Shown(i)] /\ Shown(i) \in 1..Len(messages)
            BY <1>9, <2>1, <3>1, MirrorFacts DEF EventsMirrorHistory
      <3> QED BY <3>1, <3>2
    <2>2. CASE i = Len(chan) + 1
      <3>1. chan'[i] = e /\ Carries(e)
            BY <1>2, <1>9, <2>2
      <3>2. Shown(i)' = Announced + 1
            BY <1>n, <1>6, <2>2, <3>1
      <3> QED BY <3>1, <3>2
    <2> QED BY <1>1, <1>2, <2>1, <2>2
  <1> QED BY <1>7, <1>8, <1>9

(* One event is received: what it carries is shown, and the rest move up.  *)
LEMMA MirrorReceived ==
    ASSUME TypeOK, TypeOK', EventsMirrorHistory, Receive
    PROVE  EventsMirrorHistory'
  <1>1. /\ rxOpen /\ chan # <<>> /\ chan' = Tail(chan)
        /\ seen' = IF Carries(Head(chan)) THEN Append(seen, Head(chan).body) ELSE seen
        /\ UNCHANGED <<pc, messages, rxOpen, base>>
        BY DEF Receive
  <1> SUFFICES /\ Shown(Len(chan))' = Announced'
               /\ seen' = SubSeq(messages', base' + 1, base' + Len(seen'))
               /\ \A i \in 1..Len(chan') :
                    Carries(chan'[i]) => chan'[i].body = messages'[Shown(i)']
      BY DEF EventsMirrorHistory, Announced
  <1>2. /\ chan \in Seq(Events) /\ Len(chan) \in Nat /\ Head(chan) = chan[1]
        /\ seen \in Seq(Message) /\ Len(seen) \in Nat
        /\ messages \in Seq(Message) /\ Len(messages) \in Nat /\ base \in Nat
        BY <1>1 DEF TypeOK
  <1>3. /\ 1 \in 1..Len(chan) /\ Len(chan') = Len(chan) - 1 /\ Len(chan') \in Nat
        /\ \A i \in 1..Len(chan') : i + 1 \in 1..Len(chan) /\ chan'[i] = chan[i + 1]
        BY <1>1, <1>2
  <1>4. PICK c \in {0, 1} : c = IF Carries(chan[1]) THEN 1 ELSE 0
        OBVIOUS
  <1>5. Len(seen') = Len(seen) + c
        BY <1>1, <1>2, <1>4
  <1>6. \A i \in 0..Len(chan') : Shown(i)' = Shown(i + 1)
    <2> TAKE i \in 0..Len(chan')
    <2>1. i \in Nat /\ i + 1 \in Nat /\ i \in 0..(Len(chan) - 1)
          BY <1>2, <1>3
    <2>2. Cardinality(CarriedIn(chan, i + 1)) = Cardinality(CarriedIn(Tail(chan), i)) + c
          BY <1>1, <1>2, <1>4, <2>1, CarriedTail
    <2>3. Shown(i)' = base + Len(seen') + Cardinality(CarriedIn(Tail(chan), i))
          BY <1>1 DEF Shown, CarriedIn
    <2>4. Cardinality(CarriedIn(Tail(chan), i)) \in Nat
          BY <2>1, CarriedFinite
    <2>5. Shown(i + 1) = base + Len(seen) + Cardinality(CarriedIn(chan, i + 1))
          BY <2>1, ShownCounts
    <2> QED BY <1>2, <1>4, <1>5, <2>2, <2>3, <2>4, <2>5
  <1>7. Shown(Len(chan))' = Announced'
    <2>1. PICK n \in Nat : n = Len(chan')
          BY <1>3
    <2>2. Shown(n)' = Shown(n + 1) /\ n + 1 = Len(chan)
          BY <1>2, <1>3, <1>6, <2>1
    <2>3. Shown(Len(chan)) = Announced /\ Announced' = Announced
          BY <1>1 DEF EventsMirrorHistory, Announced
    <2> QED BY <2>1, <2>2, <2>3 DEF Shown
  <1>8. seen' = SubSeq(messages', base' + 1, base' + Len(seen'))
    <2>1. CASE ~Carries(chan[1])
      <3>1. seen' = seen
            BY <1>1, <1>2, <2>1
      <3> QED BY <1>1, <3>1 DEF EventsMirrorHistory
    <2>2. CASE Carries(chan[1])
      <3>1. chan[1].body = messages[Shown(1)] /\ Shown(1) \in 1..Len(messages)
            BY <1>1, <1>3, <2>2, MirrorFacts DEF EventsMirrorHistory
      <3>2. Shown(1) = base + Len(seen) + 1
        <4>1. CarriedIn(chan, 0) = {}
              BY DEF CarriedIn
        <4>2. Cardinality(CarriedIn(chan, 0)) = 0
              BY <4>1, FS_EmptySet
        <4>3. Cardinality(CarriedIn(chan, 0 + 1)) = Cardinality(CarriedIn(chan, 0)) + 1
              BY <2>2, CarriedStep
        <4>4. Cardinality(CarriedIn(chan, 1)) = 1
              BY <4>2, <4>3
        <4> QED BY <1>2, <4>4, ShownCounts
      <3>3. seen' = Append(seen, messages[base + Len(seen) + 1])
            BY <1>1, <1>2, <2>2, <3>1, <3>2
      <3>4. \A k \in 1..Len(seen) : seen[k] = messages[base + k]
            BY <1>1, MirrorFacts
      <3>5. /\ Len(seen') = Len(seen) + 1 /\ seen' \in Seq(Message)
            /\ \A k \in 1..(Len(seen) + 1) : seen'[k] = messages[base + k]
        <4>1. Len(seen') = Len(seen) + 1 /\ seen' \in Seq(Message)
              BY <1>2, <3>1, <3>2, <3>3
        <4>2. seen'[Len(seen) + 1] = messages[base + (Len(seen) + 1)]
              BY <1>2, <3>3
        <4>3. \A k \in 1..Len(seen) : seen'[k] = seen[k]
              BY <1>2, <3>3
        <4>4. \A k \in 1..(Len(seen) + 1) : k \in 1..Len(seen) \/ k = Len(seen) + 1
              BY <1>2
        <4> QED BY <3>4, <4>1, <4>2, <4>3, <4>4
      <3>6. \A i \in (base + 1)..(base + Len(seen')) : messages[i] \in Message
            BY <1>2, <3>1, <3>2, <3>5
      <3>7. PICK t : t = SubSeq(messages, base + 1, base + Len(seen'))
            OBVIOUS
      <3>8. /\ t \in Seq(Message) /\ Len(t) = Len(seen')
            /\ \A k \in 1..Len(seen') : t[k] = messages[base + k]
        <4>1. Len(seen') \in Nat
              BY <1>2, <3>5
        <4>2. /\ t \in Seq(Message)
              /\ Len(t) = IF base + 1 <= base + Len(seen')
                          THEN base + Len(seen') - (base + 1) + 1 ELSE 0
              /\ \A k \in 1..(base + Len(seen') - (base + 1) + 1) : t[k] = messages[base + 1 + k - 1]
              BY <1>2, <3>6, <3>7, <4>1, SubSeqProperties
        <4> QED BY <1>2, <4>1, <4>2
      <3>9. seen' = t
            BY <3>5, <3>8
      <3> QED BY <1>1, <3>7, <3>9
    <2> QED BY <2>1, <2>2
  <1>9. ASSUME NEW i \in 1..Len(chan'), Carries(chan'[i])
        PROVE  chan'[i].body = messages'[Shown(i)']
    <2>1. chan'[i] = chan[i + 1] /\ i + 1 \in 1..Len(chan) /\ Shown(i)' = Shown(i + 1)
          BY <1>3, <1>6
    <2> QED BY <1>1, <1>9, <2>1 DEF EventsMirrorHistory
  <1> QED BY <1>7, <1>8, <1>9

LEMMA NextMirror ==
    LoopInv /\ LoopInv' /\ EventsMirrorHistory /\ [Next]_vars => EventsMirrorHistory'
  <1> SUFFICES ASSUME LoopInv, LoopInv', EventsMirrorHistory, [Next]_vars
               PROVE  EventsMirrorHistory'
      OBVIOUS
  <1>1. /\ TypeOK /\ TypeOK' /\ CountersOK
        /\ messages \in Seq(Message) /\ Len(messages) \in Nat
        BY DEF LoopInv, TypeOK
  <1>2. CASE StreamChunk \/ Finish \/ Start \/ GiveUp
    <2>1. PICK e \in Events :
            /\ ~Carries(e)
            /\ chan' = IF rxOpen THEN Append(chan, e) ELSE chan
            /\ UNCHANGED <<rxOpen, seen, base, messages>>
      <3>1. CASE StreamChunk
        <4>1. Event("chunk", NoBody) \in Events /\ ~Carries(Event("chunk", NoBody))
              BY DEF Event, Events, NoBody, Carries
        <4> QED BY <3>1, <4>1 DEF StreamChunk, Send
      <3>2. CASE Finish
        <4>1. Event("done", NoBody) \in Events /\ ~Carries(Event("done", NoBody))
              BY DEF Event, Events, NoBody, Carries
        <4> QED BY <3>2, <4>1 DEF Finish, Send
      <3>3. CASE Start
        <4>1. Call \in Calls
              BY <3>3, <1>1, CurrentCallTyped DEF Start, Dispatching
        <4>2. Event("start", Call) \in Events /\ ~Carries(Event("start", Call))
              BY <4>1 DEF Event, Events, Carries
        <4> QED BY <3>3, <4>2 DEF Start, Send
      <3>4. CASE GiveUp
        <4>1. Event("exhausted", NoBody) \in Events /\ ~Carries(Event("exhausted", NoBody))
              BY DEF Event, Events, NoBody, Carries
        <4> QED BY <3>4, <4>1 DEF GiveUp, Send
      <3> QED BY <1>2, <3>1, <3>2, <3>3, <3>4
    <2>2. pc # "announce" /\ pc' # "announce"
          BY <1>2 DEF StreamChunk, Finish, Start, GiveUp
    <2>3. Announced' = Announced /\ Announced \in Int
          BY <1>1, <2>1, <2>2 DEF Announced
    <2>4. Announced' = Announced + (IF Carries(e) THEN 1 ELSE 0)
          BY <2>1, <2>3
    <2>5. Len(messages) <= Len(messages')
          BY <1>1, <2>1
    <2> QED BY <1>1, <2>1, <2>4, <2>5, MirrorSent
  <1>3. CASE Announce
    <2> DEFINE e == Event("turn", messages[Len(messages)])
    <2>1. pc = "announce" /\ messages # <<>> /\ pc' # "announce" /\ UNCHANGED <<messages, base>>
          BY <1>1, <1>3 DEF Announce, CountersOK
    <2>2. messages[Len(messages)] \in Message
          BY <1>1, <2>1
    <2>3. e \in Events /\ Carries(e) /\ e.body = messages[Len(messages)]
          BY <2>2 DEF Event, Events, Carries
    <2>4. chan' = (IF rxOpen THEN Append(chan, e) ELSE chan) /\ UNCHANGED <<rxOpen, seen>>
          BY <1>3 DEF Announce, Send
    <2>5. Announced = Len(messages) - 1 /\ Announced' = Len(messages)
          BY <2>1 DEF Announced
    <2> HIDE DEF e
    <2>6. /\ Announced' = Announced + (IF Carries(e) THEN 1 ELSE 0)
          /\ Announced + 1 = Len(messages) /\ Len(messages) <= Len(messages')
          BY <1>1, <2>1, <2>3, <2>5
    <2> QED BY <1>1, <2>1, <2>3, <2>4, <2>6, MirrorSent
  <1>4. CASE Report
    <2> DEFINE answer == ToolResponse(Call, outcome)
               e == Event("finish", answer)
    <2>1. /\ pc = "report" /\ pc' # "announce" /\ UNCHANGED base
          /\ messages' = Append(messages, answer)
          /\ chan' = (IF rxOpen THEN Append(chan, e) ELSE chan) /\ UNCHANGED <<rxOpen, seen>>
          BY <1>4 DEF Report, AdvanceDispatch, LoopHead, Send
    <2>2. answer \in Message
          BY <1>1, <2>1, CurrentCallTyped, NewMessages DEF TypeOK, Dispatching
    <2>3. e \in Events /\ Carries(e) /\ e.body = answer
          BY <2>2 DEF Event, Events, Carries
    <2> HIDE DEF e, answer
    <2>4. /\ Len(messages') = Len(messages) + 1 /\ messages'[Len(messages) + 1] = answer
          /\ \A n \in 1..Len(messages) : messages'[n] = messages[n]
          BY <1>1, <2>1, <2>2
    <2>5. Announced = Len(messages) /\ Announced' = Len(messages) + 1
          BY <2>1, <2>4 DEF Announced
    <2>6. /\ Announced' = Announced + (IF Carries(e) THEN 1 ELSE 0)
          /\ Len(messages) <= Len(messages')
          BY <1>1, <2>3, <2>4, <2>5
    <2> QED BY <1>1, <2>1, <2>3, <2>4, <2>5, <2>6, MirrorSent
  <1>5. CASE StreamEnds
    <2>1. /\ pc = "stream" /\ pc' = "announce" /\ UNCHANGED <<consumer, base>>
          /\ messages' = Append(messages, AssistantMessage(hasText, calls))
          BY <1>5 DEF StreamEnds
    <2>2. AssistantMessage(hasText, calls) \in Message
          BY <1>1, NewMessages DEF TypeOK
    <2>3. /\ Len(messages') = Len(messages) + 1
          /\ \A n \in 1..Len(messages) : messages'[n] = messages[n]
          BY <1>1, <2>1, <2>2
    <2>4. Announced' = Announced /\ Len(messages) <= Len(messages')
          BY <1>1, <2>1, <2>3 DEF Announced
    <2> QED BY <1>1, <2>1, <2>3, <2>4, MirrorKept
  <1>6. CASE \/ Request \/ StreamToolCalls \/ StreamFails \/ Approve \/ Dispatch
             \/ Returned \/ UNCHANGED vars
    <2>1. /\ UNCHANGED <<messages, consumer, base>>
          /\ pc' = "announce" <=> pc = "announce"
          BY <1>6 DEF Request, StreamToolCalls, StreamFails, Approve, Dispatch, Returned, vars, consumer
    <2>2. Announced' = Announced /\ Len(messages) <= Len(messages')
          BY <1>1, <2>1 DEF Announced
    <2> QED BY <1>1, <2>1, <2>2, MirrorKept
  <1>7. CASE DropReceiver
        BY <1>7 DEF DropReceiver, EventsMirrorHistory
  <1>8. CASE Receive
        BY <1>1, <1>8, MirrorReceived
  <1> QED BY <1>2, <1>3, <1>4, <1>5, <1>6, <1>7, <1>8 DEF Next, Run

LEMMA InitReports == Init => TruthInv /\ OutcomeInv /\ EventsMirrorHistory
  <1> SUFFICES ASSUME Init PROVE TruthInv /\ OutcomeInv /\ EventsMirrorHistory
      OBVIOUS
  <1>1. /\ messages \in Seq(Message) /\ Len(messages) \in Nat /\ base = Len(messages)
        /\ MaxIterations \in Nat
        BY HistoriesAssumption, BoundsAssumption DEF Init
  <1>2. /\ ledger = <<>> /\ chan = <<>> /\ seen = <<>> /\ iter = 0 /\ pc = LoopHead(0)
        /\ pc \in {"llm", "exhausted"}
        BY DEF Init, LoopHead
  <1>3. (base + 1)..Len(messages) = {}
        BY <1>1
  <1>4. TruthInv
        BY <1>2, <1>3 DEF TruthInv, HistoryIsTruthful
  <1>5. OutcomeInv
    <2>1. ModelTurns(TRUE) = {} /\ ModelTurns(FALSE) = {}
          BY <1>3 DEF ModelTurns
    <2>2. Cardinality(ModelTurns(TRUE)) = 0
          BY <2>1, FS_EmptySet
    <2>3. ~Final /\ ~TurnInDispatch
          BY <1>2 DEF Final, TurnInDispatch, Dispatching
    <2>4. pc = "exhausted" => iter = MaxIterations
          BY <1>1, <1>2 DEF LoopHead
    <2> QED BY <1>2, <2>1, <2>2, <2>3, <2>4 DEF OutcomeInv
  <1>6. EventsMirrorHistory
    <2>1. CarriedIn(chan, 0) = {} /\ Len(chan) = 0 /\ Len(seen) = 0
          BY <1>2 DEF CarriedIn
    <2>2. Cardinality(CarriedIn(chan, 0)) = 0
          BY <2>1, FS_EmptySet
    <2>3. Shown(0) = base + Len(seen) + Cardinality(CarriedIn(chan, 0))
          BY ShownCounts
    <2>4. Shown(Len(chan)) = Len(messages)
          BY <1>1, <2>1, <2>2, <2>3
    <2>5. SubSeq(messages, base + 1, base + Len(seen)) = <<>>
          BY <1>1, <2>1, SubSeqEmpty
    <2>6. Shown(Len(chan)) = IF pc = "announce" THEN Len(messages) - 1 ELSE Len(messages)
          BY <1>2, <2>4
    <2>7. seen = SubSeq(messages, base + 1, base + Len(seen))
          BY <1>2, <2>5
    <2>8. \A i \in 1..Len(chan) : FALSE
          BY <2>1
    <2> QED BY <2>6, <2>7, <2>8 DEF EventsMirrorHistory
  <1> QED BY <1>4, <1>5, <1>6

(* Whatever the model, the approver and the tools do and however slowly    *)
(* the renderer listens, what run tells agrees with what it did: answers   *)
(* with the ledger of approvals and runs, events with the history, and the *)
(* outcome with the turns it leaves.                                       *)
THEOREM ReportsStayTruthful == Spec => []ReportsAreTruthful
  <1>1. LoopInv /\ TruthInv /\ OutcomeInv /\ EventsMirrorHistory => ReportsAreTruthful
    <2> SUFFICES ASSUME LoopInv, TruthInv, OutcomeInv, EventsMirrorHistory
                 PROVE  OutcomeIsHonest
        BY DEF ReportsAreTruthful, TruthInv
    <2>1. /\ iter \in Nat /\ MaxIterations \in Nat /\ iter <= MaxIterations
          BY BoundsAssumption DEF LoopInv, TypeOK
    <2>2. TurnInDispatch => iter < MaxIterations
          BY DEF TurnInDispatch, OutcomeInv, LoopInv, CountersOK
    <2>c. PICK c : c = Cardinality(ModelTurns(TRUE))
          OBVIOUS
    <2>d. c = IF TurnInDispatch THEN iter + 1 ELSE iter
          BY <2>c DEF OutcomeInv
    <2>3. pc \in {"ok", "budget", "llm_err"} => ~TurnInDispatch
          BY DEF TurnInDispatch, Dispatching
    <2>4. (pc = "ok" => Final) /\ (pc \in {"budget", "llm_err"} => ~Final)
          BY DEF Final
    <2>5. Cardinality(ModelTurns(TRUE)) <= MaxIterations
      <3>1. c <= MaxIterations
        <4>1. CASE TurnInDispatch
              BY <2>1, <2>2, <2>d, <4>1
        <4>2. CASE ~TurnInDispatch
              BY <2>1, <2>d, <4>2
        <4> QED BY <4>1, <4>2
      <3> QED BY <2>c, <3>1
    <2> QED BY <2>1, <2>3, <2>4, <2>5 DEF OutcomeInv, OutcomeIsHonest
  <1> QED BY <1>1, InitLoopInv, InitReports, NextLoopInv, NextTruthInv, NextOutcomeInv,
             NextMirror, PTL DEF Spec

-----------------------------------------------------------------------------
(* The tools at work on files.                                             *)
Words == Tokens \cup {NoDescription}
Hows == {"write", "edit", "create", "update", "command"}
JobSet == {j \in [by : SUBSET Agents, how : Hows, path : Paths, text : Seq(Words),
                  old : Seq(Words), new : Seq(Words), all : BOOLEAN, begun : BOOLEAN] :
              /\ j.how = "edit" => j.old # <<>> /\ Len(j.old) = Len(j.new)
              /\ j.how = "update" => j.new # <<>>}
Stages == {"off", "thinking", "tool", "command", "task", "panic", "ended"}
RunSet == [at : Stages, for : Agents, reply : Replies \cup {"none", "panicked"}]
Silences == {"unasked", "snippet", "hidden", "none wanted"}
Answers == [error : BOOLEAN, left : Nat, marker : BOOLEAN, silent : {"nothing"} \cup Silences]
HonestAnswer(r) ==
    ~r.error => /\ r.marker => r.left > 0
                /\ r.left > 0 => r.marker \/ r.silent \in Silences

WorkspaceTypes ==
    /\ file \in [Paths -> Seq(Words)] /\ kept \in [Paths -> Seq(Words)]
    /\ run \in [Agents -> RunSet] /\ result \in [Agents -> Answers]
    /\ \A j \in jobs : j \in JobSet

(* A job stands where the one agent it belongs to waits for it, and a sub- *)
(* agent is waited for by another agent, which has no other.               *)
Station(j) == IF j.how = "command" THEN "command" ELSE "tool"
Attended ==
    /\ \A j \in jobs : \E a \in Agents : j.by = {a} /\ run[a].at = Station(j)
    /\ \A j, k \in jobs : j.by = k.by => j = k
Nested ==
    /\ \A s \in Subs : run[s].at # "off" => run[run[s].for].at = "task" /\ run[s].for # s
    /\ \A s, t \in Subs : run[s].at # "off" /\ run[t].at # "off" /\ run[s].for = run[t].for => s = t

(* A file no two changes overlapped on has one change under way at most,   *)
(* which will leave what was promised of the file as it is known, if that  *)
(* change does not damage it.                                              *)
Calm(p) == \A j \in jobs : j.path = p => ~j.begun \/ j.how = "command"
KeptInv(p) ==
    p \notin overlapped =>
        /\ \A j, k \in jobs : j.path = p /\ k.path = p => j = k
        /\ p \notin damaged =>
              /\ Calm(p) => file[p] = kept[p]
              /\ \A j \in jobs : j.path = p /\ j.how # "command" => j.text = Promised(kept[p], j)

WorkspaceInv ==
    /\ WorkspaceTypes
    /\ ~cut => Attended /\ Nested
    /\ \A p \in Paths : KeptInv(p)
    /\ \A a \in Agents : HonestAnswer(result[a])

LEMMA MappedText ==
    ASSUME NEW text \in Seq(Words), NEW f \in [DOMAIN text -> Words]
    PROVE  f \in Seq(Words)
  <1>1. PICK n \in Nat : text \in [1..n -> Words]
        BY SeqDef
  <1>2. f \in [1..n -> Words]
        BY <1>1
  <1> QED BY <1>2, SeqDef

LEMMA TextFacts ==
    ASSUME NEW text \in Seq(Words)
    PROVE  Description(text) \in Words /\ Described(text) \in Words
  BY DEF Description, Described, Words

LEMMA MissingIsText == Missing \in Seq(Words)
  BY DEF Missing, Words

LEMMA WithTyped ==
    ASSUME NEW text \in Seq(Words), NEW old \in Seq(Words), NEW new \in Seq(Words),
           old # <<>>, Len(old) = Len(new), NEW M
    PROVE  With(text, old, new, M) \in Seq(Words)
  <1> DEFINE over(k) == {i \in M \cap DOMAIN text : i = k \/ Clash(i, k, old)}
             put(k) == IF over(k) = {} THEN text[k] ELSE new[k + 1 - CHOOSE i \in over(k) : TRUE]
  <1>1. ASSUME NEW k \in DOMAIN text PROVE put(k) \in Words
    <2>1. CASE over(k) = {}
          BY <2>1
    <2>2. CASE over(k) # {}
      <3> DEFINE i == CHOOSE i \in over(k) : TRUE
      <3>1. i \in over(k)
            BY <2>2
      <3>2. DOMAIN text = 1 .. Len(text) /\ Len(text) \in Nat /\ Len(old) \in Nat /\ Len(old) # 0
            BY EmptySeq
      <3>6. i \in DOMAIN text /\ (i = k \/ Clash(i, k, old))
            BY <3>1
      <3>3. i \in Nat /\ k \in Nat /\ i <= k /\ k < i + Len(old)
        <4> HIDE DEF i, over, put
        <4>1. i \in Nat /\ k \in Nat
              BY <3>2, <3>6
        <4>2. CASE i = k
              BY <3>2, <4>1, <4>2
        <4>3. CASE Clash(i, k, old)
              BY <3>2, <4>1, <4>3 DEF Clash
        <4> QED BY <3>6, <4>1, <4>2, <4>3
      <3> HIDE DEF i
      <3>4. k + 1 - i \in 1 .. Len(new)
            BY <3>2, <3>3
      <3>5. new[k + 1 - i] \in Words
            BY <3>4
      <3> QED BY <2>2, <3>5 DEF i
    <2> QED BY <2>1, <2>2
  <1>2. With(text, old, new, M) = [k \in DOMAIN text |-> put(k)]
        BY DEF With
  <1> HIDE DEF put
  <1>3. [k \in DOMAIN text |-> put(k)] \in [DOMAIN text -> Words]
        BY <1>1
  <1> QED BY <1>2, <1>3, MappedText

LEMMA PromisedTyped ==
    ASSUME NEW text \in Seq(Words), NEW j \in JobSet
    PROVE  Promised(text, j) \in Seq(Words)
  <1>1. /\ j.text \in Seq(Words) /\ j.old \in Seq(Words) /\ j.new \in Seq(Words)
        /\ j.how = "edit" => j.old # <<>> /\ Len(j.old) = Len(j.new)
        BY DEF JobSet
  <1>2. j.how = "edit" => With(text, j.old, j.new, Occurrences(text, j.old)) \in Seq(Words)
        BY <1>1, WithTyped
  <1>3. j.how = "update" => <<Described(text), j.new[1]>> \in Seq(Words)
    <2> SUFFICES ASSUME j.how = "update" PROVE <<Described(text), j.new[1]>> \in Seq(Words)
        OBVIOUS
    <2>1. j.new # <<>>
          BY DEF JobSet
    <2>2. 1 \in DOMAIN j.new
          BY <1>1, <2>1, EmptySeq
    <2>3. Described(text) \in Words /\ j.new[1] \in Words
          BY <1>1, <2>2, TextFacts
    <2> QED BY <2>3
  <1> QED BY <1>1, <1>2, <1>3 DEF Promised

(* Occurrences that do not overlap are the matches.                        *)
LEMMA MatchesAll ==
    ASSUME NEW text, NEW old, ~Tangled(text, old)
    PROVE  Matches(text, old) = Occurrences(text, old)
  <1> DEFINE O == Occurrences(text, old)
             First(M) == \A k \in O : k \in M <=> \A i \in M : ~Clash(i, k, old)
  <1>1. \A i, k \in O : ~Clash(i, k, old)
        BY DEF Tangled
  <1>2. O \in SUBSET O /\ First(O)
        BY <1>1
  <1>3. Matches(text, old) = CHOOSE M \in SUBSET O : First(M)
        BY DEF Matches
  <1> HIDE DEF O, First
  <1>4. Matches(text, old) \in SUBSET O /\ First(Matches(text, old))
        BY <1>2, <1>3
  <1>5. \A k \in O : k \in Matches(text, old)
        BY <1>1, <1>4 DEF First
  <1> QED BY <1>4, <1>5 DEF O

(* An edit that is not refused does what it promises.                      *)
LEMMA EditPromises ==
    ASSUME NEW text \in Seq(Words), NEW old \in Seq(Words), NEW new \in Seq(Words),
           NEW all \in BOOLEAN, ~Tangled(text, old),
           Matches(text, old) # {}, ~Ambiguous(text, old, all),
           NEW j, j.how = "edit", j.old = old, j.new = new, j.all = all
    PROVE  Replaced(text, old, new, all) = Promised(text, j)
  <1> DEFINE O == Occurrences(text, old)
  <1>0. Matches(text, old) = O
        BY MatchesAll
  <1>1. Replaced(text, old, new, all) = With(text, old, new, {i \in O : all \/ \A k \in O : i <= k})
        BY <1>0 DEF Replaced
  <1>2. O \in SUBSET (1..Len(text)) /\ Len(text) \in Nat
        BY DEF Occurrences
  <1>3. CASE all
    <2>1. {i \in O : all \/ \A k \in O : i <= k} = O
          BY <1>3
    <2> QED BY <1>1, <1>3, <2>1 DEF Promised
  <1>4. CASE ~all
    <2>1. IsFiniteSet(O)
      <3>1. IsFiniteSet(1..Len(text))
            BY <1>2, FS_Interval
      <3> QED BY <1>2, <3>1, FS_Subset
    <2>2. Cardinality(O) = 1
      <3>1. Cardinality(O) \in Nat /\ Cardinality(O) # 0
            BY <1>0, <2>1, FS_CardinalityType, FS_EmptySet
      <3>2. ~(Cardinality(O) > 1)
            BY <1>0, <1>4 DEF Ambiguous
      <3> QED BY <3>1, <3>2
    <2>3. PICK i : O = {i}
          BY <2>1, <2>2, FS_Singleton
    <2>4. i \in 1..Len(text) /\ i \in Nat /\ i \in DOMAIN text
          BY <1>2, <2>3
    <2>5. {m \in O : all \/ \A k \in O : m <= k} = O
          BY <2>3, <2>4
    <2>6. Promised(text, j) = With(text, old, new, O)
          BY <2>3, <2>4 DEF Promised
    <2> QED BY <1>1, <2>5, <2>6
  <1> QED BY <1>3, <1>4

(* A body in chunks: cut off at the limit.                                 *)
Bodies == [cut : BOOLEAN, shown : Nat, of : Nat]
Whole(body) ==
    body \in Bodies /\ IF body.cut THEN body.shown < body.of ELSE body.shown = body.of
LEMMA ChunkStaysWhole ==
    ASSUME NEW body, Whole(body), body.cut => body.shown = Limit, NEW n \in Nat
    PROVE  /\ Whole(Chunk(body, n))
           /\ Chunk(body, n).cut => Chunk(body, n).shown = Limit
  <1>1. /\ Limit \in Nat /\ body.shown \in Nat /\ body.of \in Nat /\ body.cut \in BOOLEAN
        /\ body.shown + n \in Nat /\ body.of + n \in Nat
        /\ IF body.cut THEN body.shown < body.of ELSE body.shown = body.of
        BY WorkspaceAssumption DEF Whole, Bodies
  <1>2. CASE body.cut \/ body.shown + n > Limit
    <2>1. Chunk(body, n) = [cut |-> TRUE, shown |-> Limit, of |-> body.of + n]
          BY <1>2 DEF Chunk
    <2>2. Limit < body.of + n
          BY <1>1, <1>2
    <2> QED BY <1>1, <2>1, <2>2 DEF Whole, Bodies
  <1>3. CASE ~(body.cut \/ body.shown + n > Limit)
    <2>1. Chunk(body, n) = [cut |-> FALSE, shown |-> body.shown + n, of |-> body.of + n]
          BY <1>3 DEF Chunk
    <2> QED BY <1>1, <1>3, <2>1 DEF Whole, Bodies
  <1> QED BY <1>2, <1>3

LEMMA AnswerFacts ==
    /\ Failed \in Answers /\ HonestAnswer(Failed)
    /\ Done \in Answers /\ HonestAnswer(Done)
    /\ \A n \in Nat, what \in Silences : Silently(n, what) \in Answers /\ HonestAnswer(Silently(n, what))
    /\ \A n \in Nat : Beyond(n) \in Nat /\ (n > Limit => Beyond(n) > 0) /\ (Beyond(n) > 0 => n > Limit)
    /\ \A n \in Nat : TruncateLines(n) \in Answers /\ HonestAnswer(TruncateLines(n))
    /\ \A error \in BOOLEAN, output \in Outputs :
          Truncated(error, output) \in Answers /\ HonestAnswer(Truncated(error, output))
    /\ \A reply : Reply(reply) \in Answers /\ HonestAnswer(Reply(reply))
  <1>1. Limit \in Nat
        BY WorkspaceAssumption
  <1>2. Failed \in Answers /\ HonestAnswer(Failed) /\ Done \in Answers /\ HonestAnswer(Done)
        BY DEF Failed, Done, Answer, Answers, HonestAnswer
  <1>3. ASSUME NEW n \in Nat, NEW what \in Silences
        PROVE  Silently(n, what) \in Answers /\ HonestAnswer(Silently(n, what))
    <2> DEFINE said == IF n = 0 THEN "nothing" ELSE what
    <2>1. said \in {"nothing"} \cup Silences /\ (n > 0 => said \in Silences)
          OBVIOUS
    <2>2. Silently(n, what) = [error |-> FALSE, left |-> n, marker |-> FALSE, silent |-> said]
          BY DEF Silently
    <2> HIDE DEF said
    <2> QED BY <2>1, <2>2 DEF Answers, HonestAnswer
  <1>4. \A n \in Nat : Beyond(n) \in Nat /\ (n > Limit => Beyond(n) > 0) /\ (Beyond(n) > 0 => n > Limit)
        BY <1>1 DEF Beyond
  <1>5. ASSUME NEW n \in Nat PROVE TruncateLines(n) \in Answers /\ HonestAnswer(TruncateLines(n))
    <2> DEFINE left == Beyond(n)
    <2>1. CASE n <= Limit
          BY <1>2, <2>1 DEF TruncateLines
    <2>2. CASE ~(n <= Limit)
      <3>1. TruncateLines(n) = Answer(FALSE, left, TRUE)
            BY <2>2 DEF TruncateLines
      <3>2. left \in Nat /\ left > 0
            BY <1>1, <1>4, <2>2
      <3> HIDE DEF left
      <3>3. Answer(FALSE, left, TRUE) \in Answers /\ HonestAnswer(Answer(FALSE, left, TRUE))
            BY <3>2 DEF Answer, Answers, HonestAnswer
      <3> QED BY <3>1, <3>3
    <2> QED BY <2>1, <2>2
  <1>6. ASSUME NEW error \in BOOLEAN, NEW output \in Outputs
        PROVE  Truncated(error, output) \in Answers /\ HonestAnswer(Truncated(error, output))
    <2>1. /\ Answer(error, 1, TRUE) \in Answers /\ HonestAnswer(Answer(error, 1, TRUE))
          /\ Answer(error, 0, FALSE) \in Answers /\ HonestAnswer(Answer(error, 0, FALSE))
          BY DEF Answer, Answers, HonestAnswer
    <2> QED BY <2>1 DEF Truncated
  <1>7. ASSUME NEW reply PROVE Reply(reply) \in Answers /\ HonestAnswer(Reply(reply))
    <2>1. Answer(FALSE, 1, TRUE) \in Answers /\ HonestAnswer(Answer(FALSE, 1, TRUE))
          BY DEF Answer, Answers, HonestAnswer
    <2> QED BY <1>2, <2>1 DEF Reply
  <1> QED BY <1>2, <1>3, <1>4, <1>5, <1>6, <1>7

LEMMA LooksTell ==
    ASSUME WorkspaceTypes, NEW a \in Agents, Looks(a)
    PROVE  \E r \in Answers : HonestAnswer(r) /\ Tells(a, r)
  <1> DEFINE Told == \E r \in Answers : HonestAnswer(r) /\ Tells(a, r)
  <1>0. Found \subseteq Nat /\ 0..Limit \subseteq Nat /\ 0..1 \subseteq Nat
        /\ Silences = {"unasked", "snippet", "hidden", "none wanted"}
        BY WorkspaceAssumption DEF Found, Silences
  <1>1. ASSUME NEW p \in Paths \ {Remote}, NEW asked \in BOOLEAN, Read(a, p, asked) PROVE Told
    <2>1. Beyond(Len(file[p])) \in Nat
      <3>1. Len(file[p]) \in Nat
            BY DEF WorkspaceTypes
      <3> QED BY <3>1, AnswerFacts
    <2> QED BY <1>0, <1>1, <2>1, AnswerFacts DEF Read
  <1>2. ASSUME NEW n \in Found, WebSearch(a, n) \/ GlobForNone(a, n) PROVE Told
        BY <1>0, <1>2, AnswerFacts DEF WebSearch, GlobForNone
  <1>3. ASSUME NEW n \in Found, NEW code \in 0..2, Grep(a, n, code) PROVE Told
    <2>1. TruncateLines(n) \in Answers /\ HonestAnswer(TruncateLines(n))
          BY <1>0, AnswerFacts
    <2> DEFINE r == [TruncateLines(n) EXCEPT !.error = code = 2]
    <2>2. r \in Answers /\ HonestAnswer(r)
      <3>1. TruncateLines(n).error = FALSE
            BY DEF TruncateLines, Done, Answer
      <3> QED BY <2>1, <3>1 DEF Answers, HonestAnswer
    <2> QED BY <1>3, <2>2 DEF Grep
  <1>4. ASSUME NEW n \in 0..Limit, NEW m \in 0..Limit, WebFetch(a, n, m) PROVE Told
    <2> DEFINE none == [cut |-> FALSE, shown |-> 0, of |-> 0]
               body == Chunk(Chunk(none, n), m)
    <2>1. n \in Nat /\ m \in Nat /\ Whole(none) /\ ~none.cut
          BY <1>0 DEF Whole, Bodies
    <2> HIDE DEF none
    <2>2. Whole(body)
          BY <2>1, ChunkStaysWhole
    <2>3. Tells(a, Answer(FALSE, body.of - body.shown, body.cut))
          BY <1>4 DEF WebFetch, none
    <2> HIDE DEF body
    <2>4. /\ body.of - body.shown \in Nat /\ body.cut \in BOOLEAN
          /\ body.cut <=> body.of - body.shown > 0
          BY <2>2 DEF Whole, Bodies
    <2> DEFINE left == body.of - body.shown
    <2>5. Answer(FALSE, left, body.cut) \in Answers /\ HonestAnswer(Answer(FALSE, left, body.cut))
      <3> HIDE DEF left
      <3>1. left \in Nat /\ body.cut \in BOOLEAN /\ (body.cut <=> left > 0)
            BY <2>4 DEF left
      <3> QED BY <3>1 DEF Answer, Answers, HonestAnswer
    <2> QED BY <2>3, <2>5
  <1>5. ASSUME NEW n \in Found, NEW hidden \in 0..1, Glob(a, n, hidden) PROVE Told
    <2>1. n \in Nat /\ hidden \in Nat
          BY <1>0
    <2>2. CASE n <= Limit
          BY <1>0, <1>5, <2>1, <2>2, AnswerFacts DEF Glob
    <2>3. CASE ~(n <= Limit)
      <3> DEFINE left == Beyond(n) + hidden
      <3>1. left \in Nat /\ left > 0
        <4>1. n > Limit
              BY <2>1, <2>3, WorkspaceAssumption
        <4>2. Beyond(n) \in Nat /\ Beyond(n) > 0
              BY <2>1, <4>1, AnswerFacts
        <4> QED BY <2>1, <4>2
      <3>2. Tells(a, Answer(FALSE, left, TRUE))
            BY <1>5, <2>3 DEF Glob
      <3> HIDE DEF left
      <3>3. Answer(FALSE, left, TRUE) \in Answers /\ HonestAnswer(Answer(FALSE, left, TRUE))
            BY <3>1 DEF Answer, Answers, HonestAnswer
      <3> QED BY <3>2, <3>3
    <2> QED BY <2>2, <2>3
  <1>6. ASSUME \/ GrepFails(a) \/ WebFetchFails(a) \/ WebSearchFails(a) \/ SpawnFails(a)
               \/ TaskNotInstalled(a) \/ Ls(a) \/ LsFails(a)
        PROVE  Told
        BY <1>6, AnswerFacts DEF GrepFails, WebFetchFails, WebSearchFails, SpawnFails,
           TaskNotInstalled, Ls, LsFails
  <1> QED BY <1>1, <1>2, <1>3, <1>4, <1>5, <1>6 DEF Looks

(* What a call starts.                                                     *)
NewJob(a, j) ==
    /\ j \in JobSet /\ j.by = {a} /\ ~j.begun
    /\ j.how # "command" /\ ~Damages(j) => j.text = Promised(file[j.path], j)

LEMMA ChangesStart ==
    ASSUME WorkspaceTypes, NEW a \in Agents, Changes(a)
    PROVE  \/ Tells(a, Failed)
           \/ \E j \in JobSet : NewJob(a, j) /\ Starts(a, Station(j), j)
  <1> DEFINE Begun == \E j \in JobSet : NewJob(a, j) /\ Starts(a, Station(j), j)
  <1>0. /\ Skill \in Paths /\ Remote \in Paths /\ Tokens \subseteq Words /\ NoDescription \in Words
        BY WorkspaceAssumption DEF Words
  <1>1. ASSUME NEW p \in Paths, NEW t \in Tokens, Write(a, p, <<t>>) PROVE Begun
    <2> DEFINE j == Job(a, "write", p, <<t>>, <<t>>, <<t>>, FALSE)
    <2>1. <<t>> \in Seq(Words) /\ t \in Words
          BY <1>0
    <2>2. /\ j \in JobSet /\ j.by = {a} /\ ~j.begun /\ j.how = "write" /\ j.text = <<t>>
          BY <1>0, <2>1 DEF Job, JobSet, Hows
    <2>3. Starts(a, "tool", j)
          BY <1>1 DEF Write
    <2> HIDE DEF j
    <2> QED BY <2>2, <2>3 DEF NewJob, Promised, Station
  <1>2. ASSUME NEW p \in Paths, NEW t \in Tokens, Bash(a, p, <<t, t>>) PROVE Begun
    <2> DEFINE j == Job(a, "command", p, <<t, t>>, <<t, t>>, <<t, t>>, FALSE)
    <2>1. <<t, t>> \in Seq(Words) /\ t \in Words
          BY <1>0
    <2>2. /\ j \in JobSet /\ j.by = {a} /\ ~j.begun /\ j.how = "command"
          BY <1>0, <2>1 DEF Job, JobSet, Hows
    <2>3. Starts(a, "command", j)
          BY <1>2 DEF Bash
    <2> HIDE DEF j
    <2> QED BY <2>2, <2>3 DEF NewJob, Station
  <1>3. ASSUME NEW p \in Paths \ {Remote}, NEW old \in Strings, NEW new \in Strings,
               NEW all \in BOOLEAN, Len(old) = Len(new), Edit(a, p, old, new, all)
        PROVE  Begun
    <2> DEFINE text == Replaced(file[p], old, new, all)
               j == Job(a, "edit", p, text, old, new, all)
    <2>1. /\ file[p] \in Seq(Words) /\ p \in Paths /\ old \in Seq(Words) /\ new \in Seq(Words)
          /\ old # <<>>
      <3>1. Seq(Tokens) \subseteq Seq(Words) /\ Strings \subseteq Seq(Tokens) \ {<<>>}
            BY WorkspaceAssumption, SeqMonotonic DEF Words
      <3> QED BY <3>1 DEF WorkspaceTypes
    <2>2. Matches(file[p], old) # {} /\ ~Ambiguous(file[p], old, all) /\ Starts(a, "tool", j)
          BY <1>3 DEF Edit
    <2>3. text \in Seq(Words)
          BY <1>3, <2>1, WithTyped DEF Replaced
    <2>4. /\ j \in JobSet /\ j.by = {a} /\ ~j.begun /\ j.how = "edit" /\ j.path = p
          /\ j.text = text /\ j.old = old /\ j.new = new /\ j.all = all
      <3> HIDE DEF text
      <3> QED BY <1>3, <2>1, <2>3 DEF Job, JobSet, Hows
    <2> HIDE DEF j
    <2>5. ~Damages(j) => text = Promised(file[p], j)
      <3>1. ~Damages(j) => ~Tangled(file[p], old)
            BY <2>4 DEF Damages
      <3> QED BY <2>1, <2>2, <2>4, <3>1, EditPromises
    <2> HIDE DEF text
    <2> QED BY <2>2, <2>4, <2>5 DEF NewJob, Station
  <1>4. ASSUME NEW t \in Tokens, NEW u \in Tokens, SkillCreate(a, <<t, u>>) PROVE Begun
    <2> DEFINE j == Job(a, "create", Skill, <<t, u>>, <<t, u>>, <<t, u>>, FALSE)
    <2>1. <<t, u>> \in Seq(Words) /\ t \in Words /\ u \in Words
          BY <1>0
    <2>2. /\ j \in JobSet /\ j.by = {a} /\ ~j.begun /\ j.how = "create" /\ j.path = Skill
          /\ j.text = <<t, u>>
          BY <1>0, <2>1 DEF Job, JobSet, Hows
    <2>3. Starts(a, "tool", j) /\ file[Skill] = Missing
          BY <1>4 DEF SkillCreate
    <2> HIDE DEF j
    <2> QED BY <2>2, <2>3 DEF NewJob, Promised, Station
  <1>5. ASSUME NEW t \in Tokens \cup {NoDescription}, NEW u \in Tokens, SkillUpdate(a, t, u)
        PROVE  Begun
    <2> DEFINE kind == IF t = NoDescription THEN Description(file[Skill]) ELSE t
               j == Job(a, "update", Skill, <<kind, u>>, <<t>>, <<u>>, FALSE)
    <2>1. kind \in Words /\ t \in Words /\ u \in Words
          /\ <<t>> \in Seq(Words) /\ <<u>> \in Seq(Words)
      <3>1. file[Skill] \in Seq(Words)
            BY <1>0 DEF WorkspaceTypes
      <3> QED BY <1>0, <3>1, TextFacts DEF Words
    <2>2. Starts(a, "tool", j) /\ file[Skill] # Missing
          BY <1>5 DEF SkillUpdate
    <2>3. <<kind, u>> \in Seq(Words)
      <3> HIDE DEF kind
      <3> QED BY <2>1
    <2>4. /\ j \in JobSet /\ j.by = {a} /\ ~j.begun /\ j.how = "update" /\ j.path = Skill
          /\ j.text = <<kind, u>> /\ j.old = <<t>> /\ j.new = <<u>>
      <3> HIDE DEF kind
      <3> QED BY <1>0, <2>1, <2>3 DEF Job, JobSet, Hows
    <2> HIDE DEF j
    <2>5. ~Damages(j) => Promised(file[Skill], j) = <<kind, u>>
      <3>1. <<t>> = <<NoDescription>> <=> t = NoDescription
            OBVIOUS
      <3>2. CASE t # NoDescription
            BY <2>2, <2>4, <3>1, <3>2 DEF Promised
      <3>3. CASE t = NoDescription
        <4>1. ~Damages(j) => Described(file[Skill]) \notin Folded
              BY <2>4, <3>3 DEF Damages
        <4> QED BY <2>2, <2>4, <3>3, <4>1 DEF Promised, Description
      <3> QED BY <3>2, <3>3
    <2> QED BY <2>2, <2>4, <2>5 DEF NewJob, Station
  <1>6. ASSUME NEW t \in Tokens, NEW u \in Tokens, BashDocker(a, <<t, t>>) PROVE Begun
    <2> DEFINE j == Job(a, "command", Remote, <<t, t>>, <<t, t>>, <<t, t>>, FALSE)
    <2>1. <<t, t>> \in Seq(Words) /\ t \in Words
          BY <1>0
    <2>2. /\ j \in JobSet /\ j.by = {a} /\ ~j.begun /\ j.how = "command"
          BY <1>0, <2>1 DEF Job, JobSet, Hows
    <2>3. Starts(a, "command", j)
          BY <1>6 DEF BashDocker
    <2> HIDE DEF j
    <2> QED BY <2>2, <2>3 DEF NewJob, Station
  <1>7. ASSUME NEW t \in Tokens, NEW u \in Tokens, BashSsh(a, <<t, u>>) PROVE Begun
    <2> DEFINE j == Job(a, "command", Remote, <<t, u>>, <<t, u>>, <<t, u>>, FALSE)
    <2>1. <<t, u>> \in Seq(Words) /\ t \in Words /\ u \in Words
          BY <1>0
    <2>2. /\ j \in JobSet /\ j.by = {a} /\ ~j.begun /\ j.how = "command"
          BY <1>0, <2>1 DEF Job, JobSet, Hows
    <2>3. Starts(a, "command", j)
          BY <1>7 DEF BashSsh
    <2> HIDE DEF j
    <2> QED BY <2>2, <2>3 DEF NewJob, Station
  <1>8. ASSUME NEW p \in Paths \ {Remote}, NEW old \in Strings, NEW new \in Strings, NEW all \in BOOLEAN,
               EditRefused(a, p, old, new, all)
        PROVE  Tells(a, Failed)
        BY <1>8 DEF EditRefused
  <1>9. ASSUME NEW exists \in BOOLEAN, SkillRefused(a, exists) PROVE Tells(a, Failed)
        BY <1>9 DEF SkillRefused
  <1>10. CASE \E p \in Paths, t \in Tokens : Write(a, p, <<t>>) \/ Bash(a, p, <<t, t>>)
         BY <1>1, <1>2, <1>10
  <1>11. CASE \E p \in Paths \ {Remote}, old, new \in Strings, all \in BOOLEAN :
                 /\ Len(old) = Len(new)
                 /\ Edit(a, p, old, new, all) \/ EditRefused(a, p, old, new, all)
         BY <1>3, <1>8, <1>11
  <1>12. CASE \E t, u \in Tokens : SkillCreate(a, <<t, u>>)
         BY <1>4, <1>12
  <1>13. CASE \E t \in Tokens \cup {NoDescription}, u \in Tokens : SkillUpdate(a, t, u)
         BY <1>5, <1>13
  <1>14. CASE \E t, u \in Tokens : BashDocker(a, <<t, t>>) \/ BashSsh(a, <<t, u>>)
         BY <1>6, <1>7, <1>14
  <1> QED BY <1>9, <1>10, <1>11, <1>12, <1>13, <1>14 DEF Changes

(* The steps, with what they start and tell.                               *)
AgentSteps(a) ==
    \/ \E r \in Answers : HonestAnswer(r) /\ Tells(a, r)
    \/ \E j \in JobSet : NewJob(a, j) /\ Starts(a, Station(j), j)
    \/ Unwinds(a) \/ \E reply \in Replies : Ends(a, reply)
    \/ \E s \in Subs : Task(a, s) \/ TaskAnswers(a, s)
CommandSteps(a, j) ==
    \/ CommandDetaches(a, j) \/ CommandTimesOut(a, j)
    \/ \E error \in BOOLEAN, output \in Outputs : CommandEnds(a, j, error, output)
LEMMA WorkspaceSteps ==
    ASSUME WorkspaceTypes, WorkspaceNext
    PROVE  \/ Prompt \/ Interrupt \/ JobSteps
           \/ \E a \in Agents : AgentSteps(a) \/ \E j \in jobs : CommandSteps(a, j)
  <1>1. ASSUME NEW a \in Agents, Looks(a) PROVE AgentSteps(a)
        BY <1>1, LooksTell DEF AgentSteps
  <1>2. ASSUME NEW a \in Agents, Changes(a) PROVE AgentSteps(a)
        BY <1>2, ChangesStart, AnswerFacts DEF AgentSteps
  <1>3. ASSUME NEW a \in Agents, Commands(a) PROVE \E j \in jobs : CommandSteps(a, j)
        BY <1>3 DEF Commands, CommandSteps
  <1>4. ASSUME RunSteps PROVE \E a \in Agents : AgentSteps(a)
        BY <1>4 DEF RunSteps, AgentSteps
  <1> QED BY <1>1, <1>2, <1>3, <1>4 DEF WorkspaceNext

(* Types, and what the answers say.                                        *)
Typed == WorkspaceTypes /\ \A a \in Agents : HonestAnswer(result[a])

LEMMA GetsTyped ==
    ASSUME Typed, NEW a \in Agents, NEW r \in Answers, HonestAnswer(r), Gets(a, r)
    PROVE  /\ run' \in [Agents -> RunSet] /\ result' \in [Agents -> Answers]
           /\ \A b \in Agents : HonestAnswer(result'[b])
  <1>1. run' \in [Agents -> RunSet]
        BY DEF Gets, Typed, WorkspaceTypes, RunSet, Stages
  <1>2. result' \in [Agents -> Answers] /\ \A b \in Agents : result'[b] = IF b = a THEN r ELSE result[b]
        BY DEF Gets, Typed, WorkspaceTypes
  <1> QED BY <1>1, <1>2 DEF Typed

LEMMA HearsTyped ==
    ASSUME Typed, NEW j \in JobSet, NEW r \in Answers, HonestAnswer(r), Hears(j, r)
    PROVE  /\ run' \in [Agents -> RunSet] /\ result' \in [Agents -> Answers]
           /\ \A b \in Agents : HonestAnswer(result'[b])
  <1>1. CASE j.by = {}
        BY <1>1 DEF Hears, Typed, WorkspaceTypes
  <1>2. CASE j.by # {}
    <2> DEFINE a == CHOOSE a \in Agents : a \in j.by
    <2>1. \E b \in Agents : b \in j.by
          BY <1>2 DEF JobSet
    <2>2. a \in Agents
          BY <2>1
    <2>3. Gets(a, r)
          BY <1>2 DEF Hears
    <2> QED BY <2>2, <2>3, GetsTyped
  <1> QED BY <1>1, <1>2

LEMMA WaitsTyped ==
    ASSUME WorkspaceTypes, NEW a \in Agents, NEW at \in Stages, Waits(a, at)
    PROVE  run' \in [Agents -> RunSet]
  <1>1. run \in [Agents -> RunSet] /\ [run[a] EXCEPT !.at = at] \in RunSet
        BY DEF WorkspaceTypes, RunSet
  <1>2. run' = [run EXCEPT ![a] = [run[a] EXCEPT !.at = at]]
        BY DEF Waits
  <1> QED BY <1>1, <1>2

LEMMA PanickedTyped ==
    ASSUME NEW r \in RunSet
    PROVE  [r EXCEPT !.at = "ended", !.reply = "panicked"] \in RunSet
  BY DEF RunSet, Stages

LEMMA TypedStep ==
    ASSUME Typed, WorkspaceNext
    PROVE  Typed'
  <1> USE DEF Typed
  <1>a. ASSUME NEW j \in JobSet PROVE [j EXCEPT !.by = {}] \in JobSet
        BY DEF JobSet
  <1>0. /\ WorkspaceTypes /\ Off \in RunSet /\ Main \in Agents /\ Subs \subseteq Agents
        /\ \A j \in jobs : j \in JobSet
        BY DEF WorkspaceTypes, Off, RunSet, Stages, Agents
  <1>1. ASSUME Prompt PROVE Typed'
    <2>1. run' \in [Agents -> RunSet]
          BY <1>0, <1>1, WaitsTyped DEF Prompt, Stages
    <2> QED BY <1>1, <2>1 DEF Prompt, history, WorkspaceTypes
  <1>2. ASSUME Interrupt PROVE Typed'
    <2>1. run' \in [Agents -> RunSet]
          BY <1>0, <1>2 DEF Interrupt, WorkspaceTypes, RunSet
    <2>2. \A j \in jobs' : j \in JobSet
          BY <1>0, <1>a, <1>2 DEF Interrupt
    <2> QED BY <1>2, <2>1, <2>2 DEF Interrupt, WorkspaceTypes
  <1>3. ASSUME NEW a \in Agents, AgentSteps(a) PROVE Typed'
    <2>1. ASSUME NEW r \in Answers, HonestAnswer(r), Tells(a, r) PROVE Typed'
          BY <2>1 DEF Tells, WorkspaceTypes, history
    <2>2. ASSUME NEW j \in JobSet, Starts(a, Station(j), j) PROVE Typed'
      <3>1. run' \in [Agents -> RunSet]
            BY <1>0, <2>2, WaitsTyped DEF Starts, Station, Stages
      <3> QED BY <2>2, <3>1 DEF Starts, WorkspaceTypes
    <2>3. ASSUME Unwinds(a) PROVE Typed'
      <3>1. run' \in [Agents -> RunSet]
        <4>1. run \in [Agents -> RunSet]
              BY DEF WorkspaceTypes
        <4>2. CASE a = Main
              BY <1>0, <2>3, <4>2 DEF Unwinds, Panics
        <4>3. CASE a # Main
          <5>1. run' = [run EXCEPT ![a].at = "ended", ![a].reply = "panicked"]
                BY <2>3, <4>3 DEF Unwinds, Panics
          <5> DEFINE ended == [run[a] EXCEPT !.at = "ended", !.reply = "panicked"]
          <5>2. ended \in RunSet
                BY <4>1, PanickedTyped
          <5>3. run' = [run EXCEPT ![a] = ended]
                BY <4>1, <5>1, Zenon
          <5> HIDE DEF ended
          <5> QED BY <4>1, <5>2, <5>3
        <4> QED BY <4>2, <4>3
      <3>2. \A j \in jobs' : j \in JobSet
            BY <1>0, <1>a, <2>3 DEF Unwinds, Panics
      <3> QED BY <2>3, <3>1, <3>2 DEF Unwinds, WorkspaceTypes
    <2>4. ASSUME NEW reply \in Replies, Ends(a, reply) PROVE Typed'
      <3>1. run' \in [Agents -> RunSet]
            BY <1>0, <2>4 DEF Ends, WorkspaceTypes, RunSet, Stages
      <3> QED BY <2>4, <3>1 DEF Ends, WorkspaceTypes, history
    <2>5. ASSUME NEW s \in Subs, Task(a, s) PROVE Typed'
      <3>1. [Off EXCEPT !.at = "thinking", !.for = a] \in RunSet
            BY <1>0 DEF Off, RunSet, Stages
      <3>2. run' \in [Agents -> RunSet]
            BY <1>0, <2>5, <3>1 DEF Task, WorkspaceTypes, RunSet, Stages
      <3> QED BY <2>5, <3>2 DEF Task, WorkspaceTypes, history
    <2>6. ASSUME NEW s \in Subs, TaskAnswers(a, s) PROVE Typed'
      <3>1. run' \in [Agents -> RunSet]
        <4>1. run \in [Agents -> RunSet]
              BY DEF WorkspaceTypes
        <4>2. [run[a] EXCEPT !.at = "panic"] \in RunSet /\ [run[a] EXCEPT !.at = "thinking"] \in RunSet
              BY <4>1 DEF RunSet, Stages
        <4>3. \/ run' = [run EXCEPT ![a] = [run[a] EXCEPT !.at = "panic"], ![s] = Off]
              \/ run' = [run EXCEPT ![a] = [run[a] EXCEPT !.at = "thinking"], ![s] = Off]
              BY <2>6 DEF TaskAnswers
        <4> QED BY <1>0, <4>1, <4>2, <4>3
      <3>2. result' \in [Agents -> Answers] /\ \A b \in Agents : HonestAnswer(result'[b])
        <4>1. Reply(run[s].reply) \in Answers /\ HonestAnswer(Reply(run[s].reply))
              BY AnswerFacts
        <4>2. result' = result \/ result' = [result EXCEPT ![a] = Reply(run[s].reply)]
              BY <2>6 DEF TaskAnswers
        <4> QED BY <4>1, <4>2 DEF WorkspaceTypes
      <3> QED BY <2>6, <3>1, <3>2 DEF TaskAnswers, WorkspaceTypes, history
    <2> QED BY <1>3, <2>1, <2>2, <2>3, <2>4, <2>5, <2>6 DEF AgentSteps
  <1>4. ASSUME NEW a \in Agents, NEW j \in jobs, CommandSteps(a, j) PROVE Typed'
    <2>1. j \in JobSet /\ [j EXCEPT !.by = {}] \in JobSet
          BY <1>0 DEF JobSet
    <2>2. CASE CommandDetaches(a, j) \/ CommandTimesOut(a, j)
      <3>1. Gets(a, Done) \/ Gets(a, Failed)
            BY <2>2 DEF CommandDetaches, CommandTimesOut
      <3>2. /\ run' \in [Agents -> RunSet] /\ result' \in [Agents -> Answers]
            /\ \A b \in Agents : HonestAnswer(result'[b])
            BY <3>1, GetsTyped, AnswerFacts
      <3> QED BY <1>0, <2>1, <2>2, <3>2 DEF CommandDetaches, CommandTimesOut, Loose, WorkspaceTypes
    <2>3. ASSUME NEW error \in BOOLEAN, NEW output \in Outputs, CommandEnds(a, j, error, output)
          PROVE  Typed'
      <3>1. /\ run' \in [Agents -> RunSet] /\ result' \in [Agents -> Answers]
            /\ \A b \in Agents : HonestAnswer(result'[b])
        <4>1. CASE output = "split"
              BY <1>0, <2>3, <4>1, WaitsTyped DEF CommandEnds, Stages, WorkspaceTypes
        <4>2. CASE output # "split"
              BY <2>3, <4>2, GetsTyped, AnswerFacts DEF CommandEnds
        <4> QED BY <4>1, <4>2
      <3> QED BY <1>0, <2>3, <3>1 DEF CommandEnds, WorkspaceTypes, history
    <2> QED BY <1>4, <2>2, <2>3 DEF CommandSteps
  <1>5. ASSUME NEW j \in jobs, Opens(j) \/ Writes(j) \/ WriteFails(j) \/ CommandWrites(j) \/ LeftEnds(j)
        PROVE  Typed'
    <2>1. j \in JobSet /\ j.path \in Paths /\ j.text \in Seq(Words) /\ <<>> \in Seq(Words)
          BY <1>0 DEF JobSet
    <2>2. [j EXCEPT !.begun = TRUE] \in JobSet
          BY <2>1 DEF JobSet
    <2>3. CASE Opens(j)
      <3>1. file' \in [Paths -> Seq(Words)]
            BY <2>1, <2>3 DEF Opens, WorkspaceTypes
      <3> QED BY <1>0, <2>2, <2>3, <3>1 DEF Opens, WorkspaceTypes, history
    <2>4. CASE Writes(j)
      <3>1. /\ run' \in [Agents -> RunSet] /\ result' \in [Agents -> Answers]
            /\ \A b \in Agents : HonestAnswer(result'[b])
            BY <2>1, <2>4, HearsTyped, AnswerFacts DEF Writes
      <3>2. Promised(kept[j.path], j) \in Seq(Words)
            BY <2>1, PromisedTyped DEF WorkspaceTypes
      <3>3. file' \in [Paths -> Seq(Words)] /\ kept' \in [Paths -> Seq(Words)]
            BY <2>1, <2>4, <3>2 DEF Writes, WorkspaceTypes
      <3> QED BY <1>0, <2>4, <3>1, <3>3 DEF Writes, WorkspaceTypes
    <2>5. CASE WriteFails(j)
      <3>1. /\ run' \in [Agents -> RunSet] /\ result' \in [Agents -> Answers]
            /\ \A b \in Agents : HonestAnswer(result'[b])
            BY <2>1, <2>5, HearsTyped, AnswerFacts DEF WriteFails
      <3>2. file' \in [Paths -> Seq(Words)]
        <4>1. file \in [Paths -> Seq(Words)]
              BY DEF WorkspaceTypes
        <4>2. CASE file' = file
              BY <4>1, <4>2
        <4>3. CASE \E n \in 0 .. Len(j.text) - 1 :
                     file' = [file EXCEPT ![j.path] = SubSeq(j.text, 1, n)]
          <5>1. PICK n \in 0 .. Len(j.text) - 1 :
                     file' = [file EXCEPT ![j.path] = SubSeq(j.text, 1, n)]
                BY <4>3
          <5>2. SubSeq(j.text, 1, n) \in Seq(Words)
                BY <2>1, SubSeqProperties
          <5> QED BY <2>1, <4>1, <5>1, <5>2
        <4> QED BY <2>5, <4>2, <4>3 DEF WriteFails
      <3> QED BY <1>0, <2>5, <3>1, <3>2 DEF WriteFails, WorkspaceTypes
    <2>6. CASE CommandWrites(j)
      <3>1. file' \in [Paths -> Seq(Words)] /\ kept' \in [Paths -> Seq(Words)]
            BY <2>1, <2>6 DEF CommandWrites, WorkspaceTypes
      <3> QED BY <1>0, <2>2, <2>6, <3>1 DEF CommandWrites, WorkspaceTypes
    <2>7. CASE LeftEnds(j)
          BY <1>0, <2>7 DEF LeftEnds, WorkspaceTypes, history
    <2> QED BY <1>5, <2>3, <2>4, <2>5, <2>6, <2>7
  <1> QED BY <1>0, <1>1, <1>2, <1>3, <1>4, <1>5, WorkspaceSteps DEF JobSteps

LEMMA SamePromise ==
    ASSUME NEW text, NEW j, NEW k,
           k.how = j.how, k.all = j.all, k.old = j.old, k.new = j.new, k.text = j.text
    PROVE  Promised(text, k) = Promised(text, j)
  BY DEF Promised

(* A step that only takes agents off their jobs, or ends what has not      *)
(* begun to write.                                                         *)
LEMMA RelabelledKeeps ==
    ASSUME WorkspaceTypes, NEW p \in Paths, KeptInv(p), UNCHANGED <<file, kept, overlapped, damaged>>,
           NEW by,
           \A k \in jobs' : \E j \in jobs : k = [j EXCEPT !.by = by[j]],
           \A j \in jobs : j.how = "command" \/ ~j.begun \/ [j EXCEPT !.by = by[j]] \in jobs'
    PROVE  KeptInv(p)'
  <1> SUFFICES ASSUME p \notin overlapped PROVE KeptInv(p)'
      BY DEF KeptInv
  <1>1. ASSUME NEW j \in jobs, NEW k, k = [j EXCEPT !.by = by[j]]
        PROVE  /\ k.path = j.path /\ k.how = j.how /\ k.begun = j.begun /\ k.text = j.text
               /\ k.old = j.old /\ k.new = j.new /\ k.all = j.all
        BY <1>1 DEF WorkspaceTypes, JobSet
  <1>2. \A k, l \in jobs' : k.path = p /\ l.path = p => k = l
    <2> SUFFICES ASSUME NEW k \in jobs', NEW l \in jobs', k.path = p, l.path = p PROVE k = l
        OBVIOUS
    <2>1. PICK j \in jobs : k = [j EXCEPT !.by = by[j]]
          OBVIOUS
    <2>2. PICK m \in jobs : l = [m EXCEPT !.by = by[m]]
          OBVIOUS
    <2>3. j = m
          BY <1>1, <2>1, <2>2 DEF KeptInv
    <2> QED BY <2>1, <2>2, <2>3
  <1>3. p \notin damaged /\ Calm(p)' => file'[p] = kept'[p]
    <2> SUFFICES ASSUME Calm(p)' PROVE Calm(p)
        BY DEF KeptInv
    <2> SUFFICES ASSUME NEW j \in jobs, j.path = p, j.begun, j.how # "command" PROVE FALSE
        BY DEF Calm
    <2>1. [j EXCEPT !.by = by[j]] \in jobs'
          OBVIOUS
    <2> QED BY <1>1, <2>1 DEF Calm
  <1>4. ASSUME NEW k \in jobs', p \notin damaged, k.path = p, k.how # "command"
        PROVE  k.text = Promised(kept'[p], k)
    <2>1. PICK j \in jobs : k = [j EXCEPT !.by = by[j]]
          OBVIOUS
    <2>2. j.text = Promised(kept[p], j)
          BY <1>1, <1>4, <2>1 DEF KeptInv
    <2> QED BY <1>1, <2>1, <2>2, SamePromise
  <1> QED BY <1>2, <1>3, <1>4 DEF KeptInv

LEMMA StartsKeeps ==
    ASSUME WorkspaceTypes, NEW p \in Paths, KeptInv(p),
           NEW a \in Agents, NEW j \in JobSet, NewJob(a, j), Starts(a, Station(j), j)
    PROVE  KeptInv(p)'
  <1> SUFFICES ASSUME p \notin overlapped' PROVE KeptInv(p)'
      BY DEF KeptInv
  <1>1. /\ p \notin overlapped /\ jobs' = jobs \cup {j} /\ UNCHANGED <<file, kept>>
        /\ j.path = p => \A k \in jobs : k.path # p
        /\ p \notin damaged' => p \notin damaged /\ (j.path = p => ~Damages(j))
        BY DEF Starts
  <1>2. CASE j.path # p
        BY <1>1, <1>2 DEF KeptInv, Calm
  <1>3. CASE j.path = p
    <2>1. p \notin damaged' => file[p] = kept[p]
          BY <1>1, <1>3 DEF KeptInv, Calm
    <2>2. \A k \in jobs' : k.path = p => k = j
          BY <1>1, <1>3
    <2>3. p \notin damaged' /\ j.how # "command" => j.text = Promised(kept[p], j)
          BY <1>1, <1>3, <2>1 DEF NewJob
    <2> QED BY <1>1, <2>1, <2>2, <2>3 DEF KeptInv
  <1> QED BY <1>2, <1>3

LEMMA JobsKeep ==
    ASSUME WorkspaceTypes, NEW p \in Paths, KeptInv(p), NEW j \in jobs,
           Opens(j) \/ Writes(j) \/ WriteFails(j) \/ CommandWrites(j) \/ LeftEnds(j)
    PROVE  KeptInv(p)'
  <1> SUFFICES ASSUME p \notin overlapped PROVE KeptInv(p)'
      BY DEF KeptInv, Opens, Writes, WriteFails, CommandWrites, LeftEnds, history
  <1> DEFINE jj == [j EXCEPT !.begun = TRUE]
  <1>0. j \in JobSet /\ j.path \in Paths /\ file \in [Paths -> Seq(Words)] /\ kept \in [Paths -> Seq(Words)]
        BY DEF WorkspaceTypes, JobSet
  <1>1. /\ \A k, l \in jobs : k.path = p /\ l.path = p => k = l
        /\ p \notin damaged /\ Calm(p) => file[p] = kept[p]
        /\ p \notin damaged =>
              \A k \in jobs : k.path = p /\ k.how # "command" => k.text = Promised(kept[p], k)
        BY DEF KeptInv
  <1>2. /\ jj.path = j.path /\ jj.how = j.how /\ jj.begun /\ jj.text = j.text
        /\ jj.old = j.old /\ jj.new = j.new /\ jj.all = j.all
        BY <1>0 DEF JobSet
  <1> HIDE DEF jj
  <1>3. CASE j.path # p
    <2>1. file'[p] = file[p] /\ kept'[p] = kept[p] /\ (p \in damaged' <=> p \in damaged)
          BY <1>0, <1>3 DEF Opens, Writes, WriteFails, CommandWrites, LeftEnds, history
    <2>2. \A k \in jobs' : k.path = p => k \in jobs
          BY <1>2, <1>3 DEF Opens, Writes, WriteFails, CommandWrites, LeftEnds, jj
    <2>3. \A k \in jobs : k.path = p => k \in jobs'
          BY <1>3 DEF Opens, Writes, WriteFails, CommandWrites, LeftEnds
    <2>4. Calm(p)' => Calm(p)
          BY <2>3 DEF Calm
    <2> QED BY <1>1, <2>1, <2>2, <2>4 DEF KeptInv
  <1>4. CASE j.path = p
    <2>1. \A k \in jobs \ {j} : k.path # p
          BY <1>1, <1>4
    <2>2. CASE Opens(j)
      <3>1. /\ jobs' = (jobs \ {j}) \cup {jj} /\ kept' = kept /\ damaged' = damaged
            /\ j.how # "command"
            BY <2>2 DEF Opens, Writing, history, jj
      <3>2. \A k \in jobs' : k.path = p => k = jj
            BY <2>1, <3>1
      <3>3. ~Calm(p)'
            BY <1>2, <1>4, <3>1 DEF Calm
      <3>4. p \notin damaged => jj.text = Promised(kept[p], jj)
        <4>1. p \notin damaged => j.text = Promised(kept[p], j)
              BY <1>1, <1>4, <3>1
        <4> QED BY <1>2, <4>1, SamePromise
      <3> QED BY <3>1, <3>2, <3>3, <3>4 DEF KeptInv
    <2>3. CASE Writes(j)
      <3>1. /\ jobs' = jobs \ {j} /\ j.how # "command"
            /\ file'[p] = j.text /\ kept'[p] = Promised(kept[p], j)
            /\ p \notin damaged' => p \notin damaged \/ j.how = "write"
            BY <1>0, <1>4, <2>3 DEF Writes, Writing
      <3>2. \A k \in jobs' : k.path # p
            BY <2>1, <3>1
      <3>3. p \notin damaged' => file'[p] = kept'[p]
        <4>1. j.how = "write" => Promised(kept[p], j) = j.text
              BY DEF Promised
        <4> QED BY <1>1, <1>4, <3>1, <4>1
      <3> QED BY <3>2, <3>3 DEF KeptInv
    <2>4. CASE WriteFails(j)
      <3>1. /\ jobs' = jobs \ {j} /\ kept' = kept
            /\ p \in damaged' \/ (~j.begun /\ UNCHANGED <<file, damaged>>)
            BY <1>4, <2>4 DEF WriteFails, history
      <3>2. \A k \in jobs' : k.path # p
            BY <2>1, <3>1
      <3>3. p \in damaged' \/ Calm(p)
            BY <2>1, <3>1 DEF Calm
      <3> QED BY <1>1, <3>1, <3>2, <3>3 DEF KeptInv
    <2>5. CASE CommandWrites(j)
      <3>1. /\ jobs' = (jobs \ {j}) \cup {jj} /\ j.how = "command"
            /\ file'[p] = j.text /\ kept'[p] = j.text
            BY <1>0, <1>4, <2>5 DEF CommandWrites, Command, jj
      <3>2. \A k \in jobs' : k.path = p => k = jj
            BY <2>1, <3>1
      <3> QED BY <1>2, <3>1, <3>2 DEF KeptInv
    <2>6. CASE LeftEnds(j)
      <3>1. jobs' = jobs \ {j} /\ j.how = "command" /\ UNCHANGED <<file, kept, damaged>>
            BY <2>6 DEF LeftEnds, Command, history
      <3>2. \A k \in jobs' : k.path # p
            BY <2>1, <3>1
      <3>3. Calm(p)
            BY <2>1, <3>1 DEF Calm
      <3> QED BY <1>1, <3>1, <3>2, <3>3 DEF KeptInv
    <2> QED BY <2>2, <2>3, <2>4, <2>5, <2>6
  <1> QED BY <1>3, <1>4

LEMMA KeptStep ==
    ASSUME WorkspaceTypes, NEW p \in Paths, KeptInv(p), WorkspaceNext
    PROVE  KeptInv(p)'
  <1>1. ASSUME UNCHANGED <<file, kept, overlapped, damaged, jobs>> PROVE KeptInv(p)'
        BY <1>1 DEF KeptInv, Calm
  <1>2. ASSUME NEW by, UNCHANGED <<file, kept, overlapped, damaged>>,
               jobs' = {[j EXCEPT !.by = by[j]] : j \in jobs}
        PROVE  KeptInv(p)'
        BY <1>2, RelabelledKeeps
  <1>3. ASSUME Prompt PROVE KeptInv(p)'
        BY <1>1, <1>3 DEF Prompt, history
  <1>4. ASSUME Interrupt PROVE KeptInv(p)'
    <2> DEFINE by == [j \in jobs |-> IF j.by = {Main} THEN {} ELSE j.by]
    <2>1. ASSUME NEW j \in jobs
          PROVE  [j EXCEPT !.by = by[j]] = IF j.by = {Main} THEN [j EXCEPT !.by = {}] ELSE j
          BY DEF WorkspaceTypes, JobSet
    <2>2. jobs' = {[j EXCEPT !.by = by[j]] : j \in jobs}
      <3> HIDE DEF by
      <3>1. jobs' = {IF j.by = {Main} THEN [j EXCEPT !.by = {}] ELSE j : j \in jobs}
            BY <1>4 DEF Interrupt
      <3>2. \A k : k \in jobs' <=> \E j \in jobs : k = [j EXCEPT !.by = by[j]]
            BY <2>1, <3>1
      <3> QED BY <3>2
    <2> HIDE DEF by
    <2> QED BY <1>2, <1>4, <2>2 DEF Interrupt
  <1>5. ASSUME NEW a \in Agents, AgentSteps(a) PROVE KeptInv(p)'
    <2>1. CASE Unwinds(a) /\ a = Main
      <3> DEFINE by == [j \in jobs |-> {}]
      <3>1. jobs' = {[j EXCEPT !.by = by[j]] : j \in jobs}
            BY <2>1 DEF Unwinds, Panics
      <3> HIDE DEF by
      <3> QED BY <1>2, <2>1, <3>1 DEF Unwinds
    <2>2. CASE Unwinds(a) /\ a # Main
          BY <1>1, <2>2 DEF Unwinds, Panics
    <2>3. CASE \E j \in JobSet : NewJob(a, j) /\ Starts(a, Station(j), j)
          BY <2>3, StartsKeeps
    <2>4. CASE \/ \E r \in Answers : HonestAnswer(r) /\ Tells(a, r)
               \/ \E reply \in Replies : Ends(a, reply)
               \/ \E s \in Subs : Task(a, s) \/ TaskAnswers(a, s)
          BY <1>1, <2>4 DEF Tells, Ends, Task, TaskAnswers, history
    <2> QED BY <1>5, <2>1, <2>2, <2>3, <2>4 DEF AgentSteps
  <1>6. ASSUME NEW a \in Agents, NEW j \in jobs, CommandSteps(a, j) PROVE KeptInv(p)'
    <2> DEFINE by == [k \in jobs |-> IF k = j /\ j \notin jobs' THEN {} ELSE k.by]
    <2>1. ASSUME NEW k \in jobs PROVE [k EXCEPT !.by = k.by] = k
          BY DEF WorkspaceTypes, JobSet
    <2>2. /\ j.how = "command" /\ UNCHANGED <<file, kept, overlapped, damaged>>
          /\ jobs' = (jobs \ {j}) \cup {[j EXCEPT !.by = {}]} \/ jobs' = jobs \ {j}
          BY <1>6 DEF CommandSteps, CommandDetaches, CommandTimesOut, CommandEnds, Loose, Command, history
    <2>3. \A k \in jobs \ {j} : k \in jobs' /\ [k EXCEPT !.by = by[k]] = k
          BY <2>1, <2>2
    <2>4. \A k \in jobs' : \/ k \in jobs /\ [k EXCEPT !.by = by[k]] = k
                          \/ k = [j EXCEPT !.by = by[j]]
          BY <2>1, <2>2
    <2>5. \A k \in jobs' : \E l \in jobs : k = [l EXCEPT !.by = by[l]]
      <3> HIDE DEF by
      <3> QED BY <2>4
    <2>6. \A k \in jobs : k.how = "command" \/ ~k.begun \/ [k EXCEPT !.by = by[k]] \in jobs'
      <3> HIDE DEF by
      <3> QED BY <2>2, <2>3
    <2> HIDE DEF by
    <2> QED BY <2>2, <2>5, <2>6, RelabelledKeeps
  <1> QED BY <1>3, <1>4, <1>5, <1>6, WorkspaceSteps, JobsKeep DEF JobSteps

(* One agent that waits for no other goes on, with what is its own.        *)
LEMMA OneGoesOn ==
    ASSUME WorkspaceTypes, Attended, Nested, NEW a \in Agents, run[a].at # "task",
           \A b \in Agents \ {a} : run'[b] = run[b],
           run'[a].at # "off" => run'[a].for = run[a].for /\ (run[a].at # "off" \/ a = Main),
           \A j \in jobs' : IF j.by = {a} THEN run'[a].at = Station(j) ELSE j \in jobs,
           \A j, k \in jobs' : j.by = {a} /\ k.by = {a} => j = k
    PROVE  Attended' /\ Nested'
  <1>1. \A j, k \in jobs' : j.by = k.by => j = k
        BY DEF Attended
  <1>2. ASSUME NEW j \in jobs' PROVE \E b \in Agents : j.by = {b} /\ run'[b].at = Station(j)
    <2>1. CASE j.by = {a}
          BY <2>1
    <2>2. CASE j.by # {a}
      <3>1. PICK b \in Agents : j.by = {b} /\ run[b].at = Station(j)
            BY <2>2 DEF Attended
      <3> QED BY <2>2, <3>1
    <2> QED BY <2>1, <2>2
  <1>3. ASSUME NEW s \in Subs, run'[s].at # "off"
        PROVE  /\ run[s].at # "off" /\ run'[s].for = run[s].for
               /\ run'[run[s].for] = run[run[s].for]
    <2>1. s \in Agents /\ s # Main
          BY WorkspaceAssumption DEF Agents
    <2>2. run[s].at # "off" /\ run'[s].for = run[s].for
          BY <1>3, <2>1
    <2>3. run[s].for # a /\ run[s].for \in Agents
          BY <2>1, <2>2 DEF Nested, WorkspaceTypes, RunSet
    <2> QED BY <2>2, <2>3
  <1>4. Attended'
        BY <1>1, <1>2 DEF Attended, Station
  <1>5. Nested'
        BY <1>3 DEF Nested
  <1> QED BY <1>4, <1>5

LEMMA JobMarked ==
    ASSUME WorkspaceTypes, Attended, Nested, NEW j \in jobs, UNCHANGED run,
           jobs' = (jobs \ {j}) \cup {[j EXCEPT !.begun = TRUE]}
    PROVE  Attended' /\ Nested'
  <1> DEFINE jj == [j EXCEPT !.begun = TRUE]
  <1>1. jj.by = j.by /\ Station(jj) = Station(j)
        BY DEF WorkspaceTypes, JobSet, Station
  <1> HIDE DEF jj
  <1>2. jobs' = (jobs \ {j}) \cup {jj}
        BY DEF jj
  <1>3. \A k, l \in jobs' : k.by = l.by => k = l
        BY <1>1, <1>2 DEF Attended
  <1>4. ASSUME NEW k \in jobs' PROVE \E b \in Agents : k.by = {b} /\ run[b].at = Station(k)
        BY <1>1, <1>2 DEF Attended
  <1>5. Attended'
        BY <1>3, <1>4 DEF Attended, Station
  <1>6. Nested'
        BY DEF Nested
  <1> QED BY <1>5, <1>6

(* task: the sub-agent starts, and answers.                                *)
LEMMA TaskNests ==
    ASSUME WorkspaceTypes, Attended, Nested, NEW a \in Agents, NEW s \in Subs, Task(a, s)
    PROVE  Attended' /\ Nested'
  <1>1. /\ s \in Agents /\ s # Main /\ s # a /\ run \in [Agents -> RunSet]
        /\ run[a].at = "thinking" /\ run[s].at = "off" /\ jobs' = jobs
        BY WorkspaceAssumption DEF Task, Acts, Thinks, Agents, WorkspaceTypes
  <1>2. /\ run'[a].at = "task" /\ run'[a].for = run[a].for
        /\ run'[s].at = "thinking" /\ run'[s].for = a
        /\ \A b \in Agents \ {a, s} : run'[b] = run[b]
        BY <1>1 DEF Task, RunSet, Off
  <1>3. ASSUME NEW j \in jobs PROVE \E b \in Agents : j.by = {b} /\ run'[b].at = Station(j)
    <2>1. PICK b \in Agents : j.by = {b} /\ run[b].at = Station(j)
          BY DEF Attended
    <2>2. b # a /\ b # s
          BY <1>1, <2>1 DEF Station
    <2> QED BY <1>2, <2>1, <2>2
  <1>4. ASSUME NEW t \in Subs, run'[t].at # "off", t # s
        PROVE  /\ run'[t].for = run[t].for /\ run'[t].for # a /\ run'[t].for # t /\ run[t].at # "off"
               /\ run'[run'[t].for].at = "task"
    <2>1. t \in Agents
          BY DEF Agents
    <2>2. run[t].at # "off" /\ run'[t].for = run[t].for
          BY <1>1, <1>2, <1>4, <2>1
    <2>3. run[run[t].for].at = "task" /\ run[t].for # t /\ run[t].for \in Agents
          BY <2>1, <2>2 DEF Nested, WorkspaceTypes, RunSet
    <2>4. run[t].for # a /\ run[t].for # s
          BY <1>1, <2>3
    <2> QED BY <1>2, <2>2, <2>3, <2>4
  <1>5. Attended'
        BY <1>1, <1>3 DEF Attended, Station
  <1>6. Nested'
    <2>1. ASSUME NEW t \in Subs, run'[t].at # "off" PROVE run'[run'[t].for].at = "task" /\ run'[t].for # t
          BY <1>1, <1>2, <1>4, <2>1
    <2>2. ASSUME NEW t \in Subs, NEW u \in Subs, run'[t].at # "off", run'[u].at # "off",
                 run'[t].for = run'[u].for
          PROVE  t = u
          BY <1>2, <1>4, <2>2 DEF Nested
    <2> QED BY <2>1, <2>2 DEF Nested
  <1> QED BY <1>5, <1>6

LEMMA TaskAnswerNests ==
    ASSUME WorkspaceTypes, Attended, Nested, NEW a \in Agents, NEW s \in Subs, TaskAnswers(a, s)
    PROVE  Attended' /\ Nested'
  <1>1. /\ s \in Agents /\ run \in [Agents -> RunSet] /\ s # a
        /\ run[a].at = "task" /\ run[s].at = "ended" /\ run[s].for = a /\ jobs' = jobs
        BY DEF TaskAnswers, SubOf, Agents, WorkspaceTypes, history
  <1>2. /\ run'[a].at \in {"panic", "thinking"} /\ run'[a].for = run[a].for
        /\ run'[s].at = "off"
        /\ \A b \in Agents \ {a, s} : run'[b] = run[b]
        BY <1>1 DEF TaskAnswers, RunSet, Off
  <1>3. ASSUME NEW j \in jobs PROVE \E b \in Agents : j.by = {b} /\ run'[b].at = Station(j)
    <2>1. PICK b \in Agents : j.by = {b} /\ run[b].at = Station(j)
          BY DEF Attended
    <2>2. b # a /\ b # s
          BY <1>1, <2>1 DEF Station
    <2> QED BY <1>2, <2>1, <2>2
  <1>4. ASSUME NEW t \in Subs, run'[t].at # "off"
        PROVE  /\ run'[t].for = run[t].for /\ run'[t].for # t /\ run[t].at # "off"
               /\ run'[run'[t].for].at = "task"
    <2>1. t \in Agents /\ t # s
          BY <1>2, <1>4 DEF Agents
    <2>2. run[t].at # "off" /\ run'[t].for = run[t].for
          BY <1>1, <1>2, <1>4, <2>1
    <2>3. run[run[t].for].at = "task" /\ run[t].for # t /\ run[t].for \in Agents
          BY <2>1, <2>2 DEF Nested, WorkspaceTypes, RunSet
    <2>4. run[t].for # a
          BY <1>1, <2>1, <2>2 DEF Nested
    <2>5. run[t].for # s
          BY <1>1, <2>3
    <2> QED BY <1>2, <2>2, <2>3, <2>4, <2>5
  <1>5. Attended'
        BY <1>1, <1>3 DEF Attended, Station
  <1>6. Nested'
        BY <1>4 DEF Nested
  <1> QED BY <1>5, <1>6

LEMMA NestingStep ==
    ASSUME WorkspaceTypes, ~cut => Attended /\ Nested, WorkspaceNext, ~cut'
    PROVE  Attended' /\ Nested'
  <1> DEFINE Goal == Attended' /\ Nested'
  <1>0. /\ run \in [Agents -> RunSet] /\ Main \in Agents /\ Subs \subseteq Agents
        /\ \A j \in jobs : j \in JobSet
        BY DEF WorkspaceTypes, Agents
  <1>1. ASSUME Prompt PROVE Goal
    <2>1. /\ ~cut /\ Attended /\ Nested /\ jobs' = jobs /\ run[Main].at = "off"
          BY <1>1 DEF Prompt, history
    <2>2. /\ run'[Main].for = run[Main].for /\ \A b \in Agents \ {Main} : run'[b] = run[b]
          BY <1>0, <1>1 DEF Prompt, Waits, RunSet
    <2>3. \A j \in jobs : j.by # {Main}
          BY <2>1 DEF Attended, Station
    <2> QED BY <1>0, <2>1, <2>2, <2>3, OneGoesOn
  <1>2. ~Interrupt
        BY DEF Interrupt
  <1>3. ASSUME NEW a \in Agents, AgentSteps(a), ~cut PROVE Goal
    <2>0. Attended /\ Nested
          BY <1>3
    <2>1. ASSUME NEW r, Tells(a, r) PROVE Goal
          BY <2>0, <2>1 DEF Tells, Attended, Nested, Station
    <2>2. ASSUME NEW j \in JobSet, NewJob(a, j), Starts(a, Station(j), j) PROVE Goal
      <3>1. run[a].at = "thinking" /\ jobs' = jobs \cup {j} /\ j.by = {a}
            BY <2>2 DEF Starts, Acts, Thinks, NewJob
      <3>2. /\ run'[a].for = run[a].for /\ run'[a].at = Station(j)
            /\ \A b \in Agents \ {a} : run'[b] = run[b]
            BY <1>0, <2>2 DEF Starts, Waits, RunSet
      <3>3. \A k \in jobs : k.by # {a}
            BY <2>0, <3>1 DEF Attended, Station
      <3> QED BY <2>0, <3>1, <3>2, <3>3, OneGoesOn
    <2>3. ASSUME Unwinds(a) PROVE Goal
      <3>1. a # Main /\ run[a].at = "panic" /\ jobs' = jobs
            BY <2>3 DEF Unwinds, Panics
      <3>2. run' = [run EXCEPT ![a].at = "ended", ![a].reply = "panicked"]
            BY <2>3, <3>1 DEF Unwinds, Panics
      <3>3. run'[a].for = run[a].for /\ \A b \in Agents \ {a} : run'[b] = run[b]
            BY <1>0, <3>2 DEF RunSet
      <3>4. \A k \in jobs : k.by # {a}
            BY <2>0, <3>1 DEF Attended, Station
      <3> QED BY <2>0, <3>1, <3>3, <3>4, OneGoesOn
    <2>4. ASSUME NEW reply, Ends(a, reply) PROVE Goal
      <3>1. run[a].at = "thinking" /\ jobs' = jobs
            BY <2>4 DEF Ends, Thinks
      <3>2. \A b \in Agents \ {a} : run'[b] = run[b]
            BY <1>0, <2>4 DEF Ends
      <3>3. run'[a].at # "off" => run'[a].for = run[a].for
        <4>1. \/ run' = [run EXCEPT ![a] = Off]
              \/ run' = [run EXCEPT ![a].at = "ended", ![a].reply = reply]
              BY <2>4 DEF Ends
        <4> QED BY <1>0, <4>1 DEF RunSet, Off
      <3>4. \A k \in jobs : k.by # {a}
            BY <2>0, <3>1 DEF Attended, Station
      <3> QED BY <2>0, <3>1, <3>2, <3>3, <3>4, OneGoesOn
    <2>5. ASSUME NEW s \in Subs, Task(a, s) \/ TaskAnswers(a, s) PROVE Goal
          BY <2>0, <2>5, TaskNests, TaskAnswerNests
    <2> QED BY <1>3, <2>1, <2>2, <2>3, <2>4, <2>5 DEF AgentSteps
  <1>4. ASSUME NEW a \in Agents, NEW j \in jobs, CommandSteps(a, j), ~cut PROVE Goal
    <2>0. Attended /\ Nested
          BY <1>4
    <2>1. PICK error \in BOOLEAN, output \in Outputs : CommandEnds(a, j, error, output)
          BY <1>4 DEF CommandSteps, CommandDetaches, CommandTimesOut, Loose
    <2>2. j.by = {a} /\ jobs' = jobs \ {j} /\ run[a].at = "command"
      <3>1. j.by = {a} /\ jobs' = jobs \ {j} /\ j.how = "command"
            BY <2>1 DEF CommandEnds, Command
      <3> QED BY <2>0, <3>1 DEF Attended, Station
    <2>3. \A k \in jobs' : k.by # {a}
          BY <2>0, <2>2 DEF Attended
    <2>4. /\ run'[a].for = run[a].for /\ \A b \in Agents \ {a} : run'[b] = run[b]
          BY <1>0, <2>1 DEF CommandEnds, Waits, Gets, RunSet
    <2> QED BY <2>0, <2>2, <2>3, <2>4, OneGoesOn
  <1>5. ASSUME NEW j \in jobs, ~cut,
               Opens(j) \/ Writes(j) \/ WriteFails(j) \/ CommandWrites(j) \/ LeftEnds(j)
        PROVE  Goal
    <2>0. Attended /\ Nested
          BY <1>5
    <2>1. PICK a \in Agents : j.by = {a} /\ run[a].at = Station(j)
          BY <2>0 DEF Attended
    <2>2. CASE Opens(j) \/ CommandWrites(j)
          BY <2>0, <2>2, JobMarked DEF Opens, CommandWrites
    <2>3. ~LeftEnds(j)
          BY <2>1 DEF LeftEnds
    <2>4. CASE Writes(j) \/ WriteFails(j)
      <3>1. jobs' = jobs \ {j} /\ (Hears(j, Done) \/ Hears(j, Failed))
            BY <2>4 DEF Writes, WriteFails
      <3>2. run' = [run EXCEPT ![a].at = "thinking"]
        <4>1. (CHOOSE b \in Agents : b \in j.by) = a /\ j.by # {}
              BY <2>1
        <4> QED BY <3>1, <4>1 DEF Hears, Gets
      <3>3. run'[a].for = run[a].for /\ \A b \in Agents \ {a} : run'[b] = run[b]
            BY <1>0, <3>2 DEF RunSet
      <3>4. \A k \in jobs' : k.by # {a}
            BY <2>0, <2>1, <3>1 DEF Attended
      <3>5. run[a].at # "task" /\ run[a].at # "off"
            BY <2>1 DEF Station
      <3> QED BY <2>0, <3>1, <3>3, <3>4, <3>5, OneGoesOn
    <2> QED BY <1>5, <2>2, <2>3, <2>4
  <1>6. ~cut
    <2>1. ASSUME NEW a \in Agents, AgentSteps(a) PROVE cut' = cut \/ cut'
          BY <2>1 DEF AgentSteps, Tells, Starts, Unwinds, Panics, Ends, Task, TaskAnswers, history
    <2>2. ASSUME NEW a \in Agents, NEW j \in jobs, CommandSteps(a, j) PROVE cut' = cut \/ cut'
          BY <2>2 DEF CommandSteps, CommandDetaches, CommandTimesOut, CommandEnds, Loose, history
    <2>3. JobSteps => cut' = cut
          BY DEF JobSteps, Opens, Writes, WriteFails, CommandWrites, LeftEnds, history
    <2>4. Prompt => cut' = cut
          BY DEF Prompt, history
    <2>5. cut' = cut \/ cut'
          BY <1>2, <2>1, <2>2, <2>3, <2>4, WorkspaceSteps
    <2> QED BY <2>5
  <1> QED BY <1>1, <1>2, <1>3, <1>4, <1>5, <1>6, WorkspaceSteps DEF JobSteps

LEMMA InitWorkspace == WorkspaceInit => WorkspaceInv
  <1> SUFFICES ASSUME WorkspaceInit PROVE WorkspaceInv
      OBVIOUS
  <1>1. file \in [Paths -> Seq(Words)]
    <2>1. file \in [Paths -> Seq(Tokens) \cup {Missing}]
          BY WorkspaceAssumption DEF WorkspaceInit
    <2>2. Seq(Tokens) \subseteq Seq(Words)
          BY SeqMonotonic DEF Words
    <2> QED BY <2>1, <2>2, MissingIsText
  <1>2. Off \in RunSet /\ Done \in Answers /\ HonestAnswer(Done)
        BY AnswerFacts DEF Off, RunSet, Stages, Agents
  <1>3. WorkspaceTypes
        BY <1>1, <1>2 DEF WorkspaceInit, WorkspaceTypes
  <1>4. \A a \in Agents : HonestAnswer(result[a])
        BY <1>2 DEF WorkspaceInit
  <1>5. Attended /\ Nested
        BY DEF WorkspaceInit, Attended, Nested, Off, Agents
  <1>6. \A p \in Paths : KeptInv(p)
        BY DEF WorkspaceInit, KeptInv
  <1> QED BY <1>3, <1>4, <1>5, <1>6 DEF WorkspaceInv

LEMMA AlwaysWorkspace == WorkspaceSpec => []WorkspaceInv
  <1>1. WorkspaceInv /\ [WorkspaceNext]_workspaceVars => WorkspaceInv'
    <2> SUFFICES ASSUME WorkspaceInv, [WorkspaceNext]_workspaceVars PROVE WorkspaceInv'
        OBVIOUS
    <2>1. CASE WorkspaceNext
      <3>1. WorkspaceTypes' /\ \A a \in Agents : HonestAnswer(result'[a])
            BY <2>1, TypedStep DEF WorkspaceInv, Typed
      <3>2. ~cut' => Attended' /\ Nested'
            BY <2>1, NestingStep DEF WorkspaceInv
      <3>3. \A p \in Paths : KeptInv(p)'
            BY <2>1, KeptStep DEF WorkspaceInv
      <3> QED BY <3>1, <3>2, <3>3 DEF WorkspaceInv
    <2>2. CASE UNCHANGED workspaceVars
      <3>1. WorkspaceTypes' /\ (\A a \in Agents : HonestAnswer(result'[a])) /\ cut' = cut
            BY <2>2 DEF WorkspaceInv, WorkspaceTypes, workspaceVars, history
      <3>2. (Attended' <=> Attended) /\ (Nested' <=> Nested)
            BY <2>2 DEF Attended, Nested, Station, workspaceVars
      <3>3. \A p \in Paths : KeptInv(p)'
            BY <2>2 DEF WorkspaceInv, KeptInv, Calm, workspaceVars, history
      <3> QED BY <3>1, <3>2, <3>3 DEF WorkspaceInv
    <2> QED BY <2>1, <2>2
  <1> QED BY <1>1, InitWorkspace, PTL DEF WorkspaceSpec

(* A file on which no two changes overlapped holds what the changes that   *)
(* were reported promised, one after the other, for any number of agents,  *)
(* strings, calls and mishaps, but for a write that failed halfway, an     *)
(* edit of a string that overlaps itself and a description that            *)
(* skill_update does not find (edit.rs, write.rs, skill_tools.rs, bash.rs).*)
THEOREM ChangesStayKept == WorkspaceSpec => []ChangesAreKept
  <1>1. WorkspaceInv => ChangesAreKept
        BY DEF WorkspaceInv, KeptInv, Calm, ChangesAreKept
  <1> QED BY <1>1, AlwaysWorkspace, PTL

(* As long as no command was left to itself and no run was interrupted or  *)
(* panicked, a job belongs to the one call that waits for it, and a        *)
(* sub-agent runs only while its parent waits in task (bash.rs, task.rs).  *)
THEOREM NothingGetsLoose == WorkspaceSpec => []NothingOutlivesItsCall
  <1>1. WorkspaceInv => NothingOutlivesItsCall
    <2> SUFFICES ASSUME WorkspaceInv, ~cut PROVE Attended /\ Nested
        BY DEF NothingOutlivesItsCall, Attended, Nested, Station
    <2> QED BY DEF WorkspaceInv
  <1> QED BY <1>1, AlwaysWorkspace, PTL

(* An answer is marked only if something was left out of it, and nothing   *)
(* else is left out but what read, web_search and glob do not show, for    *)
(* any limit and whatever the tools find (grep.rs, glob.rs, web_fetch.rs,  *)
(* web_search.rs, read.rs, bash.rs, task.rs).                              *)
THEOREM MarkersStayHonest == WorkspaceSpec => []MarkersAreHonest
  <1>1. WorkspaceInv => MarkersAreHonest
        BY DEF WorkspaceInv, HonestAnswer, MarkersAreHonest, Silences
  <1> QED BY <1>1, AlwaysWorkspace, PTL
=============================================================================
