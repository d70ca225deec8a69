------------------------- MODULE ChatSessionProofs -------------------------
(***************************************************************************)
(* Proofs about ChatProtocol and ChatSession, for every set of sessions,   *)
(* calls and bounds.  The contract of ChatProtocol is proved over the      *)
(* snapshot it works on in a chat; the chat itself is proved to keep the   *)
(* database equal to the memory, and every session whose turns were never  *)
(* cut sendable.                                                           *)
(***************************************************************************)
EXTENDS ChatSession, ConversationProofs

(* The steps of the contract, in the chat's own vocabulary.                *)
LEMMA AgentTurns ==
    ASSUME Agent!Turn
    PROVE  \E cs \in CallLists, hasText \in BOOLEAN :
               /\ open = <<>>
               /\ snapshot' = Append(snapshot, AssistantMessage(hasText, cs))
               /\ open' = cs
               /\ over' = (cs = <<>>)
  BY DEF Agent!Turn, Agent!AssistantMessage, AssistantMessage

LEMMA AgentAnswers ==
    ASSUME Agent!Answer
    PROVE  /\ open # <<>> /\ open' = Tail(open) /\ over' = FALSE
           /\ \E content \in Contents :
                  snapshot' = Append(snapshot, ToolResponse(Head(open), content))
  BY DEF Agent!Answer, Agent!Contents, Agent!ToolResponse, Contents, ToolResponse

LEMMA SameCompleteness == Agent!Complete(snapshot) <=> Complete(snapshot)
  BY DEF Agent!Complete, Agent!CallsAnswered, Agent!NoOrphanAnswer, Agent!Answered,
         Complete, CallsAnswered, NoOrphanAnswer, Answered

(* A step of the agent keeps its history answered up to the open calls.    *)
LEMMA AgentKeepsHistory ==
    ASSUME HistoryInv(snapshot, open), Agent!CPNext
    PROVE  HistoryInv(snapshot', open')
  <1>1. CASE Agent!Turn
        <2>1. PICK cs \in CallLists, hasText \in BOOLEAN :
                  /\ snapshot' = Append(snapshot, AssistantMessage(hasText, cs))
                  /\ open' = cs
              BY <1>1, AgentTurns
        <2>2. HistoryInv(snapshot, <<>>)
              BY <1>1, AgentTurns
        <2>3. cs \in Seq(Calls) /\ AssistantMessage(hasText, cs) \in Message
              BY CallsAssumption, NewMessages
        <2> QED BY <2>1, <2>2, <2>3, TurnOpens DEF AssistantMessage
  <1>2. CASE Agent!Answer
        <2>1. PICK content \in Contents :
                  snapshot' = Append(snapshot, ToolResponse(Head(open), content))
              BY <1>2, AgentAnswers
        <2>2. open # <<>> /\ open' = Tail(open) /\ Head(open) \in Calls
              BY <1>2, AgentAnswers DEF HistoryInv
        <2>3. ToolResponse(Head(open), content) \in Message
              BY <2>2, NewMessages
        <2> QED BY <2>1, <2>2, <2>3, AnswerCloses DEF ToolResponse
  <1>3. CASE Agent!Stop
        BY <1>3 DEF Agent!Stop
  <1> QED BY <1>1, <1>2, <1>3 DEF Agent!CPNext

(* Every history the contract closes may be sent to the provider: each     *)
(* call is answered in order, and no answer stands without its call.       *)
THEOREM ClosedHistoriesAreSendable == Agent!CPSpec => []Agent!SendableWhenClosed
  <1>1. Agent!CPInit => HistoryInv(snapshot, open)
        BY HistoriesAssumption DEF Agent!CPInit, HistoryInv, Answering
  <1>2. HistoryInv(snapshot, open) /\ [Agent!CPNext]_(Agent!cpVars) => HistoryInv(snapshot, open)'
        <2> SUFFICES ASSUME HistoryInv(snapshot, open), [Agent!CPNext]_(Agent!cpVars)
                     PROVE  HistoryInv(snapshot', open')
            OBVIOUS
        <2>1. CASE Agent!CPNext
              BY <2>1, AgentKeepsHistory
        <2>2. CASE UNCHANGED Agent!cpVars
              BY <2>2 DEF Agent!cpVars
        <2> QED BY <2>1, <2>2
  <1>3. HistoryInv(snapshot, open) => Agent!SendableWhenClosed
        BY SameCompleteness DEF HistoryInv, Agent!SendableWhenClosed
  <1> QED BY <1>1, <1>2, <1>3, PTL DEF Agent!CPSpec

-----------------------------------------------------------------------------
LEMMA PlainMessages == SystemMessage \in Message /\ UserMessage \in Message
  BY DEF SystemMessage, UserMessage, Message, Contents, Ids

(* What the agent may do to its run without touching the chat.             *)
LEMMA AgentTypes ==
    ASSUME snapshot \in Seq(Message), open \in Seq(Calls), over \in BOOLEAN, Agent!CPNext
    PROVE  /\ snapshot' \in Seq(Message) /\ open' \in Seq(Calls) /\ over' \in BOOLEAN
           /\ \/ snapshot' = snapshot
              \/ \E m \in Message : snapshot' = Append(snapshot, m)
  <1>1. CASE Agent!Turn
        <2>1. PICK cs \in CallLists, hasText \in BOOLEAN :
                  /\ snapshot' = Append(snapshot, AssistantMessage(hasText, cs))
                  /\ open' = cs
                  /\ over' = (cs = <<>>)
              BY <1>1, AgentTurns
        <2>2. cs \in Seq(Calls) /\ AssistantMessage(hasText, cs) \in Message
              BY CallsAssumption, NewMessages
        <2> QED BY <2>1, <2>2
  <1>2. CASE Agent!Answer
        <2>1. PICK content \in Contents :
                  snapshot' = Append(snapshot, ToolResponse(Head(open), content))
              BY <1>2, AgentAnswers
        <2>2. open # <<>> /\ open' = Tail(open) /\ over' = FALSE /\ Head(open) \in Calls
              BY <1>2, AgentAnswers
        <2>3. PICK m \in Message : m = ToolResponse(Head(open), content)
              BY <2>2, NewMessages
        <2>4. open' \in Seq(Calls)
              BY <2>2
        <2>5. snapshot' = Append(snapshot, m) /\ Append(snapshot, m) \in Seq(Message)
              BY <2>1, <2>3
        <2> QED BY <2>2, <2>4, <2>5
  <1>3. CASE Agent!Stop
        BY <1>3 DEF Agent!Stop
  <1> QED BY <1>1, <1>2, <1>3 DEF Agent!CPNext

LEMMA StoredTypes ==
    ASSUME db \in [Sessions -> Seq(Message)], NEW s \in Sessions, NEW m \in Message
    PROVE  Stored(s, m) \in [Sessions -> Seq(Message)]
  BY DEF Stored

(* Each agent step is one of the contract, and leaves the chat alone.      *)
LEMMA AgentStepsOnly ==
    ASSUME AgentSteps
    PROVE  /\ phase = "running" /\ Agent!CPNext
           /\ UNCHANGED <<frontend, phase, sid, messages, skills, saved, rows, db, cut, inputs, crashes>>
           /\ over' => open' = <<>>
  BY DEF AgentSteps, AgentTurn, AgentAnswer, AgentGivesUp, Outside, store, bounds,
         Agent!CPNext, Agent!Turn, Agent!Answer, Agent!Stop

(* Every end of the process forgets the conversation and keeps the store.  *)
LEMMA EndsForget ==
    ASSUME Quit \/ EndOfScript \/ Die
    PROVE  /\ phase # "closed" /\ phase' = "closed" /\ sid' = NoSession
           /\ messages' = <<>> /\ snapshot' = <<>> /\ open' = <<>>
           /\ over' = FALSE /\ saved' = 0 /\ skills' = 0
           /\ UNCHANGED <<frontend, rows, db, inputs>>
           /\ \/ crashes' = crashes
              \/ crashes < MaxCrashes /\ crashes' = crashes + 1
           /\ \/ cut' = cut
              \/ HalfStored /\ cut' = cut \cup {sid}
  <1> USE DEF Forget, EndRun, store
  <1>1. CASE Quit
        BY <1>1 DEF Quit, CanType
  <1>2. CASE EndOfScript
        BY <1>2 DEF EndOfScript
  <1>3. CASE Die
        BY <1>3 DEF Die
  <1> QED BY <1>1, <1>2, <1>3

(* The sequences of TypeOK, apart from the rest of it.                     *)
SequencesOK ==
    /\ messages \in Seq(Message) /\ snapshot \in Seq(Message) /\ open \in Seq(Calls)
    /\ db \in [Sessions -> Seq(Message)]

CountsOK ==
    /\ frontend \in Frontends /\ skills \in 0..MaxSkills
    /\ inputs \in 0..MaxInputs /\ crashes \in 0..MaxCrashes

SessionsOK ==
    /\ over \in BOOLEAN
    /\ phase \in Phases
    /\ sid \in Sessions \cup {NoSession}
    /\ phase = "closed" <=> sid = NoSession
    /\ phase # "closed" => sid \in rows
    /\ rows \subseteq Sessions
    /\ cut \subseteq rows

ScalarsOK == CountsOK /\ SessionsOK

LEMMA TypesSplit == TypeOK <=> SequencesOK /\ ScalarsOK /\ saved \in 0..Len(snapshot)
  BY DEF TypeOK, SequencesOK, ScalarsOK, CountsOK, SessionsOK

LEMMA TypesHold == Init => TypeOK
  <1> SUFFICES ASSUME Init PROVE TypeOK
      OBVIOUS
  <1>1. SequencesOK
        BY DEF Init, SequencesOK
  <1>2. ScalarsOK
        <2>1. MaxInputs \in Nat /\ MaxSkills \in Nat /\ MaxCrashes \in Nat
              BY SessionBounds
        <2>2. /\ frontend \in Frontends /\ phase = "closed" /\ sid = NoSession /\ over = FALSE
              /\ rows = {} /\ cut = {} /\ skills = 0 /\ inputs = 0 /\ crashes = 0
              BY DEF Init
        <2>3. CountsOK
              BY <2>1, <2>2 DEF CountsOK
        <2>4. SessionsOK
              BY <2>2 DEF SessionsOK, Phases
        <2> QED BY <2>3, <2>4 DEF ScalarsOK
  <1>3. saved \in 0..Len(snapshot)
        BY DEF Init
  <1> QED BY <1>1, <1>2, <1>3, TypesSplit

LEMMA SequencesStep == TypeOK /\ [Next]_vars => SequencesOK'
  <1> SUFFICES ASSUME TypeOK, [Next]_vars PROVE SequencesOK'
      OBVIOUS
  <1>0. /\ SequencesOK /\ saved \in 0..Len(snapshot)
        /\ phase # "closed" => sid \in Sessions
        BY TypesSplit DEF ScalarsOK, CountsOK, SessionsOK
  <1> USE <1>0, PlainMessages DEF SequencesOK, store, run, bounds
  <1>1. CASE Launch
        BY <1>1 DEF Launch
  <1>2. CASE Load
        <2>1. sid \in Sessions
              BY <1>2 DEF Load
        <2>2. db[sid] \in Seq(Message) /\ Stored(sid, SystemMessage) \in [Sessions -> Seq(Message)]
              BY <2>1, StoredTypes
        <2>3. <<SystemMessage>> \in Seq(Message)
              OBVIOUS
        <2> QED BY <1>2, <2>2, <2>3 DEF Load
  <1>3. CASE Preload
        <2>1. Stored(sid, SystemMessage) \in [Sessions -> Seq(Message)]
              BY <1>3, StoredTypes DEF Preload
        <2> QED BY <1>3, <2>1 DEF Preload
  <1>4. CASE Say \/ SayOnce
        <2>1. sid \in Sessions
              BY <1>4 DEF Say, SayOnce, CanType
        <2>2. Stored(sid, UserMessage) \in [Sessions -> Seq(Message)]
              BY <2>1, StoredTypes
        <2>3. Append(messages, UserMessage) \in Seq(Message)
              OBVIOUS
        <2>4. <<>> \in Seq(Calls)
              OBVIOUS
        <2>5. /\ messages' = Append(messages, UserMessage)
              /\ snapshot' = messages' /\ open' = <<>>
              /\ db' = Stored(sid, UserMessage)
              BY <1>4 DEF Say, SayOnce, StartRun
        <2> QED BY <2>2, <2>3, <2>4, <2>5
  <1>5. CASE AgentSteps
        <2>1. over \in BOOLEAN
              BY TypesSplit DEF ScalarsOK, CountsOK, SessionsOK
        <2> QED BY <1>5, <2>1, AgentStepsOnly, AgentTypes
  <1>6. CASE Return \/ Interrupt
        BY <1>6 DEF Return, Interrupt
  <1>7. CASE SaveOne
        <2>1. sid \in Sessions /\ snapshot[saved + 1] \in Message
              BY <1>7 DEF SaveOne
        <2>2. Stored(sid, snapshot[saved + 1]) \in [Sessions -> Seq(Message)]
              BY <2>1, StoredTypes
        <2> QED BY <1>7, <2>1, <2>2 DEF SaveOne
  <1>8. CASE Settle
        BY <1>8 DEF Settle, Stay, EndRun
  <1>9. CASE NewCommand
        <2>1. PICK s \in Sessions \ rows : db' = Stored(s, SystemMessage)
              BY <1>9 DEF NewCommand
        <2>2. db' \in [Sessions -> Seq(Message)]
              BY <2>1, StoredTypes
        <2>3. <<SystemMessage>> \in Seq(Message)
              OBVIOUS
        <2> QED BY <1>9, <2>2, <2>3 DEF NewCommand
  <1>10. CASE Quit \/ EndOfScript \/ Die
        <2>1. <<>> \in Seq(Message) /\ <<>> \in Seq(Calls)
              OBVIOUS
        <2> QED BY <1>10, <2>1, EndsForget
  <1>11. CASE UNCHANGED vars
        BY <1>11 DEF vars
  <1> QED BY <1>1, <1>2, <1>3, <1>4, <1>5, <1>6, <1>7, <1>8, <1>9, <1>10, <1>11
          DEF Next

LEMMA CountsStep == TypeOK /\ [Next]_vars => CountsOK'
  <1> SUFFICES ASSUME TypeOK, [Next]_vars PROVE CountsOK'
      OBVIOUS
  <1>0. CountsOK /\ MaxInputs \in Nat /\ MaxSkills \in Nat /\ MaxCrashes \in Nat
        BY TypesSplit, SessionBounds DEF ScalarsOK
  <1> USE <1>0 DEF CountsOK, store, run, bounds
  <1>1. CASE Launch
        BY <1>1 DEF Launch
  <1>2. CASE Load \/ Preload
        BY <1>2 DEF Load, Preload
  <1>3. CASE Say \/ SayOnce
        BY <1>3 DEF Say, SayOnce, StartRun
  <1>4. CASE AgentSteps
        BY <1>4, AgentStepsOnly
  <1>5. CASE Return \/ Interrupt \/ SaveOne
        BY <1>5 DEF Return, Interrupt, SaveOne
  <1>6. CASE Settle
        BY <1>6 DEF Settle, Stay, EndRun
  <1>7. CASE NewCommand
        BY <1>7 DEF NewCommand
  <1>8. CASE Quit \/ EndOfScript \/ Die
        <2>1. /\ skills' = 0 /\ UNCHANGED <<frontend, inputs>>
              /\ \/ crashes' = crashes
                 \/ crashes < MaxCrashes /\ crashes' = crashes + 1
              BY <1>8, EndsForget
        <2> QED BY <2>1
  <1>9. CASE UNCHANGED vars
        BY <1>9 DEF vars
  <1> QED BY <1>1, <1>2, <1>3, <1>4, <1>5, <1>6, <1>7, <1>8, <1>9 DEF Next

LEMMA SessionsStep == TypeOK /\ [Next]_vars => SessionsOK'
  <1> SUFFICES ASSUME TypeOK, [Next]_vars PROVE SessionsOK'
      OBVIOUS
  <1>0. SessionsOK
        BY TypesSplit DEF ScalarsOK
  <1> USE <1>0, NoSessionIsNone DEF SessionsOK, Phases, store, run, bounds
  <1>1. CASE Launch
        BY <1>1 DEF Launch
  <1>2. CASE Load \/ Preload
        BY <1>2 DEF Load, Preload
  <1>3. CASE Say \/ SayOnce
        BY <1>3 DEF Say, SayOnce, StartRun, CanType
  <1>4. CASE AgentSteps
        <2>1. over' \in BOOLEAN
              BY <1>4, AgentStepsOnly, AgentTypes, TypesSplit DEF SequencesOK
        <2> QED BY <1>4, <2>1, AgentStepsOnly
  <1>5. CASE Return \/ Interrupt \/ SaveOne
        BY <1>5 DEF Return, Interrupt, SaveOne
  <1>6. CASE Settle
        BY <1>6 DEF Settle, Stay, EndRun
  <1>7. CASE NewCommand
        BY <1>7 DEF NewCommand, CanType
  <1>8. CASE Quit \/ EndOfScript \/ Die
        BY <1>8, EndsForget
  <1>9. CASE UNCHANGED vars
        BY <1>9 DEF vars
  <1> QED BY <1>1, <1>2, <1>3, <1>4, <1>5, <1>6, <1>7, <1>8, <1>9 DEF Next

(* While the agent runs, its snapshot extends the conversation in memory;  *)
(* outside of saving, nothing counts as saved.                             *)
SnapshotExtends ==
    /\ phase = "running" => /\ Len(messages) <= Len(snapshot)
                            /\ messages = SubSeq(snapshot, 1, Len(messages))
    /\ phase # "saving" => saved = 0

(* The whole of a history, and what an appended message leaves of it.      *)
LEMMA WholeIsItself ==
    ASSUME NEW ms \in Seq(Message)
    PROVE  /\ SubSeq(ms, 1, Len(ms)) = ms
           /\ Len(ms) \in Nat
           /\ \A m \in Message, n \in 0..Len(ms) :
                  SubSeq(Append(ms, m), 1, n) = SubSeq(ms, 1, n)
  <1>1. SubSeq(ms, 1, Len(ms)) = ms /\ Len(ms) \in Nat
        OBVIOUS
  <1>2. ASSUME NEW m \in Message, NEW n \in 0..Len(ms)
        PROVE  SubSeq(Append(ms, m), 1, n) = SubSeq(ms, 1, n)
        OBVIOUS
  <1> QED BY <1>1, <1>2

LEMMA SavedStep == TypeOK /\ SnapshotExtends /\ [Next]_vars => saved' \in 0..Len(snapshot')
  <1> SUFFICES ASSUME TypeOK, SnapshotExtends, [Next]_vars PROVE saved' \in 0..Len(snapshot')
      OBVIOUS
  <1>0. /\ saved \in 0..Len(snapshot)
        /\ Len(snapshot) \in Nat /\ Len(snapshot') \in Nat /\ Len(messages) \in Nat
        BY TypesSplit, SequencesStep DEF SequencesOK
  <1> USE <1>0 DEF SnapshotExtends, store, run, bounds
  <1>1. CASE Launch \/ Load \/ Preload \/ NewCommand
        BY <1>1 DEF Launch, Load, Preload, NewCommand
  <1>2. CASE Say \/ SayOnce
        BY <1>2 DEF Say, SayOnce, StartRun, CanType
  <1>3. CASE AgentSteps
        BY <1>3, AgentStepsOnly
  <1>4. CASE Return \/ Interrupt
        BY <1>4 DEF Return, Interrupt
  <1>5. CASE SaveOne
        BY <1>5 DEF SaveOne
  <1>6. CASE Settle
        BY <1>6 DEF Settle, Stay, EndRun
  <1>7. CASE Quit \/ EndOfScript \/ Die
        BY <1>7 DEF Quit, EndOfScript, Die, Forget, EndRun
  <1>8. CASE UNCHANGED vars
        BY <1>8 DEF vars
  <1> QED BY <1>1, <1>2, <1>3, <1>4, <1>5, <1>6, <1>7, <1>8 DEF Next

LEMMA SnapshotStep == TypeOK /\ SnapshotExtends /\ [Next]_vars => SnapshotExtends'
  <1> SUFFICES ASSUME TypeOK, SnapshotExtends, [Next]_vars PROVE SnapshotExtends'
      OBVIOUS
  <1>0. SequencesOK /\ SequencesOK'
        BY TypesSplit, SequencesStep
  <1>1. CASE Launch \/ Load \/ Preload \/ NewCommand
        BY <1>1 DEF Launch, Load, Preload, NewCommand, SnapshotExtends, store, run, bounds, CanType
  <1>2. CASE Say \/ SayOnce
        <2>1. snapshot' = messages' /\ saved' = saved /\ phase = "idle" /\ phase' = "running"
              BY <1>2 DEF Say, SayOnce, StartRun, CanType
        <2> QED BY <2>1, <1>0, WholeIsItself DEF SnapshotExtends, SequencesOK
  <1>3. CASE AgentSteps
        <2>1. /\ phase = "running" /\ phase' = "running" /\ messages' = messages /\ saved' = saved
              /\ \/ snapshot' = snapshot
                 \/ \E m \in Message : snapshot' = Append(snapshot, m)
              BY <1>3, <1>0, AgentStepsOnly, AgentTypes, TypesSplit DEF ScalarsOK, CountsOK, SessionsOK, SequencesOK
        <2>2. PICK n \in Nat : n = Len(messages) /\ n = Len(messages)'
              BY <2>1, <1>0 DEF SequencesOK
        <2>3. n \in 0..Len(snapshot) /\ messages = SubSeq(snapshot, 1, n)
              BY <2>1, <2>2, <1>0 DEF SnapshotExtends, SequencesOK
        <2>4. CASE snapshot' = snapshot
              BY <2>1, <2>4 DEF SnapshotExtends
        <2>5. ASSUME NEW m \in Message, snapshot' = Append(snapshot, m)
              PROVE  SnapshotExtends'
              <3>1. SubSeq(Append(snapshot, m), 1, n) = SubSeq(snapshot, 1, n)
                    BY <2>3, <1>0, WholeIsItself DEF SequencesOK
              <3>2. Len(Append(snapshot, m)) = Len(snapshot) + 1 /\ Len(snapshot) \in Nat
                    BY <1>0 DEF SequencesOK
              <3>3. messages' = SubSeq(snapshot', 1, n) /\ n <= Len(snapshot')
                    BY <2>1, <2>3, <2>5, <3>1, <3>2
              <3> QED BY <2>1, <2>2, <3>3 DEF SnapshotExtends
        <2> QED BY <2>1, <2>4, <2>5
  <1>4. CASE Return \/ Interrupt \/ SaveOne
        BY <1>4 DEF Return, Interrupt, SaveOne, SnapshotExtends, store, run, bounds
  <1>5. CASE Settle
        BY <1>5 DEF Settle, Stay, EndRun, SnapshotExtends
  <1>6. CASE Quit \/ EndOfScript \/ Die
        BY <1>6 DEF Quit, EndOfScript, Die, Forget, EndRun, SnapshotExtends
  <1>7. CASE UNCHANGED vars
        BY <1>7 DEF vars, SnapshotExtends, run
  <1> QED BY <1>1, <1>2, <1>3, <1>4, <1>5, <1>6, <1>7 DEF Next

-----------------------------------------------------------------------------
(* The database follows the memory: one step.                              *)
LEMMA DiskStep ==
    TypeOK /\ SnapshotExtends /\ DiskFollowsMemory /\ [Next]_vars => DiskFollowsMemory'
  <1> SUFFICES ASSUME TypeOK, SnapshotExtends, DiskFollowsMemory, [Next]_vars,
                      frontend' # "console"
               PROVE  /\ phase' \in {"idle", "running"} => db'[sid'] = messages'
                      /\ phase' = "saving" => db'[sid'] = SubSeq(snapshot', 1, saved')
      BY DEF DiskFollowsMemory
  <1>0. /\ SequencesOK /\ saved \in 0..Len(snapshot)
        /\ phase # "closed" => sid \in Sessions
        BY TypesSplit DEF ScalarsOK, CountsOK, SessionsOK
  <1> USE <1>0 DEF DiskFollowsMemory, SequencesOK, store, run, bounds
  <1>1. CASE Launch
        BY <1>1 DEF Launch
  <1>2. CASE Load
        <2>1. sid \in Sessions /\ sid' = sid /\ phase' = "idle"
              BY <1>2 DEF Load
        <2>2. CASE db[sid] = <<>>
              <3>1. db'[sid] = Append(<<>>, SystemMessage) /\ messages' = <<SystemMessage>>
                    BY <1>2, <2>1, <2>2 DEF Load, Stored
              <3> QED BY <2>1, <3>1, PlainMessages
        <2>3. CASE db[sid] # <<>>
              BY <1>2, <2>1, <2>3 DEF Load
        <2> QED BY <2>2, <2>3
  <1>3. CASE Preload
        BY <1>3 DEF Preload, Stored
  <1>4. CASE Say \/ SayOnce
        BY <1>4 DEF Say, SayOnce, StartRun, Stored, CanType
  <1>5. CASE AgentSteps
        BY <1>5, AgentStepsOnly
  <1>6. CASE Return \/ Interrupt
        BY <1>6 DEF Return, Interrupt, SnapshotExtends
  <1>7. CASE SaveOne
        <2>1. /\ sid \in Sessions /\ phase = "saving" /\ saved \in Nat /\ saved < Len(snapshot)
              /\ UNCHANGED <<frontend, phase, sid, messages, snapshot>>
              /\ db' = Stored(sid, snapshot[saved + 1]) /\ saved' = saved + 1
              BY <1>7 DEF SaveOne
        <2>2. db[sid] = SubSeq(snapshot, 1, saved)
              BY <2>1
        <2>3. db'[sid] = Append(SubSeq(snapshot, 1, saved), snapshot[saved + 1])
              BY <2>1, <2>2 DEF Stored
        <2>4. db'[sid] = SubSeq(snapshot, 1, saved + 1)
              BY <2>1, <2>3, PrefixGrows
        <2> QED BY <2>1, <2>4
  <1>8. CASE Settle
        <2>1. db[sid] = snapshot
              BY <1>8, WholeIsItself DEF Settle, Stay
        <2> QED BY <1>8, <2>1 DEF Settle, Stay
  <1>9. CASE NewCommand
        BY <1>9 DEF NewCommand, CanType, TuiMeaning, ConsoleMeaning
  <1>10. CASE Quit \/ EndOfScript \/ Die
         BY <1>10 DEF Quit, EndOfScript, Die, Forget
  <1>11. CASE UNCHANGED vars
         BY <1>11 DEF vars
  <1> QED BY <1>1, <1>2, <1>3, <1>4, <1>5, <1>6, <1>7, <1>8, <1>9, <1>10, <1>11
          DEF Next

-----------------------------------------------------------------------------
(* What "not cut" is worth.  Outside of saving, every session that was     *)
(* never cut is complete on disk and in memory; the running agent has left *)
(* open only calls of its last turn; and a turn being saved is a complete  *)
(* one, of which the database and the saved part of the snapshot have the  *)
(* same calls open.  (After /new the two differ in what comes before.)     *)
StoredWhole ==
    \A s \in Sessions \ cut : ~(s = sid /\ phase = "saving") => Complete(db[s])

MemoryWhole == sid \notin cut /\ phase \in {"idle", "running"} => Complete(messages)

RunWhole ==
    phase = "running" => /\ over => open = <<>>
                         /\ sid \notin cut => HistoryInv(snapshot, open)

SaveWhole ==
    phase = "saving" /\ sid \notin cut =>
        /\ Complete(snapshot)
        /\ \E pending : /\ HistoryInv(SubSeq(snapshot, 1, saved), pending)
                        /\ HistoryInv(db[sid], pending)

WholeInv == StoredWhole /\ MemoryWhole /\ RunWhole /\ SaveWhole

LEMMA ClosedHistory ==
    ASSUME NEW ms \in Seq(Message)
    PROVE  HistoryInv(ms, <<>>) <=> Complete(ms)
  <1>1. <<>> \in Seq(Calls)
        OBVIOUS
  <1> QED BY <1>1 DEF HistoryInv, Answering

LEMMA PlainStaysComplete ==
    ASSUME NEW ms \in Seq(Message), Complete(ms), NEW m \in {SystemMessage, UserMessage}
    PROVE  Complete(Append(ms, m))
  <1>1. m \in Message /\ m.role \in {"system", "user"}
        BY PlainMessages DEF SystemMessage, UserMessage
  <1>2. HistoryInv(Append(ms, m), <<>>)
        BY <1>1, ClosedHistory, PlainKeeps
  <1> QED BY <1>2 DEF HistoryInv

LEMMA FirstIsComplete == Complete(<<>>) /\ Complete(<<SystemMessage>>)
  <1>1. <<>> \in Seq(Message) /\ Len(<<>>) = 0
        OBVIOUS
  <1>2. Complete(<<>>)
        BY <1>1 DEF Complete, CallsAnswered, NoOrphanAnswer
  <1>3. <<SystemMessage>> = Append(<<>>, SystemMessage)
        OBVIOUS
  <1> QED BY <1>1, <1>2, <1>3, PlainStaysComplete

(* A row of the system or of the user leaves every whole session whole.    *)
LEMMA PlainRowKeeps ==
    ASSUME db \in [Sessions -> Seq(Message)], NEW s \in Sessions, NEW m \in {SystemMessage, UserMessage},
           \A t \in Sessions \ cut : Complete(db[t]), db' = Stored(s, m)
    PROVE  \A t \in Sessions \ cut : Complete(db'[t])
  <1> SUFFICES ASSUME NEW t \in Sessions \ cut PROVE Complete(db'[t])
      OBVIOUS
  <1>1. CASE t = s
        <2>1. db'[t] = Append(db[t], m) /\ db[t] \in Seq(Message) /\ Complete(db[t])
              BY <1>1 DEF Stored
        <2> QED BY <2>1, PlainStaysComplete
  <1>2. CASE t # s
        BY <1>2 DEF Stored
  <1> QED BY <1>1, <1>2

(* A turn saved to its end, or up to where none of its calls is open,      *)
(* leaves the session whole.                                               *)
LEMMA SavedIsWhole ==
    ASSUME TypeOK, WholeInv, phase = "saving", sid \notin cut,
           CallsAnswered(SubSeq(snapshot, 1, saved), saved)
    PROVE  Complete(db[sid])
  <1>1. PICK pending : /\ HistoryInv(SubSeq(snapshot, 1, saved), pending)
                       /\ HistoryInv(db[sid], pending)
        BY DEF WholeInv, SaveWhole
  <1>2. Len(SubSeq(snapshot, 1, saved)) = saved
        BY TypesSplit DEF SequencesOK
  <1>3. pending = <<>>
        BY <1>1, <1>2, NothingOpen
  <1> QED BY <1>1, <1>3 DEF HistoryInv

LEMMA AllSavedIsWhole ==
    ASSUME TypeOK, WholeInv, phase = "saving", sid \notin cut, saved = Len(snapshot)
    PROVE  Complete(db[sid])
  <1>1. SubSeq(snapshot, 1, saved) = snapshot
        BY TypesSplit, WholeIsItself DEF SequencesOK
  <1>2. CallsAnswered(snapshot, Len(snapshot))
        BY DEF WholeInv, SaveWhole, Complete
  <1> QED BY <1>1, <1>2, SavedIsWhole

LEMMA StoredStep == TypeOK /\ WholeInv /\ [Next]_vars => StoredWhole'
  <1> SUFFICES ASSUME TypeOK, WholeInv, [Next]_vars PROVE StoredWhole'
      OBVIOUS
  <1>0. /\ SequencesOK
        /\ phase # "closed" => sid \in Sessions
        BY TypesSplit DEF ScalarsOK, CountsOK, SessionsOK
  <1>a. StoredWhole
        BY DEF WholeInv
  <1> USE <1>0, <1>a DEF store, run, bounds
  <1>1. CASE Launch \/ Return \/ UNCHANGED vars
        BY <1>1 DEF Launch, Return, vars, StoredWhole
  <1>2. CASE Load
        <2>1. /\ sid \in Sessions /\ cut' = cut
              /\ db' = db \/ db' = Stored(sid, SystemMessage)
              BY <1>2 DEF Load
        <2>2. \A t \in Sessions \ cut : Complete(db[t])
              BY <1>2 DEF Load, StoredWhole
        <2> QED BY <2>1, <2>2, PlainRowKeeps DEF StoredWhole, SequencesOK
  <1>3. CASE Preload \/ Say \/ SayOnce
        <2>1. /\ sid \in Sessions /\ cut' = cut /\ phase = "idle"
              /\ \E m \in {SystemMessage, UserMessage} : db' = Stored(sid, m)
              BY <1>3 DEF Preload, Say, SayOnce, StartRun, CanType
        <2>2. \A t \in Sessions \ cut : Complete(db[t])
              BY <2>1 DEF StoredWhole
        <2> QED BY <2>1, <2>2, PlainRowKeeps DEF StoredWhole, SequencesOK
  <1>4. CASE AgentSteps
        BY <1>4, AgentStepsOnly DEF StoredWhole
  <1>5. CASE Interrupt
        BY <1>5 DEF Interrupt, StoredWhole
  <1>6. CASE SaveOne
        BY <1>6 DEF SaveOne, Stored, StoredWhole, SequencesOK
  <1>7. CASE Settle
        BY <1>7, AllSavedIsWhole DEF Settle, Stay, StoredWhole
  <1>8. CASE NewCommand
        <2>1. /\ cut' = cut /\ phase = "idle"
              /\ \E s \in Sessions : db' = Stored(s, SystemMessage)
              BY <1>8 DEF NewCommand, CanType
        <2>2. \A t \in Sessions \ cut : Complete(db[t])
              BY <2>1 DEF StoredWhole
        <2> QED BY <2>1, <2>2, PlainRowKeeps DEF StoredWhole, SequencesOK
  <1>9. CASE Quit \/ EndOfScript \/ Die
        <2>1. db' = db /\ cut \subseteq cut'
              BY <1>9, EndsForget
        <2>2. ASSUME phase = "saving", sid \notin cut'
              PROVE  Complete(db[sid])
              <3>1. CASE EndOfScript
                    BY <3>1, <2>1, <2>2, AllSavedIsWhole DEF EndOfScript
              <3>2. CASE Die
                    <4>1. ~HalfStored
                          BY <3>2, <2>2 DEF Die
                    <4> QED BY <4>1, <2>1, <2>2, SavedIsWhole DEF HalfStored
              <3>3. CASE Quit
                    BY <3>3, <2>2 DEF Quit, CanType
              <3> QED BY <1>9, <3>1, <3>2, <3>3
        <2> QED BY <2>1, <2>2 DEF StoredWhole
  <1> QED BY <1>1, <1>2, <1>3, <1>4, <1>5, <1>6, <1>7, <1>8, <1>9 DEF Next

LEMMA MemoryStep == TypeOK /\ WholeInv /\ [Next]_vars => MemoryWhole'
  <1> SUFFICES ASSUME TypeOK, WholeInv, [Next]_vars PROVE MemoryWhole'
      OBVIOUS
  <1>0. /\ SequencesOK
        /\ phase # "closed" => sid \in Sessions
        BY TypesSplit DEF ScalarsOK, CountsOK, SessionsOK
  <1>a. StoredWhole /\ MemoryWhole
        BY DEF WholeInv
  <1> USE <1>0, <1>a DEF MemoryWhole, store, run, bounds
  <1>1. CASE Launch \/ Return \/ Interrupt \/ SaveOne \/ UNCHANGED vars
        BY <1>1 DEF Launch, Return, Interrupt, SaveOne, vars
  <1>2. CASE Load
        BY <1>2, FirstIsComplete DEF Load, StoredWhole
  <1>3. CASE Preload \/ Say \/ SayOnce
        <2>1. /\ cut' = cut /\ sid' = sid /\ phase = "idle"
              /\ \E m \in {SystemMessage, UserMessage} : messages' = Append(messages, m)
              BY <1>3 DEF Preload, Say, SayOnce, StartRun, CanType
        <2> QED BY <2>1, PlainStaysComplete DEF SequencesOK
  <1>4. CASE AgentSteps
        BY <1>4, AgentStepsOnly
  <1>5. CASE Settle
        BY <1>5 DEF Settle, Stay, WholeInv, SaveWhole
  <1>6. CASE NewCommand
        BY <1>6, FirstIsComplete DEF NewCommand
  <1>7. CASE Quit \/ EndOfScript \/ Die
        BY <1>7, EndsForget
  <1> QED BY <1>1, <1>2, <1>3, <1>4, <1>5, <1>6, <1>7 DEF Next

LEMMA RunStep == TypeOK /\ WholeInv /\ [Next]_vars => RunWhole'
  <1> SUFFICES ASSUME TypeOK, WholeInv, [Next]_vars PROVE RunWhole'
      OBVIOUS
  <1>0. SequencesOK /\ RunWhole
        BY TypesSplit DEF WholeInv
  <1> USE <1>0 DEF RunWhole, store, run, bounds
  <1>1. CASE \/ Launch \/ Load \/ Preload \/ Return \/ Interrupt \/ SaveOne \/ Settle
             \/ NewCommand \/ UNCHANGED vars
        BY <1>1 DEF Launch, Load, Preload, Return, Interrupt, SaveOne, Settle, Stay,
                    NewCommand, CanType, vars
  <1>2. CASE Say \/ SayOnce
        <2>1. /\ cut' = cut /\ sid' = sid /\ phase = "idle"
              /\ messages' = Append(messages, UserMessage)
              /\ snapshot' = messages' /\ open' = <<>>
              BY <1>2 DEF Say, SayOnce, StartRun, CanType
        <2>2. sid \notin cut => Complete(Append(messages, UserMessage))
              BY <2>1, PlainStaysComplete DEF SequencesOK, WholeInv, MemoryWhole
        <2>3. Append(messages, UserMessage) \in Seq(Message)
              BY PlainMessages DEF SequencesOK
        <2> QED BY <2>1, <2>2, <2>3, ClosedHistory
  <1>3. CASE AgentSteps
        BY <1>3, AgentStepsOnly, AgentKeepsHistory
  <1>4. CASE Quit \/ EndOfScript \/ Die
        BY <1>4, EndsForget
  <1> QED BY <1>1, <1>2, <1>3, <1>4 DEF Next

LEMMA SaveStep == TypeOK /\ SnapshotExtends /\ WholeInv /\ [Next]_vars => SaveWhole'
  <1> SUFFICES ASSUME TypeOK, SnapshotExtends, WholeInv, [Next]_vars, phase' = "saving", sid' \notin cut'
               PROVE  /\ Complete(snapshot')
                      /\ \E pending : /\ HistoryInv(SubSeq(snapshot', 1, saved'), pending)
                                      /\ HistoryInv(db'[sid'], pending)
      BY DEF SaveWhole
  <1>0. /\ SequencesOK /\ saved \in 0..Len(snapshot)
        /\ phase # "closed" => sid \in Sessions
        BY TypesSplit DEF ScalarsOK, CountsOK, SessionsOK
  <1> USE <1>0 DEF store, run, bounds
  <1>1. CASE Return \/ Interrupt
        <2>1. /\ phase = "running" /\ saved' = Len(messages) /\ sid' = sid
              /\ UNCHANGED <<snapshot, open, db>>
              /\ sid \notin cut
              BY <1>1 DEF Return, Interrupt
        <2>2. open = <<>>
              BY <1>1 DEF Return, Interrupt, WholeInv, RunWhole
        <2>3. Complete(snapshot) /\ Complete(messages) /\ Complete(db[sid])
              BY <2>1, <2>2 DEF WholeInv, RunWhole, MemoryWhole, StoredWhole, HistoryInv
        <2>4. HistoryInv(messages, <<>>) /\ HistoryInv(db[sid], <<>>)
              BY <2>1, <2>3, ClosedHistory DEF SequencesOK
        <2>5. SubSeq(snapshot', 1, saved') = messages
              BY <2>1 DEF SnapshotExtends
        <2> QED BY <2>1, <2>3, <2>4, <2>5
  <1>2. CASE SaveOne
        <2>1. /\ phase = "saving" /\ saved < Len(snapshot) /\ saved' = saved + 1
              /\ UNCHANGED <<snapshot, sid, cut>>
              /\ db' = Stored(sid, snapshot[saved + 1])
              BY <1>2 DEF SaveOne
        <2>2. Complete(snapshot)
              BY <2>1 DEF WholeInv, SaveWhole
        <2>3. PICK pending : /\ HistoryInv(SubSeq(snapshot, 1, saved), pending)
                             /\ HistoryInv(db[sid], pending)
              BY <2>1 DEF WholeInv, SaveWhole
        <2>4. PICK rest : /\ HistoryInv(SubSeq(snapshot, 1, saved + 1), rest)
                          /\ HistoryInv(Append(db[sid], snapshot[saved + 1]), rest)
              BY <2>1, <2>2, <2>3, CopyKeepsPace DEF SequencesOK
        <2>5. db'[sid'] = Append(db[sid], snapshot[saved + 1])
              BY <2>1 DEF Stored, SequencesOK
        <2> QED BY <2>1, <2>2, <2>4, <2>5
  <1>3. CASE AgentSteps
        BY <1>3, AgentStepsOnly
  <1>4. CASE \/ Launch \/ Load \/ Preload \/ Say \/ SayOnce \/ Settle \/ NewCommand
        BY <1>4 DEF Launch, Load, Preload, Say, SayOnce, StartRun, Settle, Stay, NewCommand, CanType
  <1>5. CASE Quit \/ EndOfScript \/ Die
        BY <1>5, EndsForget
  <1>6. CASE UNCHANGED vars
        BY <1>6 DEF vars, WholeInv, SaveWhole
  <1> QED BY <1>1, <1>2, <1>3, <1>4, <1>5, <1>6 DEF Next

-----------------------------------------------------------------------------
ChatInv == TypeOK /\ SnapshotExtends /\ DiskFollowsMemory /\ WholeInv

LEMMA ChatInvHolds == Spec => []ChatInv
  <1>1. Init => ChatInv
        <2> SUFFICES ASSUME Init PROVE ChatInv
            OBVIOUS
        <2>1. TypeOK
              BY TypesHold
        <2>2. SnapshotExtends /\ DiskFollowsMemory
              BY DEF Init, SnapshotExtends, DiskFollowsMemory
        <2>3. WholeInv
              BY FirstIsComplete DEF Init, WholeInv, StoredWhole, MemoryWhole, RunWhole, SaveWhole
        <2> QED BY <2>1, <2>2, <2>3 DEF ChatInv
  <1>2. ChatInv /\ [Next]_vars => ChatInv'
        <2> SUFFICES ASSUME ChatInv, [Next]_vars PROVE ChatInv'
            OBVIOUS
        <2>1. SequencesOK' /\ CountsOK' /\ SessionsOK' /\ saved' \in 0..Len(snapshot')
              BY SequencesStep, CountsStep, SessionsStep, SavedStep DEF ChatInv
        <2>2. TypeOK'
              BY <2>1 DEF TypeOK, SequencesOK, CountsOK, SessionsOK
        <2>3. SnapshotExtends' /\ DiskFollowsMemory'
              BY SnapshotStep, DiskStep DEF ChatInv
        <2>4. StoredWhole' /\ MemoryWhole' /\ RunWhole' /\ SaveWhole'
              BY StoredStep, MemoryStep, RunStep, SaveStep DEF ChatInv
        <2> QED BY <2>2, <2>3, <2>4 DEF ChatInv, WholeInv
  <1> QED BY <1>1, <1>2, PTL DEF Spec

(* A chat keeps its types: the process has a session exactly while it      *)
(* runs, whose row is in the table, and no index leaves its snapshot.      *)
THEOREM ChatTypes == Spec => []TypeOK
  <1>1. ChatInv => TypeOK
        BY DEF ChatInv
  <1> QED BY <1>1, ChatInvHolds, PTL

(* What the TUI and a script have said and heard is in the database while  *)
(* they wait and while the agent runs, message by message, and the part of *)
(* a turn that is stored while it is being saved (main.rs, tui/app.rs and  *)
(* SessionDB::append_message).                                             *)
THEOREM DiskIsMemory == Spec => []DiskFollowsMemory
  <1>1. ChatInv => DiskFollowsMemory
        BY DEF ChatInv
  <1> QED BY <1>1, ChatInvHolds, PTL

(* Across errors, quits, deaths, /new and resumes, a request is incomplete *)
(* only in a session that Ctrl+C or a death cut inside a turn.             *)
THEOREM OnlyCutsSpoilAChat == Spec => []OnlyCutsSpoil
  <1>1. ChatInv => OnlyCutsSpoil
        BY DEF ChatInv, WholeInv, RunWhole, OnlyCutsSpoil, Asking, HistoryInv
  <1> QED BY <1>1, ChatInvHolds, PTL
=============================================================================
