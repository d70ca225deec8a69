------------------------------ MODULE McpProofs ------------------------------
(***************************************************************************)
(* Theorems about the two transports of merlion-mcp: the stdio transport   *)
(* for any finite set of callers, any pipe and any number of requests, and *)
(* the HTTP transport with its servers and proxies for any servers, any    *)
(* number of agents, calls and faults.                                     *)
(***************************************************************************)
EXTENDS McpStdio, McpHttp, FiniteSetTheorems, SequenceTheorems, TLAPS

(***************************************************************************)
(* stdio.rs                                                                *)
(***************************************************************************)
Begun == {c \in Callers : id[c] # 0}

(* Ids are drawn one by one, so no two callers have the same.              *)
Numbered ==
    /\ nextId = Cardinality(Begun) + 1
    /\ \A c \in Callers : id[c] = 0 <=> at[c] = "idle"
    /\ \A c \in Callers : id[c] < nextId
    /\ \A c, d \in Callers : id[c] = id[d] /\ id[c] # 0 => c = d
    /\ \A n \in pending : n < nextId

(* What travels to the server and back belongs to callers that have begun, *)
(* and an answer carries the id of the call it answers.                    *)
Traced ==
    /\ \A i \in 1..Len(pipe) : ~pipe[i].newline => pipe[i].by \in Begun
    /\ line \subseteq Begun
    /\ accepted \subseteq Begun
    /\ \A i \in 1..Len(stdout) :
          stdout[i].answers \in Callers => id[stdout[i].answers] = stdout[i].id

(* What a oneshot channel holds is an answer to its own caller.            *)
Delivered ==
    /\ \A c \in Callers : at[c] = "idle" => got[c] = Empty
    /\ \A c \in Callers : got[c].answers \in {c, Nobody}

StdioInv == TypeOK /\ Numbered /\ Traced /\ Delivered /\ PendingIsExact

LEMMA BegunFinite == IsFiniteSet(Begun) /\ Cardinality(Begun) \in 0..Cardinality(Callers)
                     /\ Cardinality(Callers) \in Nat
  <1>1. Begun \subseteq Callers
        BY DEF Begun
  <1> QED BY <1>1, TransportAssumption, FS_Subset, FS_CardinalityType

LEMMA InitStdioInv == Init => StdioInv
  <1> SUFFICES ASSUME Init PROVE StdioInv
      OBVIOUS
  <1>1. Begun = {}
        BY DEF Init, Begun
  <1>2. Cardinality(Begun) = 0 /\ Cardinality(Callers) \in Nat
        BY <1>1, FS_EmptySet, BegunFinite
  <1>3. PipeCap \in Nat /\ MaxPings \in Nat /\ Nobody \notin Callers
        BY TransportAssumption
  <1>4. Empty.answers = Nobody
        BY DEF Empty
  <1>5. TypeOK
    <2>1. stdinOpen <=> closing = "no"
          BY DEF Init
    <2>2. reading \in BOOLEAN /\ alive \in BOOLEAN /\ garbled \in BOOLEAN
          BY DEF Init
    <2>3. \A c \in Callers : holder = c <=> at[c] \in {"body", "newline"}
          BY <1>3 DEF Init
    <2>4. pipe \in Seq(Pieces) /\ stdout \in Seq(Lines) /\ Len(pipe) <= PipeCap
          BY <1>3 DEF Init
    <2> QED BY <1>2, <1>3, <2>1, <2>2, <2>3, <2>4 DEF Init, TypeOK, Ids
  <1>6. Numbered
        BY <1>2 DEF Init, Numbered
  <1>7. Traced
        BY DEF Init, Traced
  <1>8. Delivered
        BY <1>4 DEF Init, Delivered
  <1>9. PendingIsExact
        BY DEF Init, PendingIsExact, Waiting, Ended
  <1> QED BY <1>5, <1>6, <1>7, <1>8, <1>9 DEF StdioInv

(* A step that draws no id, and neither writes to the pipe, the server's   *)
(* books nor its output, keeps what is numbered and traced.                *)
LEMMA NothingSent ==
    ASSUME Numbered, Traced, UNCHANGED <<id, nextId, pipe, line, accepted, stdout>>,
           pending' \subseteq pending,
           \A c \in Callers : at'[c] = "idle" <=> at[c] = "idle"
    PROVE  Numbered' /\ Traced'
  <1>1. Begun' = Begun
        BY DEF Begun
  <1>2. Numbered'
        BY <1>1 DEF Numbered
  <1>3. Traced'
        BY <1>1 DEF Traced
  <1> QED BY <1>2, <1>3

LEMMA BeginKeeps ==
    ASSUME StdioInv, NEW c \in Callers, Begin(c)
    PROVE  StdioInv'
  <1> USE DEF StdioInv
  <1>1. Begun' = Begun \cup {c} /\ c \notin Begun
        BY DEF Begin, Numbered, Begun, TypeOK
  <1>2. Cardinality(Begun') = Cardinality(Begun) + 1 /\ Begun' \subseteq Callers
        BY <1>1, BegunFinite, FS_AddElement DEF Begun
  <1>3. Cardinality(Begun') <= Cardinality(Callers)
        BY <1>2, TransportAssumption, FS_Subset
  <1>4. /\ nextId \in 1..Cardinality(Callers)
        /\ nextId' = Cardinality(Begun') + 1
        BY <1>2, <1>3, BegunFinite DEF Begin, Numbered
  <1>5. id' = [id EXCEPT ![c] = nextId] /\ id \in [Callers -> 0..Cardinality(Callers)]
        BY DEF Begin, TypeOK
  <1>6. at' = [at EXCEPT ![c] = "lock"] /\ at \in [Callers -> {"idle"} \cup Waiting \cup Ended]
        BY DEF Begin, Goto, TypeOK
  <1>7. at[c] = "idle" /\ got[c] = Empty
        BY DEF Begin, Delivered
  <1>8. TypeOK'
    <2>1. id' \in [Callers -> 0..Cardinality(Callers)]
          BY <1>4, <1>5, BegunFinite
    <2>2. at' \in [Callers -> {"idle"} \cup Waiting \cup Ended]
          BY <1>6 DEF Waiting
    <2>3. nextId' \in 1..(Cardinality(Callers) + 1) /\ pending' \subseteq Ids
          BY <1>4, BegunFinite DEF Begin, TypeOK, Ids
    <2>4. \A d \in Callers : holder' = d <=> at'[d] \in {"body", "newline"}
          BY <1>6, <1>7 DEF Begin, TypeOK
    <2> QED BY <2>1, <2>2, <2>3, <2>4 DEF Begin, TypeOK, server
  <1>9. Numbered'
        BY <1>4, <1>5, <1>6, <1>7 DEF Begin, Numbered, TypeOK, Ids
  <1>10. Traced'
    <2>1. \A d \in Begun : id'[d] = id[d]
          BY <1>1, <1>5 DEF Begun
    <2>2. \A i \in 1..Len(stdout) : stdout[i].answers \in Callers => stdout[i].answers # c
      <3>0. stdout \in Seq(Lines)
            BY DEF TypeOK
      <3>1. \A i \in 1..Len(stdout) : stdout[i].id \in Ids
        <4>1. \A i \in 1..Len(stdout) : stdout[i] \in Lines
              BY <3>0
        <4> QED BY <4>1 DEF Lines
      <3>2. id[c] = 0
            BY <1>7 DEF Numbered
      <3> QED BY <3>1, <3>2, BegunFinite DEF Traced, Ids
    <2> QED BY <1>1, <1>5, <2>2 DEF Begin, Traced, server
  <1>11. Delivered'
        BY <1>6 DEF Begin, Delivered
  <1>12. PendingIsExact'
        BY <1>5, <1>6, <1>7 DEF Begin, PendingIsExact, Numbered, Waiting, Ended
  <1> QED BY <1>8, <1>9, <1>10, <1>11, <1>12

LEMMA WriterKeeps ==
    ASSUME StdioInv, NEW c \in Callers, TakeStdin(c) \/ WriteBody(c) \/ WriteNewline(c)
    PROVE  StdioInv'
  <1> USE DEF StdioInv
  <1>1. c \in Begun
        BY DEF TakeStdin, WriteBody, WriteNewline, Numbered, Begun
  <1>2. Begun' = Begun
        BY DEF TakeStdin, WriteBody, WriteNewline, Begun
  <1>3. PICK l \in {"body", "failed", "newline", "wait"} : at' = [at EXCEPT ![c] = l]
        BY DEF TakeStdin, WriteBody, WriteNewline, Goto
  <1>4. at \in [Callers -> {"idle"} \cup Waiting \cup Ended] /\ at[c] \in {"lock", "body", "newline"}
        BY DEF TakeStdin, WriteBody, WriteNewline, TypeOK
  <1>5. UNCHANGED <<id, got, nextId, pending, stdinOpen, closing, reading, server, stdout>>
        BY DEF TakeStdin, WriteBody, WriteNewline
  <1>6. \/ pipe' = pipe
        \/ pipe' = Append(pipe, Body(c)) /\ Len(pipe) < PipeCap
        \/ pipe' = Append(pipe, Newline) /\ Len(pipe) < PipeCap
        BY DEF TakeStdin, WriteBody, WriteNewline
  <1>7. Body(c) \in Pieces /\ Newline \in Pieces /\ Body(c).by = c /\ Newline.newline
        BY DEF Body, Newline, Pieces
  <1>8. TypeOK'
    <2>1. at' \in [Callers -> {"idle"} \cup Waiting \cup Ended]
          BY <1>3, <1>4 DEF Waiting
    <2>2. pipe' \in Seq(Pieces) /\ Len(pipe') <= PipeCap
      <3>1. pipe \in Seq(Pieces) /\ Len(pipe) <= PipeCap
            BY DEF TypeOK
      <3>2. Len(pipe) \in Nat /\ PipeCap \in Nat
            BY <3>1, TransportAssumption
      <3>3. CASE pipe' = pipe
            BY <3>1, <3>3
      <3>4. CASE pipe' = Append(pipe, Body(c)) /\ Len(pipe) < PipeCap
            BY <1>7, <3>1, <3>2, <3>4
      <3>5. CASE pipe' = Append(pipe, Newline) /\ Len(pipe) < PipeCap
            BY <1>7, <3>1, <3>2, <3>5
      <3> QED BY <1>6, <3>3, <3>4, <3>5
    <2>3. holder' \in Callers \cup {Nobody}
          BY DEF TakeStdin, WriteBody, WriteNewline, TypeOK
    <2>4. \A d \in Callers : holder' = d <=> at'[d] \in {"body", "newline"}
      <3>1. Nobody \notin Callers
            BY TransportAssumption
      <3>2. \A d \in Callers : holder = d <=> at[d] \in {"body", "newline"}
            BY DEF TypeOK
      <3>3. \A w : at' = [at EXCEPT ![c] = w]
                    => at'[c] = w /\ \A d \in Callers \ {c} : at'[d] = at[d]
            BY <1>4
      <3>4. CASE TakeStdin(c)
            BY <3>1, <3>2, <3>3, <3>4 DEF TakeStdin, Goto
      <3>5. CASE WriteBody(c)
            BY <3>1, <3>2, <3>3, <3>5 DEF WriteBody, Goto
      <3>6. CASE WriteNewline(c)
            BY <3>1, <3>2, <3>3, <3>6 DEF WriteNewline, Goto
      <3> QED BY <3>4, <3>5, <3>6
    <2> QED BY <1>5, <2>1, <2>2, <2>3, <2>4 DEF TypeOK, server
  <1>9. Numbered'
        BY <1>2, <1>3, <1>4, <1>5 DEF Numbered
  <1>10. Traced'
    <2>1. \A i \in 1..Len(pipe') : ~pipe'[i].newline => pipe'[i].by \in Begun
      <3>1. pipe \in Seq(Pieces) /\ \A i \in 1..Len(pipe) : ~pipe[i].newline => pipe[i].by \in Begun
            BY DEF TypeOK, Traced
      <3>2. CASE pipe' = pipe
            BY <3>1, <3>2
      <3>3. CASE pipe' = Append(pipe, Body(c))
            BY <1>1, <1>7, <3>1, <3>3
      <3>4. CASE pipe' = Append(pipe, Newline)
            BY <1>7, <3>1, <3>4
      <3> QED BY <1>6, <3>2, <3>3, <3>4
    <2> QED BY <1>2, <1>5, <2>1 DEF Traced, server
  <1>11. Delivered'
        BY <1>3, <1>4, <1>5 DEF Delivered
  <1>12. PendingIsExact'
        BY <1>3, <1>4, <1>5 DEF PendingIsExact, Waiting, Ended
  <1> QED BY <1>8, <1>9, <1>10, <1>11, <1>12

(* A call that fails, returns, gives up or is dropped.                     *)
LEMMA EndingKeeps ==
    ASSUME StdioInv, NEW c \in Callers,
           WriteFails(c) \/ Return(c) \/ Expire(c) \/ GiveUp(c) \/ Drop(c)
    PROVE  StdioInv'
  <1> USE DEF StdioInv
  <1>1. /\ UNCHANGED <<id, got, nextId, stdinOpen, closing, reading, pipe, server, stdout>>
        /\ pending' \in {pending, pending \ {id[c]}}
        BY DEF WriteFails, Return, Expire, GiveUp, Drop, transport
  <1>2. PICK l \in {"error", "ok", "expired", "timeout", "dropped"} : at' = [at EXCEPT ![c] = l]
        BY DEF WriteFails, Return, Expire, GiveUp, Drop, Goto
  <1>3. at \in [Callers -> {"idle"} \cup Waiting \cup Ended] /\ at[c] \in Waiting
        BY DEF WriteFails, Return, Expire, GiveUp, Drop, Active, Waiting, TypeOK
  <1>4. at'[c] = l /\ \A d \in Callers \ {c} : at'[d] = at[d]
        BY <1>2, <1>3
  <1>5. TypeOK'
    <2>1. at' \in [Callers -> {"idle"} \cup Waiting \cup Ended]
          BY <1>2, <1>3 DEF Waiting, Ended
    <2>2. pending' \subseteq Ids
          BY <1>1 DEF TypeOK
    <2>3. holder' \in Callers \cup {Nobody}
          BY DEF WriteFails, Return, Expire, GiveUp, Drop, transport, TypeOK
    <2>4. \A d \in Callers : holder' = d <=> at'[d] \in {"body", "newline"}
      <3>1. /\ Nobody \notin Callers
            /\ \A d \in Callers : holder = d <=> at[d] \in {"body", "newline"}
            BY TransportAssumption DEF TypeOK
      <3>2. CASE Drop(c)
            BY <1>2, <1>4, <3>1, <3>2 DEF Drop
      <3>3. CASE WriteFails(c) \/ Return(c) \/ Expire(c) \/ GiveUp(c)
        <4>1. holder' = holder /\ at[c] \notin {"body", "newline"}
              BY <3>3 DEF WriteFails, Return, Expire, GiveUp, transport
        <4> QED BY <1>2, <1>4, <3>1, <4>1
      <3> QED BY <3>2, <3>3
    <2> QED BY <1>1, <2>1, <2>2, <2>3, <2>4 DEF TypeOK, server
  <1>6. Numbered' /\ Traced'
    <2>1. \A d \in Callers : at'[d] = "idle" <=> at[d] = "idle"
          BY <1>2, <1>3, <1>4 DEF Waiting
    <2>2. pending' \subseteq pending
          BY <1>1
    <2> QED BY <1>1, <2>1, <2>2, NothingSent DEF server
  <1>7. Delivered'
        BY <1>1, <1>2, <1>4 DEF Delivered
  <1>8. PendingIsExact'
    <2>1. \A d \in Callers \ {c} : at[d] # "idle" => (id[d] \in pending' <=> id[d] \in pending)
          BY <1>1, <1>3 DEF Numbered, Waiting
    <2>2. \A d \in Callers \ {c} :
              /\ at'[d] \in Waiting => (id'[d] \in pending' <=> got'[d] = Empty)
              /\ at'[d] \in Ended \ {"dropped"} => id'[d] \notin pending'
          BY <1>1, <1>4, <2>1 DEF PendingIsExact, Waiting, Ended
    <2>3. /\ at'[c] \in Waiting => (id[c] \in pending' <=> got[c] = Empty)
          /\ at'[c] \in Ended \ {"dropped"} => id[c] \notin pending'
      <3>1. CASE Return(c)
            BY <1>3, <3>1 DEF Return, Goto, transport, PendingIsExact, Waiting, Ended
      <3>2. CASE Expire(c)
            BY <1>3, <3>2 DEF Expire, Goto, transport, PendingIsExact, Waiting, Ended
      <3>3. CASE WriteFails(c) \/ GiveUp(c)
            BY <1>3, <3>3 DEF WriteFails, GiveUp, Goto, Waiting, Ended
      <3>4. CASE Drop(c)
            BY <1>3, <3>4 DEF Drop, Goto, Waiting, Ended
      <3> QED BY <3>1, <3>2, <3>3, <3>4
    <2> QED BY <1>1, <2>2, <2>3 DEF PendingIsExact
  <1> QED BY <1>5, <1>6, <1>7, <1>8

(* The reader hands a response to the one caller that has its id.          *)
LEMMA ReadKeeps == StdioInv /\ Read => StdioInv'
  <1> SUFFICES ASSUME StdioInv, Read PROVE StdioInv'
      OBVIOUS
  <1> USE DEF StdioInv
  <1> DEFINE resp == Head(stdout)
  <1>1. /\ UNCHANGED <<at, id, nextId, holder, stdinOpen, closing, reading, pipe, server>>
        /\ got' = [d \in Callers |-> IF id[d] = resp.id /\ resp.id \in pending
                                     THEN resp ELSE got[d]]
        /\ pending' = pending \ {resp.id}
        /\ stdout' = Tail(stdout) /\ stdout # <<>>
        BY DEF Read
  <1>2. stdout \in Seq(Lines) /\ Len(stdout) > 0 /\ resp = stdout[1] /\ resp \in Lines
        BY <1>1 DEF TypeOK
  <1>3. /\ resp.id \in Ids /\ resp.id # 0 /\ resp # Empty
        /\ resp.answers \in Callers \cup {Nobody}
        BY <1>2, BegunFinite DEF Lines, Ids, Empty
  <1>4. \A d \in Callers : got'[d] = IF id[d] = resp.id /\ resp.id \in pending
                                     THEN resp ELSE got[d]
        BY <1>1
  <1>5. /\ stdout' \in Seq(Lines)
        /\ \A i \in 1..Len(stdout') : i + 1 \in 1..Len(stdout) /\ stdout'[i] = stdout[i + 1]
        BY <1>1, <1>2
  <1>6. TypeOK'
    <2>1. got' \in [Callers -> Lines \cup {Empty}]
          BY <1>1, <1>2 DEF TypeOK
    <2> QED BY <1>1, <1>5, <2>1 DEF TypeOK, server
  <1>7. Begun' = Begun
        BY <1>1 DEF Begun
  <1>8. Numbered'
        BY <1>1, <1>7 DEF Numbered
  <1>9. Traced'
        BY <1>1, <1>5, <1>7 DEF Traced, server
  <1>10. Delivered'
    <2>1. \A d \in Callers : id[d] = resp.id => resp.answers \in {d, Nobody}
      <3>1. resp.answers \in Callers => id[resp.answers] = resp.id
            BY <1>2 DEF Traced
      <3> QED BY <1>3, <3>1 DEF Numbered
    <2>2. \A d \in Callers : at[d] = "idle" => id[d] # resp.id
          BY <1>3 DEF Numbered
    <2> QED BY <1>1, <1>4, <2>1, <2>2 DEF Delivered
  <1>11. PendingIsExact'
    <2>1. \A d \in Callers : id[d] = resp.id => id[d] \notin pending'
          BY <1>1
    <2>2. \A d \in Callers : id[d] # resp.id => (id[d] \in pending' <=> id[d] \in pending)
          BY <1>1
    <2>3. \A d \in Callers : at[d] \in Waiting => (id[d] \in pending' <=> got'[d] = Empty)
          BY <1>3, <1>4, <2>1, <2>2 DEF PendingIsExact
    <2> QED BY <1>1, <2>1, <2>2, <2>3 DEF PendingIsExact
  <1> QED BY <1>6, <1>8, <1>9, <1>10, <1>11

(* Closing the transport, the end of the reader and the death of the       *)
(* server touch no call; at most they empty the pipe.                      *)
LEMMA ShutdownKeeps == StdioInv /\ (ReadEnds \/ Closing \/ ServerDies) => StdioInv'
  <1> SUFFICES ASSUME StdioInv, ReadEnds \/ Closing \/ ServerDies PROVE StdioInv'
      OBVIOUS
  <1> USE DEF StdioInv, Closing
  <1>1. UNCHANGED <<at, id, got, nextId, pending, holder, line, accepted, garbled, pings, stdout>>
        BY DEF ReadEnds, CloseStdin, CloseChild, CloseReader, ServerDies, calls, transport, server
  <1>2. pipe' \in {pipe, <<>>}
        BY DEF ReadEnds, CloseStdin, CloseChild, CloseReader, ServerDies
  <1>3. TypeOK'
    <2>1. closing' \in {"no", "stdin", "child", "done"}
          BY DEF ReadEnds, CloseStdin, CloseChild, CloseReader, ServerDies, transport, TypeOK
    <2>2. stdinOpen' <=> closing' = "no"
      <3>1. stdinOpen <=> closing = "no"
            BY DEF TypeOK
      <3>2. CASE ReadEnds \/ ServerDies
            BY <3>1, <3>2 DEF ReadEnds, ServerDies, transport
      <3>3. CASE CloseStdin \/ CloseChild \/ CloseReader
            BY <3>1, <3>3 DEF CloseStdin, CloseChild, CloseReader
      <3> QED BY <3>2, <3>3
    <2>3. reading' \in BOOLEAN /\ alive' \in BOOLEAN
      <3>1. reading \in BOOLEAN /\ alive \in BOOLEAN
            BY DEF TypeOK
      <3>2. reading' = reading \/ reading' = FALSE
            BY DEF ReadEnds, CloseStdin, CloseChild, CloseReader, ServerDies, transport
      <3>3. alive' = alive \/ alive' = FALSE
            BY DEF ReadEnds, CloseStdin, CloseChild, CloseReader, ServerDies, server
      <3> QED BY <3>1, <3>2, <3>3
    <2>4. pipe' \in Seq(Pieces) /\ Len(pipe') <= PipeCap
      <3>1. pipe \in Seq(Pieces) /\ Len(pipe) <= PipeCap /\ PipeCap \in Nat
            BY TransportAssumption DEF TypeOK
      <3>2. <<>> \in Seq(Pieces) /\ Len(<<>>) = 0
            OBVIOUS
      <3>3. 0 <= PipeCap
            BY <3>1
      <3> QED BY <1>2, <3>1, <3>2, <3>3
    <2> QED BY <1>1, <2>1, <2>2, <2>3, <2>4 DEF TypeOK
  <1>4. Begun' = Begun
        BY <1>1 DEF Begun
  <1>5. Numbered'
        BY <1>1, <1>4 DEF Numbered
  <1>6. Traced'
    <2>1. \A i \in 1..Len(pipe') : ~pipe'[i].newline => pipe'[i].by \in Begun
          BY <1>2 DEF Traced
    <2> QED BY <1>1, <1>4, <2>1 DEF Traced
  <1>7. Delivered' /\ PendingIsExact'
        BY <1>1 DEF Delivered, PendingIsExact
  <1> QED BY <1>3, <1>5, <1>6, <1>7

(* The server reads, answers and asks.                                     *)
LEMMA ServerKeeps ==
    StdioInv /\ (ServerReads \/ ServerAnswers \/ ServerAsks) => StdioInv'
  <1> SUFFICES ASSUME StdioInv, ServerReads \/ ServerAnswers \/ ServerAsks PROVE StdioInv'
      OBVIOUS
  <1> USE DEF StdioInv
  <1>1. UNCHANGED <<at, id, got, nextId, pending, holder, stdinOpen, closing, reading, alive>>
        BY DEF ServerReads, ServerAnswers, ServerAsks, calls, transport
  <1>2. Begun' = Begun /\ Begun \subseteq Callers
        BY <1>1 DEF Begun
  <1>3. Numbered'
        BY <1>1, <1>2 DEF Numbered
  <1>4. Delivered' /\ PendingIsExact'
        BY <1>1 DEF Delivered, PendingIsExact
  <1>5. garbled' \in BOOLEAN
    <2>1. garbled \in BOOLEAN
          BY DEF TypeOK
    <2>2. garbled' = garbled \/ garbled' = TRUE
          BY DEF ServerReads, ServerAnswers, ServerAsks
    <2> QED BY <2>1, <2>2
  <1>6. pings' \in 0..MaxPings
        BY TransportAssumption DEF ServerReads, ServerAnswers, ServerAsks, TypeOK
  <1>7. /\ pipe' \in Seq(Pieces) /\ Len(pipe') <= PipeCap
        /\ \A i \in 1..Len(pipe') : ~pipe'[i].newline => pipe'[i].by \in Begun
    <2>1. /\ pipe \in Seq(Pieces) /\ Len(pipe) <= PipeCap /\ PipeCap \in Nat
          /\ \A i \in 1..Len(pipe) : ~pipe[i].newline => pipe[i].by \in Begun
          BY TransportAssumption DEF TypeOK, Traced
    <2>2. CASE ServerReads
      <3>1. pipe # <<>> /\ pipe' = Tail(pipe)
            BY <2>2 DEF ServerReads
      <3>2. Len(pipe') = Len(pipe) - 1 /\ pipe' \in Seq(Pieces)
            BY <2>1, <3>1
      <3>3. \A i \in 1..Len(pipe') : i + 1 \in 1..Len(pipe) /\ pipe'[i] = pipe[i + 1]
            BY <2>1, <3>1
      <3>4. Len(pipe) \in Nat
            BY <2>1
      <3> QED BY <2>1, <3>2, <3>3, <3>4
    <2>3. CASE ServerAnswers \/ ServerAsks
      <3>1. pipe' = pipe
            BY <2>3 DEF ServerAnswers, ServerAsks
      <3> QED BY <2>1, <3>1
    <2> QED BY <2>2, <2>3
  <1>8. line' \subseteq Begun /\ accepted' \subseteq Begun
    <2>1. line \subseteq Begun /\ accepted \subseteq Begun
          BY DEF Traced
    <2>2. CASE ServerReads
      <3>1. pipe # <<>> /\ pipe \in Seq(Pieces) /\ Head(pipe) = pipe[1] /\ 1 \in 1..Len(pipe)
            BY <2>2 DEF ServerReads, TypeOK
      <3>2. ~Head(pipe).newline => Head(pipe).by \in Begun
            BY <3>1 DEF Traced
      <3>3. /\ line' \in {{}, line \cup {Head(pipe).by}}
            /\ Head(pipe).newline => line' = {}
            /\ accepted' \in {accepted, accepted \cup line}
            BY <2>2 DEF ServerReads
      <3>4. ~Head(pipe).newline => line' = line \cup {Head(pipe).by}
            BY <2>2 DEF ServerReads
      <3> QED BY <2>1, <3>2, <3>3, <3>4
    <2>3. CASE ServerAnswers \/ ServerAsks
      <3>1. line' = line /\ accepted' \subseteq accepted
            BY <2>3 DEF ServerAnswers, ServerAsks
      <3> QED BY <2>1, <3>1
    <2> QED BY <2>2, <2>3
  <1>9. /\ stdout' \in Seq(Lines)
        /\ \A i \in 1..Len(stdout') :
              stdout'[i].answers \in Callers => id[stdout'[i].answers] = stdout'[i].id
    <2>1. /\ stdout \in Seq(Lines)
          /\ \A i \in 1..Len(stdout) :
                stdout[i].answers \in Callers => id[stdout[i].answers] = stdout[i].id
          BY DEF TypeOK, Traced
    <2>2. CASE ServerReads
      <3>1. stdout' = stdout
            BY <2>2 DEF ServerReads
      <3> QED BY <2>1, <3>1
    <2>3. CASE ServerAnswers
      <3>1. PICK c \in accepted : stdout' = Append(stdout, [id |-> id[c], answers |-> c])
            BY <2>3 DEF ServerAnswers
      <3>2. c \in Begun /\ c \in Callers /\ id[c] \in Ids
            BY <1>2, BegunFinite DEF Traced, Begun, TypeOK, Ids
      <3>3. [id |-> id[c], answers |-> c] \in Lines
            BY <3>2 DEF Lines
      <3> QED BY <2>1, <3>1, <3>3
    <2>4. CASE ServerAsks
      <3>1. PICK n \in Ids : stdout' = Append(stdout, [id |-> n, answers |-> Nobody])
            BY <2>4 DEF ServerAsks
      <3>2. [id |-> n, answers |-> Nobody] \in Lines /\ Nobody \notin Callers
            BY TransportAssumption DEF Lines
      <3> QED BY <2>1, <3>1, <3>2
    <2> QED BY <2>2, <2>3, <2>4
  <1>10. TypeOK'
        BY <1>1, <1>2, <1>5, <1>6, <1>7, <1>8, <1>9 DEF TypeOK
  <1>11. Traced'
        BY <1>1, <1>2, <1>7, <1>8, <1>9 DEF Traced
  <1> QED BY <1>3, <1>4, <1>10, <1>11

LEMMA NextStdioInv == StdioInv /\ [Next]_vars => StdioInv'
  <1> SUFFICES ASSUME StdioInv, [Next]_vars PROVE StdioInv'
      OBVIOUS
  <1>1. CASE UNCHANGED vars
    <2>1. Begun' = Begun
          BY <1>1 DEF Begun, vars, calls
    <2>2. TypeOK'
          BY <1>1 DEF StdioInv, TypeOK, vars, calls, transport, server
    <2>3. Numbered' /\ Traced'
          BY <1>1, <2>1 DEF StdioInv, Numbered, Traced, vars, calls, transport, server
    <2>4. Delivered' /\ PendingIsExact'
          BY <1>1 DEF StdioInv, Delivered, PendingIsExact, vars, calls, transport
    <2> QED BY <2>2, <2>3, <2>4 DEF StdioInv
  <1>2. ASSUME NEW c \in Callers, Begin(c) \/ Caller(c) \/ Drop(c) PROVE StdioInv'
        BY <1>2, BeginKeeps, WriterKeeps, EndingKeeps DEF Caller
  <1>3. CASE Read \/ ReadEnds \/ Closing \/ Server
        BY <1>3, ReadKeeps, ShutdownKeeps, ServerKeeps DEF Server
  <1> QED BY <1>1, <1>2, <1>3 DEF Next, Quiet

LEMMA StdioInvHolds == Spec => []StdioInv
  <1> QED BY InitStdioInv, NextStdioInv, PTL DEF Spec

(* The transport of stdio.rs keeps its types; in particular a caller holds *)
(* the stdin lock exactly while it is writing its line, whatever it is     *)
(* dropped, fails or closed in the middle of.                              *)
THEOREM TypesKept == Spec => []TypeOK
  <1>1. StdioInv => TypeOK
        BY DEF StdioInv
  <1> QED BY <1>1, StdioInvHolds, PTL

(* The pending map of stdio.rs is exact for any number of callers: every   *)
(* caller that waits is registered until its response is handed over, and  *)
(* no returned call leaves an entry behind.                                *)
THEOREM PendingExact == Spec => []PendingIsExact
  <1>1. StdioInv => PendingIsExact
        BY DEF StdioInv
  <1> QED BY <1>1, StdioInvHolds, PTL

(* No caller of request is ever handed the answer to the request of        *)
(* another, in whatever order answers, timeouts and requests of the server *)
(* arrive.                                                                 *)
THEOREM NoForeignAnswers == Spec => []AnswersAreOwn
  <1>1. StdioInv => AnswersAreOwn
        BY DEF StdioInv, Delivered, AnswersAreOwn
  <1> QED BY <1>1, StdioInvHolds, PTL

-----------------------------------------------------------------------------
(* While nobody has been dropped, bodies and newlines alternate on their   *)
(* way to the server: a newline comes first when a body has been read,     *)
(* and the last piece is a body exactly while its writer is about to end   *)
(* the line.                                                               *)
NobodyDropped == \A c \in Callers : at[c] # "dropped"
InLine == \E c \in Callers : at[c] = "newline"
OneAtMost == line = {} \/ \E c \in Callers : line = {c}
Alternates ==
    /\ \A i \in 1..(Len(pipe) - 1) : pipe[i].newline <=> ~pipe[i + 1].newline
    /\ pipe # <<>> => /\ pipe[1].newline <=> line # {}
                      /\ pipe[Len(pipe)].newline <=> ~InLine
    /\ pipe = <<>> => (line # {} <=> InLine)
Framed == NobodyDropped => ~garbled /\ OneAtMost /\ (alive => Alternates)

LEMMA InitFramed == Init => Framed
  <1> QED BY DEF Init, Framed, OneAtMost, Alternates, InLine

(* A step that leaves the pipe, the server and who is in a line alone.     *)
LEMMA FramingUntouched ==
    ASSUME Framed, UNCHANGED <<pipe, line, garbled>>, alive' => alive,
           NobodyDropped' => NobodyDropped /\ (alive' => (InLine' <=> InLine))
    PROVE  Framed'
  <1> QED BY DEF Framed, OneAtMost, Alternates

(* Who writes holds the lock, so that nobody else is in a line.            *)
LEMMA WriterFrames ==
    ASSUME StdioInv, Framed, NEW c \in Callers, WriteBody(c) \/ WriteNewline(c)
    PROVE  Framed'
  <1> SUFFICES ASSUME NobodyDropped' PROVE ~garbled' /\ OneAtMost' /\ (alive' => Alternates')
      BY DEF Framed
  <1>1. /\ at \in [Callers -> {"idle"} \cup Waiting \cup Ended]
        /\ \A d \in Callers : holder = d <=> at[d] \in {"body", "newline"}
        /\ pipe \in Seq(Pieces)
        BY DEF StdioInv, TypeOK
  <1>2. at[c] \in {"body", "newline"} /\ UNCHANGED server
        BY DEF WriteBody, WriteNewline
  <1>3. PICK l \in {"newline", "failed", "wait"} : at' = [at EXCEPT ![c] = l]
        BY DEF WriteBody, WriteNewline, Goto
  <1>4. \A d \in Callers \ {c} : at'[d] = at[d] /\ at[d] # "newline"
        BY <1>1, <1>2, <1>3
  <1>5. NobodyDropped
        BY <1>1, <1>2, <1>4 DEF NobodyDropped
  <1>6. ~garbled' /\ OneAtMost'
        BY <1>2, <1>5 DEF Framed, OneAtMost, server
  <1>7. InLine <=> at[c] = "newline"
        BY <1>4 DEF InLine
  <1>8. InLine' <=> at'[c] = "newline"
        BY <1>4 DEF InLine
  <1>9. ASSUME alive PROVE Alternates'
    <2>1. Alternates
          BY <1>5, <1>9 DEF Framed
    <2>2. CASE WriteBody(c)
      <3>1. pipe' = Append(pipe, Body(c)) /\ ~InLine /\ InLine' /\ ~Body(c).newline
            BY <1>1, <1>7, <1>8, <1>9, <2>2 DEF WriteBody, Goto, Body
      <3>2. Len(pipe') = Len(pipe) + 1 /\ pipe'[Len(pipe) + 1] = Body(c) /\ pipe' # <<>>
            /\ Len(pipe) \in Nat /\ \A i \in 1..Len(pipe) : pipe'[i] = pipe[i]
            BY <1>1, <3>1 DEF Body, Pieces
      <3>6. ~pipe'[Len(pipe) + 1].newline
            BY <3>1, <3>2
      <3>3. line' = line /\ (pipe = <<>> <=> Len(pipe) = 0)
            BY <1>1, <1>2 DEF server
      <3>4. \A i \in 1..(Len(pipe') - 1) : pipe'[i].newline <=> ~pipe'[i + 1].newline
        <4>1. ASSUME NEW i \in 1..Len(pipe), i < Len(pipe)
              PROVE  pipe'[i].newline <=> ~pipe'[i + 1].newline
              BY <2>1, <3>2, <4>1 DEF Alternates
        <4>2. ASSUME Len(pipe) > 0 PROVE pipe'[Len(pipe)].newline
          <5>1. pipe # <<>> /\ pipe'[Len(pipe)] = pipe[Len(pipe)]
                BY <3>2, <3>3, <4>2
          <5> QED BY <2>1, <3>1, <5>1 DEF Alternates
        <4> QED BY <3>2, <3>6, <4>1, <4>2
      <3>5. pipe'[1].newline <=> line # {}
        <4>1. CASE pipe = <<>>
              BY <2>1, <3>1, <3>2, <3>3, <3>6, <4>1 DEF Alternates
        <4>2. CASE pipe # <<>>
          <5>1. pipe'[1] = pipe[1]
                BY <3>2, <3>3, <4>2
          <5> QED BY <2>1, <4>2, <5>1 DEF Alternates
        <4> QED BY <4>1, <4>2
      <3> QED BY <3>1, <3>2, <3>3, <3>4, <3>5 DEF Alternates
    <2>3. CASE WriteNewline(c)
      <3>1. pipe' = Append(pipe, Newline) /\ InLine /\ ~InLine' /\ Newline.newline
            BY <1>1, <1>7, <1>8, <1>9, <2>3 DEF WriteNewline, Goto, Newline
      <3>2. Len(pipe') = Len(pipe) + 1 /\ pipe'[Len(pipe) + 1] = Newline /\ pipe' # <<>>
            /\ Len(pipe) \in Nat /\ \A i \in 1..Len(pipe) : pipe'[i] = pipe[i]
            BY <1>1, <3>1 DEF Newline, Pieces
      <3>3. line' = line /\ (pipe = <<>> <=> Len(pipe) = 0)
            BY <1>1, <1>2 DEF server
      <3>4. \A i \in 1..(Len(pipe') - 1) : pipe'[i].newline <=> ~pipe'[i + 1].newline
            BY <2>1, <3>1, <3>2, <3>3 DEF Alternates
      <3>5. pipe'[1].newline <=> line # {}
            BY <2>1, <3>1, <3>2, <3>3 DEF Alternates
      <3> QED BY <3>1, <3>2, <3>3, <3>4, <3>5 DEF Alternates
    <2> QED BY <2>2, <2>3
  <1> QED BY <1>2, <1>6, <1>9 DEF server

(* The server reads a body behind no other, and a newline behind one body. *)
LEMMA ServerFrames == StdioInv /\ Framed /\ ServerReads => Framed'
  <1> SUFFICES ASSUME StdioInv, Framed, ServerReads, NobodyDropped'
               PROVE ~garbled' /\ OneAtMost' /\ Alternates'
      BY DEF Framed
  <1>1. UNCHANGED <<at, alive>> /\ alive
        BY DEF ServerReads, calls
  <1>2. NobodyDropped /\ (InLine' <=> InLine)
        BY <1>1 DEF NobodyDropped, InLine
  <1>3. ~garbled /\ OneAtMost /\ Alternates
        BY <1>1, <1>2 DEF Framed
  <1>4. pipe \in Seq(Pieces) /\ pipe # <<>> /\ pipe' = Tail(pipe) /\ Head(pipe) = pipe[1]
        BY DEF ServerReads, StdioInv, TypeOK
  <1>5. /\ Len(pipe) \in Nat \ {0} /\ Len(pipe') = Len(pipe) - 1
        /\ \A i \in 1..Len(pipe') : pipe'[i] = pipe[i + 1]
        /\ pipe' \in Seq(Pieces)
        BY <1>4
  <1>9. pipe' = <<>> <=> Len(pipe') = 0
        BY <1>5
  <1>6. pipe[1] \in Pieces
        BY <1>4, <1>5
  <1>7. /\ line' # {} <=> ~pipe[1].newline
        /\ ~garbled' /\ OneAtMost'
    <2>1. CASE pipe[1].newline
      <3>1. PICK d \in Callers : line = {d}
        <4>1. line # {}
              BY <1>3, <1>4, <2>1 DEF Alternates
        <4> QED BY <1>3, <4>1 DEF OneAtMost
      <3>2. Cardinality(line) = 1
            BY <3>1, FS_Singleton
      <3> QED BY <1>3, <1>4, <2>1, <3>2 DEF ServerReads, OneAtMost
    <2>2. CASE ~pipe[1].newline
      <3>1. line = {} /\ line' = {pipe[1].by} /\ garbled' = garbled
        <4>1. line = {}
              BY <1>3, <1>4, <2>2 DEF Alternates
        <4> QED BY <1>4, <2>2, <4>1 DEF ServerReads
      <3>2. pipe[1].by \in Callers
            BY <1>6, <2>2 DEF Pieces, Newline, Body
      <3> QED BY <1>3, <2>2, <3>1, <3>2 DEF OneAtMost
    <2> QED BY <2>1, <2>2
  <1>8. Alternates'
    <2>1. \A i \in 1..(Len(pipe') - 1) : pipe'[i].newline <=> ~pipe'[i + 1].newline
          BY <1>3, <1>5 DEF Alternates
    <2>2. ASSUME pipe' # <<>> PROVE /\ pipe'[1].newline <=> line' # {}
                                    /\ pipe'[Len(pipe')].newline <=> ~InLine
      <3>1. Len(pipe') \in Nat \ {0} /\ Len(pipe) > 1
            BY <1>5, <1>9, <2>2
      <3>2. pipe'[1] = pipe[2] /\ pipe'[Len(pipe')] = pipe[Len(pipe)]
            BY <1>5, <3>1
      <3>3. pipe[1].newline <=> ~pipe[2].newline
            BY <1>3, <3>1, <1>5 DEF Alternates
      <3>4. pipe[Len(pipe)].newline <=> ~InLine
            BY <1>3, <1>4 DEF Alternates
      <3>5. pipe'[1].newline <=> line' # {}
            BY <1>7, <3>2, <3>3
      <3>6. pipe'[Len(pipe')].newline <=> ~InLine
            BY <3>2, <3>4
      <3> QED BY <3>5, <3>6
    <2>3. ASSUME pipe' = <<>> PROVE line' # {} <=> InLine
      <3>1. Len(pipe) = 1
            BY <1>5, <1>9, <2>3
      <3>2. pipe[1].newline <=> ~InLine
            BY <1>3, <1>4, <3>1 DEF Alternates
      <3> QED BY <1>7, <3>2
    <2> QED BY <1>2, <2>1, <2>2, <2>3 DEF Alternates
  <1> QED BY <1>7, <1>8

LEMMA NextFramed == StdioInv /\ Framed /\ [Next]_vars => Framed'
  <1> SUFFICES ASSUME StdioInv, Framed, [Next]_vars PROVE Framed'
      OBVIOUS
  <1>0. at \in [Callers -> {"idle"} \cup Waiting \cup Ended]
        BY DEF StdioInv, TypeOK
  <1>1. CASE UNCHANGED vars
    <2>1. UNCHANGED <<at, pipe, alive, line, garbled>>
          BY <1>1 DEF vars, calls, server
    <2> QED BY <2>1, FramingUntouched DEF NobodyDropped, InLine
  <1>2. ASSUME NEW c \in Callers,
               Begin(c) \/ TakeStdin(c) \/ WriteFails(c) \/ Return(c) \/ Expire(c) \/ GiveUp(c)
        PROVE  Framed'
    <2>1. UNCHANGED <<pipe, alive, line, garbled>>
          BY <1>2 DEF Begin, TakeStdin, WriteFails, Return, Expire, GiveUp, server
    <2>2. PICK l \in {"lock", "body", "failed", "error", "ok", "expired", "timeout"} :
              at' = [at EXCEPT ![c] = l]
          BY <1>2 DEF Begin, TakeStdin, WriteFails, Return, Expire, GiveUp, Goto
    <2>3. at[c] \notin {"newline", "dropped"}
          BY <1>2 DEF Begin, TakeStdin, WriteFails, Return, Expire, GiveUp
    <2>4. at'[c] = l /\ \A d \in Callers \ {c} : at'[d] = at[d]
          BY <1>0, <2>2
    <2>5. (NobodyDropped' => NobodyDropped) /\ (InLine' <=> InLine)
          BY <2>3, <2>4 DEF NobodyDropped, InLine
    <2> QED BY <2>1, <2>5, FramingUntouched
  <1>3. ASSUME NEW c \in Callers, Drop(c) PROVE Framed'
    <2>1. at'[c] = "dropped"
          BY <1>0, <1>3 DEF Drop, Goto
    <2> QED BY <2>1 DEF Framed, NobodyDropped
  <1>4. CASE Read \/ ReadEnds \/ Closing \/ ServerAnswers \/ ServerAsks
    <2>1. UNCHANGED <<at, line, garbled>>
          BY <1>4 DEF Read, ReadEnds, Closing, CloseStdin, CloseChild, CloseReader,
                      ServerAnswers, ServerAsks, calls, server
    <2>2. (pipe' = pipe /\ alive' = alive) \/ alive' = FALSE
          BY <1>4 DEF Read, ReadEnds, Closing, CloseStdin, CloseChild, CloseReader,
                      ServerAnswers, ServerAsks, server
    <2>3. (NobodyDropped' <=> NobodyDropped) /\ (InLine' <=> InLine)
          BY <2>1 DEF NobodyDropped, InLine
    <2>4. CASE alive' = FALSE
          BY <2>1, <2>3, <2>4 DEF Framed, OneAtMost
    <2>5. CASE pipe' = pipe /\ alive' = alive
          BY <2>1, <2>3, <2>5, FramingUntouched
    <2> QED BY <2>2, <2>4, <2>5
  <1>5. CASE ServerDies
    <2>1. UNCHANGED <<at, line, garbled>> /\ alive' = FALSE
          BY <1>5 DEF ServerDies, calls
    <2> QED BY <2>1 DEF Framed, NobodyDropped, OneAtMost
  <1>6. CASE Quiet
    <2>1. UNCHANGED <<at, pipe, alive, line, garbled>>
          BY <1>6 DEF Quiet, vars, calls, server
    <2> QED BY <2>1, FramingUntouched DEF NobodyDropped, InLine
  <1> QED BY <1>1, <1>2, <1>3, <1>4, <1>5, <1>6, WriterFrames, ServerFrames DEF Next, Caller, Server

(* Whoever writes, fails, times out or closes, the server reads one request*)
(* a line, for any number of callers and any pipe: only a caller dropped   *)
(* in the middle of write_line can run two of them together.               *)
THEOREM LinesStayWhole == Spec => []OnlyDroppedCallersGarble
  <1>1. Framed => OnlyDroppedCallersGarble
        BY DEF Framed, NobodyDropped, OnlyDroppedCallersGarble
  <1> QED BY <1>1, InitFramed, NextFramed, StdioInvHolds, PTL DEF Spec

(***************************************************************************)
(* http.rs, registry.rs, proxy.rs: who asks what of whom, and whose answer *)
(* comes back.                                                             *)
(***************************************************************************)
Names == Seq(STRING)
Bearers == {"unbuilt", "none", "token", "env"}
Kinds == {"unwritten", "none", "json", "sse", "status"}
Marks == {"mine", "error", "other", "junk", "quiet"}
Posts == [server : DOMAIN Servers, id : Nat, method : {"initialize", "notify", "list", "call"},
          tool : Names, by : Agents \cup {Loader}, bearer : Bearers,
          kind : Kinds, script : Seq(Marks)]
Waits == [busy : BOOLEAN, name : Names, server : Nat, id : Nat,
          got : {"nothing", "failed"} \cup Marks]

(* What the loader has built: connections, and proxies that keep the name  *)
(* they are registered under.                                              *)
LoadInv ==
    /\ next \in [DOMAIN Servers -> Nat]
    /\ bearer \in [DOMAIN Servers -> Bearers]
    /\ \A e \in DOMAIN registry : /\ registry[e].server \in DOMAIN Servers
                                  /\ registry[e].tool \in Servers[registry[e].server].tools
                                  /\ Exposed(registry[e].server, registry[e].tool) = e

(* A request is its caller's only one, and the one it waits for.           *)
Waited ==
    /\ \A p \in posts : p.by \in Agents => /\ calling[p.by].busy
                                            /\ calling[p.by].server = p.server
                                            /\ calling[p.by].id = p.id
    /\ \A p, q \in posts : p.by = q.by /\ p.by \in Agents => p = q

(* A JSON body is one answer; if it is to another request, that is noted.  *)
Noted ==
    \A p \in posts : p.kind = "json" =>
        /\ p.script \in {<<"mine">>, <<"error">>, <<"other">>}
        /\ p.script = <<"other">> => <<p.server, p.id>> \in misnumbered

HttpInv ==
    /\ LoadInv
    /\ posts \subseteq Posts /\ Waited /\ Noted /\ CallsFitTheirServer
    /\ \A p \in posts : p.method = "call" => p.by \in Agents
    /\ calling \in [Agents -> Waits] /\ RepliesAreOwn

LEMMA ServersTyped ==
    \A s \in DOMAIN Servers : /\ s \in Nat \ {0} /\ Servers[s].name \in Names
                              /\ Servers[s].tools \subseteq Names
  <1> SUFFICES ASSUME NEW s \in DOMAIN Servers
               PROVE  s \in Nat \ {0} /\ Servers[s].name \in Names /\ Servers[s].tools \subseteq Names
      OBVIOUS
  <1>1. s \in 1..Len(Servers) /\ Len(Servers) \in Nat
        BY McpHttpAssumption
  <1>2. Servers[s] \in [name : Seq(STRING), http : BOOLEAN, tools : SUBSET Seq(STRING), env : BOOLEAN]
    <2> DEFINE T == [name : Seq(STRING), http : BOOLEAN, tools : SUBSET Seq(STRING), env : BOOLEAN]
    <2>1. Servers \in Seq(T)
          BY McpHttpAssumption
    <2> HIDE DEF T
    <2>2. Servers[s] \in T
          BY <1>1, <2>1, ElementOfSeq
    <2> QED BY <2>2 DEF T
  <1> QED BY <1>1, <1>2 DEF Names

LEMMA InitHttp == HttpInit => HttpInv
  <1> SUFFICES ASSUME HttpInit PROVE HttpInv
      OBVIOUS
  <1>1. LoadInv
        BY DEF HttpInit, LoadInv, Bearers
  <1>2. posts \subseteq Posts /\ Waited /\ Noted /\ CallsFitTheirServer
        BY DEF HttpInit, Waited, Noted, CallsFitTheirServer
  <1>3. calling \in [Agents -> Waits] /\ RepliesAreOwn
    <2>1. <<>> \in Names
          BY DEF Names
    <2> QED BY <2>1 DEF HttpInit, Waits, Marks, RepliesAreOwn
  <1> QED BY <1>1, <1>2, <1>3 DEF HttpInv, HttpInit

(* A request goes out, over the connection of its server.                  *)
LEMMA SendingKeeps ==
    ASSUME HttpInv, NEW s \in DOMAIN Servers,
           NEW m \in {"initialize", "notify", "list", "call"}, NEW tool \in Names,
           NEW a \in Agents \cup {Loader}, Sends(s, m, tool, a)
    PROVE  /\ posts' \subseteq Posts /\ Noted' /\ next' \in [DOMAIN Servers -> Nat]
           /\ \E new : /\ posts' = posts \cup {new} /\ new.by = a /\ new.server = s
                       /\ new.id = next[s] /\ new.method = m /\ new.tool = tool
                       /\ new.bearer = bearer[s]
  <1> DEFINE new == Request(s, m, tool, a)
  <1>1. /\ new.server = s /\ new.method = m /\ new.tool = tool /\ new.by = a
        /\ new.bearer = bearer[s] /\ new.kind \in {"none", "unwritten"} /\ new.id = next[s]
        BY DEF Request
  <1>2. new \in Posts
    <2>1. next[s] \in Nat /\ bearer[s] \in Bearers /\ <<>> \in Seq(Marks)
          BY DEF HttpInv, LoadInv
    <2>2. (IF Servers[s].http THEN "none" ELSE "unwritten") \in Kinds
          BY DEF Kinds
    <2> QED BY <2>1, <2>2 DEF Request, Posts
  <1>3. posts' = posts \cup {new} /\ misnumbered' = misnumbered
        /\ next' = [next EXCEPT ![s] = @ + 1]
        BY DEF Sends
  <1> HIDE DEF new
  <1>4. Noted'
        BY <1>1, <1>3 DEF HttpInv, Noted
  <1>5. next' \in [DOMAIN Servers -> Nat]
        BY <1>3 DEF HttpInv, LoadInv
  <1> QED BY <1>1, <1>2, <1>3, <1>4, <1>5 DEF HttpInv

(* A request is put back: written, or with more or less of its answer.     *)
LEMMA RewritingKeeps ==
    ASSUME HttpInv, NEW p \in posts, NEW k \in Kinds, NEW sc \in Seq(Marks),
           posts' = (posts \ {p}) \cup {[p EXCEPT !.kind = k, !.script = sc]},
           UNCHANGED <<bearer, registry, next, calling>>, misnumbered \subseteq misnumbered',
           k = "json" => /\ sc \in {<<"mine">>, <<"error">>, <<"other">>}
                         /\ sc = <<"other">> => <<p.server, p.id>> \in misnumbered'
    PROVE  HttpInv'
  <1> DEFINE new == [p EXCEPT !.kind = k, !.script = sc]
  <1>1. p \in Posts
        BY DEF HttpInv
  <1>2. /\ new \in Posts /\ new.kind = k /\ new.script = sc
        /\ new.server = p.server /\ new.id = p.id /\ new.by = p.by /\ new.method = p.method
        /\ new.tool = p.tool /\ new.bearer = p.bearer
        BY <1>1 DEF Posts
  <1>3. posts' = (posts \ {p}) \cup {new}
        OBVIOUS
  <1> HIDE DEF new
  <1>4. Waited'
        BY <1>2, <1>3 DEF HttpInv, Waited
  <1>5. Noted'
        BY <1>2, <1>3 DEF HttpInv, Noted
  <1>6. CallsFitTheirServer'
        BY <1>2, <1>3 DEF HttpInv, CallsFitTheirServer
  <1>7. RepliesAreOwn' /\ LoadInv'
        BY DEF HttpInv, RepliesAreOwn, LoadInv
  <1>8. (\A q \in posts : q.method = "call" => q.by \in Agents)'
        BY <1>2, <1>3 DEF HttpInv
  <1> QED BY <1>2, <1>3, <1>4, <1>5, <1>6, <1>7, <1>8 DEF HttpInv

LEMMA HttpServerKeeps == HttpInv /\ (ServerStep \/ SkipStep) => HttpInv'
  <1> SUFFICES ASSUME HttpInv, ServerStep \/ SkipStep PROVE HttpInv'
      OBVIOUS
  <1>0. /\ \A x, y \in Marks : <<x>> \in Seq(Marks) /\ <<x, y>> \in Seq(Marks)
        /\ <<>> \in Seq(Marks)
        /\ {"mine", "error", "other", "junk", "quiet"} = Marks
        /\ {"none", "json", "sse", "status"} \subseteq Kinds
        BY DEF Marks, Kinds
  <1>1. ASSUME NEW p \in posts, Replies(p) PROVE HttpInv'
    <2>1. PICK a \in {"mine", "error"}, k \in {"json", "sse"} : Answered(p, k, <<a>>)
          BY <1>1 DEF Replies
    <2>2. <<a>> \in Seq(Marks) /\ <<a>> \in {<<"mine">>, <<"error">>} /\ a # "other"
          BY <1>0 DEF Marks
    <2>3. misnumbered' = misnumbered
          BY <1>1 DEF Replies
    <2> QED BY <1>0, <2>1, <2>2, <2>3, RewritingKeeps DEF Answered, load
  <1>2. ASSUME NEW p \in posts, RepliesBadly(p) PROVE HttpInv'
    <2>1. CASE Answered(p, "status", <<>>) /\ UNCHANGED misnumbered
          BY <1>0, <2>1, RewritingKeeps DEF Answered, load
    <2>2. CASE /\ Answered(p, "json", <<"other">>)
               /\ misnumbered' = misnumbered \cup {<<p.server, p.id>>}
      <3>1. <<"other">> \in Seq(Marks)
            BY <1>0
      <3> QED BY <1>0, <2>2, <3>1, RewritingKeeps DEF Answered, load
    <2>3. ASSUME NEW sc \in {<<>>, <<"quiet">>, <<"other", "mine">>, <<"junk", "mine">>},
                 Answered(p, "sse", sc), UNCHANGED misnumbered
          PROVE  HttpInv'
      <3>1. sc \in Seq(Marks)
            BY <1>0, <2>3
      <3> QED BY <1>0, <2>3, <3>1, RewritingKeeps DEF Answered, load
    <2> QED BY <1>2, <2>1, <2>2, <2>3 DEF RepliesBadly
  <1>3. ASSUME NEW p \in posts, Skips(p) PROVE HttpInv'
    <2>1. /\ p.kind = "sse" /\ p.script # <<>> /\ p \in Posts
          /\ posts' = (posts \ {p}) \cup {[p EXCEPT !.script = Tail(@)]}
          /\ UNCHANGED <<bearer, registry, next, calling, misnumbered>>
          BY <1>3 DEF Skips, load, HttpInv
    <2>2. Tail(p.script) \in Seq(Marks)
          BY <2>1 DEF Posts
    <2>3. [p EXCEPT !.script = Tail(@)] = [p EXCEPT !.kind = "sse", !.script = Tail(p.script)]
          BY <2>1 DEF Posts
    <2> QED BY <1>0, <2>1, <2>2, <2>3, RewritingKeeps
  <1>4. ASSUME NEW p \in posts, Written(p) PROVE HttpInv'
        BY <1>0, <1>4, RewritingKeeps DEF Written, Answered, load
  <1>5. ASSUME NEW s \in DOMAIN Servers, Deafens(s) PROVE HttpInv'
    <2>1. UNCHANGED <<bearer, registry, calling, posts, next, misnumbered>>
          BY <1>5 DEF Deafens, load, wire
    <2> QED BY <2>1 DEF HttpInv, LoadInv, Waited, Noted, CallsFitTheirServer, RepliesAreOwn
  <1> QED BY <1>1, <1>2, <1>3, <1>4, <1>5 DEF ServerStep, SkipStep, Open

(* The loader's request has ended.                                         *)
LEMMA HearingKeeps ==
    ASSUME HttpInv, NEW p \in posts, p.by = Loader, posts' = posts \ {p},
           UNCHANGED <<calling, next, misnumbered, bearer>>,
           registry' = registry \/ registry' = Registered(p.server)
    PROVE  HttpInv'
  <1>1. p \in Posts /\ p.server \in DOMAIN Servers
        BY DEF HttpInv, Posts
  <1>2. LoadInv'
    <2>1. CASE registry' = registry
          BY <2>1 DEF HttpInv, LoadInv
    <2>2. CASE registry' = Registered(p.server)
      <3> DEFINE s == p.server
                 names == {Exposed(s, tool) : tool \in Servers[s].tools}
                 R == Registered(s)
      <3>1. DOMAIN R = DOMAIN registry \cup names
            BY DEF Registered
      <3>2. ASSUME NEW e \in names
            PROVE  /\ R[e].server = s /\ R[e].tool \in Servers[s].tools
                   /\ Exposed(s, R[e].tool) = e
        <4>1. PICK tool \in Servers[s].tools : Exposed(s, tool) = e
              OBVIOUS
        <4> DEFINE chosen == CHOOSE x \in Servers[s].tools : Exposed(s, x) = e
        <4>2. chosen \in Servers[s].tools /\ Exposed(s, chosen) = e
              BY <4>1
        <4>3. R[e] = Proxy(s, chosen)
              BY DEF Registered
        <4> HIDE DEF chosen
        <4> QED BY <4>2, <4>3 DEF Proxy
      <3>3. ASSUME NEW e \in DOMAIN registry \ names PROVE R[e] = registry[e]
            BY DEF Registered
      <3> HIDE DEF R, names
      <3>4. registry' = R
            BY <2>2 DEF R
      <3> QED BY <1>1, <3>1, <3>2, <3>3, <3>4 DEF HttpInv, LoadInv
    <2> QED BY <2>1, <2>2
  <1>3. Waited' /\ Noted' /\ CallsFitTheirServer' /\ RepliesAreOwn'
        BY DEF HttpInv, Waited, Noted, CallsFitTheirServer, RepliesAreOwn
  <1>4. (\A q \in posts : q.method = "call" => q.by \in Agents)'
        BY DEF HttpInv
  <1> QED BY <1>2, <1>3, <1>4 DEF HttpInv

LEMMA LoadKeeps == HttpInv /\ LoadStep => HttpInv'
  <1> SUFFICES ASSUME HttpInv, LoadStep PROVE HttpInv'
      OBVIOUS
  <1>1. ASSUME NEW s \in DOMAIN Servers, Connect(s) PROVE HttpInv'
    <2>1. /\ bearer' = [bearer EXCEPT ![s] = Bearer(s)]
          /\ UNCHANGED <<registry, calling, posts, next, misnumbered>>
          BY <1>1 DEF Connect, wire
    <2>2. Bearer(s) \in Bearers
          BY DEF Bearer, Bearers
    <2>3. LoadInv'
          BY <2>1, <2>2 DEF HttpInv, LoadInv
    <2> QED BY <2>1, <2>3 DEF HttpInv, Waited, Noted, CallsFitTheirServer, RepliesAreOwn
  <1>2. ASSUME NEW s \in DOMAIN Servers, ConnectFails(s) \/ InitializedLine(s) PROVE HttpInv'
    <2>1. UNCHANGED <<bearer, registry, calling, posts, next, misnumbered>>
          BY <1>2 DEF ConnectFails, InitializedLine, Skip, wire
    <2> QED BY <2>1 DEF HttpInv, LoadInv, Waited, Noted, CallsFitTheirServer, RepliesAreOwn
  <1>3. ASSUME NEW s \in DOMAIN Servers, Initialize(s) \/ Initialized(s) \/ ListTools(s) PROVE HttpInv'
    <2>1. PICK m \in {"initialize", "notify", "list"} : Sends(s, m, <<>>, Loader)
          BY <1>3 DEF Initialize, Initialized, ListTools, Asks
    <2>2. UNCHANGED <<bearer, registry, calling>>
          BY <1>3 DEF Initialize, Initialized, ListTools, Asks, load
    <2>3. <<>> \in Names
          BY DEF Names
    <2>4. /\ posts' \subseteq Posts /\ Noted' /\ next' \in [DOMAIN Servers -> Nat]
          /\ \E new : posts' = posts \cup {new} /\ new.by = Loader /\ new.method = m
          BY <2>1, <2>3, SendingKeeps
    <2>5. PICK new : posts' = posts \cup {new} /\ new.by = Loader /\ new.method = m
          BY <2>4
    <2>6. Waited' /\ CallsFitTheirServer'
          /\ (\A p \in posts : p.method = "call" => p.by \in Agents)'
          BY <2>2, <2>5, McpHttpAssumption DEF HttpInv, Waited, CallsFitTheirServer
    <2>7. LoadInv' /\ RepliesAreOwn'
          BY <2>1, <2>2, <2>4 DEF HttpInv, LoadInv, RepliesAreOwn, Sends
    <2> QED BY <2>2, <2>4, <2>6, <2>7 DEF HttpInv
  <1>4. ASSUME NEW p \in posts, LoaderHears(p) \/ LoaderGivesUp(p) PROVE HttpInv'
    <2>1. /\ p.by = Loader /\ posts' = posts \ {p}
          /\ UNCHANGED <<calling, next, misnumbered>>
          BY <1>4 DEF LoaderHears, LoaderGivesUp
    <2>2. bearer' = bearer /\ registry' \in {registry, Registered(p.server)}
          BY <1>4 DEF LoaderHears, LoaderGivesUp, Skip
    <2> QED BY <2>1, <2>2, HearingKeeps
  <1> QED BY <1>1, <1>2, <1>3, <1>4 DEF LoadStep

(* A call goes out through its proxy.                                      *)
LEMMA CallKeeps ==
    ASSUME HttpInv, NEW a \in Agents, NEW e \in DOMAIN registry, Call(a, e)
    PROVE  HttpInv'
  <1> DEFINE s == registry[e].server
             made == [busy |-> TRUE, name |-> e, server |-> s, id |-> next[s], got |-> "nothing"]
  <1>1. /\ s \in DOMAIN Servers /\ registry[e].tool \in Servers[s].tools
        /\ registry[e].tool \in Names /\ s \in Nat /\ next[s] \in Nat
        /\ Exposed(s, registry[e].tool) = e
        BY ServersTyped DEF HttpInv, LoadInv
  <1>2. /\ ~calling[a].busy /\ Sends(s, "call", registry[e].tool, a)
        /\ calling' = [calling EXCEPT ![a] = made]
        /\ UNCHANGED <<bearer, registry>>
        BY DEF Call, load
  <1>3. /\ posts' \subseteq Posts /\ Noted' /\ next' \in [DOMAIN Servers -> Nat]
        /\ \E new : /\ posts' = posts \cup {new} /\ new.by = a /\ new.server = s
                    /\ new.id = next[s] /\ new.tool = registry[e].tool
        BY <1>1, <1>2, SendingKeeps
  <1>4. made \in Waits
    <2>1. e = Servers[s].name \o registry[e].tool /\ Servers[s].name \in Names
          BY <1>1, ServersTyped DEF Exposed
    <2>2. e \in Names
      <3>1. \A x, y \in Seq(STRING) : x \o y \in Seq(STRING)
            OBVIOUS
      <3> HIDE DEF s
      <3> QED BY <1>1, <2>1, <3>1 DEF Names
    <2>3. s \in Nat /\ next[s] \in Nat
          BY <1>1
    <2> HIDE DEF s
    <2> QED BY <2>2, <2>3 DEF Waits
  <1>5. \A p \in posts : p.by # a
        BY <1>2 DEF HttpInv, Waited
  <1>6. PICK new : /\ posts' = posts \cup {new} /\ new.by = a /\ new.server = s
                   /\ new.id = next[s] /\ new.tool = registry[e].tool
        BY <1>3
  <1>7. /\ made.busy /\ made.server = s /\ made.id = next[s] /\ made.got = "nothing"
        /\ made.name = e
        OBVIOUS
  <1> HIDE DEF made
  <1>8. /\ calling' \in [Agents -> Waits] /\ calling'[a] = made
        /\ \A b \in Agents \ {a} : calling'[b] = calling[b]
        BY <1>2, <1>4 DEF HttpInv
  <1>9. Waited' /\ (\A p \in posts : p.method = "call" => p.by \in Agents)'
        BY <1>5, <1>6, <1>7, <1>8 DEF HttpInv, Waited
  <1>10. RepliesAreOwn'
        BY <1>2, <1>7, <1>8 DEF HttpInv, RepliesAreOwn, Sends
  <1>11. LoadInv'
        BY <1>2, <1>3 DEF HttpInv, LoadInv
  <1>12. CallsFitTheirServer'
        BY <1>1, <1>5, <1>6, <1>7, <1>8 DEF HttpInv, CallsFitTheirServer
  <1> QED BY <1>3, <1>8, <1>9, <1>10, <1>11, <1>12 DEF HttpInv

(* A call returns with the answer to the request it waits for.             *)
LEMMA ReturnKeeps ==
    ASSUME HttpInv, NEW a \in Agents, NEW p \in posts,
           Hears(a, p) \/ GivesUp(a, p) \/ Dropped(a, p)
    PROVE  HttpInv'
  <1>1. PICK heard : /\ Returns(a, p, heard) /\ p.by = a
                     /\ heard = "failed" \/ heard = "nothing" \/ (heard = Outcome(p) /\ Ready(p))
        BY DEF Hears, GivesUp, Dropped
  <1>2. p \in Posts
        BY DEF HttpInv
  <1>3. heard \in {"nothing", "failed", "mine", "other"}
        /\ (heard = "other" => <<p.server, p.id>> \in misnumbered)
    <2> SUFFICES ASSUME heard = Outcome(p), Ready(p)
                 PROVE  /\ heard \in {"nothing", "failed", "mine", "other"}
                        /\ heard = "other" => <<p.server, p.id>> \in misnumbered
        BY <1>1
    <2>1. CASE p.kind = "status" \/ (p.kind = "sse" /\ p.script = <<>>)
          BY <2>1 DEF Outcome
    <2>2. CASE p.kind = "json"
      <3>1. p.script \in {<<"mine">>, <<"error">>, <<"other">>}
            /\ (p.script = <<"other">> => <<p.server, p.id>> \in misnumbered)
            BY <2>2 DEF HttpInv, Noted
      <3>2. \A x : <<x>> # <<>> /\ Head(<<x>>) = x
            OBVIOUS
      <3> QED BY <2>2, <3>1, <3>2 DEF Outcome
    <2>3. CASE SseEnds(p)
          BY <2>3 DEF SseEnds, Outcome
    <2> QED BY <2>1, <2>2, <2>3 DEF Ready
  <1>4. /\ calling' = [calling EXCEPT ![a].busy = FALSE, ![a].got = heard]
        /\ posts' = posts \ {p}
        /\ UNCHANGED <<bearer, registry, next, misnumbered>>
        BY <1>1 DEF Returns, load
  <1>5. /\ calling' \in [Agents -> Waits]
        /\ calling'[a].server = calling[a].server /\ calling'[a].id = calling[a].id
        /\ calling'[a].got = heard
        /\ \A b \in Agents \ {a} : calling'[b] = calling[b]
    <2> DEFINE made == [calling[a] EXCEPT !.busy = FALSE, !.got = heard]
    <2>1. calling[a] \in Waits /\ calling \in [Agents -> Waits]
          BY DEF HttpInv
    <2>2. made \in Waits /\ made.server = calling[a].server /\ made.id = calling[a].id /\ made.got = heard
          BY <1>3, <2>1 DEF Waits, Marks
    <2>3. calling' = [calling EXCEPT ![a] = made]
          BY <1>4, <2>1
    <2> HIDE DEF made
    <2> QED BY <2>1, <2>2, <2>3
  <1>6. Waited'
        BY <1>1, <1>4, <1>5 DEF HttpInv, Waited
  <1>7. RepliesAreOwn'
        BY <1>1, <1>3, <1>4, <1>5 DEF HttpInv, RepliesAreOwn, Waited
  <1>8. LoadInv' /\ Noted' /\ posts' \subseteq Posts
        /\ (\A q \in posts : q.method = "call" => q.by \in Agents)'
        BY <1>4 DEF HttpInv, LoadInv, Noted
  <1>9. CallsFitTheirServer'
    <2>1. \A q \in posts' : q.by = a => q = p
          BY <1>1, <1>4 DEF HttpInv, Waited
    <2> QED BY <1>4, <1>5, <2>1 DEF HttpInv, CallsFitTheirServer
  <1> QED BY <1>5, <1>6, <1>7, <1>8, <1>9 DEF HttpInv

LEMMA NextHttp == HttpInv /\ [HttpNext]_httpVars => HttpInv'
  <1> SUFFICES ASSUME HttpInv, [HttpNext]_httpVars PROVE HttpInv'
      OBVIOUS
  <1>1. CASE UNCHANGED httpVars \/ FlowStep
    <2>1. UNCHANGED <<bearer, registry, calling, posts, next, misnumbered>>
          BY <1>1 DEF httpVars, load, wire, FlowStep, Authorize, DiscoverMetadata, WaitForCallback,
                      CallbackFails, ExchangeCode, FlowFails, FlowAt
    <2> QED BY <2>1 DEF HttpInv, LoadInv, Waited, Noted, CallsFitTheirServer, RepliesAreOwn
  <1>2. ASSUME NEW a \in Agents, CallStep(a) PROVE HttpInv'
        BY <1>2, CallKeeps, ReturnKeeps DEF CallStep
  <1> QED BY <1>1, <1>2, HttpServerKeeps, LoadKeeps DEF HttpNext

(* Which connections send a token, and which the variable.                 *)
TokenInv ==
    /\ \A s \in DOMAIN bearer :
          /\ bearer[s] = "token" => s \in stored
          /\ bearer[s] = "env" /\ s \in stored => s \in overtaken
    /\ \A p \in posts :
          /\ p.server \in DOMAIN bearer
          /\ p.bearer = "env" => bearer[p.server] # "unbuilt"
    /\ TokenGoesFirst

(* No step but a connection and a request's start puts a bearer anywhere.  *)
LEMMA BearersKeep ==
    ASSUME TokenInv, UNCHANGED <<bearer, stored, overtaken>>,
           \A p \in posts' : \E q \in posts : q.server = p.server /\ q.bearer = p.bearer
    PROVE  TokenInv'
  BY DEF TokenInv, TokenGoesFirst

LEMMA SendingCarries ==
    ASSUME TokenInv, HttpInv, UNCHANGED <<bearer, stored, overtaken>>, NEW s \in DOMAIN Servers,
           \E new : posts' = posts \cup {new} /\ new.server = s /\ new.bearer = bearer[s]
    PROVE  TokenInv'
  <1>1. PICK new : posts' = posts \cup {new} /\ new.server = s /\ new.bearer = bearer[s]
        OBVIOUS
  <1>2. /\ s \in DOMAIN bearer
        /\ bearer[s] = "token" => s \in stored
        /\ bearer[s] = "env" /\ s \in stored => s \in overtaken
    <2>1. DOMAIN bearer = DOMAIN Servers
          BY DEF HttpInv, LoadInv
    <2> QED BY <2>1 DEF TokenInv
  <1>3. ASSUME NEW p \in posts'
        PROVE  /\ p.server \in DOMAIN bearer
               /\ p.bearer = "env" => bearer[p.server] # "unbuilt"
               /\ p.bearer = "token" => p.server \in stored
               /\ p.bearer = "env" /\ p.server \in stored => p.server \in overtaken
    <2>1. CASE p \in posts
          BY <2>1 DEF TokenInv, TokenGoesFirst
    <2>2. CASE p = new
          BY <1>1, <1>2, <2>2
    <2> QED BY <1>1, <2>1, <2>2
  <1> QED BY <1>3 DEF TokenInv, TokenGoesFirst

LEMMA TokenServers == HttpInv /\ TokenInv /\ (ServerStep \/ SkipStep) => TokenInv'
  <1> SUFFICES ASSUME HttpInv, TokenInv, ServerStep \/ SkipStep PROVE TokenInv'
      OBVIOUS
  <1>1. ASSUME NEW p \in posts, NEW k, NEW sc, Answered(p, k, sc) PROVE TokenInv'
    <2>1. [p EXCEPT !.kind = k, !.script = sc].server = p.server
          /\ [p EXCEPT !.kind = k, !.script = sc].bearer = p.bearer
          BY DEF HttpInv, Posts
    <2> QED BY <1>1, <2>1, BearersKeep DEF Answered, load, tokens
  <1>2. ASSUME NEW p \in posts, Skips(p) PROVE TokenInv'
    <2>1. [p EXCEPT !.script = Tail(@)].server = p.server
          /\ [p EXCEPT !.script = Tail(@)].bearer = p.bearer
          BY DEF HttpInv, Posts
    <2> QED BY <1>2, <2>1, BearersKeep DEF Skips, load, tokens
  <1>3. ASSUME NEW s \in DOMAIN Servers, Deafens(s) PROVE TokenInv'
        BY <1>3, BearersKeep DEF Deafens, load, wire, tokens
  <1> QED BY <1>1, <1>2, <1>3 DEF ServerStep, SkipStep, Replies, RepliesBadly, Written

LEMMA TokenLoads == HttpInv /\ TokenInv /\ LoadStep => TokenInv'
  <1> SUFFICES ASSUME HttpInv, TokenInv, LoadStep PROVE TokenInv'
      OBVIOUS
  <1>1. ASSUME NEW s \in DOMAIN Servers, Connect(s) PROVE TokenInv'
    <2>1. /\ bearer' = [bearer EXCEPT ![s] = Bearer(s)]
          /\ UNCHANGED <<posts, stored, overtaken>>
          BY <1>1 DEF Connect, wire, tokens
    <2>2. /\ Bearer(s) # "unbuilt" /\ (Bearer(s) = "token" => s \in stored)
          /\ Bearer(s) = "env" => s \notin stored
          BY DEF Bearer
    <2> HIDE DEF Bearer
    <2> QED BY <2>1, <2>2 DEF TokenInv, TokenGoesFirst
  <1>2. ASSUME NEW s \in DOMAIN Servers, ConnectFails(s) \/ InitializedLine(s) PROVE TokenInv'
        BY <1>2, BearersKeep DEF ConnectFails, InitializedLine, Skip, wire, tokens
  <1>3. ASSUME NEW s \in DOMAIN Servers, Initialize(s) \/ Initialized(s) \/ ListTools(s)
        PROVE  TokenInv'
    <2>1. PICK m \in {"initialize", "notify", "list"} : Sends(s, m, <<>>, Loader)
          BY <1>3 DEF Initialize, Initialized, ListTools, Asks
    <2>2. UNCHANGED <<bearer, stored, overtaken>>
          BY <1>3 DEF Initialize, Initialized, ListTools, Asks, load, tokens
    <2>3. <<>> \in Names
          BY DEF Names
    <2>4. \E new : posts' = posts \cup {new} /\ new.server = s /\ new.bearer = bearer[s]
          BY <2>1, <2>3, SendingKeeps
    <2> QED BY <2>2, <2>4, SendingCarries
  <1>4. ASSUME NEW p \in posts, LoaderHears(p) \/ LoaderGivesUp(p) PROVE TokenInv'
        BY <1>4, BearersKeep DEF LoaderHears, LoaderGivesUp, Skip, tokens
  <1> QED BY <1>1, <1>2, <1>3, <1>4 DEF LoadStep

LEMMA TokenCalls ==
    ASSUME HttpInv, TokenInv, NEW a \in Agents, CallStep(a)
    PROVE  TokenInv'
  <1>1. ASSUME NEW e \in DOMAIN registry, Call(a, e) PROVE TokenInv'
    <2> DEFINE s == registry[e].server
    <2>1. s \in DOMAIN Servers /\ registry[e].tool \in Names
          BY ServersTyped DEF HttpInv, LoadInv
    <2>2. Sends(s, "call", registry[e].tool, a) /\ UNCHANGED <<bearer, stored, overtaken>>
          BY <1>1 DEF Call, load, tokens
    <2>3. \E new : posts' = posts \cup {new} /\ new.server = s /\ new.bearer = bearer[s]
          BY <2>1, <2>2, SendingKeeps
    <2> QED BY <2>1, <2>2, <2>3, SendingCarries
  <1>2. ASSUME NEW p \in posts, Hears(a, p) \/ GivesUp(a, p) \/ Dropped(a, p) PROVE TokenInv'
        BY <1>2, BearersKeep DEF Hears, GivesUp, Dropped, Returns, load, tokens
  <1> QED BY <1>1, <1>2 DEF CallStep

(* merlion mcp oauth stores a token: a connection made before it is one    *)
(* that it overtakes.                                                      *)
LEMMA TokenFlows == TokenInv /\ FlowStep => TokenInv'
  <1> SUFFICES ASSUME TokenInv, FlowStep PROVE TokenInv'
      OBVIOUS
  <1>1. CASE ExchangeCode
    <2>1. /\ UNCHANGED <<bearer, posts>> /\ stored' = stored \cup {flow.server}
          /\ stored \subseteq stored' /\ overtaken \subseteq overtaken'
          /\ bearer[flow.server] # "unbuilt" => flow.server \in overtaken'
          BY <1>1 DEF ExchangeCode, load, wire
    <2> QED BY <2>1 DEF TokenInv, TokenGoesFirst
  <1>2. CASE ~ExchangeCode
        BY <1>2, BearersKeep DEF FlowStep, Authorize, DiscoverMetadata, WaitForCallback,
           CallbackFails, FlowFails, FlowAt, load, wire
  <1> QED BY <1>1, <1>2

LEMMA NextToken == HttpInv /\ TokenInv /\ [HttpNext]_httpVars => TokenInv'
  <1> SUFFICES ASSUME HttpInv, TokenInv, [HttpNext]_httpVars PROVE TokenInv'
      OBVIOUS
  <1>1. CASE UNCHANGED httpVars
        BY <1>1, BearersKeep DEF httpVars, load, wire, tokens
  <1> QED BY <1>1, TokenServers, TokenLoads, TokenCalls, TokenFlows DEF HttpNext

(* Whatever servers send and when, a call of http.rs returns the answer to *)
(* itself unless its server put another id into a JSON body; a proxy of    *)
(* proxy.rs asks a server that listed the called name's tool, whichever    *)
(* servers share the name; and a server with a token is not sent the       *)
(* variable's value, unless the token came after the connection: for any   *)
(* servers, names, callers and faults.                                     *)
THEOREM CallsStayUnmixed == HttpSpec => []CallsAreUnmixed
  <1>1. HttpInv /\ TokenInv => CallsAreUnmixed
        BY DEF HttpInv, TokenInv, CallsAreUnmixed
  <1>2. HttpInit => TokenInv
        BY DEF HttpInit, TokenInv, TokenGoesFirst
  <1> QED BY <1>1, <1>2, InitHttp, NextHttp, NextToken, PTL DEF HttpSpec
=============================================================================
