------------------------------ MODULE McpStdio ------------------------------
(***************************************************************************)
(* The stdio transport of merlion-mcp (stdio.rs): concurrent callers share *)
(* one child process.  A caller registers its request in the pending map,  *)
(* writes one line under the stdin lock and waits for the reader task to   *)
(* hand it the response with its id, or for its timeout.  Callers may be   *)
(* dropped at any await (a turn is interrupted), the server may answer     *)
(* late, out of order or never, send requests of its own, or die, and the  *)
(* transport may be closed under everybody's feet.                         *)
(***************************************************************************)
EXTENDS Integers, Sequences, FiniteSets

CONSTANTS
    Callers,   \* tasks that call request once
    Nobody,    \* the stdin lock is free
    PipeCap,   \* pieces of lines the server's stdin pipe holds
    MaxPings   \* bound: requests the server sends to the client

ASSUME TransportAssumption ==
    /\ IsFiniteSet(Callers)
    /\ Nobody \notin Callers
    /\ PipeCap \in Nat \ {0}
    /\ MaxPings \in Nat

Ids == 1..Cardinality(Callers)

VARIABLES
    at,        \* the await each caller is parked at, or how its call ended
    id,        \* the request id of each caller, 0 before it has one
    got,       \* what its oneshot channel holds
    nextId,    \* next_id
    pending,   \* ids in the pending map
    holder,    \* who holds the stdin lock
    stdinOpen, \* stdin has not been taken by close
    closing,   \* how far close has come
    reading,   \* the reader task runs
    pipe,      \* pieces of lines on their way to the server
    alive,     \* the child process runs
    line,      \* requests in the line the server is reading
    accepted,  \* requests the server has read and not answered
    garbled,   \* the server has read a line that was not one request
    stdout,    \* lines of the server on their way to the reader
    pings      \* requests the server has sent

calls == <<at, id, got>>
transport == <<nextId, pending, holder, stdinOpen, closing, reading>>
server == <<alive, line, accepted, garbled, pings>>
vars == <<calls, transport, pipe, server, stdout>>

Newline == [newline |-> TRUE, by |-> Nobody]
Body(c) == [newline |-> FALSE, by |-> c]
Pieces == {Newline} \cup {Body(c) : c \in Callers}
\* a line of the server: an id, and whose answer it is; a request of the
\* server's own parses as a response without result (Nobody)
Lines == [id : Ids, answers : Callers \cup {Nobody}]
Empty == [id |-> 0, answers |-> Nobody]

Init ==
    /\ at = [c \in Callers |-> "idle"]
    /\ id = [c \in Callers |-> 0]
    /\ got = [c \in Callers |-> Empty]
    /\ nextId = 1
    /\ pending = {}
    /\ holder = Nobody
    /\ stdinOpen = TRUE
    /\ closing = "no"
    /\ reading = TRUE
    /\ pipe = <<>>
    /\ alive = TRUE
    /\ line = {}
    /\ accepted = {}
    /\ garbled = FALSE
    /\ stdout = <<>>
    /\ pings = 0

Goto(c, l) == at' = [at EXCEPT ![c] = l]

-----------------------------------------------------------------------------
Begin_Unsynchronised(c) ==
    /\ at[c] = "idle"
    /\ id' = [id EXCEPT ![c] = nextId]
    /\ \E n \in {nextId, nextId + 1} : nextId' = n
    /\ pending' = pending \cup {nextId}
    /\ Goto(c, "lock")
    /\ UNCHANGED <<got, holder, stdinOpen, closing, reading, pipe, server, stdout>>

(* An id is drawn with fetch_add and the sender of a oneshot registered    *)
(* under it, before anything is written.                                   *)
Begin(c) ==
    /\ at[c] = "idle"
    /\ id' = [id EXCEPT ![c] = nextId]
    /\ nextId' = nextId + 1
    /\ pending' = pending \cup {nextId}
    /\ Goto(c, "lock")
    /\ UNCHANGED <<got, holder, stdinOpen, closing, reading, pipe, server, stdout>>

(* write_line: the stdin lock, then the transport may be closed.           *)
TakeStdin(c) ==
    /\ at[c] = "lock"
    /\ holder = Nobody
    /\ IF stdinOpen
       THEN Goto(c, "body") /\ holder' = c
       ELSE Goto(c, "failed") /\ holder' = holder
    /\ UNCHANGED <<id, got, nextId, pending, stdinOpen, closing, reading, pipe, server, stdout>>

WriteBody_Unlock(c) ==
    /\ at[c] = "body"
    /\ IF alive
       THEN Len(pipe) < PipeCap /\ pipe' = Append(pipe, Body(c)) /\ Goto(c, "newline")
       ELSE pipe' = pipe /\ Goto(c, "failed")
    /\ holder' = Nobody
    /\ UNCHANGED <<id, got, nextId, pending, stdinOpen, closing, reading, server, stdout>>

(* write_all(line): waits for room in the pipe, fails when nobody reads it *)
(* any more.                                                               *)
WriteBody(c) ==
    /\ at[c] = "body"
    /\ IF alive
       THEN Len(pipe) < PipeCap /\ pipe' = Append(pipe, Body(c)) /\ Goto(c, "newline") /\ holder' = holder
       ELSE pipe' = pipe /\ Goto(c, "failed") /\ holder' = Nobody
    /\ UNCHANGED <<id, got, nextId, pending, stdinOpen, closing, reading, server, stdout>>

(* write_all("\n") and flush; the lock is released.                        *)
WriteNewline(c) ==
    /\ at[c] = "newline"
    /\ IF alive
       THEN Len(pipe) < PipeCap /\ pipe' = Append(pipe, Newline) /\ Goto(c, "wait")
       ELSE pipe' = pipe /\ Goto(c, "failed")
    /\ holder' = Nobody
    /\ UNCHANGED <<id, got, nextId, pending, stdinOpen, closing, reading, server, stdout>>

(* A failed write takes the entry out of the map again.                    *)
WriteFails(c) ==
    /\ at[c] = "failed"
    /\ pending' = pending \ {id[c]}
    /\ Goto(c, "error")
    /\ UNCHANGED <<id, got, nextId, holder, stdinOpen, closing, reading, pipe, server, stdout>>

(* The oneshot has fired within the timeout.                               *)
Return(c) ==
    /\ at[c] = "wait"
    /\ got[c] # Empty
    /\ Goto(c, "ok")
    /\ UNCHANGED <<id, got, transport, pipe, server, stdout>>

(* The timeout elapses first; the map is locked a moment later.            *)
Expire(c) ==
    /\ at[c] = "wait"
    /\ got[c] = Empty
    /\ Goto(c, "expired")
    /\ UNCHANGED <<id, got, transport, pipe, server, stdout>>

GiveUp_KeepEntry(c) ==
    /\ at[c] = "expired"
    /\ Goto(c, "timeout")
    /\ UNCHANGED <<id, got, transport, pipe, server, stdout>>

GiveUp(c) ==
    /\ at[c] = "expired"
    /\ pending' = pending \ {id[c]}
    /\ Goto(c, "timeout")
    /\ UNCHANGED <<id, got, nextId, holder, stdinOpen, closing, reading, pipe, server, stdout>>

Waiting == {"lock", "body", "newline", "failed", "wait", "expired"}
Active == {c \in Callers : at[c] \in Waiting}

Drop_KeepLock(c) ==
    /\ c \in Active
    /\ Goto(c, "dropped")
    /\ UNCHANGED <<id, got, transport, pipe, server, stdout>>

(* The caller's future is dropped where it stands: the stdin lock is       *)
(* released, the pending entry stays.                                      *)
Drop(c) ==
    /\ c \in Active
    /\ Goto(c, "dropped")
    /\ holder' = IF holder = c THEN Nobody ELSE holder
    /\ UNCHANGED <<id, got, nextId, pending, stdinOpen, closing, reading, pipe, server, stdout>>

-----------------------------------------------------------------------------
(* The reader parses one line and hands it to whoever is registered under  *)
(* its id; a response nobody waits for is logged and dropped.              *)
Read ==
    /\ reading
    /\ stdout # <<>>
    /\ LET resp == Head(stdout)
       IN  /\ got' = [c \in Callers |-> IF id[c] = resp.id /\ resp.id \in pending
                                       THEN resp ELSE got[c]]
           /\ pending' = pending \ {resp.id}
    /\ stdout' = Tail(stdout)
    /\ UNCHANGED <<at, id, nextId, holder, stdinOpen, closing, reading, pipe, server>>

(* End of file.  Nobody is told: the callers wait for their timeout.       *)
ReadEnds ==
    /\ reading
    /\ ~alive
    /\ stdout = <<>>
    /\ reading' = FALSE
    /\ UNCHANGED <<calls, nextId, pending, holder, stdinOpen, closing, pipe, server, stdout>>

(* close: stdin is taken under its lock and shut down, the child killed,   *)
(* the reader aborted.                                                     *)
CloseStdin ==
    /\ closing = "no"
    /\ holder = Nobody
    /\ stdinOpen' = FALSE
    /\ closing' = "stdin"
    /\ UNCHANGED <<calls, nextId, pending, holder, reading, pipe, server, stdout>>

CloseChild ==
    /\ closing = "stdin"
    /\ alive' = FALSE
    /\ pipe' = <<>>
    /\ closing' = "child"
    /\ UNCHANGED <<calls, nextId, pending, holder, stdinOpen, reading,
                   line, accepted, garbled, pings, stdout>>

CloseReader ==
    /\ closing = "child"
    /\ reading' = FALSE
    /\ closing' = "done"
    /\ UNCHANGED <<calls, nextId, pending, holder, stdinOpen, pipe, server, stdout>>

-----------------------------------------------------------------------------
(* The child process.  It assembles lines, and understands those that are  *)
(* exactly one request.                                                    *)
ServerReads ==
    /\ alive
    /\ pipe # <<>>
    /\ LET p == Head(pipe)
       IN  IF ~p.newline
           THEN line' = line \cup {p.by} /\ UNCHANGED <<accepted, garbled>>
           ELSE /\ line' = {}
                /\ IF Cardinality(line) = 1
                   THEN accepted' = accepted \cup line /\ garbled' = garbled
                   ELSE accepted' = accepted /\ garbled' = TRUE
    /\ pipe' = Tail(pipe)
    /\ UNCHANGED <<calls, transport, alive, pings, stdout>>

ServerAnswers ==
    /\ alive
    /\ \E c \in accepted :
        /\ stdout' = Append(stdout, [id |-> id[c], answers |-> c])
        /\ accepted' = accepted \ {c}
    /\ UNCHANGED <<calls, transport, pipe, alive, line, garbled, pings>>

(* A request of the server to the client (ping), numbered by the server.   *)
ServerAsks ==
    /\ alive
    /\ pings < MaxPings
    /\ \E n \in Ids : stdout' = Append(stdout, [id |-> n, answers |-> Nobody])
    /\ pings' = pings + 1
    /\ UNCHANGED <<calls, transport, pipe, alive, line, accepted, garbled>>

ServerDies ==
    /\ alive
    /\ alive' = FALSE
    /\ pipe' = <<>>
    /\ UNCHANGED <<calls, transport, line, accepted, garbled, pings, stdout>>

-----------------------------------------------------------------------------
Caller(c) == \/ TakeStdin(c) \/ WriteBody(c) \/ WriteNewline(c) \/ WriteFails(c)
             \/ Return(c) \/ Expire(c) \/ GiveUp(c)
Closing == CloseStdin \/ CloseChild \/ CloseReader
Server == ServerReads \/ ServerAnswers \/ ServerAsks \/ ServerDies

(* Every call has ended and nothing is in flight.                          *)
Quiet == Active = {} /\ UNCHANGED vars

Next == \/ \E c \in Callers : Begin(c) \/ Caller(c) \/ Drop(c)
        \/ Read \/ ReadEnds \/ Closing \/ Server \/ Quiet

(* The runtime polls the callers, and their timers run; the server, as     *)
(* long as it lives, reads its input.  It need not answer, and nobody need *)
(* close the transport.                                                    *)
Spec == /\ Init /\ [][Next]_vars
        /\ \A c \in Callers : WF_vars(Caller(c))
        /\ WF_vars(ServerReads)

-----------------------------------------------------------------------------
Ended == {"ok", "error", "timeout", "dropped"}

(* Type invariant, and who holds the stdin lock.                           *)
TypeOK ==
    /\ at \in [Callers -> {"idle"} \cup Waiting \cup Ended]
    /\ id \in [Callers -> 0..Cardinality(Callers)]
    /\ got \in [Callers -> Lines \cup {Empty}]
    /\ nextId \in 1..(Cardinality(Callers) + 1)
    /\ pending \subseteq Ids
    /\ holder \in Callers \cup {Nobody}
    /\ \A c \in Callers : holder = c <=> at[c] \in {"body", "newline"}
    /\ closing \in {"no", "stdin", "child", "done"}
    /\ stdinOpen <=> closing = "no"
    /\ reading \in BOOLEAN /\ alive \in BOOLEAN /\ garbled \in BOOLEAN
    /\ pipe \in Seq(Pieces) /\ Len(pipe) <= PipeCap
    /\ line \subseteq Callers /\ accepted \subseteq Callers
    /\ stdout \in Seq(Lines)
    /\ pings \in 0..MaxPings

(* Concurrent callers never get each other's answers, however late and in  *)
(* whatever order they come.                                               *)
AnswersAreOwn ==
    \A c \in Callers : at[c] = "ok" => got[c].answers \in {c, Nobody}

(* The pending map is exact: a caller that still waits is in it until its  *)
(* response is handed over, and one that returned, with an answer, a write *)
(* error or a timeout, is not (only a dropped caller leaves its entry).    *)
PendingIsExact ==
    \A c \in Callers :
        /\ at[c] \in Waiting => (id[c] \in pending <=> got[c] = Empty)
        /\ at[c] \in Ended \ {"dropped"} => id[c] \notin pending

(* The server reads whole requests, one a line, whoever writes, fails,     *)
(* closes or times out; only a caller dropped in the middle of its line    *)
(* can run two of them together.                                           *)
OnlyDroppedCallersGarble ==
    garbled => \E c \in Callers : at[c] = "dropped"

(* Every call comes back: a server that dies, stays silent or answers      *)
(* late, a closed transport or a caller dropped with the lock in its hands *)
(* hold nobody for ever.                                                   *)
CallsReturn == []<>(Active = {})
=============================================================================
