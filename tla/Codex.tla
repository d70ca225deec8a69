------------------------------- MODULE Codex -------------------------------
(***************************************************************************)
(* CodexClient (merlion-llm/src/codex.rs): a request is answered by a      *)
(* `codex exec` child, which keeps a thread of its own.  The client        *)
(* remembers, in memory, the thread of each opening it has seen: a first   *)
(* turn replays the whole history into a new thread, a later one resumes   *)
(* the thread and sends the latest user message alone.  One client serves  *)
(* every conversation of a process: of a gateway, whose runs overlap, or   *)
(* of a chat, whose runs the user may interrupt.  The other clients of a   *)
(* fallback chain may answer a request too, and Codex does not hear.       *)
(***************************************************************************)
EXTENDS Integers, SequencesExt, FiniteSetsExt

CONSTANTS
    Conversations,
    Runs,       \* runs of the agent that may be under way at once
    Texts,      \* what a conversation may be opened with
    Nobody,     \* the conversation of a run that is not under way
    Follow,     \* what is said later: never what a conversation opens with
    MaxAsks,    \* bound: user turns
    MaxMishaps  \* bound: failures, other providers' turns, interrupts, deaths

ASSUME CodexAssumption == Nobody \notin Conversations /\ Follow \notin Texts

VARIABLES
    frontend, \* "chat" or "gateway"
    memory,   \* the messages of each conversation, in the process, if it has them
    disk,     \* the same, in sessions.db
    sessions, \* CodexClient.sessions: fingerprint -> thread, 0 if none
    threads,  \* Codex's threads: the messages each has taken in
    run,      \* each run: its conversation, its request, its child
    asks, mishaps,
    unserved, \* history: user messages of turns Codex was not alone to serve
    repeated, \* history: user messages Codex was asked about more than once
    clashed,  \* history: conversations with two runs at once
    answers   \* history: the messages a reply was given without

bounds == <<asks, mishaps>>
journal == <<unserved, repeated, clashed, answers>>
codexVars == <<frontend, memory, disk, sessions, threads, run, bounds, journal>>

Free == [of |-> Nobody, stage |-> "idle", request |-> <<>>, resumed |-> 0,
         thread |-> 0, child |-> "none"]

CodexInit ==
    /\ frontend \in {"chat", "gateway"}
    /\ memory = [c \in Conversations |-> <<>>]
    /\ disk = memory
    /\ sessions = [t \in Texts |-> 0]
    /\ threads = <<>>
    /\ run = [r \in Runs |-> Free]
    /\ asks = 0 /\ mishaps = 0
    /\ unserved = {} /\ repeated = {} /\ clashed = {} /\ answers = {}

Mishap == mishaps < MaxMishaps /\ mishaps' = mishaps + 1
IsUser(m) == m.who = "user"
UserAt(s) == {i \in 1..Len(s) : IsUser(s[i])}
Active(c) == {r \in Runs : run[r].of = c /\ run[r].stage \in {"asked", "reading"}}

\* the next message of a conversation: its number tells it from the others
Message(c, who, text) == [of |-> c, who |-> who, text |-> text, nth |-> Len(disk[c]) + 1]

-----------------------------------------------------------------------------
(* The front end.                                                          *)

(* What is not in memory is loaded: a chat's session when it is resumed,   *)
(* a dispatcher's whenever no run has put it back.                         *)
Found(c) == IF memory[c] = <<>> THEN disk[c] ELSE memory[c]

(* A user turn: stored, and put to the agent on a copy of the              *)
(* conversation. A chat keeps it in memory and has one run; the dispatcher *)
(* takes the conversation out of its map and has a run per message.        *)
UserTurn(r, c) ==
    /\ run[r] = Free
    /\ asks < MaxAsks
    /\ frontend = "chat" => \A o \in Conversations : Active(o) = {}
    /\ \E t \in IF Found(c) = <<>> THEN Texts ELSE {Follow} :
        LET said == Message(c, "user", t)
            request == Append(Found(c), said)
        IN  /\ disk' = [disk EXCEPT ![c] = Append(@, said)]
            /\ memory' = [memory EXCEPT ![c] = IF frontend = "chat" THEN request ELSE <<>>]
            /\ run' = [run EXCEPT ![r] = [Free EXCEPT !.of = c, !.stage = "asked",
                                                      !.request = request]]
    /\ asks' = asks + 1
    /\ clashed' = IF Active(c) = {} THEN clashed ELSE clashed \cup {c}
    /\ UNCHANGED <<frontend, sessions, threads, mishaps, unserved, repeated, answers>>

\* the user message a run was started for
Latest(r) == run[r].request[Max(UserAt(run[r].request))]

(* The run ends with these messages added to its request: stored, and made *)
(* the conversation.                                                       *)
Settle(r, added) ==
    LET c == run[r].of
        whole == run[r].request \o added
        own == Max(UserAt(whole))
    IN  /\ disk' = [disk EXCEPT ![c] = @ \o SubSeq(whole, own + 1, Len(whole))]
        /\ memory' = [memory EXCEPT ![c] = whole]

\* it ends without an answer: a chat keeps what there is, the dispatcher has it
\* loaded again
Abandon(r) == IF frontend = "chat" THEN Settle(r, <<>>) ELSE UNCHANGED <<memory, disk>>

-----------------------------------------------------------------------------
(* CodexClient::stream.                                                    *)

Fingerprint_OfSystem(request) == CHOOSE t \in Texts : TRUE
\* of the system prompt, which is the same for all, and the first user message
Fingerprint(request) == request[Min(UserAt(request))].text

Prompt_Latest(resumed, request) == <<request[Max(UserAt(request))]>>
\* resume sends latest_user_message; a new thread serialize_history: every
\* message in its order with its role and text (an assistant's calls are lost)
Prompt(resumed, request) ==
    IF resumed # 0 THEN <<request[Max(UserAt(request))]>> ELSE request

(* The thread is looked up and the child spawned without an await.         *)
Stream(r) ==
    /\ run[r].stage = "asked"
    /\ run[r].child = "none"
    /\ run' = [run EXCEPT ![r].stage = "reading", ![r].child = "starting",
                          ![r].resumed = sessions[Fingerprint(run[r].request)]]
    /\ UNCHANGED <<frontend, memory, disk, sessions, threads, bounds, journal>>

SpawnFails(r) ==
    /\ run[r].stage = "asked"
    /\ run[r].child = "none"
    /\ Mishap
    /\ run' = [run EXCEPT ![r].child = "ended"]
    /\ unserved' = unserved \cup {Latest(r)}
    /\ UNCHANGED <<frontend, memory, disk, sessions, threads, asks, repeated, clashed, answers>>

(* The child opens or resumes its thread, which takes the prompt in, and   *)
(* says "thread.started".                                                  *)
ThreadStarted(r) ==
    /\ run[r].child = "starting"
    /\ LET resumed == run[r].resumed
           prompt == Prompt(resumed, run[r].request)
       IN  /\ threads' = IF resumed # 0 THEN [threads EXCEPT ![resumed] = @ \o prompt]
                                        ELSE Append(threads, prompt)
           /\ run' = [run EXCEPT ![r].child = "working",
                                 ![r].thread = IF resumed # 0 THEN resumed
                                                              ELSE Len(threads) + 1]
    /\ UNCHANGED <<frontend, memory, disk, sessions, bounds, journal>>

\* the reply of the run's turn, as the thread and the conversation hold it
ReplyTo(r, who) == [of |-> run[r].of, who |-> who, text |-> Follow, nth |-> Latest(r).nth]

(* "item.completed" with an agent_message: the thread holds what it says.  *)
AgentMessage(r) ==
    /\ run[r].child = "working"
    /\ run' = [run EXCEPT ![r].child = "answered"]
    /\ threads' = [threads EXCEPT ![run[r].thread] = Append(@, ReplyTo(r, "codex"))]
    /\ UNCHANGED <<frontend, memory, disk, sessions, bounds, journal>>

(* "turn.failed", "error" or a line that cannot be read: the error is      *)
(* returned at once and the child is left to itself.                       *)
TurnFails(r) ==
    /\ run[r].stage = "reading"
    /\ run[r].child = "working"
    /\ Mishap
    /\ run' = [run EXCEPT ![r].stage = "asked", ![r].child = "ended"]
    /\ unserved' = unserved \cup {Latest(r)}
    /\ UNCHANGED <<frontend, memory, disk, sessions, threads, asks, repeated, clashed, answers>>

(* Stdout ends and the status is not 0: the error holds what stderr said.  *)
ExitFails(r) ==
    /\ run[r].stage = "reading"
    /\ run[r].child \in {"starting", "working", "answered"}
    /\ Mishap
    /\ run' = [run EXCEPT ![r].stage = "asked", ![r].child = "ended"]
    /\ unserved' = unserved \cup {Latest(r)}
    /\ UNCHANGED <<frontend, memory, disk, sessions, threads, asks, repeated, clashed, answers>>

\* only a thread that was not resumed is remembered
Remembered(r) ==
    IF run[r].resumed = 0
    THEN [sessions EXCEPT ![Fingerprint(run[r].request)] = run[r].thread]
    ELSE sessions

(* Status 0: the thread is remembered and its text, or a placeholder, is   *)
(* the answer.  Codex calls none of the agent's tools, so the run ends.    *)
Exit(r) ==
    /\ run[r].stage = "reading"
    /\ run[r].child \in {"working", "answered"}
    /\ sessions' = Remembered(r)
    /\ Settle(r, <<ReplyTo(r, IF run[r].child = "answered" THEN "codex" ELSE "blank")>>)
    /\ answers' = answers \cup {ToSet(run[r].request) \ ToSet(threads[run[r].thread])}
    /\ run' = [run EXCEPT ![r] = Free]
    /\ UNCHANGED <<frontend, threads, bounds, unserved, repeated, clashed>>

(* Stderr is read only after stdout has ended: a child that fills its pipe *)
(* waits for a reader, and the client for the end of stdout.               *)
Stall(r) ==
    /\ run[r].child = "working"
    /\ Mishap
    /\ run' = [run EXCEPT ![r].child = "stalled"]
    /\ UNCHANGED <<frontend, memory, disk, sessions, threads, asks, journal>>

-----------------------------------------------------------------------------
(* What happens around it.                                                 *)

(* Another client of the chain answers: before Codex was asked, or after   *)
(* its error looked retriable.                                             *)
OtherAnswers(r) ==
    /\ run[r].stage = "asked"
    /\ Mishap
    /\ Settle(r, <<ReplyTo(r, "other")>>)
    /\ unserved' = unserved \cup {Latest(r)}
    /\ run' = [run EXCEPT ![r] = Free]
    /\ UNCHANGED <<frontend, sessions, threads, asks, repeated, clashed, answers>>

(* It answers with tool calls: their results are added and the chain is    *)
(* asked again, from its first client.                                     *)
OtherCalls(r) ==
    /\ run[r].stage = "asked"
    /\ Mishap
    /\ run' = [run EXCEPT ![r].child = "none",
                          ![r].request = @ \o <<ReplyTo(r, "other"), ReplyTo(r, "tool")>>]
    /\ repeated' = repeated \cup {Latest(r)}
    /\ UNCHANGED <<frontend, memory, disk, sessions, threads, asks, unserved, clashed, answers>>

(* No client is left: the run fails.                                       *)
RunFails(r) ==
    /\ run[r].stage = "asked"
    /\ run[r].child = "ended"
    /\ Abandon(r)
    /\ run' = [run EXCEPT ![r] = Free]
    /\ UNCHANGED <<frontend, sessions, threads, bounds, journal>>

(* Ctrl+C in a chat drops the request; nobody kills the child.             *)
UserStops(r) ==
    /\ frontend = "chat"
    /\ run[r].stage = "reading"
    /\ Mishap
    /\ Abandon(r)
    /\ run' = [run EXCEPT ![r].stage = "dropped"]
    /\ unserved' = unserved \cup {Latest(r)}
    /\ UNCHANGED <<frontend, sessions, threads, asks, repeated, clashed, answers>>

\* a child nobody waits for comes to its end
LeftEnds(r) ==
    /\ run[r].stage = "dropped"
    /\ run[r].child # "starting"
    /\ run' = [run EXCEPT ![r] = Free]
    /\ UNCHANGED <<frontend, memory, disk, sessions, threads, bounds, journal>>

(* The process dies and is started again: the map is empty, the            *)
(* conversations are what is on disk, and its children go on.              *)
Restart ==
    /\ Mishap
    /\ sessions' = [t \in Texts |-> 0]
    /\ memory' = [c \in Conversations |-> <<>>]
    /\ run' = [r \in Runs |-> IF run[r].stage \in {"reading", "dropped"}
                              THEN [run[r] EXCEPT !.stage = "dropped"] ELSE Free]
    /\ unserved' = unserved \cup {Latest(r) : r \in {s \in Runs : run[s].of # Nobody}}
    /\ UNCHANGED <<frontend, disk, threads, asks, repeated, clashed, answers>>

CodexNext ==
    \/ Restart
    \/ \E r \in Runs :
        \/ \E c \in Conversations : UserTurn(r, c)
        \/ Stream(r) \/ SpawnFails(r)
        \/ ThreadStarted(r) \/ AgentMessage(r) \/ Stall(r)
        \/ TurnFails(r) \/ ExitFails(r) \/ Exit(r)
        \/ OtherAnswers(r) \/ OtherCalls(r) \/ RunFails(r)
        \/ UserStops(r) \/ LeftEnds(r)

CodexSpec == CodexInit /\ [][CodexNext]_codexVars

-----------------------------------------------------------------------------
(* Properties.                                                             *)

\* what a conversation has been opened with
Openings(c) == {m.text : m \in {d \in ToSet(disk[c]) : d.who = "user"}} \ {Follow}

(* A thread holds the messages of one conversation, unless two were opened *)
(* with the same words (fingerprint): whatever runs overlap, fail or are   *)
(* interrupted, a reply is not given from a stranger's conversation.       *)
SharedThreadsOpenAlike ==
    \A i \in 1..Len(threads) : \A m, n \in ToSet(threads[i]) :
        m.of # n.of => Openings(m.of) \cap Openings(n.of) # {}

(* Codex answers knowing the whole conversation (stream's two prompts):    *)
(* what it has not taken in was said by another client or its tools, is a  *)
(* placeholder of stream's own, belongs to a turn Codex did not serve, or  *)
(* the conversation had two runs at once or another's opening.             *)
RepliesKnowTheConversation ==
    \A missing \in answers : \A m \in missing :
        \/ m.who \in {"other", "tool", "blank"}
        \/ m \in unserved
        \/ m.of \in clashed
        \/ \E c \in Conversations \ {m.of} : Openings(c) \cap Openings(m.of) # {}

(* A thread hears what the user said once, unless another client's tool    *)
(* calls led the agent to ask for the same turn again or two runs of the   *)
(* conversation overlapped: a resumed thread is not told what it knows     *)
(* (stream).                                                               *)
HeardOnce ==
    \A i \in 1..Len(threads) : \A j, k \in 1..Len(threads[i]) :
        /\ j < k
        /\ threads[i][j] = threads[i][k]
        /\ IsUser(threads[i][j])
        => threads[i][j] \in repeated \/ threads[i][j].of \in clashed

(* A thread is one conversation, told once: the two parts above.           *)
ThreadsAreConversations == SharedThreadsOpenAlike /\ HeardOnce
=============================================================================
