---------------------------- MODULE ChatSession ----------------------------
(***************************************************************************)
(* `merlion chat` and `merlion -z` (merlion-cli main.rs and tui/app.rs)    *)
(* over the session database (merlion-session lib.rs): one process at a    *)
(* time, with the console, the TUI or a script in front, one conversation  *)
(* in memory, its rows on disk, an agent run per user message, Ctrl+C,     *)
(* commands, exit, death of the process, --resume and --continue.  The     *)
(* agent is the contract of ChatProtocol, working on a snapshot of the     *)
(* conversation.                                                           *)
(***************************************************************************)
EXTENDS Conversation

CONSTANTS
    Sessions,    \* session ids (uuids) that can be drawn
    NoSession,   \* no process is running
    MaxInputs,   \* bound: messages the user sends
    MaxReply,    \* bound: messages one agent run adds (max_iterations)
    MaxSkills,   \* bound: skills a script preloads (-s)
    MaxCrashes   \* bound: deaths of the process

ASSUME SessionBounds == {MaxInputs, MaxReply, MaxSkills, MaxCrashes} \subseteq Nat
ASSUME NoSessionIsNone == NoSession \notin Sessions

VARIABLES
    frontend,   \* "console", "tui" or "oneshot", the -z of a script
    phase,      \* what the process is doing
    sid,        \* session_id of the process
    messages,   \* the conversation in memory
    skills,     \* skills a script has still to preload
    snapshot,   \* the copy the agent works on
    open,       \* calls of the snapshot's last turn without an answer
    over,       \* the agent run has returned
    saved,      \* messages of the snapshot already in the database
    rows,       \* ids in the sessions table
    db,         \* rows of the messages table, per session, in ord order
    cut,        \* sessions left with a turn whose calls are not all answered
    inputs,     \* messages the user has sent
    crashes     \* deaths of the process so far

store == <<rows, db>>
run == <<snapshot, open, over>>
bounds == <<inputs, crashes>>
Frontends == {"console", "tui", "oneshot"}
vars == <<frontend, phase, sid, messages, skills, run, saved, store, cut, bounds>>

Agent == INSTANCE ChatProtocol WITH history <- snapshot

Phases == {"closed", "loading", "idle", "running", "saving"}

Init ==
    /\ frontend \in Frontends
    /\ phase = "closed"
    /\ sid = NoSession
    /\ messages = <<>> /\ skills = 0 /\ snapshot = <<>> /\ open = <<>> /\ over = FALSE
    /\ saved = 0
    /\ rows = {}
    /\ db = [s \in Sessions |-> <<>>]
    /\ cut = {}
    /\ inputs = 0
    /\ crashes = 0

(* The locals of a turn are gone.                                          *)
EndRun == snapshot' = <<>> /\ open' = <<>> /\ over' = FALSE /\ saved' = 0

(* INSERT INTO messages with the next ord of the session.                  *)
Stored(s, m) == [db EXCEPT ![s] = Append(@, m)]

(* What a line typed at the prompt is, in the console and in the TUI,      *)
(* which has no case for /new and takes it for a command nobody knows.     *)
Lines == {"text", "/skill", "/typo", "/help", "/share", "/new", "/exit"}
ConsoleMeaning(line) ==
    IF line = "/exit" THEN "leave" ELSE IF line = "/new" THEN "new"
    ELSE IF line \in {"text", "/skill"} THEN "send" ELSE "local"
TuiMeaning(line) == IF line = "/new" THEN "local" ELSE ConsoleMeaning(line)
CanType(meaning) ==
    /\ phase = "idle"
    /\ \E line \in Lines :
        \/ frontend = "console" /\ ConsoleMeaning(line) = meaning
        \/ frontend = "tui" /\ TuiMeaning(line) = meaning

-----------------------------------------------------------------------------
(* A new row for a new id, nothing for --resume and --continue.  (A        *)
(* resumed id without a row fails its first INSERT on the foreign key and  *)
(* exits.)  A script brings its one message along.                         *)
Launch ==
    /\ phase = "closed"
    /\ frontend' \in Frontends
    /\ IF frontend' = "oneshot"
       THEN inputs < MaxInputs /\ inputs' = inputs + 1 /\ skills' \in 0..MaxSkills
       ELSE UNCHANGED <<inputs, skills>>
    /\ \E s \in Sessions : sid' = s /\ rows' = rows \cup {s}
    /\ phase' = "loading"
    /\ UNCHANGED <<messages, run, saved, db, cut, crashes>>

(* load_messages; an empty session first gets its system prompt.           *)
Load ==
    /\ phase = "loading"
    /\ IF db[sid] = <<>>
       THEN messages' = <<SystemMessage>> /\ db' = Stored(sid, SystemMessage)
       ELSE messages' = db[sid] /\ db' = db
    /\ phase' = "idle"
    /\ UNCHANGED <<frontend, sid, skills, run, saved, rows, cut, bounds>>

(* -z -s: the body of each skill is a system turn of its own, also in a    *)
(* session that is resumed.                                                *)
Preload ==
    /\ phase = "idle" /\ skills > 0
    /\ skills' = skills - 1
    /\ db' = Stored(sid, SystemMessage)
    /\ messages' = Append(messages, SystemMessage)
    /\ UNCHANGED <<frontend, phase, sid, run, saved, rows, cut, bounds>>

(* The user turn is stored, pushed, and the agent is started on a clone of *)
(* the conversation.                                                       *)
StartRun ==
    /\ messages' = Append(messages, UserMessage)
    /\ snapshot' = messages' /\ open' = <<>> /\ over' = FALSE
    /\ phase' = "running"
    /\ UNCHANGED <<frontend, sid, skills, saved, rows, cut, crashes>>

Say_RunFirst ==
    /\ CanType("send")
    /\ inputs < MaxInputs
    /\ inputs' = inputs + 1
    /\ StartRun /\ UNCHANGED db

(* A line that is not a command, or one that names a skill.                *)
Say ==
    /\ CanType("send")
    /\ inputs < MaxInputs
    /\ inputs' = inputs + 1
    /\ db' = Stored(sid, UserMessage)
    /\ StartRun

(* The prompt of a script.                                                 *)
SayOnce ==
    /\ phase = "idle" /\ frontend = "oneshot" /\ skills = 0
    /\ db' = Stored(sid, UserMessage)
    /\ StartRun
    /\ UNCHANGED inputs

-----------------------------------------------------------------------------
(* The agent's steps.  Which class of content it writes does not matter    *)
(* here, so one is enough.                                                 *)
Added == Len(snapshot) - Len(messages)
LastIs(content) == snapshot'[Len(snapshot')].content = content
Outside == UNCHANGED <<frontend, phase, sid, messages, skills, saved, store, cut, bounds>>

AgentTurn ==
    /\ phase = "running"
    /\ Added < MaxReply
    /\ Agent!Turn
    /\ LastIs(IF open' = <<>> THEN "text" ELSE "none")
    /\ Outside

AgentAnswer ==
    /\ phase = "running"
    /\ Agent!Answer
    /\ LastIs("result")
    /\ Outside

(* The provider fails or the budget is spent: only between two rounds.     *)
AgentGivesUp ==
    /\ phase = "running"
    /\ open = <<>>
    /\ Agent!Stop
    /\ Outside

(* run returned, Ok or Err alike.                                          *)
Return ==
    /\ phase = "running"
    /\ over
    /\ saved' = Len(messages)
    /\ phase' = "saving"
    /\ UNCHANGED <<frontend, sid, messages, skills, run, store, cut, bounds>>

(* Ctrl+C in the TUI: the run is dropped where it stands and what it had   *)
(* pushed so far is kept as the conversation.                              *)
Interrupt ==
    /\ phase = "running"
    /\ frontend = "tui"
    /\ ~over
    /\ cut' = IF open = <<>> THEN cut ELSE cut \cup {sid}
    /\ saved' = Len(messages)
    /\ phase' = "saving"
    /\ UNCHANGED <<frontend, sid, messages, skills, run, store, bounds>>

SaveOne_NoTools ==
    /\ phase = "saving"
    /\ saved < Len(snapshot)
    /\ db' = IF snapshot[saved + 1].role = "tool" THEN db ELSE Stored(sid, snapshot[saved + 1])
    /\ saved' = saved + 1
    /\ UNCHANGED <<frontend, phase, sid, messages, skills, run, rows, cut, bounds>>

(* for m in snapshot.iter().skip(start_len): one INSERT each.              *)
SaveOne ==
    /\ phase = "saving"
    /\ saved < Len(snapshot)
    /\ db' = Stored(sid, snapshot[saved + 1])
    /\ saved' = saved + 1
    /\ UNCHANGED <<frontend, phase, sid, messages, skills, run, rows, cut, bounds>>

(* *messages = snapshot                                                    *)
Stay ==
    /\ frontend # "oneshot"
    /\ messages' = snapshot
    /\ phase' = "idle"
    /\ EndRun
    /\ UNCHANGED <<frontend, sid, skills, store, cut, bounds>>
Settle_OnReply ==
    /\ phase = "saving"
    /\ saved = Len(snapshot)
    /\ snapshot[saved].role = "assistant"
    /\ Stay
Settle ==
    /\ phase = "saving"
    /\ saved = Len(snapshot)
    /\ Stay

-----------------------------------------------------------------------------
(* /new in the console: a second session gets a row and a system prompt,   *)
(* the memory is reset, and session_id stays what it was.  The TUI's       *)
(* resolve_input has no case for it.                                       *)
NewCommand ==
    /\ CanType("new")
    /\ \E s \in Sessions \ rows :
        /\ rows' = rows \cup {s}
        /\ db' = Stored(s, SystemMessage)
    /\ messages' = <<SystemMessage>>
    /\ UNCHANGED <<frontend, phase, sid, skills, run, saved, cut, bounds>>

Forget ==
    /\ phase' = "closed"
    /\ sid' = NoSession
    /\ messages' = <<>> /\ skills' = 0
    /\ EndRun
    /\ UNCHANGED <<frontend, store, inputs>>

(* /exit, Ctrl+C and end of input at the prompt.                           *)
Quit ==
    /\ CanType("leave")
    /\ Forget
    /\ UNCHANGED <<cut, crashes>>

(* A script prints the reply, or the error and exit status 1.              *)
EndOfScript ==
    /\ phase = "saving" /\ saved = Len(snapshot)
    /\ frontend = "oneshot"
    /\ Forget
    /\ UNCHANGED <<cut, crashes>>

(* The process dies, panics in a tool result, or leaves by `?` on a failed *)
(* INSERT or a terminal error.  A turn half stored is what makes a cut.    *)
HalfStored == phase = "saving" /\ ~CallsAnswered(SubSeq(snapshot, 1, saved), saved)
Die ==
    /\ phase # "closed"
    /\ crashes < MaxCrashes
    /\ crashes' = crashes + 1
    /\ cut' = IF HalfStored THEN cut \cup {sid} ELSE cut
    /\ Forget

AgentSteps == AgentTurn \/ AgentAnswer \/ AgentGivesUp
Next == \/ Launch \/ Load \/ Preload \/ Say \/ SayOnce \/ AgentSteps \/ Return \/ Interrupt \/ SaveOne \/ Settle
        \/ NewCommand \/ Quit \/ EndOfScript \/ Die

(* Provider and tools answer, and the process goes on with what it has     *)
(* begun; the user owes nothing.                                           *)
Spec == /\ Init /\ [][Next]_vars
        /\ WF_vars(AgentSteps)
        /\ WF_vars(Load \/ Preload \/ SayOnce \/ Return \/ SaveOne \/ Settle \/ EndOfScript)

-----------------------------------------------------------------------------
TypeOK ==
    /\ frontend \in Frontends /\ skills \in 0..MaxSkills
    /\ phase \in Phases
    /\ sid \in Sessions \cup {NoSession}
    /\ phase = "closed" <=> sid = NoSession
    /\ phase # "closed" => sid \in rows
    /\ messages \in Seq(Message) /\ snapshot \in Seq(Message) /\ open \in Seq(Calls)
    /\ over \in BOOLEAN
    /\ saved \in 0..Len(snapshot)
    /\ rows \subseteq Sessions
    /\ db \in [Sessions -> Seq(Message)]
    /\ cut \subseteq rows
    /\ inputs \in 0..MaxInputs /\ crashes \in 0..MaxCrashes

(* The conversation of the TUI and of a script on disk is the one in memory,*)
(* message by message, while it waits and while the agent runs (so a death in the  *)
(* middle of a run loses no word of the user), and the stored part of the  *)
(* turn while it is being saved: nothing lost, doubled or out of order.    *)
DiskFollowsMemory ==
    frontend # "console" =>
        /\ phase \in {"idle", "running"} => db[sid] = messages
        /\ phase = "saving" => db[sid] = SubSeq(snapshot, 1, saved)

(* The agent is about to ask the model.                                    *)
Asking == phase = "running" /\ ~over /\ open = <<>>

(* A conversation is only ever spoiled by Ctrl+C between a call and its    *)
(* answer or by a death while a turn is being saved: otherwise, across     *)
(* errors, quits, deaths and resumes, each request is complete.            *)
OnlyCutsSpoil == Asking /\ sid \notin cut => Complete(snapshot)

(* A user message does not leave the chat running for ever: its turn       *)
(* settles and the prompt comes back, unless the process ends; and a       *)
(* script, once started, always ends.                                      *)
TurnsSettle ==
    /\ phase = "running" ~> phase \in {"idle", "closed"}
    /\ phase # "closed" /\ frontend = "oneshot" ~> phase = "closed"
=============================================================================
