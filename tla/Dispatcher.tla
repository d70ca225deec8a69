----------------------------- MODULE Dispatcher -----------------------------
(***************************************************************************)
(* The gateway's Dispatcher (merlion-gateway dispatcher.rs, joinkeys.rs,   *)
(* allowlist.rs) over the session database.  run spawns one task per       *)
(* incoming message, so tasks of one user and of several users interleave  *)
(* at every lock and every await; each action below is what a task does    *)
(* between two of them.  The in-memory map, the join store and the         *)
(* database each have a mutex of their own.  The process may die at any    *)
(* moment and is started again on the same files.                          *)
(***************************************************************************)
EXTENDS Conversation, SequencesExt

CONSTANTS
    Users,        \* accounts, each on its platform; an account names its own session too
    Permitted,    \* the allowlist
    Shared,       \* sessions started in the CLI
    Keys,         \* join keys
    InitialKeys,  \* the keys of the attached JoinKeyStore and the session of each
    Traffic,      \* the messages that may arrive: [user, cmd, key]
    NoKey,
    NoSession,
    AgentRuns,    \* what a run that returns Ok may append
    MaxMessages,  \* bound: messages that arrive
    MaxChats,     \* bound: those of them that are not commands
    MaxLive,      \* bound: tasks at work at the same time
    MaxMishaps    \* bound: failed operations (database, file, panic) and deaths

Sessions == Users \cup Shared
Tasks == 1..MaxMessages
Commands == {"chat", "new", "join", "leave", "help"}

ASSUME DispatcherAssumption ==
    /\ Permitted \subseteq Users
    /\ Traffic \subseteq [user : Users, cmd : Commands, key : Keys \cup {NoKey}]
    /\ \A x \in Traffic : x.cmd = "join" => x.key \in Keys
    /\ InitialKeys \in [Keys -> Shared \cup {NoSession}]
    /\ \A r \in AgentRuns :
        /\ r \in Seq(Message) /\ Complete(r)
        /\ \A i \in DOMAIN r : r[i].role \in {"assistant", "tool"}
    /\ NoSession \notin Sessions
    /\ MaxMessages \in Nat /\ MaxChats \in Nat /\ MaxLive \in Nat /\ MaxMishaps \in Nat

VARIABLES
    incoming,    \* the messages received so far
    pc,          \* where the task of each message stands
    sid,         \* session_id the task resolved
    mem,         \* session_state.messages of the task
    todo,        \* new messages of the agent run not yet persisted
    cache,       \* the in-memory sessions map; <<>> where there is no entry
    rows,        \* ids in the sessions table
    db,          \* rows of the messages table, per session, in ord order
    keys,        \* JoinKeyStore.keys
    bindings,    \* JoinKeyStore.bindings
    file,        \* join_keys.yaml: the keys and the bindings last saved
    faults,      \* failures so far
    crashes,     \* deaths so far
    overlapped,  \* sessions two tasks have held in memory at once
    broken,      \* sessions a turn of which was only partly stored
    invited      \* account and session of every key redeemed

locals == <<incoming, pc, sid, mem, todo>>
disk == <<rows, db>>
joins == <<keys, bindings, file>>
notes == <<overlapped, broken, invited>>
vars == <<locals, cache, disk, joins, faults, crashes, notes>>

(* A stored message with the number of the incoming message it belongs to, *)
(* 0 for what the gateway did not receive.                                 *)
Tagged(t, m) == [by |-> t, msg |-> m]
Entry == [by : 0..MaxMessages, msg : Message]
Untagged(es) == [i \in DOMAIN es |-> es[i].msg]
By(es) == {es[i].by : i \in DOMAIN es}

EarlierChat == <<Tagged(0, SystemMessage), Tagged(0, UserMessage),
                 Tagged(0, AssistantMessage(TRUE, <<>>))>>

Init ==
    /\ incoming = <<>>
    /\ pc = [t \in Tasks |-> "none"]
    /\ sid = [t \in Tasks |-> NoSession]
    /\ mem = [t \in Tasks |-> <<>>]
    /\ todo = [t \in Tasks |-> <<>>]
    /\ cache = [s \in Sessions |-> <<>>]
    /\ rows = Shared
    /\ db = [s \in Sessions |-> IF s \in Shared THEN EarlierChat ELSE <<>>]
    /\ keys = InitialKeys
    /\ bindings = [u \in Users |-> NoSession]
    /\ file = [keys |-> keys, bindings |-> bindings]
    /\ faults = 0
    /\ crashes = 0
    /\ overlapped = {} /\ broken = {} /\ invited = {}

-----------------------------------------------------------------------------
Author(t) == incoming[t].user
Cmd(t) == incoming[t].cmd
Key(t) == incoming[t].key
Live == {t \in Tasks : pc[t] \notin {"none", "done", "failed", "lost"}}
Goto(t, l) == pc' = [pc EXCEPT ![t] = l]
Fault == faults + crashes < MaxMishaps /\ faults' = faults + 1

DbFree_Always == TRUE

(* A task between create_session and the append of the system prompt holds *)
(* the database's mutex; every other use of the database is one step.      *)
DbFree == \A t \in Tasks : pc[t] # "greet"
Stored(s, e) == [db EXCEPT ![s] = Append(@, e)]

(* The task is over: its locals are gone.                                  *)
End(t, l) ==
    /\ Goto(t, l)
    /\ sid' = [sid EXCEPT ![t] = NoSession]
    /\ mem' = [mem EXCEPT ![t] = <<>>]
    /\ todo' = [todo EXCEPT ![t] = <<>>]
    /\ UNCHANGED incoming

(* The next message is received and its task spawned; an account that is   *)
(* not on the allowlist only gets a refusal.                               *)
Receive(t) ==
    /\ t = Len(incoming) + 1
    /\ Cardinality(Live) < MaxLive
    /\ \E x \in Traffic :
        /\ x.cmd = "chat" => Cardinality({o \in DOMAIN incoming : Cmd(o) = "chat"}) < MaxChats
        /\ incoming' = Append(incoming, x)
        /\ Goto(t, IF x.user \in Permitted THEN "resolve" ELSE "reply")
    /\ UNCHANGED <<sid, mem, todo, cache, disk, joins, faults, crashes, notes>>

(* resolve_session_id under the join store's lock, and the parsing of the  *)
(* slash command.                                                          *)
After(cmd) == CASE cmd = "chat"  -> "load"
                [] cmd = "new"   -> "uncache"
                [] cmd = "join"  -> "consume"
                [] cmd = "leave" -> "unbind"
                [] cmd = "help"  -> "reply"
Resolve(t) ==
    /\ pc[t] = "resolve"
    /\ LET u == Author(t)
       IN  sid' = [sid EXCEPT ![t] = IF bindings[u] # NoSession THEN bindings[u] ELSE u]
    /\ Goto(t, After(Cmd(t)))
    /\ UNCHANGED <<incoming, mem, todo, cache, disk, joins, faults, crashes, notes>>

-----------------------------------------------------------------------------
(* store.save, whose failure is only logged.                               *)
Save ==
    \/ file' = [keys |-> keys', bindings |-> bindings'] /\ UNCHANGED faults
    \/ file' = file /\ Fault

(* /join: consume removes the key; one that has not expired binds the      *)
(* account to its session.                                                 *)
Consume(t) ==
    /\ pc[t] = "consume"
    /\ keys' = [keys EXCEPT ![Key(t)] = NoSession]
    /\ \/ /\ keys[Key(t)] # NoSession
          /\ bindings' = [bindings EXCEPT ![Author(t)] = keys[Key(t)]]
          /\ invited' = invited \cup {<<Author(t), keys[Key(t)]>>}
          /\ Save
          /\ Goto(t, "uncache")
       \/ /\ Goto(t, "reply")
          /\ UNCHANGED <<bindings, file, invited, faults>>
    /\ UNCHANGED <<incoming, sid, mem, todo, cache, disk, crashes,
                   overlapped, broken>>

(* /leave: back to the account's own session.                              *)
Unbind(t) ==
    /\ pc[t] = "unbind"
    /\ bindings' = [bindings EXCEPT ![Author(t)] = NoSession]
    /\ keys' = keys
    /\ Save
    /\ Goto(t, "uncache")
    /\ UNCHANGED <<incoming, sid, mem, todo, cache, disk, crashes, notes>>

(* /new, /join and /leave end by dropping the cached state of the session  *)
(* that was resolved before the command ran.                               *)
Uncache(t) ==
    /\ pc[t] = "uncache"
    /\ cache' = [cache EXCEPT ![sid[t]] = <<>>]
    /\ Goto(t, "reply")
    /\ UNCHANGED <<incoming, sid, mem, todo, disk, joins, faults, crashes,
                   overlapped, broken, invited>>

-----------------------------------------------------------------------------
(* From the look into the map until the state is put back a task holds its *)
(* session; nothing keeps a second task from holding it too.               *)
Holding == {"open", "greet", "say", "run", "save"}
NoteOverlap(t) ==
    overlapped' = IF \E o \in Tasks \ {t} : sid[o] = sid[t] /\ pc[o] \in Holding
                  THEN overlapped \cup {sid[t]} ELSE overlapped

Load_Copy(t) ==
    /\ pc[t] = "load"
    /\ IF cache[sid[t]] # <<>>
       THEN /\ mem' = [mem EXCEPT ![t] = cache[sid[t]]]
            /\ Goto(t, "say")
       ELSE Goto(t, "open") /\ mem' = mem
    /\ NoteOverlap(t)
    /\ UNCHANGED <<incoming, sid, todo, cache, disk, joins, faults, crashes,
                   broken, invited>>

(* load_state: the cached entry is taken out of the map.                   *)
Load(t) ==
    /\ pc[t] = "load"
    /\ IF cache[sid[t]] # <<>>
       THEN /\ mem' = [mem EXCEPT ![t] = cache[sid[t]]]
            /\ cache' = [cache EXCEPT ![sid[t]] = <<>>]
            /\ Goto(t, "say")
       ELSE Goto(t, "open") /\ UNCHANGED <<mem, cache>>
    /\ NoteOverlap(t)
    /\ UNCHANGED <<incoming, sid, todo, disk, joins, faults, crashes,
                   broken, invited>>

(* create_session: a plain INSERT, which needs the row to be new.          *)
InsertSession(s) == s \notin rows /\ rows' = rows \cup {s}

(* load_state without an entry: what is on disk, or, when nothing is, a    *)
(* new row; a row that is there already makes the task fail.               *)
Open(t) ==
    /\ pc[t] = "open"
    /\ DbFree
    /\ LET s == sid[t]
       IN  \/ /\ db[s] # <<>>
              /\ mem' = [mem EXCEPT ![t] = db[s]]
              /\ Goto(t, "say")
              /\ UNCHANGED <<incoming, sid, todo, rows>>
           \/ /\ db[s] = <<>>
              /\ InsertSession(s)
              /\ Goto(t, "greet")
              /\ UNCHANGED <<incoming, sid, mem, todo>>
           \/ /\ db[s] = <<>>
              /\ s \in rows
              /\ End(t, "failed")
              /\ rows' = rows
    /\ UNCHANGED <<cache, db, joins, faults, crashes, notes>>

Greet_InMemory(t) ==
    /\ pc[t] = "greet"
    /\ mem' = [mem EXCEPT ![t] = <<Tagged(0, SystemMessage)>>]
    /\ Goto(t, "say")
    /\ UNCHANGED <<incoming, sid, todo, cache, disk, joins, faults, crashes, notes>>

Greet_Relock(t) ==
    /\ pc[t] = "greet"
    /\ DbFree
    /\ LET e == Tagged(0, SystemMessage)
       IN  /\ db' = Stored(sid[t], e)
           /\ mem' = [mem EXCEPT ![t] = <<e>>]
    /\ Goto(t, "say")
    /\ UNCHANGED <<incoming, sid, todo, cache, rows, joins, faults, crashes, notes>>

(* The system prompt, still under the database's lock.                     *)
Greet(t) ==
    /\ pc[t] = "greet"
    /\ LET e == Tagged(0, SystemMessage)
       IN  /\ db' = Stored(sid[t], e)
           /\ mem' = [mem EXCEPT ![t] = <<e>>]
    /\ Goto(t, "say")
    /\ UNCHANGED <<incoming, sid, todo, cache, rows, joins, faults, crashes, notes>>

(* The user turn is persisted, then pushed.                                *)
Say(t) ==
    /\ pc[t] = "say"
    /\ DbFree
    /\ LET e == Tagged(t, UserMessage)
       IN  /\ db' = Stored(sid[t], e)
           /\ mem' = [mem EXCEPT ![t] = Append(@, e)]
    /\ Goto(t, "run")
    /\ UNCHANGED <<incoming, sid, todo, cache, rows, joins, faults, crashes, notes>>

-----------------------------------------------------------------------------
(* agent.run on a clone of the state, in a task of its own: it returns Ok  *)
(* with what it appended, or an error, or its task panics.                 *)
AgentReplies(t) ==
    /\ pc[t] = "run"
    /\ \E r \in AgentRuns : todo' = [todo EXCEPT ![t] = [i \in DOMAIN r |-> Tagged(t, r[i])]]
    /\ Goto(t, "save")
    /\ UNCHANGED <<incoming, sid, mem, cache, disk, joins, faults, crashes, notes>>

(* The error goes to the user, uncut; the state is not put back and what   *)
(* the run appended is dropped.                                            *)
AgentErrs(t) ==
    /\ pc[t] = "run"
    /\ End(t, "done")
    /\ UNCHANGED <<cache, disk, joins, faults, crashes, notes>>

SaveOne_NoTools(t) ==
    /\ pc[t] = "save"
    /\ todo[t] # <<>>
    /\ DbFree
    /\ db' = IF Head(todo[t]).msg.role = "tool" THEN db ELSE Stored(sid[t], Head(todo[t]))
    /\ mem' = [mem EXCEPT ![t] = Append(@, Head(todo[t]))]
    /\ todo' = [todo EXCEPT ![t] = Tail(@)]
    /\ UNCHANGED <<incoming, pc, sid, cache, rows, joins, faults, crashes, notes>>

(* The new messages are persisted one lock at a time; what is stored also  *)
(* stands in the state the task will put back.                             *)
SaveOne(t) ==
    /\ pc[t] = "save"
    /\ todo[t] # <<>>
    /\ DbFree
    /\ db' = Stored(sid[t], Head(todo[t]))
    /\ mem' = [mem EXCEPT ![t] = Append(@, Head(todo[t]))]
    /\ todo' = [todo EXCEPT ![t] = Tail(@)]
    /\ UNCHANGED <<incoming, pc, sid, cache, rows, joins, faults, crashes, notes>>

(* store_state: whatever is in the map by now is replaced.                 *)
Store(t) ==
    /\ pc[t] = "save"
    /\ todo[t] = <<>>
    /\ cache' = [cache EXCEPT ![sid[t]] = mem[t]]
    /\ End(t, "reply")
    /\ UNCHANGED <<disk, joins, faults, crashes, notes>>

(* The reply, in chunks, goes to the platform.                             *)
Reply(t) ==
    /\ pc[t] = "reply"
    /\ End(t, "done")
    /\ UNCHANGED <<cache, disk, joins, faults, crashes, notes>>

(* Partly stored: some of the run is on disk and some of it is not.        *)
HalfSaved(t) == pc[t] = "save" /\ todo[t] # <<>> /\ Last(mem[t]).msg.role # "user"
HalfSavedSessions == {sid[t] : t \in {o \in Tasks : HalfSaved(o)}}

(* A failure ends the task without a reply: a failed statement (those of    *)
(* append_message are not one transaction, so the row may be in already),  *)
(* a panic of the agent, a panic while its reply is cut into chunks.       *)
Fail(t) ==
    /\ Fault
    /\ \/ /\ pc[t] = "open" /\ DbFree
          /\ UNCHANGED <<db, broken>>
       \/ /\ pc[t] = "greet"
          /\ db' \in {db, Stored(sid[t], Tagged(0, SystemMessage))}
          /\ UNCHANGED broken
       \/ /\ pc[t] = "say" /\ DbFree
          /\ db' \in {db, Stored(sid[t], Tagged(t, UserMessage))}
          /\ UNCHANGED broken
       \/ /\ pc[t] = "run" \/ (pc[t] = "reply" /\ Cmd(t) = "chat")
          /\ UNCHANGED <<db, broken>>
       \/ /\ pc[t] = "save" /\ DbFree
          /\ todo[t] # <<>>
          /\ \/ /\ db' = db
                /\ broken' = IF HalfSaved(t) THEN broken \cup {sid[t]} ELSE broken
             \/ /\ db' = Stored(sid[t], Head(todo[t]))
                /\ broken' = broken \cup {sid[t]}
    /\ End(t, "failed")
    /\ UNCHANGED <<cache, rows, joins, crashes, overlapped, invited>>

(* The process dies and is started again: the tasks, the map and what was  *)
(* not saved of the join store are gone.                                   *)
Restart ==
    /\ faults + crashes < MaxMishaps
    /\ crashes' = crashes + 1
    /\ pc' = [t \in Tasks |-> IF t \in Live THEN "lost" ELSE pc[t]]
    /\ sid' = [t \in Tasks |-> NoSession]
    /\ mem' = [t \in Tasks |-> <<>>]
    /\ todo' = [t \in Tasks |-> <<>>]
    /\ cache' = [s \in Sessions |-> <<>>]
    /\ keys' = file.keys
    /\ bindings' = file.bindings
    /\ broken' = broken \cup HalfSavedSessions
    /\ UNCHANGED <<incoming, disk, file, faults, overlapped, invited>>

Step(t) == \/ Resolve(t) \/ Consume(t) \/ Unbind(t) \/ Uncache(t)
           \/ Load(t) \/ Open(t) \/ Greet(t) \/ Say(t)
           \/ AgentReplies(t) \/ AgentErrs(t) \/ SaveOne(t) \/ Store(t) \/ Reply(t)

(* run waits for the next message.                                         *)
Rest == Live = {} /\ UNCHANGED vars

Next == Restart \/ Rest \/ \E t \in Tasks : Receive(t) \/ Step(t) \/ Fail(t)

(* The runtime polls every task that can move; the agent's run ends and    *)
(* the platform drains its replies.                                        *)
Spec == Init /\ [][Next]_vars /\ \A t \in Tasks : WF_vars(Step(t))

-----------------------------------------------------------------------------
Labels == {"none", "resolve", "consume", "unbind", "uncache", "load", "open", "greet",
           "say", "run", "save", "reply", "done", "failed", "lost"}

(* Type invariant, with the shape of a task in each of its phases.         *)
TypeOK ==
    /\ incoming \in Seq(Traffic)
    /\ Len(incoming) <= MaxMessages
    /\ pc \in [Tasks -> Labels]
    /\ \A t \in Tasks : pc[t] = "none" <=> t > Len(incoming)
    /\ sid \in [Tasks -> Sessions \cup {NoSession}]
    /\ mem \in [Tasks -> Seq(Entry)] /\ todo \in [Tasks -> Seq(Entry)]
    /\ cache \in [Sessions -> Seq(Entry)]
    /\ rows \subseteq Sessions
    /\ db \in [Sessions -> Seq(Entry)]
    /\ \A s \in Sessions : db[s] # <<>> => s \in rows
    /\ keys \in [Keys -> Shared \cup {NoSession}]
    /\ bindings \in [Users -> Shared \cup {NoSession}]
    /\ file \in [keys : [Keys -> Shared \cup {NoSession}], bindings : [Users -> Shared \cup {NoSession}]]
    /\ faults \in Nat /\ crashes \in Nat /\ faults + crashes <= MaxMishaps
    /\ overlapped \subseteq Sessions /\ broken \subseteq Sessions
    /\ invited \subseteq Users \X Shared

(* The database serves any number of first messages of one session, racing *)
(* or after a death, with exactly one system prompt, at the start.         *)
OnePromptPerSession ==
    \A s \in Sessions : \A i \in DOMAIN db[s] : db[s][i].msg.role = "system" <=> i = 1

(* es occurs in fs with its order kept.                                    *)
Within(es, fs) ==
    LET met[n \in 0..Len(fs)] ==
            IF n = 0 THEN 0
            ELSE LET k == met[n - 1]
                 IN  IF k < Len(es) /\ es[k + 1] = fs[n] THEN k + 1 ELSE k
    IN  met[Len(fs)] = Len(es)

(* What the model is told is on disk: at any interleaving the memory of a  *)
(* task, and the cached state of a session, is a part of the session's own *)
(* rows in their order.  Overlapping turns may drop out of memory; nothing *)
(* in it is invented, doubled, reordered or from another session.          *)
MemoryIsWithinDisk ==
    /\ \A s \in Sessions : Within(cache[s], db[s])
    /\ \A t \in Tasks : mem[t] # <<>> => Within(mem[t], db[sid[t]])

(* While no two tasks hold a session at once, its cached state is exactly  *)
(* its rows, whatever fails, dies, joins or leaves in between.             *)
SerialMemoryIsDisk ==
    \A s \in Sessions \ overlapped :
        cache[s] # <<>> /\ (\A t \in Tasks : ~(sid[t] = s /\ pc[t] \in Holding))
            => cache[s] = db[s]

(* What a session remembers is what it has stored, at any interleaving and *)
(* exactly where its turns did not overlap: the two parts above.           *)
MemoryFollowsDisk == MemoryIsWithinDisk /\ SerialMemoryIsDisk

(* A request is malformed only in a session where two turns overlapped or  *)
(* one was stored in part.                                                 *)
OnlyOverlapOrBreakSpoils ==
    \A t \in Tasks : pc[t] = "run" /\ sid[t] \notin overlapped \cup broken
        => Complete(Untagged(mem[t]))

(* An account's words are stored in its own session or in one whose key it *)
(* redeemed, and only accounts of the allowlist get that far.              *)
OnlyInvitedEnter ==
    \A s \in Sessions : \A t \in By(db[s]) \ {0} :
        /\ Author(t) \in Permitted
        /\ s = Author(t) \/ <<Author(t), s>> \in invited

(* A stored session begins with its one prompt, however many first         *)
(* messages race, and holds only what was said by accounts that may be in  *)
(* it.                                                                     *)
SessionsAreProper == OnePromptPerSession /\ OnlyInvitedEnter

(* A message stays without a reply only if a failure hit its own task, the *)
(* process died, or a failure or death left its session's row without a    *)
(* first message (create_session then fails for good).                     *)
SilenceHasACause ==
    \/ Cardinality({t \in Tasks : pc[t] = "failed"}) <= faults
    \/ faults + crashes > 0 /\ \E s \in rows : db[s] = <<>>

(* No interleaving of locks, commands and turns leaves a task waiting for  *)
(* ever: the gateway comes to rest again.                                  *)
EveryTaskEnds == []<>(Live = {})
=============================================================================
