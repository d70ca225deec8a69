-------------------------- MODULE DispatcherProofs --------------------------
(***************************************************************************)
(* The safety invariants of Dispatcher for every allowlist, traffic and    *)
(* number of tasks.  None of them is inductive alone: what a session has   *)
(* stored depends on where its tasks stand, what it remembers on who holds *)
(* it.  DispatcherInv joins the parts, one for each question.              *)
(***************************************************************************)
EXTENDS Dispatcher, ConversationProofs, FiniteSetTheorems, SequenceTheorems

Engaged == {"say", "run", "save"}
Resolved == {"consume", "unbind", "uncache", "load"} \cup Holding

(* What a task carries in each of its phases.                              *)
Shaped(t) ==
    /\ pc[t] \in Resolved => sid[t] \in Sessions
    /\ pc[t] = "consume" => Cmd(t) = "join"
    /\ pc[t] \notin Engaged => mem[t] = <<>>
    /\ pc[t] # "save" => todo[t] = <<>>
    /\ \A i \in DOMAIN todo[t] :
        todo[t][i].by = t /\ todo[t][i].msg.role \in {"assistant", "tool"}
TaskShape == \A t \in Tasks : Shaped(t)

(* Only the one task under the database's lock holds a session without its *)
(* prompt; whoever is past it, or left a state in the map, has it stored.  *)
PromptInv ==
    /\ \A t, o \in Tasks : pc[t] = "greet" /\ pc[o] = "greet" => t = o
    /\ \A t \in Tasks : pc[t] = "greet" => db[sid[t]] = <<>> /\ sid[t] \in rows
    /\ \A t \in Tasks : pc[t] \in Engaged => db[sid[t]] # <<>>
    /\ \A s \in Sessions : cache[s] # <<>> => db[s] # <<>>
    /\ OnePromptPerSession

(* Every binding in force or on disk was invited, and a task works in a    *)
(* session its author may be in.                                           *)
Welcome(t) ==
    /\ pc[t] \in {"resolve"} \cup Resolved => Author(t) \in Permitted
    /\ pc[t] \in Resolved => sid[t] = Author(t) \/ <<Author(t), sid[t]>> \in invited
BindingsInvited(bs) == \A u \in Users : bs[u] # NoSession => <<u, bs[u]>> \in invited
EntryInv ==
    /\ BindingsInvited(bindings) /\ BindingsInvited(file.bindings)
    /\ \A t \in Tasks : Welcome(t)
    /\ \A s \in Sessions : \A t \in By(db[s]) \ {0} : t <= Len(incoming)
    /\ OnlyInvitedEnter

(* es occurs in fs at the strictly increasing positions of at.             *)
EmbedsAt(es, fs, at) ==
    /\ at \in [1..Len(es) -> 1..Len(fs)]
    /\ \A i \in 1..Len(es) : es[i] = fs[at[i]]
    /\ \A i, j \in 1..Len(es) : i < j => at[i] < at[j]
Embeds(es, fs) == \E at : EmbedsAt(es, fs, at)

MemoryInv ==
    /\ \A s \in Sessions : Embeds(cache[s], db[s])
    /\ \A t \in Tasks : pc[t] \in Engaged => Embeds(mem[t], db[sid[t]])

(* A session no two tasks ever shared: its one holder has the state, and   *)
(* the map has none, until the state is put back.                          *)
Holds(t, s) == sid[t] = s /\ pc[t] \in Holding
Serial(s) ==
    /\ \A t, o \in Tasks : Holds(t, s) /\ Holds(o, s) => t = o
    /\ \A t \in Tasks : Holds(t, s) => cache[s] = <<>>
    /\ \A t \in Tasks : Holds(t, s) /\ pc[t] \in Engaged => mem[t] = db[s]
    /\ cache[s] # <<>> => cache[s] = db[s]
SerialInv == \A s \in Sessions \ overlapped : Serial(s)

(* What such a session has stored is complete, or will be once its holder  *)
(* has stored the rest.                                                    *)
Saves(t, s) == sid[t] = s /\ pc[t] = "save"
WillBeComplete(t) ==
    /\ Complete(Untagged(mem[t] \o todo[t]))
    /\ Last(mem[t]).msg.role = "user" => Complete(Untagged(mem[t]))
Whole(s) ==
    /\ (\A t \in Tasks : ~Saves(t, s)) => Complete(Untagged(db[s]))
    /\ \A t \in Tasks : Saves(t, s) => WillBeComplete(t)
CompleteInv == \A s \in Sessions \ (overlapped \cup broken) : Whole(s)

(* A row without messages that no task is about to fill: it stays so.      *)
Stuck(s) == s \in rows /\ db[s] = <<>> /\ \A t \in Tasks : pc[t] = "greet" => sid[t] # s
Failed == {t \in Tasks : pc[t] = "failed"}
SilenceInv ==
    /\ \A s \in Sessions : Stuck(s) => faults + crashes > 0
    /\ \/ Cardinality(Failed) <= faults
       \/ \E s \in Sessions : Stuck(s)

-----------------------------------------------------------------------------
(* Entries and what they are stored as.                                    *)
LEMMA Entries ==
    /\ SystemMessage \in Message /\ UserMessage \in Message
    /\ \A m \in Message : Tagged(0, m) \in Entry /\ Tagged(0, m).msg = m /\ Tagged(0, m).by = 0
    /\ \A m \in Message, t \in Tasks :
        Tagged(t, m) \in Entry /\ Tagged(t, m).msg = m /\ Tagged(t, m).by = t
    /\ SystemMessage.role = "system" /\ UserMessage.role = "user"
    /\ \A e \in Entry : e.msg \in Message /\ e.by \in 0..MaxMessages
  <1>1. SystemMessage \in Message /\ UserMessage \in Message
        BY DEF Message, SystemMessage, UserMessage, Contents
  <1>2. SystemMessage.role = "system" /\ UserMessage.role = "user"
        BY DEF SystemMessage, UserMessage
  <1>3. \A m \in Message : Tagged(0, m) \in Entry /\ Tagged(0, m).msg = m /\ Tagged(0, m).by = 0
        BY DispatcherAssumption DEF Entry, Tagged
  <1>4. \A m \in Message, t \in Tasks :
        Tagged(t, m) \in Entry /\ Tagged(t, m).msg = m /\ Tagged(t, m).by = t
        BY DispatcherAssumption DEF Entry, Tagged, Tasks
  <1>5. \A e \in Entry : e.msg \in Message /\ e.by \in 0..MaxMessages
        BY DEF Entry
  <1> QED BY <1>1, <1>2, <1>3, <1>4, <1>5

LEMMA StoredRows ==
    ASSUME NEW tables \in [Sessions -> Seq(Entry)], NEW s \in Sessions, NEW e \in Entry,
           NEW new, new = [tables EXCEPT ![s] = Append(@, e)]
    PROVE  /\ new \in [Sessions -> Seq(Entry)]
           /\ new[s] = Append(tables[s], e) /\ new[s] # <<>>
           /\ Len(new[s]) = Len(tables[s]) + 1
           /\ new[s][Len(tables[s]) + 1] = e
           /\ \A i \in 1..Len(tables[s]) : new[s][i] = tables[s][i]
           /\ \A o \in Sessions \ {s} : new[o] = tables[o]
  OBVIOUS

(* The earlier chat of a shared session is well formed.                    *)
LEMMA EarlierIsProper ==
    /\ EarlierChat \in Seq(Entry) /\ EarlierChat # <<>>
    /\ \A i \in DOMAIN EarlierChat : EarlierChat[i].by = 0
    /\ \A i \in DOMAIN EarlierChat : EarlierChat[i].msg.role = "system" <=> i = 1
    /\ Complete(Untagged(EarlierChat))
  <1>1. AssistantMessage(TRUE, <<>>) \in Message
        <2>1. <<>> \in Seq(Calls)
              OBVIOUS
        <2> QED BY <2>1, NewMessages
  <1>2. /\ AssistantMessage(TRUE, <<>>).role = "assistant"
        /\ AssistantMessage(TRUE, <<>>).calls = <<>>
        BY DEF AssistantMessage
  <1>3. PICK a \in Message : a = AssistantMessage(TRUE, <<>>)
        BY <1>1
  <1>4. PICK e1, e2, e3 \in Entry :
            e1 = Tagged(0, SystemMessage) /\ e2 = Tagged(0, UserMessage) /\ e3 = Tagged(0, a)
        BY Entries
  <1>5. EarlierChat = <<e1, e2, e3>>
        BY <1>3, <1>4 DEF EarlierChat
  <1>6. /\ e1.by = 0 /\ e2.by = 0 /\ e3.by = 0
        /\ e1.msg = SystemMessage /\ e2.msg = UserMessage /\ e3.msg = a
        BY <1>4, Entries
  <1>7. EarlierChat \in Seq(Entry) /\ EarlierChat # <<>> /\ DOMAIN EarlierChat = 1..3
        <2>1. <<e1, e2, e3>> \in Seq(Entry) /\ <<e1, e2, e3>> # <<>>
              OBVIOUS
        <2> QED BY <2>1, <1>5
  <1>8. \A i \in DOMAIN EarlierChat : EarlierChat[i].by = 0
        BY <1>5, <1>6, <1>7
  <1>9. \A i \in DOMAIN EarlierChat : EarlierChat[i].msg.role = "system" <=> i = 1
        <2>1. EarlierChat[1] = e1 /\ EarlierChat[2] = e2 /\ EarlierChat[3] = e3
              BY <1>5
        <2>2. /\ EarlierChat[1].msg.role = "system" /\ EarlierChat[2].msg.role = "user"
              /\ EarlierChat[3].msg.role = "assistant"
              BY <1>2, <1>3, <1>6, <2>1, Entries
        <2> QED BY <1>7, <2>2
  <1>10. Complete(Untagged(EarlierChat))
         <2>1. PICK ms : ms = <<SystemMessage, UserMessage, a>>
               OBVIOUS
         <2>2. Untagged(EarlierChat) = ms
               BY <1>5, <1>6, <1>7, <2>1 DEF Untagged
         <2>3. /\ Len(ms) = 3 /\ ms[1].role = "system" /\ ms[2].role = "user"
               /\ ms[3].role = "assistant" /\ ms[3].calls = <<>>
               BY <1>2, <1>3, <2>1, Entries
         <2>4. Len(ms[3].calls) = 0
               BY <2>3
         <2>5. CallsAnswered(ms, Len(ms))
               BY <2>3, <2>4 DEF CallsAnswered
         <2>6. NoOrphanAnswer(ms, Len(ms))
               BY <2>3 DEF NoOrphanAnswer
         <2> QED BY <2>2, <2>5, <2>6 DEF Complete
  <1> QED BY <1>7, <1>8, <1>9, <1>10

(* Commands lead to labels.                                                *)
LEMMA AfterLabels ==
    ASSUME NEW cmd \in Commands
    PROVE  /\ After(cmd) \in {"load", "uncache", "consume", "unbind", "reply"}
           /\ After(cmd) = "consume" => cmd = "join"
  BY DEF Commands, After

(* What arrived stays what it was.                                         *)
LEMMA Arrives ==
    ASSUME NEW x \in Traffic, incoming \in Seq(Traffic), NEW new, new = Append(incoming, x)
    PROVE  /\ new \in Seq(Traffic) /\ Len(new) = Len(incoming) + 1
           /\ new[Len(incoming) + 1] = x
           /\ \A i \in 1..Len(incoming) : new[i] = incoming[i]
  OBVIOUS

LEMMA AuthorIsUser ==
    ASSUME TypeOK, NEW t \in Tasks, pc[t] # "none"
    PROVE  /\ t \in 1..Len(incoming) /\ Author(t) \in Users /\ Author(t) \in Sessions
           /\ Cmd(t) \in Commands
           /\ Cmd(t) = "join" => Key(t) \in Keys
  <1>1. t \in 1..Len(incoming)
        BY DEF TypeOK, Tasks
  <1>2. incoming[t] \in Traffic
        BY <1>1 DEF TypeOK
  <1> QED BY <1>1, <1>2, DispatcherAssumption DEF Author, Cmd, Key, Sessions

-----------------------------------------------------------------------------
(* Types and shapes.                                                       *)
LEMMA InitTypes == Init => TypeOK /\ TaskShape
  <1> SUFFICES ASSUME Init PROVE TypeOK /\ TaskShape
      OBVIOUS
  <1>1. db \in [Sessions -> Seq(Entry)] /\ (\A s \in Sessions : db[s] # <<>> => s \in rows)
        BY EarlierIsProper DEF Init, Sessions
  <1>2. TaskShape
        BY DEF Init, TaskShape, Shaped, Resolved, Holding, Engaged
  <1>3. /\ keys \in [Keys -> Shared \cup {NoSession}]
        /\ bindings \in [Users -> Shared \cup {NoSession}]
        /\ file \in [keys : [Keys -> Shared \cup {NoSession}],
                     bindings : [Users -> Shared \cup {NoSession}]]
        BY DispatcherAssumption DEF Init
  <1>4. /\ incoming \in Seq(Traffic) /\ Len(incoming) <= MaxMessages
        /\ \A t \in Tasks : pc[t] = "none" <=> t > Len(incoming)
        BY DispatcherAssumption DEF Init, Tasks
  <1> QED BY <1>1, <1>2, <1>3, <1>4, DispatcherAssumption DEF Init, TypeOK, Labels, Sessions

LEMMA TaskTypes ==
    ASSUME TypeOK
    PROVE  /\ pc \in [Tasks -> Labels] /\ sid \in [Tasks -> Sessions \cup {NoSession}]
           /\ mem \in [Tasks -> Seq(Entry)] /\ todo \in [Tasks -> Seq(Entry)]
           /\ \A t \in Tasks : pc[t] # "none" <=> t <= Len(incoming)
  BY DispatcherAssumption DEF TypeOK, Tasks

(* What the steps of a task that only moves it have in common.             *)
LEMMA MoveTypes ==
    ASSUME TypeOK, NEW t \in Tasks, NEW l \in Labels \ {"none"}, pc[t] # "none", Goto(t, l),
           UNCHANGED incoming
    PROVE  /\ pc' \in [Tasks -> Labels]
           /\ \A o \in Tasks : pc'[o] = "none" <=> o > Len(incoming')
           /\ pc'[t] = l /\ \A o \in Tasks \ {t} : pc'[o] = pc[o]
  BY DEF TypeOK, Goto

LEMMA EndTypes ==
    ASSUME TypeOK, NEW t \in Tasks, NEW l \in {"done", "failed", "reply"}, pc[t] # "none", End(t, l)
    PROVE  /\ pc' \in [Tasks -> Labels]
           /\ \A o \in Tasks : pc'[o] = "none" <=> o > Len(incoming')
           /\ sid' \in [Tasks -> Sessions \cup {NoSession}]
           /\ mem' \in [Tasks -> Seq(Entry)] /\ todo' \in [Tasks -> Seq(Entry)]
           /\ pc'[t] = l /\ mem'[t] = <<>> /\ todo'[t] = <<>>
           /\ \A o \in Tasks \ {t} : /\ pc'[o] = pc[o] /\ sid'[o] = sid[o]
                                     /\ mem'[o] = mem[o] /\ todo'[o] = todo[o]
  BY DEF TypeOK, End, Goto, Labels

(* A session whose row exists gets another message.                        *)
LEMMA StoreTypes ==
    ASSUME TypeOK, NEW s \in Sessions, s \in rows, NEW e \in Entry, db' = Stored(s, e),
           rows' = rows
    PROVE  /\ db' \in [Sessions -> Seq(Entry)]
           /\ \A o \in Sessions : db'[o] # <<>> => o \in rows'
  BY StoredRows DEF TypeOK, Stored

(* A task past the prompt, or at it, works in a session that has its row.  *)
LEMMA RowIsThere ==
    ASSUME TypeOK, TaskShape, PromptInv, NEW t \in Tasks, pc[t] \in {"greet"} \cup Engaged
    PROVE  sid[t] \in Sessions /\ sid[t] \in rows
  BY DEF TypeOK, TaskShape, Shaped, PromptInv, Engaged, Resolved, Holding

LEMMA TypeStep == ASSUME TypeOK, TaskShape, PromptInv, [Next]_vars PROVE TypeOK'
  <1> USE DEF locals, disk, joins, notes
  <1>1. ASSUME NEW t \in Tasks, Receive(t) PROVE TypeOK'
        <2>1. PICK x \in Traffic :
                  /\ t = Len(incoming) + 1
                  /\ incoming' = Append(incoming, x)
                  /\ Goto(t, IF x.user \in Permitted THEN "resolve" ELSE "reply")
              BY <1>1 DEF Receive
        <2>2. incoming' \in Seq(Traffic) /\ Len(incoming') = t
              BY <2>1, Arrives DEF TypeOK
        <2>3. /\ pc' \in [Tasks -> Labels]
              /\ \A o \in Tasks : pc'[o] = "none" <=> o > Len(incoming')
              BY <2>1, <2>2 DEF TypeOK, Goto, Labels, Tasks
        <2> QED BY <1>1, <2>2, <2>3 DEF Receive, TypeOK, Tasks
  <1>2. ASSUME NEW t \in Tasks, Resolve(t) PROVE TypeOK'
        <2>1. Cmd(t) \in Commands /\ Author(t) \in Users /\ Author(t) \in Sessions
              BY <1>2, AuthorIsUser DEF Resolve
        <2>2. After(Cmd(t)) \in Labels \ {"none"}
              BY <2>1, AfterLabels DEF Labels
        <2>3. sid' \in [Tasks -> Sessions \cup {NoSession}]
              BY <1>2, <2>1 DEF Resolve, TypeOK, Sessions
        <2>4. /\ pc' \in [Tasks -> Labels]
              /\ \A o \in Tasks : pc'[o] = "none" <=> o > Len(incoming')
              BY <1>2, <2>2, MoveTypes DEF Resolve
        <2> QED BY <1>2, <2>3, <2>4 DEF Resolve, TypeOK
  <1>3. ASSUME NEW t \in Tasks, Consume(t) PROVE TypeOK'
        <2>1. Author(t) \in Users /\ Key(t) \in Keys
              BY <1>3, AuthorIsUser DEF Consume, TaskShape, Shaped
        <2>2. /\ pc' \in [Tasks -> Labels]
              /\ \A o \in Tasks : pc'[o] = "none" <=> o > Len(incoming')
              BY <1>3, MoveTypes DEF Consume, Labels
        <2>3. /\ keys' \in [Keys -> Shared \cup {NoSession}]
              /\ bindings' \in [Users -> Shared \cup {NoSession}]
              /\ invited' \subseteq Users \X Shared
              BY <1>3, <2>1 DEF Consume, TypeOK
        <2>4. file' \in [keys : [Keys -> Shared \cup {NoSession}],
                         bindings : [Users -> Shared \cup {NoSession}]]
              <3>1. file' = [keys |-> keys', bindings |-> bindings'] \/ file' = file
                    BY <1>3 DEF Consume, Save
              <3> QED BY <2>3, <3>1 DEF TypeOK
        <2>5. faults' \in Nat /\ faults' + crashes' <= MaxMishaps
              BY <1>3, DispatcherAssumption DEF Consume, Save, Fault, TypeOK
        <2> QED BY <1>3, <2>2, <2>3, <2>4, <2>5 DEF Consume, TypeOK
  <1>4. ASSUME NEW t \in Tasks, Unbind(t) PROVE TypeOK'
        <2>1. Author(t) \in Users
              BY <1>4, AuthorIsUser DEF Unbind
        <2>2. /\ pc' \in [Tasks -> Labels]
              /\ \A o \in Tasks : pc'[o] = "none" <=> o > Len(incoming')
              BY <1>4, MoveTypes DEF Unbind, Labels
        <2>3. /\ keys' \in [Keys -> Shared \cup {NoSession}]
              /\ bindings' \in [Users -> Shared \cup {NoSession}]
              BY <1>4, <2>1 DEF Unbind, TypeOK
        <2>4. file' \in [keys : [Keys -> Shared \cup {NoSession}],
                         bindings : [Users -> Shared \cup {NoSession}]]
              <3>1. file' = [keys |-> keys', bindings |-> bindings'] \/ file' = file
                    BY <1>4 DEF Unbind, Save
              <3> QED BY <2>3, <3>1 DEF TypeOK
        <2>5. faults' \in Nat /\ faults' + crashes' <= MaxMishaps
              BY <1>4, DispatcherAssumption DEF Unbind, Save, Fault, TypeOK
        <2> QED BY <1>4, <2>2, <2>3, <2>4, <2>5 DEF Unbind, TypeOK
  <1>5. ASSUME NEW t \in Tasks, Uncache(t) PROVE TypeOK'
        <2>1. /\ pc' \in [Tasks -> Labels]
              /\ \A o \in Tasks : pc'[o] = "none" <=> o > Len(incoming')
              BY <1>5, MoveTypes DEF Uncache, Labels
        <2>2. cache' \in [Sessions -> Seq(Entry)]
              <3>1. <<>> \in Seq(Entry) /\ cache' = [cache EXCEPT ![sid[t]] = <<>>]
                    BY <1>5 DEF Uncache
              <3> QED BY <3>1 DEF TypeOK
        <2> QED BY <1>5, <2>1, <2>2 DEF Uncache, TypeOK
  <1>6. ASSUME NEW t \in Tasks, Load(t) PROVE TypeOK'
        <2>1. sid[t] \in Sessions
              BY <1>6 DEF Load, TaskShape, Shaped, Resolved
        <2>2. /\ pc' \in [Tasks -> Labels]
              /\ \A o \in Tasks : pc'[o] = "none" <=> o > Len(incoming')
              BY <1>6, MoveTypes DEF Load, Labels
        <2>3. cache' \in [Sessions -> Seq(Entry)] /\ mem' \in [Tasks -> Seq(Entry)]
              <3>1. PICK held, nothing \in Seq(Entry) : held = cache[sid[t]] /\ nothing = <<>>
                    <4>1. cache[sid[t]] \in Seq(Entry)
                          BY <2>1 DEF TypeOK
                    <4>2. <<>> \in Seq(Entry)
                          OBVIOUS
                    <4> QED BY <4>1, <4>2
              <3>2. cache' = cache \/ cache' = [cache EXCEPT ![sid[t]] = nothing]
                    BY <1>6, <3>1 DEF Load
              <3>3. mem' = mem \/ mem' = [mem EXCEPT ![t] = held]
                    BY <1>6, <3>1 DEF Load
              <3>4. cache' \in [Sessions -> Seq(Entry)]
                    BY <3>2 DEF TypeOK
              <3>5. mem' \in [Tasks -> Seq(Entry)]
                    BY <3>3 DEF TypeOK
              <3> QED BY <3>4, <3>5
        <2>4. overlapped' \subseteq Sessions
              BY <1>6, <2>1 DEF Load, NoteOverlap, TypeOK
        <2> QED BY <1>6, <2>2, <2>3, <2>4 DEF Load, TypeOK
  <1>7. ASSUME NEW t \in Tasks, Open(t) PROVE TypeOK'
        <2>1. sid[t] \in Sessions
              BY <1>7 DEF Open, TaskShape, Shaped, Resolved, Holding
        <2>2. CASE /\ mem' = [mem EXCEPT ![t] = db[sid[t]]] /\ Goto(t, "say")
                   /\ UNCHANGED <<incoming, sid, todo, rows>>
              <3>1. /\ pc' \in [Tasks -> Labels]
                    /\ \A o \in Tasks : pc'[o] = "none" <=> o > Len(incoming')
                    BY <1>7, <2>2, MoveTypes DEF Open, Labels
              <3>2. mem' \in [Tasks -> Seq(Entry)]
                    BY <2>1, <2>2 DEF TypeOK
              <3> QED BY <1>7, <2>2, <3>1, <3>2 DEF Open, TypeOK
        <2>3. CASE InsertSession(sid[t]) /\ Goto(t, "greet") /\ UNCHANGED <<incoming, sid, mem, todo>>
              <3>1. /\ pc' \in [Tasks -> Labels]
                    /\ \A o \in Tasks : pc'[o] = "none" <=> o > Len(incoming')
                    BY <1>7, <2>3, MoveTypes DEF Open, Labels
              <3>2. rows' \subseteq Sessions /\ rows \subseteq rows'
                    BY <2>1, <2>3 DEF TypeOK, InsertSession
              <3> QED BY <1>7, <2>3, <3>1, <3>2 DEF Open, TypeOK
        <2>4. CASE End(t, "failed") /\ rows' = rows
              <3>1. pc[t] # "none"
                    BY <1>7 DEF Open
              <3> QED BY <1>7, <2>4, <3>1, EndTypes DEF Open, TypeOK, End
        <2> QED BY <1>7, <2>2, <2>3, <2>4 DEF Open
  <1>8. ASSUME NEW t \in Tasks, Greet(t) PROVE TypeOK'
        <2>1. PICK e \in Entry : e = Tagged(0, SystemMessage)
              BY Entries
        <2>2. sid[t] \in Sessions /\ sid[t] \in rows
              BY <1>8, RowIsThere DEF Greet
        <2>3. /\ pc' \in [Tasks -> Labels]
              /\ \A o \in Tasks : pc'[o] = "none" <=> o > Len(incoming')
              BY <1>8, MoveTypes DEF Greet, Labels
        <2>4. db' = Stored(sid[t], e) /\ rows' = rows /\ mem' = [mem EXCEPT ![t] = <<e>>]
              BY <1>8, <2>1 DEF Greet
        <2>5. db' \in [Sessions -> Seq(Entry)] /\ \A s \in Sessions : db'[s] # <<>> => s \in rows'
              BY <2>2, <2>4, StoreTypes
        <2>6. mem' \in [Tasks -> Seq(Entry)]
              <3>1. <<e>> \in Seq(Entry)
                    OBVIOUS
              <3> QED BY <2>4, <3>1 DEF TypeOK
        <2> QED BY <1>8, <2>3, <2>4, <2>5, <2>6 DEF Greet, TypeOK
  <1>9. ASSUME NEW t \in Tasks, Say(t) PROVE TypeOK'
        <2>1. PICK e \in Entry : e = Tagged(t, UserMessage)
              BY Entries
        <2>2. sid[t] \in Sessions /\ sid[t] \in rows
              BY <1>9, RowIsThere DEF Say, Engaged
        <2>3. /\ pc' \in [Tasks -> Labels]
              /\ \A o \in Tasks : pc'[o] = "none" <=> o > Len(incoming')
              BY <1>9, MoveTypes DEF Say, Labels
        <2>4. db' = Stored(sid[t], e) /\ rows' = rows /\ mem' = [mem EXCEPT ![t] = Append(@, e)]
              BY <1>9, <2>1 DEF Say
        <2>5. db' \in [Sessions -> Seq(Entry)] /\ \A s \in Sessions : db'[s] # <<>> => s \in rows'
              BY <2>2, <2>4, StoreTypes
        <2>6. mem' \in [Tasks -> Seq(Entry)]
              BY <2>4 DEF TypeOK
        <2> QED BY <1>9, <2>3, <2>4, <2>5, <2>6 DEF Say, TypeOK
  <1>10. ASSUME NEW t \in Tasks, AgentReplies(t) PROVE TypeOK'
        <2>1. PICK r \in AgentRuns : todo' = [todo EXCEPT ![t] = [i \in DOMAIN r |-> Tagged(t, r[i])]]
              BY <1>10 DEF AgentReplies
        <2>2. r \in Seq(Message)
              BY DispatcherAssumption
        <2>3. [i \in DOMAIN r |-> Tagged(t, r[i])] \in Seq(Entry)
              <3>1. \A i \in 1..Len(r) : Tagged(t, r[i]) \in Entry
                    BY <2>2, Entries
              <3>2. DOMAIN r = 1..Len(r) /\ Len(r) \in Nat
                    BY <2>2
              <3> QED BY <3>1, <3>2
        <2>4. /\ pc' \in [Tasks -> Labels]
              /\ \A o \in Tasks : pc'[o] = "none" <=> o > Len(incoming')
              BY <1>10, MoveTypes DEF AgentReplies, Labels
        <2>5. todo' \in [Tasks -> Seq(Entry)]
              BY <2>1, <2>3 DEF TypeOK
        <2> QED BY <1>10, <2>4, <2>5 DEF AgentReplies, TypeOK
  <1>11. ASSUME NEW t \in Tasks, AgentErrs(t) PROVE TypeOK'
        <2>1. pc[t] # "none" /\ End(t, "done")
              BY <1>11 DEF AgentErrs
        <2> QED BY <1>11, <2>1, EndTypes DEF AgentErrs, TypeOK, End
  <1>12. ASSUME NEW t \in Tasks, SaveOne(t) PROVE TypeOK'
        <2>1. PICK e \in Entry : e = Head(todo[t])
              BY <1>12 DEF SaveOne, TypeOK
        <2>2. sid[t] \in Sessions /\ sid[t] \in rows
              BY <1>12, RowIsThere DEF SaveOne, Engaged
        <2>3. db' = Stored(sid[t], e) /\ rows' = rows /\ mem' = [mem EXCEPT ![t] = Append(@, e)]
              BY <1>12, <2>1 DEF SaveOne
        <2>4. db' \in [Sessions -> Seq(Entry)] /\ \A s \in Sessions : db'[s] # <<>> => s \in rows'
              BY <2>2, <2>3, StoreTypes
        <2>5. mem' \in [Tasks -> Seq(Entry)] /\ todo' \in [Tasks -> Seq(Entry)]
              BY <1>12, <2>3 DEF TypeOK, SaveOne
        <2> QED BY <1>12, <2>3, <2>4, <2>5 DEF SaveOne, TypeOK
  <1>13. ASSUME NEW t \in Tasks, Store(t) PROVE TypeOK'
        <2>1. pc[t] # "none" /\ End(t, "reply")
              BY <1>13 DEF Store
        <2>2. cache' \in [Sessions -> Seq(Entry)]
              BY <1>13 DEF Store, TypeOK
        <2> QED BY <1>13, <2>1, <2>2, EndTypes DEF Store, TypeOK, End
  <1>14. ASSUME NEW t \in Tasks, Reply(t) PROVE TypeOK'
        <2>1. pc[t] # "none" /\ End(t, "done")
              BY <1>14 DEF Reply
        <2> QED BY <1>14, <2>1, EndTypes DEF Reply, TypeOK, End
  <1>15. ASSUME NEW t \in Tasks, Fail(t) PROVE TypeOK'
        <2>1. pc[t] # "none" /\ End(t, "failed")
              BY <1>15 DEF Fail
        <2>2. faults' \in Nat /\ crashes' = crashes /\ faults' + crashes' <= MaxMishaps
              BY <1>15, DispatcherAssumption DEF Fail, Fault, TypeOK
        <2>3. /\ db' \in [Sessions -> Seq(Entry)]
              /\ \A s \in Sessions : db'[s] # <<>> => s \in rows'
              /\ broken' \subseteq Sessions
              <3>1. CASE db' = db
                    <4>1. pc[t] = "save" => sid[t] \in Sessions
                          BY RowIsThere DEF Engaged
                    <4> QED BY <1>15, <3>1, <4>1 DEF Fail, TypeOK
              <3>2. CASE db' # db
                    <4>1. pc[t] \in {"greet"} \cup Engaged
                          BY <1>15, <3>2 DEF Fail, Engaged
                    <4>2. sid[t] \in Sessions /\ sid[t] \in rows
                          BY <4>1, RowIsThere
                    <4>3. PICK e \in Entry : db' = Stored(sid[t], e)
                          <5>1. /\ Tagged(0, SystemMessage) \in Entry
                                /\ Tagged(t, UserMessage) \in Entry
                                BY Entries
                          <5>2. todo[t] # <<>> => Head(todo[t]) \in Entry
                                BY DEF TypeOK
                          <5> QED BY <1>15, <3>2, <5>1, <5>2 DEF Fail
                    <4>4. rows' = rows /\ broken' \subseteq broken \cup {sid[t]}
                          BY <1>15 DEF Fail
                    <4> QED BY <4>2, <4>3, <4>4, StoreTypes DEF TypeOK
              <3> QED BY <3>1, <3>2
        <2> QED BY <1>15, <2>1, <2>2, <2>3, EndTypes DEF Fail, TypeOK, End
  <1>16. ASSUME Restart PROVE TypeOK'
        <2>1. /\ pc' \in [Tasks -> Labels]
              /\ \A o \in Tasks : pc'[o] = "none" <=> o > Len(incoming')
              BY <1>16 DEF Restart, TypeOK, Labels, Live
        <2>2. /\ sid' \in [Tasks -> Sessions \cup {NoSession}]
              /\ mem' \in [Tasks -> Seq(Entry)] /\ todo' \in [Tasks -> Seq(Entry)]
              /\ cache' \in [Sessions -> Seq(Entry)]
              BY <1>16 DEF Restart
        <2>3. broken' \subseteq Sessions
              <3>1. \A o \in Tasks : HalfSaved(o) => sid[o] \in Sessions
                    BY DEF HalfSaved, TaskShape, Shaped, Resolved, Holding
              <3> QED BY <1>16, <3>1 DEF Restart, TypeOK, HalfSavedSessions
        <2>4. crashes' \in Nat /\ faults' = faults /\ faults' + crashes' <= MaxMishaps
              BY <1>16, DispatcherAssumption DEF Restart, TypeOK
        <2> QED BY <1>16, <2>1, <2>2, <2>3, <2>4 DEF Restart, TypeOK
  <1>17. ASSUME UNCHANGED vars PROVE TypeOK'
        BY <1>17 DEF vars, TypeOK
  <1> QED BY <1>1, <1>2, <1>3, <1>4, <1>5, <1>6, <1>7, <1>8, <1>9, <1>10, <1>11, <1>12,
             <1>13, <1>14, <1>15, <1>16, <1>17 DEF Next, Step, Rest

LEMMA NothingDone == \A es : es = <<>> => DOMAIN es = {}
  OBVIOUS

LEMMA OthersKeepShape ==
    ASSUME NEW o \in Tasks, Shaped(o), UNCHANGED incoming, pc'[o] = pc[o], sid'[o] = sid[o],
           mem'[o] = mem[o], todo'[o] = todo[o]
    PROVE  Shaped(o)'
  BY DEF Shaped, Cmd

LEMMA EndKeepsShape ==
    ASSUME TypeOK, TaskShape, NEW t \in Tasks, NEW l \in {"done", "failed", "reply"},
           pc[t] # "none", End(t, l)
    PROVE  TaskShape'
  <1> SUFFICES ASSUME NEW o \in Tasks PROVE Shaped(o)'
      BY DEF TaskShape
  <1>1. CASE o # t
        <2>1. /\ pc'[o] = pc[o] /\ sid'[o] = sid[o]
              /\ mem'[o] = mem[o] /\ todo'[o] = todo[o]
              BY <1>1, EndTypes
        <2>2. UNCHANGED incoming
              BY DEF End
        <2> QED BY <2>1, <2>2, OthersKeepShape DEF TaskShape
  <1>2. CASE o = t
        BY <1>2, EndTypes, NothingDone DEF Shaped, Resolved, Holding, Engaged
  <1> QED BY <1>1, <1>2

LEMMA ShapeStep == ASSUME TypeOK, TaskShape, [Next]_vars PROVE TaskShape'
  <1> USE DEF locals
  <1>1. ASSUME NEW t \in Tasks, Receive(t) PROVE TaskShape'
        <2> SUFFICES ASSUME NEW o \in Tasks PROVE Shaped(o)'
            BY DEF TaskShape
        <2>1. PICK x \in Traffic :
                  /\ t = Len(incoming) + 1
                  /\ incoming' = Append(incoming, x)
                  /\ Goto(t, IF x.user \in Permitted THEN "resolve" ELSE "reply")
                  /\ UNCHANGED <<sid, mem, todo>>
              BY <1>1 DEF Receive
        <2>2. \A i \in 1..Len(incoming) : incoming'[i] = incoming[i]
              BY <2>1, Arrives DEF TypeOK
        <2>3. CASE o # t
              <3>1. pc'[o] = pc[o] /\ (pc[o] = "consume" => o \in 1..Len(incoming))
                    BY <2>1, <2>3, AuthorIsUser DEF TypeOK, Goto
              <3> QED BY <2>1, <2>2, <3>1 DEF TaskShape, Shaped, Cmd
        <2>4. CASE o = t
              <3>1. pc[t] = "none" /\ pc'[t] \in {"resolve", "reply"}
                    BY <2>1 DEF TypeOK, Goto, Tasks
              <3> QED BY <2>1, <2>4, <3>1 DEF TaskShape, Shaped, Resolved, Holding, Engaged
        <2> QED BY <2>3, <2>4
  <1>2. ASSUME NEW t \in Tasks, Resolve(t) PROVE TaskShape'
        <2> SUFFICES ASSUME NEW o \in Tasks PROVE Shaped(o)'
            BY DEF TaskShape
        <2>1. Cmd(t) \in Commands /\ Author(t) \in Users /\ Author(t) \in Sessions
              BY <1>2, AuthorIsUser DEF Resolve
        <2>2. CASE o # t
              BY <1>2, <2>2, OthersKeepShape DEF Resolve, Goto, TypeOK, TaskShape
        <2>3. CASE o = t
              <3>1. pc'[t] = After(Cmd(t)) /\ UNCHANGED <<incoming, mem, todo>>
                    BY <1>2 DEF Resolve, Goto, TypeOK
              <3>2. sid'[t] \in Sessions
                    BY <1>2, <2>1 DEF Resolve, TypeOK, Sessions
              <3> QED BY <1>2, <2>1, <2>3, <3>1, <3>2, AfterLabels
                      DEF TaskShape, Shaped, Resolve, Engaged, Cmd
        <2> QED BY <2>2, <2>3
  <1>3. ASSUME NEW t \in Tasks, Consume(t) \/ Unbind(t) \/ Uncache(t) PROVE TaskShape'
        <2> SUFFICES ASSUME NEW o \in Tasks PROVE Shaped(o)'
            BY DEF TaskShape
        <2>1. UNCHANGED <<incoming, sid, mem, todo>>
              BY <1>3 DEF Consume, Unbind, Uncache
        <2>2. CASE o # t
              BY <1>3, <2>1, <2>2, OthersKeepShape
                 DEF Consume, Unbind, Uncache, Goto, TypeOK, TaskShape
        <2>3. CASE o = t
              <3>1. /\ pc[t] \in {"consume", "unbind", "uncache"}
                    /\ pc'[t] \in {"uncache", "reply"}
                    BY <1>3 DEF Consume, Unbind, Uncache, Goto, TypeOK
              <3> QED BY <2>1, <2>3, <3>1 DEF TaskShape, Shaped, Resolved, Engaged
        <2> QED BY <2>2, <2>3
  <1>4. ASSUME NEW t \in Tasks, Load(t) PROVE TaskShape'
        <2> SUFFICES ASSUME NEW o \in Tasks PROVE Shaped(o)'
            BY DEF TaskShape
        <2>1. CASE o # t
              <3>1. pc'[o] = pc[o] /\ mem'[o] = mem[o]
                    BY <1>4, <2>1 DEF Load, Goto, TypeOK
              <3> QED BY <1>4, <2>1, <3>1, OthersKeepShape DEF Load, TaskShape
        <2>2. CASE o = t
              <3>1. /\ pc[t] = "load" /\ UNCHANGED <<incoming, sid, todo>>
                    /\ pc'[t] = "say" \/ (pc'[t] = "open" /\ mem' = mem)
                    BY <1>4 DEF Load, Goto, TypeOK
              <3> QED BY <2>2, <3>1 DEF TaskShape, Shaped, Resolved, Holding, Engaged
        <2> QED BY <2>1, <2>2
  <1>5. ASSUME NEW t \in Tasks, Open(t) PROVE TaskShape'
        <2>1. CASE End(t, "failed")
              BY <1>5, <2>1, EndKeepsShape DEF Open
        <2>2. CASE /\ UNCHANGED <<incoming, sid, todo>>
                   /\ \/ Goto(t, "say") /\ mem' = [mem EXCEPT ![t] = db[sid[t]]]
                      \/ Goto(t, "greet") /\ mem' = mem
              <3> SUFFICES ASSUME NEW o \in Tasks PROVE Shaped(o)'
                  BY DEF TaskShape
              <3>1. CASE o # t
                    BY <2>2, <3>1, OthersKeepShape DEF Goto, TypeOK, TaskShape
              <3>2. CASE o = t
                    <4>1. /\ pc[t] = "open"
                          /\ pc'[t] = "say" \/ (pc'[t] = "greet" /\ mem' = mem)
                          BY <1>5, <2>2 DEF Open, Goto, TypeOK
                    <4> QED BY <2>2, <3>2, <4>1 DEF TaskShape, Shaped, Resolved, Holding, Engaged
              <3> QED BY <3>1, <3>2
        <2> QED BY <1>5, <2>1, <2>2 DEF Open
  <1>6. ASSUME NEW t \in Tasks, Greet(t) \/ Say(t) PROVE TaskShape'
        <2> SUFFICES ASSUME NEW o \in Tasks PROVE Shaped(o)'
            BY DEF TaskShape
        <2>1. UNCHANGED <<incoming, sid, todo>>
              BY <1>6 DEF Greet, Say
        <2>2. CASE o # t
              BY <1>6, <2>1, <2>2, OthersKeepShape DEF Greet, Say, Goto, TypeOK, TaskShape
        <2>3. CASE o = t
              <3>1. pc[t] \in {"greet", "say"} /\ pc'[t] \in {"say", "run"}
                    BY <1>6 DEF Greet, Say, Goto, TypeOK
              <3> QED BY <2>1, <2>3, <3>1 DEF TaskShape, Shaped, Resolved, Holding, Engaged
        <2> QED BY <2>2, <2>3
  <1>7. ASSUME NEW t \in Tasks, AgentReplies(t) PROVE TaskShape'
        <2> SUFFICES ASSUME NEW o \in Tasks PROVE Shaped(o)'
            BY DEF TaskShape
        <2>1. CASE o # t
              BY <1>7, <2>1, OthersKeepShape DEF AgentReplies, Goto, TypeOK, TaskShape
        <2>2. CASE o = t
              <3>1. PICK r \in AgentRuns :
                        todo' = [todo EXCEPT ![t] = [i \in DOMAIN r |-> Tagged(t, r[i])]]
                    BY <1>7 DEF AgentReplies
              <3>2. todo'[t] = [i \in DOMAIN r |-> Tagged(t, r[i])]
                    BY <3>1 DEF TypeOK
              <3>3. \A i \in DOMAIN r : r[i] \in Message /\ r[i].role \in {"assistant", "tool"}
                    BY DispatcherAssumption
              <3>4. \A i \in DOMAIN todo'[t] :
                        todo'[t][i].by = t /\ todo'[t][i].msg.role \in {"assistant", "tool"}
                    BY <3>2, <3>3, Entries
              <3>5. pc[t] = "run" /\ pc'[t] = "save" /\ sid' = sid
                    BY <1>7 DEF AgentReplies, Goto, TypeOK
              <3> QED BY <2>2, <3>4, <3>5 DEF TaskShape, Shaped, Resolved, Holding, Engaged
        <2> QED BY <2>1, <2>2
  <1>8. ASSUME NEW t \in Tasks, SaveOne(t) PROVE TaskShape'
        <2> SUFFICES ASSUME NEW o \in Tasks PROVE Shaped(o)'
            BY DEF TaskShape
        <2>1. CASE o # t
              BY <1>8, <2>1, OthersKeepShape DEF SaveOne, TypeOK, TaskShape
        <2>2. CASE o = t
              <3>1. todo[t] \in Seq(Entry) /\ todo[t] # <<>> /\ todo'[t] = Tail(todo[t])
                    BY <1>8 DEF SaveOne, TypeOK
              <3>2. \A i \in DOMAIN todo'[t] : i + 1 \in DOMAIN todo[t] /\ todo'[t][i] = todo[t][i + 1]
                    BY <3>1
              <3>3. pc[t] = "save" /\ pc' = pc /\ sid' = sid
                    BY <1>8 DEF SaveOne
              <3> QED BY <2>2, <3>2, <3>3 DEF TaskShape, Shaped, Resolved, Holding, Engaged
        <2> QED BY <2>1, <2>2
  <1>9. ASSUME NEW t \in Tasks, AgentErrs(t) \/ Store(t) \/ Reply(t) \/ Fail(t) PROVE TaskShape'
        <2>1. PICK l \in {"done", "failed", "reply"} : End(t, l) /\ pc[t] # "none"
              BY <1>9 DEF AgentErrs, Store, Reply, Fail
        <2> QED BY <2>1, EndKeepsShape
  <1>10. ASSUME Restart PROVE TaskShape'
        <2> SUFFICES ASSUME NEW o \in Tasks PROVE Shaped(o)'
            BY DEF TaskShape
        <2>1. /\ pc'[o] \in {"none", "done", "failed", "lost"}
              /\ mem'[o] = <<>> /\ todo'[o] = <<>>
              BY <1>10 DEF Restart, Live
        <2> QED BY <2>1, NothingDone DEF Shaped, Resolved, Holding, Engaged
  <1>11. ASSUME UNCHANGED vars PROVE TaskShape'
        BY <1>11 DEF vars, TaskShape, Shaped, Cmd
  <1> QED BY <1>1, <1>2, <1>3, <1>4, <1>5, <1>6, <1>7, <1>8, <1>9, <1>10, <1>11
          DEF Next, Step, Rest

-----------------------------------------------------------------------------
(* One prompt at the start of every session.                               *)
LEMMA InitPrompts == Init => PromptInv
  <1> SUFFICES ASSUME Init PROVE PromptInv
      OBVIOUS
  <1>1. \A s \in Sessions : db[s] = EarlierChat \/ db[s] = <<>>
        BY DEF Init
  <1>2. OnePromptPerSession
        <2> SUFFICES ASSUME NEW s \in Sessions, NEW i \in DOMAIN db[s]
                     PROVE  db[s][i].msg.role = "system" <=> i = 1
            BY DEF OnePromptPerSession
        <2>1. db[s] # <<>>
              BY NothingDone
        <2>2. db[s] = EarlierChat
              BY <1>1, <2>1
        <2> QED BY <2>2, EarlierIsProper
  <1> QED BY <1>2 DEF Init, PromptInv, Engaged

(* A step that stores nothing, and after which its task is not at the      *)
(* prompt.                                                                 *)
LEMMA QuietKeepsPrompts ==
    ASSUME TypeOK, PromptInv, NEW t \in Tasks, UNCHANGED db, rows \subseteq rows',
           \A o \in Tasks \ {t} : pc'[o] = pc[o] /\ sid'[o] = sid[o],
           pc'[t] # "greet",
           pc'[t] \in Engaged => db[sid'[t]] # <<>>,
           \A s \in Sessions : cache'[s] # <<>> => db[s] # <<>>
    PROVE  PromptInv'
  <1>1. \A o \in Tasks : pc'[o] = "greet" => o # t /\ pc[o] = "greet" /\ sid'[o] = sid[o]
        OBVIOUS
  <1>2. \A o \in Tasks : pc'[o] \in Engaged => db'[sid'[o]] # <<>>
        BY DEF PromptInv
  <1> QED BY <1>1, <1>2 DEF PromptInv, OnePromptPerSession

(* A step that stores e in the session of its task.                        *)
LEMMA StoringKeepsPrompts ==
    ASSUME TypeOK, PromptInv, NEW t \in Tasks, NEW e \in Entry, sid[t] \in Sessions,
           db' = Stored(sid[t], e), UNCHANGED <<rows, cache>>,
           \A o \in Tasks \ {t} : pc'[o] = pc[o] /\ sid'[o] = sid[o],
           pc'[t] # "greet",
           pc'[t] \in Engaged => sid'[t] = sid[t],
           \/ pc[t] = "greet" /\ e.msg.role = "system"
           \/ DbFree /\ db[sid[t]] # <<>> /\ e.msg.role # "system"
    PROVE  PromptInv'
  <1>1. PICK s \in Sessions : s = sid[t]
        OBVIOUS
  <1>2. /\ db'[s] # <<>> /\ Len(db'[s]) = Len(db[s]) + 1
        /\ db'[s][Len(db[s]) + 1] = e
        /\ \A i \in 1..Len(db[s]) : db'[s][i] = db[s][i]
        /\ \A o \in Sessions \ {s} : db'[o] = db[o]
        /\ db' \in [Sessions -> Seq(Entry)]
        <2>1. db \in [Sessions -> Seq(Entry)]
              BY DEF TypeOK
        <2>2. db' = [db EXCEPT ![s] = Append(@, e)]
              BY <1>1 DEF Stored
        <2> QED BY <2>1, <2>2, StoredRows
  <1>3. \A o \in Tasks : pc'[o] # "greet"
        BY DEF PromptInv, DbFree
  <1>4. ASSUME NEW o \in Tasks, pc'[o] \in Engaged PROVE db'[sid'[o]] # <<>>
        <2>1. sid'[o] = s \/ (db[sid'[o]] # <<>> /\ sid'[o] = sid[o])
              BY <1>1, <1>4 DEF PromptInv
        <2>2. CASE sid'[o] = s
              BY <2>2, <1>2
        <2>3. CASE sid'[o] # s
              <3>1. db'[sid'[o]] = db[sid'[o]]
                    BY <2>3, <1>1 DEF Stored, TypeOK
              <3> QED BY <3>1, <2>1, <2>3
        <2> QED BY <2>2, <2>3
  <1>5. \A o \in Sessions : cache'[o] # <<>> => db'[o] # <<>>
        BY <1>2 DEF PromptInv
  <1>6. ASSUME NEW o \in Sessions, NEW i \in DOMAIN db'[o]
        PROVE  db'[o][i].msg.role = "system" <=> i = 1
        <2>1. CASE o # s
              BY <2>1, <1>2 DEF PromptInv, OnePromptPerSession
        <2>2. CASE o = s
              <3>1. Len(db[s]) \in Nat /\ DOMAIN db[s] = 1..Len(db[s])
                    BY DEF TypeOK
              <3>2. DOMAIN db'[s] = 1..(Len(db[s]) + 1)
                    BY <1>2, <3>1
              <3>3. CASE i \in 1..Len(db[s])
                    BY <2>2, <3>1, <3>3, <1>2 DEF PromptInv, OnePromptPerSession
              <3>4. CASE i = Len(db[s]) + 1
                    <4>1. pc[t] = "greet" => db[s] = <<>>
                          BY <1>1 DEF PromptInv
                    <4>2. Len(db[s]) = 0 <=> db[s] = <<>>
                          BY DEF TypeOK
                    <4>3. db'[o][i] = e
                          BY <1>2, <2>2, <3>4
                    <4>4. CASE pc[t] = "greet" /\ e.msg.role = "system"
                          <5>1. i = 1
                                BY <3>1, <3>4, <4>1, <4>2, <4>4
                          <5> QED BY <5>1, <4>3, <4>4
                    <4>5. CASE db[s] # <<>> /\ e.msg.role # "system"
                          <5>1. i # 1
                                BY <3>1, <3>4, <4>2, <4>5
                          <5> QED BY <5>1, <4>3, <4>5
                    <4> QED BY <1>1, <4>4, <4>5
              <3> QED BY <2>2, <3>1, <3>2, <3>3, <3>4
        <2> QED BY <2>1, <2>2
  <1> QED BY <1>3, <1>4, <1>5, <1>6 DEF PromptInv, OnePromptPerSession

LEMMA PromptStep == ASSUME TypeOK, TaskShape, PromptInv, [Next]_vars PROVE PromptInv'
  <1> USE DEF locals, disk
  <1>1. ASSUME NEW t \in Tasks,
               Receive(t) \/ Resolve(t) \/ Consume(t) \/ Unbind(t) \/ AgentReplies(t)
        PROVE  PromptInv'
        <2>1. UNCHANGED <<db, rows, cache>>
              BY <1>1 DEF Receive, Resolve, Consume, Unbind, AgentReplies
        <2>2. \A o \in Tasks \ {t} : pc'[o] = pc[o] /\ sid'[o] = sid[o]
              BY <1>1 DEF Receive, Resolve, Consume, Unbind, AgentReplies, Goto, TypeOK
        <2>3. pc[t] # "none" => Cmd(t) \in Commands
              BY AuthorIsUser
        <2>4. /\ pc'[t] # "greet"
              /\ pc'[t] \in Engaged => pc[t] = "run" /\ sid'[t] = sid[t]
              BY <1>1, <2>3, AfterLabels
                 DEF Receive, Resolve, Consume, Unbind, AgentReplies, Goto, TypeOK, Engaged
        <2>5. pc'[t] \in Engaged => db[sid'[t]] # <<>>
              BY <2>4 DEF PromptInv, Engaged
        <2>6. \A s \in Sessions : cache'[s] # <<>> => db[s] # <<>>
              BY <2>1 DEF PromptInv
        <2> QED BY <2>1, <2>2, <2>4, <2>5, <2>6, QuietKeepsPrompts
  <1>2. ASSUME NEW t \in Tasks, Uncache(t) \/ Load(t) PROVE PromptInv'
        <2>1. sid[t] \in Sessions
              BY <1>2 DEF Uncache, Load, TaskShape, Shaped, Resolved
        <2>2. UNCHANGED <<db, rows, sid>>
              BY <1>2 DEF Uncache, Load
        <2>3. \A o \in Tasks \ {t} : pc'[o] = pc[o] /\ sid'[o] = sid[o]
              BY <1>2 DEF Uncache, Load, Goto, TypeOK
        <2>4. pc'[t] # "greet" /\ (pc'[t] \in Engaged => cache[sid[t]] # <<>>)
              BY <1>2 DEF Uncache, Load, Goto, TypeOK, Engaged
        <2>5. pc'[t] \in Engaged => db[sid'[t]] # <<>>
              BY <2>1, <2>2, <2>4 DEF PromptInv
        <2>6. \A s \in Sessions : cache'[s] # <<>> => db[s] # <<>>
              <3>1. \A s \in Sessions : cache'[s] = cache[s] \/ cache'[s] = <<>>
                    BY <1>2 DEF Uncache, Load, TypeOK
              <3> QED BY <3>1 DEF PromptInv
        <2> QED BY <2>2, <2>3, <2>4, <2>5, <2>6, QuietKeepsPrompts
  <1>3. ASSUME NEW t \in Tasks, Open(t) PROVE PromptInv'
        <2>1. sid[t] \in Sessions
              BY <1>3 DEF Open, TaskShape, Shaped, Resolved, Holding
        <2>2. UNCHANGED <<db, cache>> /\ pc[t] = "open" /\ DbFree
              BY <1>3 DEF Open
        <2>3. \A s \in Sessions : cache'[s] # <<>> => db[s] # <<>>
              BY <2>2 DEF PromptInv
        <2>4. CASE db[sid[t]] # <<>> /\ Goto(t, "say") /\ UNCHANGED <<sid, rows>>
              <3>1. \A o \in Tasks \ {t} : pc'[o] = pc[o] /\ sid'[o] = sid[o]
                    BY <2>4 DEF Goto, TypeOK
              <3>2. pc'[t] # "greet" /\ db[sid'[t]] # <<>>
                    BY <2>4 DEF Goto, TypeOK
              <3> QED BY <2>2, <2>3, <2>4, <3>1, <3>2, QuietKeepsPrompts
        <2>5. CASE db[sid[t]] = <<>> /\ InsertSession(sid[t]) /\ Goto(t, "greet") /\ UNCHANGED sid
              <3>1. pc' = [pc EXCEPT ![t] = "greet"] /\ rows' = rows \cup {sid[t]}
                    BY <2>5 DEF Goto, InsertSession
              <3>2. \A o \in Tasks : pc'[o] = "greet" => o = t
                    BY <2>2, <3>1 DEF DbFree, TypeOK
              <3>3. \A o \in Tasks : pc'[o] \in Engaged => pc[o] \in Engaged
                    BY <3>1 DEF TypeOK, Engaged
              <3> QED BY <2>2, <2>3, <2>5, <3>1, <3>2, <3>3 DEF PromptInv, OnePromptPerSession
        <2>6. CASE End(t, "failed") /\ rows' = rows
              <3>1. /\ \A o \in Tasks \ {t} : pc'[o] = pc[o] /\ sid'[o] = sid[o]
                    /\ pc'[t] = "failed"
                    BY <2>2, <2>6, EndTypes
              <3>2. pc'[t] # "greet" /\ pc'[t] \notin Engaged
                    BY <3>1 DEF Engaged
              <3> QED BY <2>2, <2>3, <2>6, <3>1, <3>2, QuietKeepsPrompts
        <2> QED BY <1>3, <2>4, <2>5, <2>6 DEF Open
  <1>4. ASSUME NEW t \in Tasks, Greet(t) PROVE PromptInv'
        <2>1. PICK e \in Entry : e = Tagged(0, SystemMessage) /\ e.msg.role = "system"
              BY Entries
        <2>2. sid[t] \in Sessions
              BY <1>4, RowIsThere DEF Greet
        <2>3. db' = Stored(sid[t], e) /\ UNCHANGED <<rows, cache, sid>> /\ pc[t] = "greet"
              BY <1>4, <2>1 DEF Greet
        <2>4. /\ \A o \in Tasks \ {t} : pc'[o] = pc[o] /\ sid'[o] = sid[o]
              /\ pc'[t] = "say"
              BY <1>4 DEF Greet, Goto, TypeOK
        <2> QED BY <2>1, <2>2, <2>3, <2>4, StoringKeepsPrompts
  <1>5. ASSUME NEW t \in Tasks, Say(t) PROVE PromptInv'
        <2>1. PICK e \in Entry : e = Tagged(t, UserMessage) /\ e.msg.role = "user"
              BY Entries
        <2>2. sid[t] \in Sessions
              BY <1>5, RowIsThere DEF Say, Engaged
        <2>3. /\ db' = Stored(sid[t], e) /\ UNCHANGED <<rows, cache, sid>>
              /\ DbFree /\ db[sid[t]] # <<>>
              BY <1>5, <2>1 DEF Say, PromptInv, Engaged
        <2>4. /\ \A o \in Tasks \ {t} : pc'[o] = pc[o] /\ sid'[o] = sid[o]
              /\ pc'[t] = "run"
              BY <1>5 DEF Say, Goto, TypeOK
        <2> QED BY <2>1, <2>2, <2>3, <2>4, StoringKeepsPrompts
  <1>6. ASSUME NEW t \in Tasks, SaveOne(t) PROVE PromptInv'
        <2>1. PICK e \in Entry : e = Head(todo[t]) /\ e.msg.role # "system"
              <3>1. todo[t] \in Seq(Entry) /\ todo[t] # <<>>
                    BY <1>6 DEF SaveOne, TypeOK
              <3>2. Head(todo[t]) \in Entry /\ Head(todo[t]) = todo[t][1] /\ 1 \in DOMAIN todo[t]
                    BY <3>1
              <3> QED BY <3>2 DEF TaskShape, Shaped
        <2>2. sid[t] \in Sessions
              BY <1>6, RowIsThere DEF SaveOne, Engaged
        <2>3. /\ db' = Stored(sid[t], e) /\ UNCHANGED <<rows, cache, sid, pc>>
              /\ DbFree /\ db[sid[t]] # <<>> /\ pc[t] = "save"
              BY <1>6, <2>1 DEF SaveOne, PromptInv, Engaged
        <2> QED BY <2>1, <2>2, <2>3, StoringKeepsPrompts
  <1>7. ASSUME NEW t \in Tasks, AgentErrs(t) \/ Store(t) \/ Reply(t) PROVE PromptInv'
        <2>1. PICK l \in {"done", "reply"} : End(t, l) /\ pc[t] # "none"
              BY <1>7 DEF AgentErrs, Store, Reply
        <2>2. /\ \A o \in Tasks \ {t} : pc'[o] = pc[o] /\ sid'[o] = sid[o]
              /\ pc'[t] = l
              BY <2>1, EndTypes
        <2>3. pc'[t] # "greet" /\ pc'[t] \notin Engaged
              BY <2>2 DEF Engaged
        <2>4. UNCHANGED <<db, rows>>
              BY <1>7 DEF AgentErrs, Store, Reply
        <2>5. ASSUME NEW s \in Sessions, cache'[s] # <<>> PROVE db[s] # <<>>
              <3>1. cache'[s] = cache[s] \/ (s = sid[t] /\ pc[t] \in Engaged)
                    BY <1>7 DEF AgentErrs, Store, Reply, TypeOK, Engaged
              <3> QED BY <2>5, <3>1 DEF PromptInv
        <2> QED BY <2>2, <2>3, <2>4, <2>5, QuietKeepsPrompts
  <1>8. ASSUME NEW t \in Tasks, Fail(t) PROVE PromptInv'
        <2>1. End(t, "failed") /\ pc[t] # "none" /\ UNCHANGED <<rows, cache>>
              BY <1>8 DEF Fail
        <2>2. /\ \A o \in Tasks \ {t} : pc'[o] = pc[o] /\ sid'[o] = sid[o]
              /\ pc'[t] = "failed"
              BY <2>1, EndTypes
        <2>3. pc'[t] # "greet" /\ pc'[t] \notin Engaged
              BY <2>2 DEF Engaged
        <2>4. CASE db' = db
              <3>1. \A s \in Sessions : cache'[s] # <<>> => db[s] # <<>>
                    BY <2>1 DEF PromptInv
              <3> QED BY <2>1, <2>2, <2>3, <2>4, <3>1, QuietKeepsPrompts
        <2>5. CASE db' # db
              <3>1. pc[t] \in {"greet"} \cup Engaged
                    BY <1>8, <2>5 DEF Fail, Engaged
              <3>2. sid[t] \in Sessions
                    BY <3>1, RowIsThere
              <3>3. pc[t] \in Engaged => db[sid[t]] # <<>>
                    BY DEF PromptInv
              <3>4. PICK e \in Entry :
                        /\ db' = Stored(sid[t], e)
                        /\ \/ pc[t] = "greet" /\ e.msg.role = "system"
                           \/ DbFree /\ pc[t] \in Engaged /\ e.msg.role # "system"
                    <4>1. /\ Tagged(0, SystemMessage) \in Entry
                          /\ Tagged(0, SystemMessage).msg.role = "system"
                          /\ Tagged(t, UserMessage) \in Entry
                          /\ Tagged(t, UserMessage).msg.role = "user"
                          BY Entries
                    <4>2. todo[t] # <<>> => /\ Head(todo[t]) \in Entry
                                            /\ Head(todo[t]) = todo[t][1] /\ 1 \in DOMAIN todo[t]
                          BY DEF TypeOK
                    <4>3. todo[t] # <<>> => Head(todo[t]).msg.role # "system"
                          BY <4>2 DEF TaskShape, Shaped
                    <4>4. CASE pc[t] = "greet"
                          BY <1>8, <2>5, <4>1, <4>4 DEF Fail
                    <4>5. CASE pc[t] = "say"
                          BY <1>8, <2>5, <4>1, <4>5 DEF Fail, Engaged
                    <4>6. CASE pc[t] = "save"
                          BY <1>8, <2>5, <4>2, <4>3, <4>6 DEF Fail, Engaged
                    <4> QED BY <1>8, <2>5, <4>4, <4>5, <4>6 DEF Fail
              <3> QED BY <2>1, <2>2, <2>3, <3>2, <3>3, <3>4, StoringKeepsPrompts
        <2> QED BY <2>4, <2>5
  <1>9. ASSUME Restart PROVE PromptInv'
        <2>1. \A o \in Tasks : pc'[o] \in {"none", "done", "failed", "lost"}
              BY <1>9 DEF Restart, Live
        <2>2. UNCHANGED <<db, rows>> /\ \A s \in Sessions : cache'[s] = <<>>
              BY <1>9 DEF Restart
        <2> QED BY <2>1, <2>2 DEF PromptInv, OnePromptPerSession, Engaged
  <1>10. ASSUME UNCHANGED vars PROVE PromptInv'
         BY <1>10 DEF vars, PromptInv, OnePromptPerSession
  <1> QED BY <1>1, <1>2, <1>3, <1>4, <1>5, <1>6, <1>7, <1>8, <1>9, <1>10
          DEF Next, Step, Rest

-----------------------------------------------------------------------------
(* Who may be in a session.                                                *)
LEMMA InitEntries == Init => EntryInv
  <1> SUFFICES ASSUME Init PROVE EntryInv
      OBVIOUS
  <1>1. ASSUME NEW s \in Sessions, NEW t \in By(db[s]) \ {0} PROVE FALSE
        <2>1. PICK i \in DOMAIN db[s] : t = db[s][i].by
              BY <1>1 DEF By
        <2>2. db[s] # <<>>
              BY NothingDone
        <2>3. db[s] = EarlierChat
              BY <2>2 DEF Init
        <2> QED BY <1>1, <2>1, <2>3, EarlierIsProper
  <1>2. OnlyInvitedEnter
        BY <1>1 DEF OnlyInvitedEnter
  <1>3. BindingsInvited(bindings) /\ BindingsInvited(file.bindings)
        BY DEF Init, BindingsInvited
  <1> QED BY <1>1, <1>2, <1>3 DEF Init, EntryInv, Welcome, Resolved, Holding

(* What a session holds after one more message.                            *)
LEMMA StoredBy ==
    ASSUME TypeOK, NEW s \in Sessions, NEW e \in Entry, db' = Stored(s, e)
    PROVE  /\ By(db'[s]) \subseteq By(db[s]) \cup {e.by}
           /\ \A o \in Sessions \ {s} : By(db'[o]) = By(db[o])
  <1>1. /\ Len(db'[s]) = Len(db[s]) + 1
        /\ db'[s][Len(db[s]) + 1] = e
        /\ \A i \in 1..Len(db[s]) : db'[s][i] = db[s][i]
        /\ \A o \in Sessions \ {s} : db'[o] = db[o]
        /\ db' \in [Sessions -> Seq(Entry)]
        <2>1. db \in [Sessions -> Seq(Entry)]
              BY DEF TypeOK
        <2>2. db' = [db EXCEPT ![s] = Append(@, e)]
              BY DEF Stored
        <2> QED BY <2>1, <2>2, StoredRows
  <1>2. DOMAIN db[s] = 1..Len(db[s]) /\ Len(db[s]) \in Nat
        BY DEF TypeOK
  <1>3. DOMAIN db'[s] = 1..(Len(db[s]) + 1)
        BY <1>1, <1>2
  <1>4. By(db'[s]) \subseteq By(db[s]) \cup {e.by}
        <2> SUFFICES ASSUME NEW i \in DOMAIN db'[s] PROVE db'[s][i].by \in By(db[s]) \cup {e.by}
            BY DEF By
        <2>1. CASE i \in 1..Len(db[s])
              <3>1. i \in DOMAIN db[s] /\ db'[s][i] = db[s][i]
                    BY <2>1, <1>1, <1>2
              <3> QED BY <3>1 DEF By
        <2>2. CASE i = Len(db[s]) + 1
              BY <2>2, <1>1
        <2> QED BY <2>1, <2>2, <1>2, <1>3
  <1> QED BY <1>1, <1>4

(* What has been said and redeemed stays so while nothing new is stored.   *)
LEMMA EntriesStay ==
    ASSUME TypeOK, EntryInv, NEW n \in Nat, n = Len(incoming), n <= Len(incoming'),
           Len(incoming') \in Nat,
           \A i \in 1..n : incoming'[i] = incoming[i], invited \subseteq invited',
           \A s \in Sessions : \A t \in By(db'[s]) \ {0} :
               t \in By(db[s]) \/ (/\ t \in 1..n /\ Author(t) \in Permitted
                                   /\ s = Author(t) \/ <<Author(t), s>> \in invited)
    PROVE  /\ \A s \in Sessions : \A t \in By(db'[s]) \ {0} : t <= Len(incoming')
           /\ OnlyInvitedEnter'
  <1>1. \A s \in Sessions : \A t \in By(db[s]) : t \in Nat
        <2>1. ASSUME NEW s \in Sessions, NEW i \in DOMAIN db[s] PROVE db[s][i].by \in Nat
              <3>1. db[s][i] \in Entry
                    BY DEF TypeOK
              <3>2. db[s][i].by \in 0..MaxMessages
                    BY <3>1, Entries
              <3> QED BY <3>2, DispatcherAssumption
        <2> QED BY <2>1 DEF By
  <1>2. ASSUME NEW s \in Sessions, NEW t \in By(db'[s]) \ {0}
        PROVE  t \in 1..n /\ Author(t) \in Permitted /\ (s = Author(t) \/ <<Author(t), s>> \in invited)
        <2>1. CASE t \in By(db[s])
              <3>1. t \in Nat \ {0} /\ t <= n
                    BY <1>1, <1>2, <2>1 DEF EntryInv
              <3> QED BY <1>2, <2>1, <3>1 DEF EntryInv, OnlyInvitedEnter
        <2>2. CASE t \notin By(db[s])
              BY <1>2, <2>2
        <2> QED BY <2>1, <2>2
  <1>3. \A t \in 1..n : Author(t)' = Author(t)
        BY DEF Author
  <1>4. \A s \in Sessions : \A t \in By(db'[s]) \ {0} : t <= Len(incoming')
        <2> SUFFICES ASSUME NEW s \in Sessions, NEW t \in By(db'[s]) \ {0}
                     PROVE  t <= Len(incoming')
            OBVIOUS
        <2>1. t \in 1..n
              BY <1>2
        <2> QED BY <2>1
  <1>5. OnlyInvitedEnter'
        BY <1>2, <1>3 DEF OnlyInvitedEnter
  <1> QED BY <1>4, <1>5

(* A task that keeps its place, or moves on, keeps its right to be there.  *)
LEMMA StaysWelcome ==
    ASSUME NEW t \in Tasks, Welcome(t), invited \subseteq invited', incoming'[t] = incoming[t],
           pc'[t] \in {"resolve"} \cup Resolved => pc[t] \in {"resolve"} \cup Resolved,
           pc'[t] \in Resolved => pc[t] \in Resolved /\ sid'[t] = sid[t]
    PROVE  Welcome(t)'
  BY DEF Welcome, Author

LEMMA ResolvedOrNot == \A l \in Resolved : l \notin {"none", "resolve", "reply", "done", "failed", "lost"}
  BY DEF Resolved, Holding

LEMMA EntryStep == ASSUME TypeOK, TaskShape, PromptInv, EntryInv, [Next]_vars PROVE EntryInv'
  <1> USE DEF locals, disk, joins, notes
  <1>a. PICK n \in Nat : n = Len(incoming)
        BY DEF TypeOK
  <1>1. ASSUME NEW t \in Tasks, Receive(t) PROVE EntryInv'
        <2>1. PICK x \in Traffic :
                  /\ t = n + 1
                  /\ incoming' = Append(incoming, x)
                  /\ Goto(t, IF x.user \in Permitted THEN "resolve" ELSE "reply")
                  /\ UNCHANGED <<sid, db, bindings, file, invited>>
              BY <1>1, <1>a DEF Receive
        <2>2. /\ Len(incoming') = n + 1 /\ incoming'[n + 1] = x
              /\ \A i \in 1..n : incoming'[i] = incoming[i]
              BY <2>1, <1>a, Arrives DEF TypeOK
        <2>3. ASSUME NEW o \in Tasks PROVE Welcome(o)'
              <3>1. CASE o # t
                    <4>1. pc'[o] = pc[o]
                          BY <2>1, <3>1 DEF Goto, TypeOK
                    <4>2. CASE pc[o] = "none"
                          BY <4>1, <4>2, ResolvedOrNot DEF Welcome
                    <4>3. CASE pc[o] # "none"
                          <5>1. incoming'[o] = incoming[o]
                                BY <2>2, <4>3, <1>a, AuthorIsUser
                          <5> QED BY <2>1, <4>1, <5>1, StaysWelcome DEF EntryInv
                    <4> QED BY <4>2, <4>3
              <3>2. CASE o = t
                    <4>1. Author(t)' = x.user
                          BY <2>1, <2>2 DEF Author
                    <4>2. pc'[t] = IF x.user \in Permitted THEN "resolve" ELSE "reply"
                          BY <2>1 DEF Goto, TypeOK
                    <4> QED BY <3>2, <4>1, <4>2, ResolvedOrNot DEF Welcome
              <3> QED BY <3>1, <3>2
        <2>4. \A s \in Sessions : By(db'[s]) = By(db[s])
              BY <2>1 DEF By
        <2>5. /\ \A s \in Sessions : \A u \in By(db'[s]) \ {0} : u <= Len(incoming')
              /\ OnlyInvitedEnter'
              BY <2>1, <2>2, <2>4, <1>a, EntriesStay
        <2>6. BindingsInvited(bindings)' /\ BindingsInvited(file.bindings)'
              BY <2>1 DEF EntryInv, BindingsInvited
        <2> QED BY <2>3, <2>5, <2>6 DEF EntryInv
  <1>2. ASSUME NEW t \in Tasks, Resolve(t) PROVE EntryInv'
        <2>1. /\ UNCHANGED <<incoming, db, bindings, file, invited>>
              /\ pc[t] = "resolve"
              /\ sid' = [sid EXCEPT ![t] = IF bindings[Author(t)] # NoSession
                                            THEN bindings[Author(t)] ELSE Author(t)]
              /\ \A o \in Tasks \ {t} : pc'[o] = pc[o] /\ sid'[o] = sid[o]
              BY <1>2 DEF Resolve, Goto, TypeOK
        <2>2. /\ Author(t) \in Users
              /\ Author(t)' = Author(t)
              BY <2>1, AuthorIsUser DEF Author
        <2>3. ASSUME NEW o \in Tasks PROVE Welcome(o)'
              <3>1. CASE o # t
                    BY <2>1, <3>1, StaysWelcome DEF EntryInv
              <3>2. CASE o = t
                    <4>1. sid'[t] = Author(t) \/ <<Author(t), sid'[t]>> \in invited
                          BY <2>1, <2>2 DEF TypeOK, EntryInv, BindingsInvited
                    <4>2. Author(t) \in Permitted
                          BY <2>1 DEF EntryInv, Welcome
                    <4> QED BY <2>1, <2>2, <3>2, <4>1, <4>2 DEF Welcome
              <3> QED BY <3>1, <3>2
        <2>4. /\ \A s \in Sessions : \A u \in By(db'[s]) \ {0} : u <= Len(incoming')
              /\ OnlyInvitedEnter'
              BY <2>1, <1>a, EntriesStay
        <2>5. BindingsInvited(bindings)' /\ BindingsInvited(file.bindings)'
              BY <2>1 DEF EntryInv, BindingsInvited
        <2> QED BY <2>3, <2>4, <2>5 DEF EntryInv
  <1>3. ASSUME NEW t \in Tasks, Consume(t) \/ Unbind(t) PROVE EntryInv'
        <2>1. /\ UNCHANGED <<incoming, sid, db>> /\ pc[t] \in {"consume", "unbind"}
              /\ pc'[t] \in {"uncache", "reply"}
              /\ \A o \in Tasks \ {t} : pc'[o] = pc[o]
              /\ invited \subseteq invited'
              BY <1>3 DEF Consume, Unbind, Goto, TypeOK
        <2>2. Author(t) \in Users
              BY <2>1, AuthorIsUser
        <2>3. ASSUME NEW o \in Tasks PROVE Welcome(o)'
              <3>1. pc'[o] \in {"resolve"} \cup Resolved => pc[o] \in {"resolve"} \cup Resolved
                    BY <2>1 DEF Resolved
              <3>2. pc'[o] \in Resolved => pc[o] \in Resolved /\ sid'[o] = sid[o]
                    BY <2>1, ResolvedOrNot DEF Resolved
              <3> QED BY <2>1, <3>1, <3>2, StaysWelcome DEF EntryInv
        <2>4. /\ \A s \in Sessions : \A u \in By(db'[s]) \ {0} : u <= Len(incoming')
              /\ OnlyInvitedEnter'
              BY <2>1, <1>a, EntriesStay
        <2>5. BindingsInvited(bindings)'
              <3> SUFFICES ASSUME NEW u \in Users, bindings'[u] # NoSession
                           PROVE  <<u, bindings'[u]>> \in invited'
                  BY DEF BindingsInvited
              <3>1. CASE bindings'[u] = bindings[u]
                    BY <2>1, <3>1 DEF EntryInv, BindingsInvited
              <3>2. CASE bindings'[u] # bindings[u]
                    <4>1. Consume(t) /\ u = Author(t) /\ bindings'[u] = keys[Key(t)]
                          BY <1>3, <3>2, <2>2 DEF Consume, Unbind, TypeOK
                    <4>2. <<u, keys[Key(t)]>> \in invited'
                          BY <4>1, <3>2 DEF Consume
                    <4> QED BY <4>1, <4>2
              <3> QED BY <3>1, <3>2
        <2>6. BindingsInvited(file.bindings)'
              <3>1. file'.bindings = bindings' \/ file' = file
                    BY <1>3 DEF Consume, Unbind, Save
              <3> QED BY <2>1, <2>5, <3>1 DEF EntryInv, BindingsInvited
        <2> QED BY <2>3, <2>4, <2>5, <2>6 DEF EntryInv
  <1>4. ASSUME NEW t \in Tasks,
               Uncache(t) \/ Load(t) \/ Open(t) \/ AgentReplies(t)
                 \/ AgentErrs(t) \/ Store(t) \/ Reply(t)
        PROVE  EntryInv'
        <2>1. UNCHANGED <<incoming, db, bindings, file, invited>>
              BY <1>4 DEF Uncache, Load, Open, AgentReplies, AgentErrs, Store, Reply, End
        <2>2. \A o \in Tasks \ {t} : pc'[o] = pc[o] /\ sid'[o] = sid[o]
              BY <1>4 DEF Uncache, Load, Open, AgentReplies, AgentErrs, Store, Reply,
                          End, Goto, TypeOK
        <2>3. /\ pc'[t] \in Resolved => pc[t] \in Resolved /\ sid'[t] = sid[t]
              /\ pc'[t] # "resolve"
              BY <1>4 DEF Uncache, Load, Open, AgentReplies, AgentErrs, Store, Reply,
                          End, Goto, TypeOK, Resolved, Holding
        <2>4. ASSUME NEW o \in Tasks PROVE Welcome(o)'
              BY <2>1, <2>2, <2>3, StaysWelcome DEF EntryInv
        <2>5. /\ \A s \in Sessions : \A u \in By(db'[s]) \ {0} : u <= Len(incoming')
              /\ OnlyInvitedEnter'
              BY <2>1, <1>a, EntriesStay
        <2>6. BindingsInvited(bindings)' /\ BindingsInvited(file.bindings)'
              BY <2>1 DEF EntryInv, BindingsInvited
        <2> QED BY <2>4, <2>5, <2>6 DEF EntryInv
  <1>5. ASSUME NEW t \in Tasks, Greet(t) \/ Say(t) \/ SaveOne(t) \/ Fail(t) PROVE EntryInv'
        <2>1. UNCHANGED <<incoming, bindings, file, invited>>
              BY <1>5 DEF Greet, Say, SaveOne, Fail, End
        <2>2. \A o \in Tasks \ {t} : pc'[o] = pc[o] /\ sid'[o] = sid[o]
              BY <1>5 DEF Greet, Say, SaveOne, Fail, End, Goto, TypeOK
        <2>3. /\ pc'[t] \in Resolved => pc[t] \in Resolved /\ sid'[t] = sid[t]
              /\ pc'[t] # "resolve"
              BY <1>5 DEF Greet, Say, SaveOne, Fail, End, Goto, TypeOK, Resolved, Holding
        <2>4. ASSUME NEW o \in Tasks PROVE Welcome(o)'
              BY <2>1, <2>2, <2>3, StaysWelcome DEF EntryInv
        <2>5. ASSUME NEW s \in Sessions, NEW u \in By(db'[s]) \ {0}, u \notin By(db[s])
              PROVE  /\ u \in 1..n /\ Author(u) \in Permitted
                     /\ s = Author(u) \/ <<Author(u), s>> \in invited
              <3>1. db' # db
                    BY <2>5
              <3>2. pc[t] \in {"greet"} \cup Engaged
                    BY <1>5, <3>1 DEF Greet, Say, SaveOne, Fail, Engaged
              <3>3. sid[t] \in Sessions
                    BY <3>2, RowIsThere
              <3>4. PICK e \in Entry : db' = Stored(sid[t], e) /\ e.by \in {0, t}
                    <4>1. /\ Tagged(0, SystemMessage) \in Entry
                          /\ Tagged(0, SystemMessage).by = 0
                          /\ Tagged(t, UserMessage) \in Entry
                          /\ Tagged(t, UserMessage).by = t
                          BY Entries
                    <4>2. todo[t] # <<>> => /\ Head(todo[t]) \in Entry
                                            /\ Head(todo[t]) = todo[t][1] /\ 1 \in DOMAIN todo[t]
                          BY DEF TypeOK
                    <4>3. todo[t] # <<>> => Head(todo[t]).by = t
                          BY <4>2 DEF TaskShape, Shaped
                    <4> QED BY <1>5, <3>1, <4>1, <4>2, <4>3 DEF Greet, Say, SaveOne, Fail
              <3>5. s = sid[t] /\ u = t
                    BY <2>5, <3>3, <3>4, StoredBy
              <3>6. t \in 1..n
                    BY <1>a, <3>2, AuthorIsUser DEF Engaged
              <3>7. pc[t] \in Resolved
                    BY <3>2 DEF Resolved, Holding, Engaged
              <3> QED BY <3>5, <3>6, <3>7 DEF EntryInv, Welcome
        <2>6. /\ \A s \in Sessions : \A u \in By(db'[s]) \ {0} : u <= Len(incoming')
              /\ OnlyInvitedEnter'
              BY <2>1, <2>5, <1>a, EntriesStay
        <2>7. BindingsInvited(bindings)' /\ BindingsInvited(file.bindings)'
              BY <2>1 DEF EntryInv, BindingsInvited
        <2> QED BY <2>4, <2>6, <2>7 DEF EntryInv
  <1>6. ASSUME Restart PROVE EntryInv'
        <2>1. /\ UNCHANGED <<incoming, db, file, invited>> /\ bindings' = file.bindings
              /\ \A o \in Tasks : pc'[o] \in {"none", "done", "failed", "lost"}
              BY <1>6 DEF Restart, Live
        <2>2. \A o \in Tasks : Welcome(o)'
              BY <2>1, ResolvedOrNot DEF Welcome
        <2>3. /\ \A s \in Sessions : \A u \in By(db'[s]) \ {0} : u <= Len(incoming')
              /\ OnlyInvitedEnter'
              BY <2>1, <1>a, EntriesStay
        <2>4. BindingsInvited(bindings)' /\ BindingsInvited(file.bindings)'
              BY <2>1 DEF EntryInv, BindingsInvited
        <2> QED BY <2>2, <2>3, <2>4 DEF EntryInv
  <1>7. ASSUME UNCHANGED vars PROVE EntryInv'
        <2>1. UNCHANGED <<incoming, pc, sid, db, bindings, file, invited>>
              BY <1>7 DEF vars
        <2> QED BY <2>1 DEF EntryInv, Welcome, BindingsInvited, OnlyInvitedEnter, Author
  <1> QED BY <1>1, <1>2, <1>3, <1>4, <1>5, <1>6, <1>7 DEF Next, Step, Rest

-----------------------------------------------------------------------------
(* What is remembered, at any interleaving.                                *)
LEMMA LeastNumber ==
    ASSUME NEW S \in SUBSET Nat, S # {}
    PROVE  \E i \in S : \A k \in S : i <= k
  <1>1. PICK i \in S : \A k \in S : <<k, i>> \notin OpToRel(<, Nat)
        BY WFMin, NatLessThanWellFounded, Zenon
  <1>2. ASSUME NEW k \in S PROVE i <= k
    <2>1. <<k, i>> \in Nat \X Nat /\ <<k, i>> \notin OpToRel(<, Nat)
          BY <1>1
    <2>2. ~(<<k, i>>[1] < <<k, i>>[2])
          BY <2>1 DEF OpToRel
    <2>3. ~(k < i)
          BY <2>2
    <2> QED BY <2>3
  <1> QED BY <1>2

(* Within counts how much of es it has met in fs, one position of fs after *)
(* another; wherever es is embedded, the count keeps up with it.           *)
LEMMA EmbeddedIsWithin ==
    ASSUME NEW es \in Seq(Entry), NEW fs \in Seq(Entry), Embeds(es, fs)
    PROVE  Within(es, fs)
  <1> DEFINE L == Len(fs)
             K == Len(es)
             More(k, n) == IF k < K /\ es[k + 1] = fs[n] THEN k + 1 ELSE k
             Counts(g, m) == /\ g \in [0..m -> 0..K]
                             /\ g[0] = 0
                             /\ \A n \in 1..m : g[n] = More(g[n - 1], n)
             met[n \in 0..L] ==
                 IF n = 0 THEN 0
                 ELSE LET k == met[n - 1]
                      IN  IF k < K /\ es[k + 1] = fs[n] THEN k + 1 ELSE k
  <1>1. L \in Nat /\ K \in Nat
        OBVIOUS
  <1>2. PICK at : EmbedsAt(es, fs, at)
        BY DEF Embeds
  <1>3. \E g : Counts(g, L)
        <2> HIDE DEF Counts
        <2> DEFINE S == {m \in Nat : m <= L /\ ~ \E g : Counts(g, m)}
        <2>1. SUFFICES ASSUME S # {} PROVE FALSE
              BY <1>1
        <2>2. PICK m \in S : \A o \in S : m <= o
              <3>1. S \in SUBSET Nat
                    OBVIOUS
              <3> QED BY <2>1, <3>1, LeastNumber
        <2>3. CASE m = 0
              <3>1. Counts([n \in 0..0 |-> 0], 0)
                    BY <1>1 DEF Counts
              <3> QED BY <2>2, <2>3, <3>1
        <2>4. CASE m # 0
              <3>1. m - 1 \in Nat /\ m - 1 <= L /\ m - 1 \notin S
                    BY <1>1, <2>2, <2>4
              <3>2. PICK g : Counts(g, m - 1)
                    BY <3>1
              <3>3. PICK h : h = [n \in 0..m |-> IF n = m THEN More(g[m - 1], m) ELSE g[n]]
                    OBVIOUS
              <3>4. g[m - 1] \in 0..K /\ More(g[m - 1], m) \in 0..K
                    BY <1>1, <3>1, <3>2 DEF Counts
              <3>5. h \in [0..m -> 0..K] /\ h[0] = 0
                    BY <2>4, <3>1, <3>2, <3>3, <3>4 DEF Counts
              <3>6. \A n \in 1..m : h[n] = More(h[n - 1], n)
                    <4> SUFFICES ASSUME NEW n \in 1..m PROVE h[n] = More(h[n - 1], n)
                        OBVIOUS
                    <4>1. n - 1 \in 0..m /\ n - 1 # m /\ h[n - 1] = g[n - 1]
                          BY <3>1, <3>3
                    <4>2. CASE n = m
                          BY <3>3, <4>1, <4>2
                    <4>3. CASE n # m
                          <5>1. n \in 1..(m - 1) /\ h[n] = g[n]
                                BY <3>1, <3>3, <4>3
                          <5> QED BY <3>2, <4>1, <5>1 DEF Counts
                    <4> QED BY <4>2, <4>3
              <3>7. Counts(h, m)
                    BY <3>5, <3>6 DEF Counts
              <3> QED BY <2>2, <3>7
        <2> QED BY <2>3, <2>4
  <1>4. met = [n \in 0..L |-> IF n = 0 THEN 0 ELSE More(met[n - 1], n)]
        <2>1. PICK g : Counts(g, L)
              BY <1>3
        <2>2. g = [n \in 0..L |-> IF n = 0 THEN 0
                                  ELSE LET k == g[n - 1]
                                       IN  IF k < K /\ es[k + 1] = fs[n] THEN k + 1 ELSE k]
              <3>1. \A n \in 0..L : n = 0 \/ n \in 1..L
                    BY <1>1
              <3> QED BY <2>1, <3>1
        <2> HIDE DEF Counts, L, K
        <2> QED BY <2>2
  <1> HIDE DEF met
  <1> DEFINE Keeps(n) == /\ met[n] \in 0..K
                         /\ \A k \in 1..K : at[k] <= n => k <= met[n]
  <1>5. \A n \in 0..L : Keeps(n)
        <2> DEFINE S == {n \in 0..L : ~Keeps(n)}
        <2>1. SUFFICES ASSUME S # {} PROVE FALSE
              OBVIOUS
        <2>2. PICK n \in S : \A o \in S : n <= o
              <3>1. S \in SUBSET Nat
                    BY <1>1
              <3> QED BY <2>1, <3>1, LeastNumber
        <2>3. \A k \in 1..K : at[k] \in 1..L
              BY <1>2 DEF EmbedsAt
        <2>4. CASE n = 0
              <3>1. met[0] = 0
                    BY <1>1, <1>4
              <3>2. Keeps(0)
                    BY <1>1, <2>3, <3>1
              <3> QED BY <2>2, <2>4, <3>2
        <2>5. CASE n # 0
              <3>1. n - 1 \in 0..L /\ Keeps(n - 1) /\ n \in 1..L
                    BY <1>1, <2>2, <2>5
              <3>2. PICK c \in 0..K : c = met[n - 1]
                    BY <3>1
              <3>3. met[n] = More(c, n)
                    BY <1>4, <2>5, <3>1, <3>2
              <3>4. met[n] \in 0..K /\ c <= met[n]
                    BY <1>1, <3>3
              <3>5. ASSUME NEW k \in 1..K, at[k] <= n PROVE k <= met[n]
                    <4>1. CASE at[k] <= n - 1
                          BY <3>1, <3>2, <3>4, <4>1, <1>1
                    <4>2. CASE at[k] = n
                          <5>1. k - 1 <= c
                                <6>1. CASE k = 1
                                      BY <6>1
                                <6>2. CASE k # 1
                                      <7>1. k - 1 \in 1..K /\ k - 1 < k
                                            BY <6>2, <1>1
                                      <7>2. at[k - 1] < at[k]
                                            BY <7>1, <1>2 DEF EmbedsAt
                                      <7>3. at[k - 1] <= n - 1
                                            BY <7>1, <7>2, <2>3, <4>2, <3>1
                                      <7> QED BY <7>1, <7>3, <3>1, <3>2
                                <6> QED BY <6>1, <6>2
                          <5>2. CASE k <= c
                                BY <5>2, <3>4
                          <5>3. CASE ~(k <= c)
                                <6>1. c = k - 1 /\ c < K /\ c + 1 = k
                                      BY <5>1, <5>3, <1>1
                                <6>2. es[k] = fs[n]
                                      BY <1>2, <4>2 DEF EmbedsAt
                                <6>3. met[n] = c + 1
                                      BY <3>3, <6>1, <6>2
                                <6> QED BY <6>1, <6>3
                          <5> QED BY <5>2, <5>3
                    <4>3. at[k] <= n - 1 \/ at[k] = n
                          BY <2>3, <3>1, <3>5
                    <4> QED BY <4>1, <4>2, <4>3
              <3>6. Keeps(n)
                    BY <3>4, <3>5
              <3> QED BY <2>2, <3>6
        <2> QED BY <2>4, <2>5
  <1>6. met[L] = K
        <2>1. Keeps(L)
              BY <1>1, <1>5
        <2>2. CASE K = 0
              BY <2>1, <2>2
        <2>3. CASE K # 0
              <3>1. K \in 1..K /\ at[K] <= L
                    BY <1>1, <1>2, <2>3 DEF EmbedsAt
              <3> QED BY <1>1, <2>1, <3>1
        <2> QED BY <2>2, <2>3
  <1> QED BY <1>6 DEF Within, met

LEMMA EmbedsItself == \A es \in Seq(Entry) : Embeds(es, es) /\ Embeds(<<>>, es)
  <1> SUFFICES ASSUME NEW es \in Seq(Entry) PROVE Embeds(es, es) /\ Embeds(<<>>, es)
      OBVIOUS
  <1>1. PICK at : at = [i \in 1..Len(es) |-> i]
        OBVIOUS
  <1>2. EmbedsAt(es, es, at)
        BY <1>1 DEF EmbedsAt
  <1>3. PICK none, no : none = <<>> /\ no = [i \in 1..0 |-> 1]
        OBVIOUS
  <1>4. EmbedsAt(none, es, no)
        <2>1. Len(none) = 0
              BY <1>3
        <2> QED BY <1>3, <2>1 DEF EmbedsAt
  <1> QED BY <1>2, <1>3, <1>4 DEF Embeds

LEMMA EmbedsInMore ==
    ASSUME NEW es \in Seq(Entry), NEW fs \in Seq(Entry), NEW e \in Entry, Embeds(es, fs)
    PROVE  Embeds(es, Append(fs, e)) /\ Embeds(Append(es, e), Append(fs, e))
  <1>1. PICK at : EmbedsAt(es, fs, at)
        BY DEF Embeds
  <1>2. PICK K \in Nat, L \in Nat : K = Len(es) /\ L = Len(fs)
        OBVIOUS
  <1>3. /\ at \in [1..K -> 1..L]
        /\ \A i \in 1..K : es[i] = fs[at[i]]
        /\ \A i, j \in 1..K : i < j => at[i] < at[j]
        BY <1>1, <1>2 DEF EmbedsAt
  <1>4. PICK gs : gs = Append(fs, e)
        OBVIOUS
  <1>5. Len(gs) = L + 1 /\ gs[L + 1] = e /\ \A i \in 1..L : gs[i] = fs[i]
        BY <1>2, <1>4
  <1>6. EmbedsAt(es, gs, at)
        <2>1. at \in [1..K -> 1..(L + 1)]
              BY <1>3
        <2>2. \A i \in 1..K : es[i] = gs[at[i]]
              BY <1>3, <1>5
        <2> QED BY <1>2, <1>3, <1>5, <2>1, <2>2 DEF EmbedsAt
  <1>7. PICK ds : ds = Append(es, e)
        OBVIOUS
  <1>8. Len(ds) = K + 1 /\ ds[K + 1] = e /\ \A i \in 1..K : ds[i] = es[i]
        BY <1>2, <1>7
  <1>9. PICK to : to = [i \in 1..(K + 1) |-> IF i = K + 1 THEN L + 1 ELSE at[i]]
        OBVIOUS
  <1>10. EmbedsAt(ds, gs, to)
         <2>1. \A i \in 1..(K + 1) : i = K + 1 \/ i \in 1..K
               OBVIOUS
         <2>2. to \in [1..(K + 1) -> 1..(L + 1)]
               BY <1>3, <1>9, <2>1
         <2>3. \A i \in 1..(K + 1) : ds[i] = gs[to[i]]
               BY <1>3, <1>5, <1>8, <1>9, <2>1
         <2>4. \A i, j \in 1..(K + 1) : i < j => to[i] < to[j]
               BY <1>3, <1>9, <2>1
         <2> QED BY <1>5, <1>8, <2>2, <2>3, <2>4 DEF EmbedsAt
  <1> QED BY <1>4, <1>6, <1>7, <1>10 DEF Embeds

(* A step appends at most one message to one session.                      *)
Grows == db' = db \/ \E s \in Sessions, e \in Entry : db' = Stored(s, e)

LEMMA DatabaseGrows == ASSUME TypeOK, TaskShape, PromptInv, [Next]_vars PROVE Grows
  <1> USE DEF disk
  <1>1. ASSUME NEW t \in Tasks, Greet(t) \/ Say(t) \/ SaveOne(t) \/ Fail(t) PROVE Grows
        <2>1. CASE db' = db
              BY <2>1 DEF Grows
        <2>2. CASE db' # db
              <3>1. pc[t] \in {"greet"} \cup Engaged
                    BY <1>1, <2>2 DEF Greet, Say, SaveOne, Fail, Engaged
              <3>2. sid[t] \in Sessions
                    BY <3>1, RowIsThere
              <3>3. Tagged(0, SystemMessage) \in Entry /\ Tagged(t, UserMessage) \in Entry
                    BY Entries
              <3>4. todo[t] # <<>> => Head(todo[t]) \in Entry
                    BY DEF TypeOK
              <3>5. \E e \in Entry : db' = Stored(sid[t], e)
                    BY <1>1, <2>2, <3>3, <3>4 DEF Greet, Say, SaveOne, Fail
              <3> QED BY <3>2, <3>5 DEF Grows
        <2> QED BY <2>1, <2>2
  <1>2. ASSUME NEW t \in Tasks,
               Receive(t) \/ Resolve(t) \/ Consume(t) \/ Unbind(t) \/ Uncache(t) \/ Load(t)
                 \/ Open(t) \/ AgentReplies(t) \/ AgentErrs(t) \/ Store(t) \/ Reply(t)
        PROVE  Grows
        BY <1>2 DEF Grows, Receive, Resolve, Consume, Unbind, Uncache, Load, Open,
                    AgentReplies, AgentErrs, Store, Reply
  <1>3. ASSUME Restart \/ UNCHANGED vars PROVE Grows
        BY <1>3 DEF Grows, Restart, vars
  <1> QED BY <1>1, <1>2, <1>3 DEF Next, Step, Rest

(* What is remembered of a session stays a part of it.                     *)
LEMMA StaysEmbedded ==
    ASSUME TypeOK, Grows, NEW s \in Sessions, NEW es \in Seq(Entry), Embeds(es, db[s])
    PROVE  Embeds(es, db'[s])
  <1>1. db \in [Sessions -> Seq(Entry)] /\ db[s] \in Seq(Entry)
        BY DEF TypeOK
  <1>2. CASE db' = db
        BY <1>2
  <1>3. ASSUME NEW x \in Sessions, NEW e \in Entry, db' = Stored(x, e) PROVE Embeds(es, db'[s])
        <2>1. db'[s] = db[s] \/ db'[s] = Append(db[s], e)
              BY <1>1, <1>3 DEF Stored
        <2> QED BY <2>1, <1>1, EmbedsInMore
  <1> QED BY <1>2, <1>3 DEF Grows

(* One message is stored and remembered.                                   *)
LEMMA RemembersStored ==
    ASSUME TypeOK, NEW s \in Sessions, NEW e \in Entry, db' = Stored(s, e),
           NEW es \in Seq(Entry), Embeds(es, db[s])
    PROVE  Embeds(Append(es, e), db'[s])
  <1>1. db[s] \in Seq(Entry) /\ db'[s] = Append(db[s], e)
        BY DEF TypeOK, Stored
  <1> QED BY <1>1, EmbedsInMore

LEMMA InitMemory == Init => MemoryInv
  <1> SUFFICES ASSUME Init PROVE MemoryInv
      OBVIOUS
  <1>1. TypeOK
        BY InitTypes
  <1>2. \A s \in Sessions : cache[s] = <<>> /\ db[s] \in Seq(Entry)
        BY <1>1 DEF Init, TypeOK
  <1>3. \A t \in Tasks : pc[t] \notin Engaged
        BY DEF Init, Engaged
  <1> QED BY <1>2, <1>3, EmbedsItself DEF MemoryInv

LEMMA MemoryStep ==
    ASSUME TypeOK, TaskShape, PromptInv, MemoryInv, [Next]_vars PROVE MemoryInv'
  <1> USE DEF locals
  <1>1. Grows
        BY DatabaseGrows
  <1>2. \A s \in Sessions : Embeds(cache[s], db'[s]) /\ Embeds(<<>>, db'[s])
        <2> SUFFICES ASSUME NEW s \in Sessions
                     PROVE  Embeds(cache[s], db'[s]) /\ Embeds(<<>>, db'[s])
            OBVIOUS
        <2>1. cache[s] \in Seq(Entry) /\ <<>> \in Seq(Entry) /\ db[s] \in Seq(Entry)
              BY DEF TypeOK
        <2>2. Embeds(cache[s], db[s]) /\ Embeds(<<>>, db[s])
              BY <2>1, EmbedsItself DEF MemoryInv
        <2> QED BY <1>1, <2>1, <2>2, StaysEmbedded
  <1>3. \A t \in Tasks : pc[t] \in Engaged => sid[t] \in Sessions /\ Embeds(mem[t], db'[sid[t]])
        <2> SUFFICES ASSUME NEW t \in Tasks, pc[t] \in Engaged
                     PROVE  sid[t] \in Sessions /\ Embeds(mem[t], db'[sid[t]])
            OBVIOUS
        <2>1. sid[t] \in Sessions /\ mem[t] \in Seq(Entry)
              BY RowIsThere DEF TypeOK
        <2> QED BY <1>1, <2>1, StaysEmbedded DEF MemoryInv
  <1>4. ASSUME NEW t \in Tasks,
               Receive(t) \/ Resolve(t) \/ Consume(t) \/ Unbind(t) \/ Uncache(t)
                 \/ AgentReplies(t) \/ AgentErrs(t) \/ Reply(t) \/ Fail(t)
        PROVE  MemoryInv'
        <2>1. \A s \in Sessions : cache'[s] = cache[s] \/ cache'[s] = <<>>
              BY <1>4 DEF Receive, Resolve, Consume, Unbind, Uncache, AgentReplies, AgentErrs,
                          Reply, Fail, TypeOK
        <2>2. \A o \in Tasks \ {t} : pc'[o] = pc[o] /\ sid'[o] = sid[o] /\ mem'[o] = mem[o]
              BY <1>4 DEF Receive, Resolve, Consume, Unbind, Uncache, AgentReplies, AgentErrs,
                          Reply, Fail, End, Goto, TypeOK
        <2>3. pc[t] # "none" => Cmd(t) \in Commands
              BY AuthorIsUser
        <2>4. pc'[t] \in Engaged => pc[t] \in Engaged /\ sid'[t] = sid[t] /\ mem'[t] = mem[t]
              BY <1>4, <2>3, AfterLabels
                 DEF Receive, Resolve, Consume, Unbind, Uncache, AgentReplies, AgentErrs,
                     Reply, Fail, End, Goto, TypeOK, Engaged
        <2>5. \A s \in Sessions : Embeds(cache'[s], db'[s])
              BY <1>2, <2>1
        <2>6. \A o \in Tasks : pc'[o] \in Engaged => Embeds(mem'[o], db'[sid'[o]])
              BY <1>3, <2>2, <2>4
        <2> QED BY <2>5, <2>6 DEF MemoryInv
  <1>5. ASSUME NEW t \in Tasks, Load(t) PROVE MemoryInv'
        <2>1. sid[t] \in Sessions
              BY <1>5 DEF Load, TaskShape, Shaped, Resolved
        <2>2. \A s \in Sessions : cache'[s] = cache[s] \/ cache'[s] = <<>>
              BY <1>5 DEF Load, TypeOK
        <2>3. /\ \A o \in Tasks \ {t} : pc'[o] = pc[o] /\ mem'[o] = mem[o]
              /\ sid' = sid
              BY <1>5 DEF Load, Goto, TypeOK
        <2>4. pc'[t] \in Engaged => mem'[t] = cache[sid[t]]
              BY <1>5 DEF Load, Goto, TypeOK, Engaged
        <2>5. \A s \in Sessions : Embeds(cache'[s], db'[s])
              BY <1>2, <2>2
        <2>6. \A o \in Tasks : pc'[o] \in Engaged => Embeds(mem'[o], db'[sid'[o]])
              BY <1>2, <1>3, <2>1, <2>3, <2>4
        <2> QED BY <2>5, <2>6 DEF MemoryInv
  <1>6. ASSUME NEW t \in Tasks, Open(t) PROVE MemoryInv'
        <2>1. sid[t] \in Sessions /\ db[sid[t]] \in Seq(Entry)
              BY <1>6 DEF Open, TaskShape, Shaped, Resolved, Holding, TypeOK
        <2>2. cache' = cache /\ db' = db
              BY <1>6 DEF Open
        <2>3. \A o \in Tasks \ {t} : pc'[o] = pc[o] /\ mem'[o] = mem[o] /\ sid'[o] = sid[o]
              BY <1>6 DEF Open, End, Goto, TypeOK
        <2>4. pc'[t] \in Engaged => mem'[t] = db[sid[t]] /\ sid'[t] = sid[t]
              BY <1>6 DEF Open, End, Goto, TypeOK, Engaged
        <2>5. Embeds(db[sid[t]], db'[sid[t]])
              BY <2>1, <2>2, EmbedsItself
        <2>6. \A o \in Tasks : pc'[o] \in Engaged => Embeds(mem'[o], db'[sid'[o]])
              BY <1>3, <2>3, <2>4, <2>5
        <2> QED BY <1>2, <2>2, <2>6 DEF MemoryInv
  <1>7. ASSUME NEW t \in Tasks, Greet(t) PROVE MemoryInv'
        <2>1. PICK e \in Entry : e = Tagged(0, SystemMessage)
              BY Entries
        <2>2. sid[t] \in Sessions
              BY <1>7, RowIsThere DEF Greet
        <2>3. /\ db' = Stored(sid[t], e) /\ mem' = [mem EXCEPT ![t] = <<e>>]
              /\ cache' = cache /\ sid' = sid
              BY <1>7, <2>1 DEF Greet
        <2>4. \A o \in Tasks \ {t} : pc'[o] = pc[o]
              BY <1>7 DEF Greet, Goto, TypeOK
        <2>5. Embeds(mem'[t], db'[sid[t]])
              <3>1. PICK none \in Seq(Entry) : none = <<>>
                    <4>1. <<>> \in Seq(Entry)
                          OBVIOUS
                    <4> QED BY <4>1
              <3>2. Embeds(none, db[sid[t]])
                    BY <2>2, <3>1, EmbedsItself DEF TypeOK
              <3>3. mem'[t] = Append(none, e)
                    <4>1. mem'[t] = <<e>>
                          BY <2>3 DEF TypeOK
                    <4> QED BY <3>1, <4>1
              <3> QED BY <2>2, <2>3, <3>2, <3>3, RemembersStored
        <2>6. \A o \in Tasks \ {t} : mem'[o] = mem[o]
              BY <2>3 DEF TypeOK
        <2>7. \A o \in Tasks : pc'[o] \in Engaged => Embeds(mem'[o], db'[sid'[o]])
              BY <1>3, <2>3, <2>4, <2>5, <2>6
        <2> QED BY <1>2, <2>3, <2>7 DEF MemoryInv
  <1>8. ASSUME NEW t \in Tasks, Say(t) \/ SaveOne(t) PROVE MemoryInv'
        <2>1. pc[t] \in Engaged
              BY <1>8 DEF Say, SaveOne, Engaged
        <2>2. sid[t] \in Sessions
              BY <2>1, RowIsThere
        <2>3. PICK e \in Entry : db' = Stored(sid[t], e) /\ mem' = [mem EXCEPT ![t] = Append(@, e)]
              <3>1. Tagged(t, UserMessage) \in Entry
                    BY Entries
              <3>2. todo[t] # <<>> => Head(todo[t]) \in Entry
                    BY DEF TypeOK
              <3> QED BY <1>8, <3>1, <3>2 DEF Say, SaveOne
        <2>4. cache' = cache /\ sid' = sid
              BY <1>8 DEF Say, SaveOne
        <2>5. \A o \in Tasks \ {t} : pc'[o] = pc[o]
              BY <1>8 DEF Say, SaveOne, Goto, TypeOK
        <2>6. Embeds(mem'[t], db'[sid[t]])
              <3>1. mem[t] \in Seq(Entry) /\ mem'[t] = Append(mem[t], e)
                    BY <2>3 DEF TypeOK
              <3>2. Embeds(mem[t], db[sid[t]])
                    BY <2>1 DEF MemoryInv
              <3> QED BY <2>2, <2>3, <3>1, <3>2, RemembersStored
        <2>7. \A o \in Tasks \ {t} : mem'[o] = mem[o]
              BY <2>3 DEF TypeOK
        <2>8. \A o \in Tasks : pc'[o] \in Engaged => Embeds(mem'[o], db'[sid'[o]])
              BY <1>3, <2>4, <2>5, <2>6, <2>7
        <2> QED BY <1>2, <2>4, <2>8 DEF MemoryInv
  <1>9. ASSUME NEW t \in Tasks, Store(t) PROVE MemoryInv'
        <2>1. /\ \A o \in Tasks \ {t} : pc'[o] = pc[o] /\ sid'[o] = sid[o] /\ mem'[o] = mem[o]
              /\ pc'[t] \notin Engaged
              BY <1>9 DEF Store, End, Goto, TypeOK, Engaged
        <2>2. pc[t] \in Engaged
              BY <1>9 DEF Store, Engaged
        <2>3. \A s \in Sessions : cache'[s] = cache[s] \/ (s = sid[t] /\ cache'[s] = mem[t])
              BY <1>9 DEF Store, TypeOK
        <2>4. \A s \in Sessions : Embeds(cache'[s], db'[s])
              BY <1>2, <1>3, <2>2, <2>3
        <2>5. \A o \in Tasks : pc'[o] \in Engaged => Embeds(mem'[o], db'[sid'[o]])
              BY <1>3, <2>1
        <2> QED BY <2>4, <2>5 DEF MemoryInv
  <1>10. ASSUME Restart PROVE MemoryInv'
         <2>1. \A s \in Sessions : cache'[s] = <<>>
               BY <1>10 DEF Restart
         <2>2. \A o \in Tasks : pc'[o] \notin Engaged
               BY <1>10 DEF Restart, Live, Engaged
         <2> QED BY <1>2, <2>1, <2>2 DEF MemoryInv
  <1>11. ASSUME UNCHANGED vars PROVE MemoryInv'
         BY <1>11 DEF vars, disk, MemoryInv
  <1> QED BY <1>4, <1>5, <1>6, <1>7, <1>8, <1>9, <1>10, <1>11 DEF Next, Step, Rest

-----------------------------------------------------------------------------
(* What is remembered of a session no two tasks ever shared.               *)
LEMMA InitSerial == Init => SerialInv
  BY DEF Init, SerialInv, Serial, Holds, Holding

(* Task t has nothing to do with session s.                                *)
Passes(t, s) ==
    /\ ~Holds(t, s) /\ ~Holds(t, s)'
    /\ db'[s] = db[s]
    /\ cache'[s] = cache[s] \/ cache'[s] = <<>>

(* Only task t moves.                                                      *)
Alone(t) ==
    \A o \in Tasks \ {t} : /\ pc'[o] = pc[o] /\ sid'[o] = sid[o]
                           /\ mem'[o] = mem[o] /\ todo'[o] = todo[o]

LEMMA PassingIsSerial ==
    ASSUME NEW t \in Tasks, NEW s \in Sessions, Alone(t), Serial(s), Passes(t, s)
    PROVE  Serial(s)'
  <1>1. \A o \in Tasks : Holds(o, s)' => /\ Holds(o, s) /\ pc'[o] = pc[o] /\ mem'[o] = mem[o]
        BY DEF Alone, Passes, Holds
  <1>2. \A o, p \in Tasks : Holds(o, s)' /\ Holds(p, s)' => o = p
        BY <1>1 DEF Serial
  <1>3. \A o \in Tasks : Holds(o, s)' => cache'[s] = <<>>
        BY <1>1 DEF Serial, Passes
  <1>4. \A o \in Tasks : Holds(o, s)' /\ pc'[o] \in Engaged => mem'[o] = db'[s]
        BY <1>1 DEF Serial, Passes
  <1>5. cache'[s] # <<>> => cache'[s] = db'[s]
        BY DEF Serial, Passes
  <1> QED BY <1>2, <1>3, <1>4, <1>5 DEF Serial

(* Task t alone has session s, and keeps it or gives it back.              *)
LEMMA HolderIsSerial ==
    ASSUME NEW t \in Tasks, NEW s \in Sessions, Alone(t), Serial(s), Holds(t, s),
           cache'[s] = <<>> \/ (~Holds(t, s)' /\ cache'[s] = db'[s]),
           Holds(t, s)' /\ pc'[t] \in Engaged => mem'[t] = db'[s]
    PROVE  Serial(s)'
  <1>1. \A o \in Tasks \ {t} : ~Holds(o, s)
        BY DEF Serial
  <1>2. \A o \in Tasks \ {t} : ~Holds(o, s)'
        BY <1>1 DEF Alone, Holds
  <1> QED BY <1>2 DEF Serial

LEMMA HolderAlone ==
    ASSUME NEW t \in Tasks, NEW s \in Sessions, Serial(s), Holds(t, s)
    PROVE  /\ \A o \in Tasks \ {t} : ~Holds(o, s)
           /\ cache[s] = <<>>
           /\ pc[t] \in Engaged => mem[t] = db[s]
  BY DEF Serial

(* Nobody keeps a session by ending.                                       *)
LEMMA EndIsAlone ==
    ASSUME TypeOK, NEW t \in Tasks, NEW l \in {"done", "failed", "reply"}, pc[t] # "none", End(t, l)
    PROVE  Alone(t) /\ \A s : ~Holds(t, s)'
  <1>1. Alone(t)
        BY EndTypes DEF Alone
  <1>2. pc'[t] = l /\ l \notin Holding
        BY EndTypes DEF Holding
  <1> QED BY <1>1, <1>2 DEF Holds

(* The task of a message that just arrives did not run before.             *)
LEMMA Fresh == ASSUME TypeOK, NEW t \in Tasks, Receive(t) PROVE pc[t] = "none"
  <1>1. t > Len(incoming)
        BY DEF Receive, TypeOK
  <1> QED BY <1>1 DEF TypeOK

LEMMA OtherSessions ==
    ASSUME TypeOK, NEW x \in Sessions, NEW e \in Entry, db' = Stored(x, e), NEW s \in Sessions
    PROVE  /\ s # x => db'[s] = db[s]
           /\ s = x => db'[s] = Append(db[s], e)
  BY DEF TypeOK, Stored

LEMMA SerialStep ==
    ASSUME TypeOK, TaskShape, PromptInv, SerialInv, [Next]_vars PROVE SerialInv'
  <1> USE DEF locals, disk, notes
  <1>0. SUFFICES ASSUME NEW s \in Sessions, s \notin overlapped' PROVE Serial(s)'
        BY DEF SerialInv
  <1>1. overlapped \subseteq overlapped'
        BY DEF Next, Step, Rest, vars, Receive, Resolve, Consume, Unbind, Uncache, Load, NoteOverlap,
               Open, Greet, Say, AgentReplies, AgentErrs, SaveOne, Store, Reply, Fail, Restart
  <1>2. Serial(s)
        BY <1>0, <1>1 DEF SerialInv
  <1>3. ASSUME NEW t \in Tasks,
               Receive(t) \/ Resolve(t) \/ Consume(t) \/ Unbind(t) \/ Uncache(t) \/ Reply(t)
        PROVE  Serial(s)'
        <2>1. Alone(t)
              BY <1>3 DEF Receive, Resolve, Consume, Unbind, Uncache, Reply, End, Goto, TypeOK, Alone
        <2>2. /\ db' = db
              /\ cache'[s] = cache[s] \/ cache'[s] = <<>>
              BY <1>3 DEF Receive, Resolve, Consume, Unbind, Uncache, Reply, TypeOK
        <2>3. pc[t] # "none" => Cmd(t) \in Commands
              BY AuthorIsUser
        <2>4. pc[t] \notin Holding /\ pc'[t] \notin Holding
              BY <1>3, <2>3, AfterLabels, Fresh
                 DEF Receive, Resolve, Consume, Unbind, Uncache, Reply, End, Goto, TypeOK, Holding
        <2> QED BY <1>2, <2>1, <2>2, <2>4, PassingIsSerial DEF Passes, Holds
  <1>4. ASSUME NEW t \in Tasks, Load(t) PROVE Serial(s)'
        <2>1. sid[t] \in Sessions /\ pc[t] = "load" /\ sid' = sid /\ db' = db /\ todo' = todo
              BY <1>4 DEF Load, TaskShape, Shaped, Resolved
        <2>2. Alone(t)
              BY <1>4 DEF Load, Goto, TypeOK, Alone
        <2>3. CASE sid[t] # s
              <3>1. cache'[s] = cache[s]
                    BY <1>4, <2>3 DEF Load, TypeOK
              <3> QED BY <1>2, <2>1, <2>2, <2>3, <3>1, PassingIsSerial DEF Passes, Holds
        <2>4. CASE sid[t] = s
              <3>1. \A o \in Tasks \ {t} : ~Holds(o, s)
                    BY <1>0, <1>4, <2>4 DEF Load, NoteOverlap, Holds
              <3>2. \A o \in Tasks \ {t} : ~Holds(o, s)'
                    BY <2>2, <3>1 DEF Alone, Holds
              <3>3. cache'[s] = <<>>
                    BY <1>4, <2>4 DEF Load, TypeOK
              <3>4. pc'[t] \in Engaged => mem'[t] = cache[s] /\ cache[s] # <<>>
                    BY <1>4, <2>4 DEF Load, Goto, TypeOK, Engaged
              <3>5. pc'[t] \in Engaged => mem'[t] = db'[s]
                    BY <1>2, <2>1, <3>4 DEF Serial
              <3> QED BY <3>2, <3>3, <3>5 DEF Serial
        <2> QED BY <2>3, <2>4
  <1>5. ASSUME NEW t \in Tasks, Open(t) \/ AgentReplies(t) \/ AgentErrs(t) PROVE Serial(s)'
        <2>1. /\ pc[t] \in Holding /\ db' = db /\ cache' = cache
              /\ sid'[t] = sid[t] \/ pc'[t] \in {"done", "failed"}
              BY <1>5 DEF Open, AgentReplies, AgentErrs, End, Goto, TypeOK, Holding
        <2>2. Alone(t)
              BY <1>5 DEF Open, AgentReplies, AgentErrs, End, Goto, TypeOK, Alone
        <2>3. CASE ~Holds(t, s)
              <3>1. ~Holds(t, s)'
                    BY <2>1, <2>3 DEF Holds, Holding
              <3> QED BY <1>2, <2>1, <2>2, <2>3, <3>1, PassingIsSerial DEF Passes
        <2>4. CASE Holds(t, s)
              <3>1. cache[s] = <<>> /\ (pc[t] \in Engaged => mem[t] = db[s])
                    BY <1>2, <2>4, HolderAlone
              <3>2. sid[t] = s
                    BY <2>4 DEF Holds
              <3>3. pc'[t] \in Engaged => mem'[t] = db'[s]
                    BY <1>5, <2>1, <3>1, <3>2
                       DEF Open, AgentReplies, AgentErrs, End, Goto, TypeOK, Engaged
              <3> QED BY <1>2, <2>1, <2>2, <2>4, <3>1, <3>3, HolderIsSerial
        <2> QED BY <2>3, <2>4
  <1>6. ASSUME NEW t \in Tasks, Greet(t) \/ Say(t) \/ SaveOne(t) PROVE Serial(s)'
        <2>1. /\ pc[t] \in Holding /\ pc'[t] \in Engaged /\ cache' = cache /\ sid' = sid
              /\ pc[t] \in {"greet"} \cup Engaged
              BY <1>6 DEF Greet, Say, SaveOne, Goto, TypeOK, Holding, Engaged
        <2>2. Alone(t)
              BY <1>6 DEF Greet, Say, SaveOne, Goto, TypeOK, Alone
        <2>3. sid[t] \in Sessions
              BY <2>1, RowIsThere
        <2>4. PICK e \in Entry :
                  /\ db' = Stored(sid[t], e)
                  /\ IF pc[t] = "greet" THEN mem' = [mem EXCEPT ![t] = <<e>>]
                     ELSE mem' = [mem EXCEPT ![t] = Append(@, e)]
              <3>1. Tagged(0, SystemMessage) \in Entry /\ Tagged(t, UserMessage) \in Entry
                    BY Entries
              <3>2. todo[t] # <<>> => Head(todo[t]) \in Entry
                    BY DEF TypeOK
              <3> QED BY <1>6, <3>1, <3>2 DEF Greet, Say, SaveOne
        <2>5. CASE ~Holds(t, s)
              <3>1. ~Holds(t, s)' /\ s # sid[t]
                    BY <2>1, <2>5 DEF Holds
              <3>2. db'[s] = db[s]
                    BY <2>3, <2>4, <3>1, OtherSessions
              <3> QED BY <1>2, <2>1, <2>2, <2>5, <3>1, <3>2, PassingIsSerial DEF Passes
        <2>6. CASE Holds(t, s)
              <3>1. cache[s] = <<>> /\ (pc[t] \in Engaged => mem[t] = db[s])
                    BY <1>2, <2>6, HolderAlone
              <3>2. sid[t] = s
                    BY <2>6 DEF Holds
              <3>3. db'[s] = Append(db[s], e)
                    BY <2>3, <2>4, <3>2, OtherSessions
              <3>4. mem'[t] = db'[s]
                    <4>1. CASE pc[t] = "greet"
                          <5>1. db[s] = <<>>
                                BY <3>2, <4>1 DEF PromptInv
                          <5>2. mem'[t] = <<e>>
                                BY <2>4, <4>1 DEF TypeOK
                          <5> QED BY <3>3, <5>1, <5>2
                    <4>2. CASE pc[t] # "greet"
                          <5>1. mem'[t] = Append(mem[t], e)
                                BY <2>4, <4>2 DEF TypeOK
                          <5> QED BY <2>1, <3>1, <3>3, <4>2, <5>1
                    <4> QED BY <4>1, <4>2
              <3> QED BY <1>2, <2>1, <2>2, <2>6, <3>1, <3>4, HolderIsSerial
        <2> QED BY <2>5, <2>6
  <1>7. ASSUME NEW t \in Tasks, Store(t) PROVE Serial(s)'
        <2>1. /\ pc[t] = "save" /\ db' = db /\ cache' = [cache EXCEPT ![sid[t]] = mem[t]]
              /\ End(t, "reply")
              BY <1>7 DEF Store
        <2>2. Alone(t) /\ ~Holds(t, s)'
              BY <2>1, EndIsAlone
        <2>3. CASE ~Holds(t, s)
              <3>1. sid[t] # s
                    BY <2>1, <2>3 DEF Holds, Holding
              <3>2. cache'[s] = cache[s]
                    BY <2>1, <3>1 DEF TypeOK
              <3> QED BY <1>2, <2>1, <2>2, <2>3, <3>2, PassingIsSerial DEF Passes
        <2>4. CASE Holds(t, s)
              <3>1. mem[t] = db[s]
                    BY <1>2, <2>1, <2>4, HolderAlone DEF Engaged
              <3>2. cache'[s] = db'[s]
                    BY <2>1, <2>4, <3>1 DEF TypeOK, Holds
              <3> QED BY <1>2, <2>2, <2>4, <3>2, HolderIsSerial
        <2> QED BY <2>3, <2>4
  <1>8. ASSUME NEW t \in Tasks, Fail(t) PROVE Serial(s)'
        <2>1. End(t, "failed") /\ cache' = cache /\ pc[t] # "none"
              BY <1>8 DEF Fail
        <2>2. Alone(t) /\ ~Holds(t, s)'
              BY <2>1, EndIsAlone
        <2>3. CASE ~Holds(t, s)
              <3>1. db'[s] = db[s]
                    <4>1. CASE pc[t] \in Holding
                          <5>1. sid[t] \in Sessions /\ sid[t] # s
                                BY <2>3, <4>1 DEF Holds, TaskShape, Shaped, Resolved
                          <5>2. db' = db \/ \E e : db' = Stored(sid[t], e)
                                BY <1>8 DEF Fail
                          <5> QED BY <5>1, <5>2 DEF Stored, TypeOK
                    <4>2. CASE pc[t] \notin Holding
                          BY <1>8, <4>2 DEF Fail, Holding
                    <4> QED BY <4>1, <4>2
              <3> QED BY <1>2, <2>1, <2>2, <2>3, <3>1, PassingIsSerial DEF Passes
        <2>4. CASE Holds(t, s)
              <3>1. cache[s] = <<>>
                    BY <1>2, <2>4, HolderAlone
              <3> QED BY <1>2, <2>1, <2>2, <2>4, <3>1, HolderIsSerial
        <2> QED BY <2>3, <2>4
  <1>9. ASSUME Restart PROVE Serial(s)'
        <2>1. \A t \in Tasks : pc'[t] \notin Holding
              BY <1>9 DEF Restart, Live, Holding
        <2>2. cache'[s] = <<>>
              BY <1>9 DEF Restart
        <2> QED BY <2>1, <2>2 DEF Serial, Holds
  <1>10. ASSUME UNCHANGED vars PROVE Serial(s)'
         BY <1>2, <1>10 DEF vars, Serial, Holds
  <1> QED BY <1>3, <1>4, <1>5, <1>6, <1>7, <1>8, <1>9, <1>10 DEF Next, Step, Rest

-----------------------------------------------------------------------------
(* Histories without the tags of their entries.                            *)
LEMMA UntaggedSeq ==
    ASSUME NEW es \in Seq(Entry)
    PROVE  /\ Untagged(es) \in Seq(Message) /\ Len(Untagged(es)) = Len(es)
           /\ \A i \in 1..Len(es) : Untagged(es)[i] = es[i].msg
  <1>1. DOMAIN es = 1..Len(es) /\ Len(es) \in Nat /\ \A i \in 1..Len(es) : es[i] \in Entry
        OBVIOUS
  <1>2. \A i \in 1..Len(es) : es[i].msg \in Message
        BY <1>1, Entries
  <1>3. [i \in 1..Len(es) |-> es[i].msg] \in Seq(Message)
        BY <1>1, <1>2
  <1> QED BY <1>1, <1>3 DEF Untagged

LEMMA UntaggedAppend ==
    ASSUME NEW es \in Seq(Entry), NEW e \in Entry
    PROVE  Untagged(Append(es, e)) = Append(Untagged(es), e.msg)
  <1>1. PICK ms \in Seq(Message) :
            /\ ms = Untagged(es) /\ Len(ms) = Len(es)
            /\ \A i \in 1..Len(es) : ms[i] = es[i].msg
        BY UntaggedSeq
  <1>2. e.msg \in Message
        BY Entries
  <1>3. PICK fs \in Seq(Entry) :
            /\ fs = Append(es, e) /\ Len(fs) = Len(es) + 1 /\ fs[Len(es) + 1] = e
            /\ \A i \in 1..Len(es) : fs[i] = es[i]
        <2>1. Append(es, e) \in Seq(Entry)
              OBVIOUS
        <2>2. /\ Len(Append(es, e)) = Len(es) + 1 /\ Append(es, e)[Len(es) + 1] = e
              /\ \A i \in 1..Len(es) : Append(es, e)[i] = es[i]
              OBVIOUS
        <2> QED BY <2>1, <2>2
  <1>4. PICK new \in Seq(Message) :
            /\ new = Append(ms, e.msg) /\ Len(new) = Len(es) + 1 /\ new[Len(es) + 1] = e.msg
            /\ \A i \in 1..Len(es) : new[i] = ms[i]
        <2>1. PICK m \in Message : m = e.msg
              BY <1>2
        <2>2. /\ Append(ms, m) \in Seq(Message) /\ Len(Append(ms, m)) = Len(ms) + 1
              /\ Append(ms, m)[Len(ms) + 1] = m
              /\ \A i \in 1..Len(ms) : Append(ms, m)[i] = ms[i]
              BY AppendKeeps
        <2>3. Len(ms) = Len(es)
              BY <1>1
        <2> QED BY <2>1, <2>2, <2>3
  <1>5. PICK us \in Seq(Message) :
            /\ us = Untagged(fs) /\ Len(us) = Len(es) + 1
            /\ \A i \in 1..(Len(es) + 1) : us[i] = fs[i].msg
        BY <1>3, UntaggedSeq
  <1>6. ASSUME NEW i \in 1..(Len(es) + 1) PROVE us[i] = new[i]
        <2>1. CASE i \in 1..Len(es)
              BY <2>1, <1>1, <1>3, <1>4, <1>5
        <2>2. CASE i = Len(es) + 1
              BY <2>2, <1>3, <1>4, <1>5
        <2> QED BY <2>1, <2>2
  <1>7. us = new
        <2>1. Len(us) = Len(new) /\ \A i \in 1..Len(us) : us[i] = new[i]
              BY <1>4, <1>5, <1>6
        <2> QED BY <2>1, SeqEqual
  <1> QED BY <1>1, <1>3, <1>4, <1>5, <1>7

LEMMA UntaggedConcat ==
    ASSUME NEW es \in Seq(Entry), NEW fs \in Seq(Entry)
    PROVE  Untagged(es \o fs) = Untagged(es) \o Untagged(fs)
  <1>1. PICK K \in Nat, L \in Nat : K = Len(es) /\ L = Len(fs)
        OBVIOUS
  <1>2. PICK ms \in Seq(Message) :
            ms = Untagged(es) /\ Len(ms) = K /\ \A i \in 1..K : ms[i] = es[i].msg
        BY <1>1, UntaggedSeq
  <1>3. PICK ns \in Seq(Message) :
            ns = Untagged(fs) /\ Len(ns) = L /\ \A i \in 1..L : ns[i] = fs[i].msg
        BY <1>1, UntaggedSeq
  <1>4. PICK gs \in Seq(Entry) :
            /\ gs = es \o fs /\ Len(gs) = K + L
            /\ \A i \in 1..K : gs[i] = es[i]
            /\ \A i \in 1..L : gs[K + i] = fs[i]
        <2>1. es \o fs \in Seq(Entry)
              OBVIOUS
        <2>2. /\ Len(es \o fs) = K + L
              /\ \A i \in 1..K : (es \o fs)[i] = es[i]
              /\ \A i \in 1..L : (es \o fs)[K + i] = fs[i]
              BY <1>1
        <2> QED BY <2>1, <2>2
  <1>5. PICK us \in Seq(Message) :
            us = Untagged(gs) /\ Len(us) = K + L /\ \A i \in 1..(K + L) : us[i] = gs[i].msg
        BY <1>4, UntaggedSeq
  <1>6. PICK new \in Seq(Message) :
            /\ new = ms \o ns /\ Len(new) = K + L
            /\ \A i \in 1..K : new[i] = ms[i]
            /\ \A i \in 1..L : new[K + i] = ns[i]
        <2>1. ms \o ns \in Seq(Message)
              OBVIOUS
        <2>2. /\ Len(ms \o ns) = Len(ms) + Len(ns)
              /\ \A i \in 1..Len(ms) : (ms \o ns)[i] = ms[i]
              /\ \A i \in 1..Len(ns) : (ms \o ns)[Len(ms) + i] = ns[i]
              OBVIOUS
        <2>3. Len(ms) = K /\ Len(ns) = L
              BY <1>2, <1>3
        <2> QED BY <2>1, <2>2, <2>3
  <1>7. ASSUME NEW i \in 1..(K + L) PROVE us[i] = new[i]
        <2>1. CASE i \in 1..K
              <3>1. us[i] = gs[i].msg
                    BY <1>5
              <3>2. gs[i] = es[i]
                    BY <2>1, <1>4
              <3>3. new[i] = ms[i] /\ ms[i] = es[i].msg
                    BY <2>1, <1>2, <1>6
              <3> QED BY <3>1, <3>2, <3>3
        <2>2. CASE i \notin 1..K
              <3>1. PICK j \in 1..L : i = K + j
                    <4>1. i - K \in 1..L /\ i = K + (i - K)
                          BY <2>2
                    <4> QED BY <4>1
              <3>2. us[i] = gs[K + j].msg /\ gs[K + j] = fs[j]
                    BY <3>1, <1>4, <1>5
              <3>3. new[i] = ns[j] /\ ns[j] = fs[j].msg
                    BY <3>1, <1>3, <1>6
              <3> QED BY <3>2, <3>3
        <2> QED BY <2>1, <2>2
  <1>8. us = new
        <2>1. Len(us) = Len(new) /\ \A i \in 1..Len(us) : us[i] = new[i]
              BY <1>5, <1>6, <1>7
        <2> QED BY <2>1, SeqEqual
  <1> QED BY <1>2, <1>3, <1>4, <1>5, <1>6, <1>8

LEMMA PlainStays ==
    ASSUME NEW es \in Seq(Entry), NEW e \in Entry, Complete(Untagged(es)),
           e.msg.role \in {"system", "user"}
    PROVE  Complete(Untagged(Append(es, e)))
  <1>1. PICK ms \in Seq(Message) : ms = Untagged(es)
        BY UntaggedSeq
  <1>2. HistoryInv(ms, <<>>)
        <2>1. <<>> \in Seq(Calls) /\ Answering(ms, <<>>)
              BY DEF Answering
        <2> QED BY <1>1, <2>1 DEF HistoryInv
  <1>3. PICK m \in Message : m = e.msg
        BY Entries
  <1>4. HistoryInv(Append(ms, m), <<>>)
        BY <1>2, <1>3, PlainKeeps
  <1> QED BY <1>1, <1>3, <1>4, UntaggedAppend DEF HistoryInv

LEMMA NothingIsComplete == \A es : es = <<>> => Complete(Untagged(es))
  <1> SUFFICES Complete(Untagged(<<>>))
      OBVIOUS
  <1>1. PICK none \in Seq(Entry) : none = <<>> /\ Len(none) = 0
        <2>1. <<>> \in Seq(Entry) /\ Len(<<>>) = 0
              OBVIOUS
        <2> QED BY <2>1
  <1>2. Len(Untagged(none)) = 0
        BY <1>1, UntaggedSeq
  <1>3. Complete(Untagged(none))
        BY <1>2 DEF Complete, CallsAnswered, NoOrphanAnswer
  <1> QED BY <1>1, <1>3

-----------------------------------------------------------------------------
(* What a session has stored makes a request.                              *)
LEMMA InitComplete == Init => CompleteInv
  <1> SUFFICES ASSUME Init, NEW s \in Sessions PROVE Whole(s)
      BY DEF CompleteInv
  <1>1. db[s] = EarlierChat \/ db[s] = <<>>
        BY DEF Init
  <1>2. Complete(Untagged(db[s]))
        BY <1>1, EarlierIsProper, NothingIsComplete
  <1> QED BY <1>2 DEF Init, Whole, Saves

(* Task t has nothing to do with what session s stores.                    *)
LEMMA PassingIsWhole ==
    ASSUME NEW t \in Tasks, NEW s \in Sessions, Alone(t), Whole(s), db'[s] = db[s],
           ~Saves(t, s), ~Saves(t, s)'
    PROVE  Whole(s)'
  <1>1. \A o \in Tasks : Saves(o, s)' <=> Saves(o, s)
        BY DEF Alone, Saves
  <1>2. \A o \in Tasks : Saves(o, s)' => mem'[o] = mem[o] /\ todo'[o] = todo[o]
        BY DEF Alone
  <1> QED BY <1>1, <1>2 DEF Whole, WillBeComplete

(* Task t alone has session s.                                             *)
LEMMA HolderIsWhole ==
    ASSUME NEW t \in Tasks, NEW s \in Sessions, Alone(t), Serial(s), Holds(t, s),
           ~Saves(t, s)' => Complete(Untagged(db'[s])),
           Saves(t, s)' => WillBeComplete(t)'
    PROVE  Whole(s)'
  <1>1. \A o \in Tasks \ {t} : ~Holds(o, s)
        BY HolderAlone
  <1>2. \A o \in Tasks \ {t} : ~Saves(o, s)'
        BY <1>1 DEF Alone, Holds, Saves, Holding
  <1> QED BY <1>2 DEF Whole

(* Before it saves, the holder of a session finds it complete.             *)
LEMMA HolderFindsComplete ==
    ASSUME NEW t \in Tasks, NEW s \in Sessions, Serial(s), Whole(s), Holds(t, s), pc[t] # "save"
    PROVE  Complete(Untagged(db[s]))
  <1>1. \A o \in Tasks : ~Saves(o, s)
        <2>1. \A o \in Tasks \ {t} : ~Holds(o, s)
              BY HolderAlone
        <2> QED BY <2>1 DEF Holds, Saves, Holding
  <1> QED BY <1>1 DEF Whole

(* A turn of which nothing is stored leaves what was complete.             *)
LEMMA NothingHalfSaved ==
    ASSUME TypeOK, NEW t \in Tasks, NEW s \in Sessions, Serial(s), Whole(s), Saves(t, s), ~HalfSaved(t)
    PROVE  Complete(Untagged(db[s]))
  <1>1. mem[t] = db[s]
        BY HolderAlone DEF Saves, Holds, Holding, Engaged
  <1>2. WillBeComplete(t)
        BY DEF Whole
  <1>3. CASE todo[t] = <<>>
        <2>1. mem[t] \o todo[t] = mem[t]
              BY <1>3 DEF TypeOK
        <2> QED BY <1>1, <1>2, <2>1 DEF WillBeComplete
  <1>4. CASE todo[t] # <<>>
        BY <1>1, <1>2, <1>4 DEF WillBeComplete, HalfSaved, Saves
  <1> QED BY <1>3, <1>4

LEMMA AgentRunsWhole ==
    ASSUME NEW t \in Tasks, NEW es \in Seq(Entry), Complete(Untagged(es)), NEW r \in AgentRuns,
           NEW new, new = [i \in DOMAIN r |-> Tagged(t, r[i])]
    PROVE  Complete(Untagged(es \o new))
  <1>1. r \in Seq(Message) /\ Complete(r)
        BY DispatcherAssumption
  <1>2. DOMAIN r = 1..Len(r) /\ Len(r) \in Nat
        BY <1>1
  <1>3. \A i \in 1..Len(r) : new[i] \in Entry /\ new[i].msg = r[i]
        BY <1>1, <1>2, Entries
  <1>4. new \in Seq(Entry) /\ Len(new) = Len(r)
        BY <1>2, <1>3
  <1>5. PICK us \in Seq(Message) :
            us = Untagged(new) /\ Len(us) = Len(r) /\ \A i \in 1..Len(r) : us[i] = new[i].msg
        BY <1>4, UntaggedSeq
  <1>6. us = r
        <2>1. Len(us) = Len(r) /\ \A i \in 1..Len(r) : us[i] = r[i]
              BY <1>3, <1>5
        <2> QED BY <1>1, <1>5, <2>1, SeqEqual
  <1>7. Untagged(es) \in Seq(Message)
        BY UntaggedSeq
  <1>8. Complete(Untagged(es) \o r)
        BY <1>1, <1>7, ConcatComplete
  <1> QED BY <1>4, <1>5, <1>6, <1>8, UntaggedConcat

LEMMA HeadMoves ==
    ASSUME NEW ms \in Seq(Entry), NEW new \in Seq(Entry), new # <<>>
    PROVE  Append(ms, Head(new)) \o Tail(new) = ms \o new
  <1>1. PICK e \in Entry, rest \in Seq(Entry) : e = Head(new) /\ rest = Tail(new)
        <2>1. Head(new) \in Entry /\ Tail(new) \in Seq(Entry)
              OBVIOUS
        <2> QED BY <2>1
  <1>2. new = <<e>> \o rest
        BY <1>1
  <1>3. Append(ms, e) = ms \o <<e>>
        BY AppendIsConcat
  <1>4. <<e>> \in Seq(Entry)
        OBVIOUS
  <1>5. (ms \o <<e>>) \o rest = ms \o (<<e>> \o rest)
        BY <1>4, ConcatAssociative
  <1> QED BY <1>1, <1>2, <1>3, <1>5

LEMMA CompleteStep ==
    ASSUME TypeOK, TaskShape, PromptInv, SerialInv, CompleteInv, [Next]_vars PROVE CompleteInv'
  <1> USE DEF locals, disk, notes
  <1>0. SUFFICES ASSUME NEW s \in Sessions, s \notin overlapped', s \notin broken' PROVE Whole(s)'
        BY DEF CompleteInv
  <1>1. overlapped \subseteq overlapped' /\ broken \subseteq broken'
        BY DEF Next, Step, Rest, vars, Receive, Resolve, Consume, Unbind, Uncache, Load, NoteOverlap,
               Open, Greet, Say, AgentReplies, AgentErrs, SaveOne, Store, Reply, Fail, Restart
  <1>2. Serial(s) /\ Whole(s)
        BY <1>0, <1>1 DEF SerialInv, CompleteInv
  <1>3. ASSUME NEW t \in Tasks,
               Receive(t) \/ Resolve(t) \/ Consume(t) \/ Unbind(t) \/ Uncache(t) \/ Load(t) \/ Reply(t)
        PROVE  Whole(s)'
        <2>1. Alone(t)
              BY <1>3 DEF Receive, Resolve, Consume, Unbind, Uncache, Load, Reply, End, Goto, TypeOK, Alone
        <2>2. db' = db
              BY <1>3 DEF Receive, Resolve, Consume, Unbind, Uncache, Load, Reply
        <2>3. pc[t] # "none" => Cmd(t) \in Commands
              BY AuthorIsUser
        <2>4. pc[t] # "save" /\ pc'[t] # "save"
              BY <1>3, <2>3, AfterLabels, Fresh
                 DEF Receive, Resolve, Consume, Unbind, Uncache, Load, Reply, End, Goto, TypeOK
        <2> QED BY <1>2, <2>1, <2>2, <2>4, PassingIsWhole DEF Saves
  <1>4. ASSUME NEW t \in Tasks, Open(t) \/ AgentErrs(t) PROVE Whole(s)'
        <2>1. Alone(t)
              BY <1>4 DEF Open, AgentErrs, End, Goto, TypeOK, Alone
        <2>2. db' = db
              BY <1>4 DEF Open, AgentErrs
        <2>3. pc[t] # "save" /\ pc'[t] # "save"
              BY <1>4 DEF Open, AgentErrs, End, Goto, TypeOK
        <2> QED BY <1>2, <2>1, <2>2, <2>3, PassingIsWhole DEF Saves
  <1>5. ASSUME NEW t \in Tasks, Greet(t) \/ Say(t) PROVE Whole(s)'
        <2>1. pc[t] \in {"greet", "say"} /\ pc'[t] \in {"say", "run"} /\ sid' = sid
              BY <1>5 DEF Greet, Say, Goto, TypeOK
        <2>2. Alone(t)
              BY <1>5 DEF Greet, Say, Goto, TypeOK, Alone
        <2>3. sid[t] \in Sessions
              BY <2>1, RowIsThere DEF Engaged
        <2>4. PICK e \in Entry : db' = Stored(sid[t], e) /\ e.msg.role \in {"system", "user"}
              <3>1. /\ Tagged(0, SystemMessage) \in Entry /\ Tagged(t, UserMessage) \in Entry
                    /\ Tagged(0, SystemMessage).msg.role = "system"
                    /\ Tagged(t, UserMessage).msg.role = "user"
                    BY Entries
              <3> QED BY <1>5, <3>1 DEF Greet, Say
        <2>5. CASE sid[t] # s
              <3>1. db'[s] = db[s]
                    BY <2>3, <2>4, <2>5, OtherSessions
              <3>2. ~Saves(t, s) /\ ~Saves(t, s)'
                    BY <2>1, <2>5 DEF Saves
              <3> QED BY <1>2, <2>2, <3>1, <3>2, PassingIsWhole
        <2>6. CASE sid[t] = s
              <3>1. Holds(t, s) /\ ~Saves(t, s)'
                    BY <2>1, <2>6 DEF Holds, Holding, Saves
              <3>2. Complete(Untagged(db[s]))
                    BY <1>2, <2>1, <3>1, HolderFindsComplete
              <3>3. db'[s] = Append(db[s], e) /\ db[s] \in Seq(Entry)
                    BY <2>3, <2>4, <2>6, OtherSessions DEF TypeOK
              <3>4. Complete(Untagged(db'[s]))
                    BY <2>4, <3>2, <3>3, PlainStays
              <3> QED BY <1>2, <2>2, <3>1, <3>4, HolderIsWhole
        <2> QED BY <2>5, <2>6
  <1>6. ASSUME NEW t \in Tasks, AgentReplies(t) PROVE Whole(s)'
        <2>1. pc[t] = "run" /\ pc'[t] = "save" /\ sid' = sid /\ mem' = mem /\ db' = db
              BY <1>6 DEF AgentReplies, Goto, TypeOK
        <2>2. Alone(t)
              BY <1>6 DEF AgentReplies, Goto, TypeOK, Alone
        <2>3. CASE sid[t] # s
              <3>1. ~Saves(t, s) /\ ~Saves(t, s)'
                    BY <2>1, <2>3 DEF Saves
              <3> QED BY <1>2, <2>1, <2>2, <3>1, PassingIsWhole
        <2>4. CASE sid[t] = s
              <3>1. Holds(t, s)
                    BY <2>1, <2>4 DEF Holds, Holding
              <3>2. Complete(Untagged(mem[t])) /\ mem[t] \in Seq(Entry)
                    BY <1>2, <2>1, <3>1, HolderFindsComplete, HolderAlone DEF Engaged, TypeOK
              <3>3. PICK r \in AgentRuns : todo' = [todo EXCEPT ![t] = [i \in DOMAIN r |-> Tagged(t, r[i])]]
                    BY <1>6 DEF AgentReplies
              <3>4. todo'[t] = [i \in DOMAIN r |-> Tagged(t, r[i])]
                    BY <3>3 DEF TypeOK
              <3>5. Complete(Untagged(mem[t] \o todo'[t]))
                    BY <3>2, <3>4, AgentRunsWhole
              <3>6. WillBeComplete(t)' /\ Saves(t, s)'
                    BY <2>1, <2>4, <3>2, <3>5 DEF WillBeComplete, Saves
              <3> QED BY <1>2, <2>2, <3>1, <3>6, HolderIsWhole
        <2> QED BY <2>3, <2>4
  <1>7. ASSUME NEW t \in Tasks, SaveOne(t) PROVE Whole(s)'
        <2>1. /\ pc[t] = "save" /\ pc' = pc /\ sid' = sid /\ todo[t] # <<>>
              /\ todo[t] \in Seq(Entry) /\ mem[t] \in Seq(Entry)
              BY <1>7 DEF SaveOne, TypeOK
        <2>2. Alone(t)
              BY <1>7 DEF SaveOne, TypeOK, Alone
        <2>3. sid[t] \in Sessions
              BY <2>1, RowIsThere DEF Engaged
        <2>4. PICK e \in Entry : e = Head(todo[t]) /\ e.msg.role # "user"
              <3>1. Head(todo[t]) \in Entry /\ Head(todo[t]) = todo[t][1] /\ 1 \in DOMAIN todo[t]
                    BY <2>1
              <3> QED BY <3>1 DEF TaskShape, Shaped
        <2>5. /\ db' = Stored(sid[t], e) /\ mem'[t] = Append(mem[t], e)
              /\ todo'[t] = Tail(todo[t])
              BY <1>7, <2>4 DEF SaveOne, TypeOK
        <2>6. CASE sid[t] # s
              <3>1. db'[s] = db[s]
                    BY <2>3, <2>5, <2>6, OtherSessions
              <3>2. ~Saves(t, s) /\ ~Saves(t, s)'
                    BY <2>1, <2>6 DEF Saves
              <3> QED BY <1>2, <2>2, <3>1, <3>2, PassingIsWhole
        <2>7. CASE sid[t] = s
              <3>1. Holds(t, s) /\ Saves(t, s) /\ Saves(t, s)'
                    BY <2>1, <2>7 DEF Holds, Holding, Saves
              <3>2. Complete(Untagged(mem[t] \o todo[t]))
                    BY <1>2, <3>1 DEF Whole, WillBeComplete
              <3>3. mem'[t] \o todo'[t] = mem[t] \o todo[t]
                    <4>1. PICK ms \in Seq(Entry), new \in Seq(Entry) : ms = mem[t] /\ new = todo[t]
                          BY <2>1
                    <4>2. Append(ms, Head(new)) \o Tail(new) = ms \o new
                          BY <2>1, <4>1, HeadMoves
                    <4> QED BY <2>4, <2>5, <4>1, <4>2
              <3>4. Last(mem'[t]) = e
                    <4>1. Append(mem[t], e)[Len(Append(mem[t], e))] = e
                          BY <2>1
                    <4> QED BY <2>5, <4>1 DEF Last
              <3>5. WillBeComplete(t)'
                    BY <2>4, <3>2, <3>3, <3>4 DEF WillBeComplete
              <3> QED BY <1>2, <2>2, <3>1, <3>5, HolderIsWhole
        <2> QED BY <2>6, <2>7
  <1>8. ASSUME NEW t \in Tasks, Store(t) PROVE Whole(s)'
        <2>1. pc[t] = "save" /\ todo[t] = <<>> /\ db' = db /\ End(t, "reply")
              BY <1>8 DEF Store
        <2>2. Alone(t) /\ ~Saves(t, s)'
              BY <2>1, EndIsAlone, EndTypes DEF Saves
        <2>3. CASE sid[t] # s
              <3>1. ~Saves(t, s)
                    BY <2>3 DEF Saves
              <3> QED BY <1>2, <2>1, <2>2, <3>1, PassingIsWhole
        <2>4. CASE sid[t] = s
              <3>1. Holds(t, s) /\ Saves(t, s) /\ ~HalfSaved(t)
                    BY <2>1, <2>4 DEF Holds, Holding, Saves, HalfSaved
              <3>2. Complete(Untagged(db[s]))
                    BY <1>2, <3>1, NothingHalfSaved
              <3> QED BY <1>2, <2>1, <2>2, <3>1, <3>2, HolderIsWhole
        <2> QED BY <2>3, <2>4
  <1>9. ASSUME NEW t \in Tasks, Fail(t) PROVE Whole(s)'
        <2>1. End(t, "failed") /\ pc[t] # "none"
              BY <1>9 DEF Fail
        <2>2. Alone(t) /\ ~Saves(t, s)'
              BY <2>1, EndIsAlone, EndTypes DEF Saves
        <2>3. CASE db' = db
              <3>1. CASE ~Saves(t, s)
                    BY <1>2, <2>2, <2>3, <3>1, PassingIsWhole
              <3>2. CASE Saves(t, s)
                    <4>1. sid[t] = s /\ pc[t] = "save" /\ Holds(t, s)
                          BY <3>2 DEF Saves, Holds, Holding
                    <4>2. ~HalfSaved(t)
                          BY <1>0, <1>9, <2>3, <4>1 DEF Fail
                    <4>3. Complete(Untagged(db[s]))
                          BY <1>2, <3>2, <4>2, NothingHalfSaved
                    <4> QED BY <1>2, <2>2, <2>3, <4>1, <4>3, HolderIsWhole
              <3> QED BY <3>1, <3>2
        <2>4. CASE db' # db
              <3>1. pc[t] \in {"greet"} \cup Engaged
                    BY <1>9, <2>4 DEF Fail, Engaged
              <3>2. sid[t] \in Sessions
                    BY <3>1, RowIsThere
              <3>3. CASE sid[t] # s
                    <4>1. \E e : db' = Stored(sid[t], e)
                          BY <1>9, <2>4 DEF Fail
                    <4>2. db'[s] = db[s]
                          BY <3>2, <3>3, <4>1 DEF Stored, TypeOK
                    <4>3. ~Saves(t, s)
                          BY <3>3 DEF Saves
                    <4> QED BY <1>2, <2>2, <4>2, <4>3, PassingIsWhole
              <3>4. CASE sid[t] = s
                    <4>1. pc[t] \in {"greet", "say"}
                          BY <1>0, <1>9, <2>4, <3>1, <3>4 DEF Fail, Engaged
                    <4>2. PICK e \in Entry : db' = Stored(s, e) /\ e.msg.role \in {"system", "user"}
                          <5>1. /\ Tagged(0, SystemMessage) \in Entry /\ Tagged(t, UserMessage) \in Entry
                                /\ Tagged(0, SystemMessage).msg.role = "system"
                                /\ Tagged(t, UserMessage).msg.role = "user"
                                BY Entries
                          <5> QED BY <1>9, <2>4, <3>4, <4>1, <5>1 DEF Fail
                    <4>3. Holds(t, s) /\ pc[t] # "save"
                          BY <3>4, <4>1 DEF Holds, Holding
                    <4>4. Complete(Untagged(db[s]))
                          BY <1>2, <4>3, HolderFindsComplete
                    <4>5. db'[s] = Append(db[s], e) /\ db[s] \in Seq(Entry)
                          BY <4>2, OtherSessions DEF TypeOK
                    <4>6. Complete(Untagged(db'[s]))
                          BY <4>2, <4>4, <4>5, PlainStays
                    <4> QED BY <1>2, <2>2, <4>3, <4>6, HolderIsWhole
              <3> QED BY <3>3, <3>4
        <2> QED BY <2>3, <2>4
  <1>10. ASSUME Restart PROVE Whole(s)'
         <2>1. /\ \A t \in Tasks : pc'[t] # "save"
               /\ db' = db /\ broken' = broken \cup HalfSavedSessions
               BY <1>10 DEF Restart, Live
         <2>2. CASE \E t \in Tasks : Saves(t, s)
               <3>1. PICK t \in Tasks : Saves(t, s)
                     BY <2>2
               <3>2. ~HalfSaved(t)
                     BY <1>0, <2>1, <3>1 DEF HalfSavedSessions, Saves
               <3>3. Complete(Untagged(db[s]))
                     BY <1>2, <3>1, <3>2, NothingHalfSaved
               <3> QED BY <2>1, <3>3 DEF Whole, Saves
         <2>3. CASE \A t \in Tasks : ~Saves(t, s)
               BY <1>2, <2>1, <2>3 DEF Whole, Saves
         <2> QED BY <2>2, <2>3
  <1>11. ASSUME UNCHANGED vars PROVE Whole(s)'
         BY <1>2, <1>11 DEF vars, Whole, Saves, WillBeComplete
  <1> QED BY <1>3, <1>4, <1>5, <1>6, <1>7, <1>8, <1>9, <1>10, <1>11 DEF Next, Step, Rest

-----------------------------------------------------------------------------
(* Why a message stays without a reply.                                    *)
LEMMA TasksAreFinite == \A S \in SUBSET Tasks : IsFiniteSet(S) /\ Cardinality(S) \in Nat
  <1>1. IsFiniteSet(Tasks)
        BY DispatcherAssumption, FS_Interval DEF Tasks
  <1> QED BY <1>1, FS_Subset, FS_CardinalityType

LEMMA InitSilence == Init => SilenceInv
  <1> SUFFICES ASSUME Init PROVE SilenceInv
      OBVIOUS
  <1>1. \A s \in Sessions : ~Stuck(s)
        BY EarlierIsProper DEF Init, Stuck
  <1>2. Failed = {}
        BY DEF Init, Failed
  <1>3. Cardinality(Failed) = 0
        BY <1>2, FS_EmptySet
  <1> QED BY <1>1, <1>3 DEF Init, SilenceInv

(* Nobody fills a stuck session again.                                     *)
LEMMA StuckForGood ==
    ASSUME TypeOK, TaskShape, PromptInv, [Next]_vars, NEW s \in Sessions, Stuck(s)
    PROVE  Stuck(s)'
  <1> USE DEF locals, disk
  <1>1. ASSUME NEW t \in Tasks, Greet(t) \/ Say(t) \/ SaveOne(t) \/ Fail(t) PROVE Stuck(s)'
        <2>1. rows' = rows /\ \A o \in Tasks : pc'[o] = "greet" => pc[o] = "greet" /\ sid'[o] = sid[o]
              BY <1>1 DEF Greet, Say, SaveOne, Fail, End, Goto, TypeOK
        <2>2. db'[s] = db[s]
              <3>1. CASE db' = db
                    BY <3>1
              <3>2. CASE db' # db
                    <4>1. pc[t] \in {"greet"} \cup Engaged
                          BY <1>1, <3>2 DEF Greet, Say, SaveOne, Fail, Engaged
                    <4>2. sid[t] \in Sessions /\ sid[t] # s
                          BY <4>1, RowIsThere DEF PromptInv, Stuck
                    <4>3. \E e : db' = Stored(sid[t], e)
                          BY <1>1, <3>2 DEF Greet, Say, SaveOne, Fail
                    <4> QED BY <4>2, <4>3 DEF Stored, TypeOK
              <3> QED BY <3>1, <3>2
        <2> QED BY <2>1, <2>2 DEF Stuck
  <1>2. ASSUME NEW t \in Tasks, Open(t) PROVE Stuck(s)'
        <2>1. db' = db /\ rows \subseteq rows'
              BY <1>2 DEF Open, InsertSession
        <2>2. ASSUME NEW o \in Tasks, pc'[o] = "greet" PROVE sid'[o] # s
              <3>1. CASE o # t
                    BY <1>2, <2>2, <3>1 DEF Open, End, Goto, TypeOK, Stuck
              <3>2. CASE o = t
                    <4>1. InsertSession(sid[t]) /\ sid' = sid
                          BY <1>2, <2>2, <3>2 DEF Open, End, Goto, TypeOK
                    <4> QED BY <3>2, <4>1 DEF InsertSession, Stuck
              <3> QED BY <3>1, <3>2
        <2> QED BY <2>1, <2>2 DEF Stuck
  <1>3. ASSUME NEW t \in Tasks,
               Receive(t) \/ Resolve(t) \/ Consume(t) \/ Unbind(t) \/ Uncache(t) \/ Load(t)
                 \/ AgentReplies(t) \/ AgentErrs(t) \/ Store(t) \/ Reply(t)
        PROVE  Stuck(s)'
        <2>1. UNCHANGED <<rows, db>>
              BY <1>3 DEF Receive, Resolve, Consume, Unbind, Uncache, Load, AgentReplies, AgentErrs,
                          Store, Reply
        <2>2. pc[t] # "none" => Cmd(t) \in Commands
              BY AuthorIsUser
        <2>3. pc'[t] # "greet"
              BY <1>3, <2>2, AfterLabels, Fresh
                 DEF Receive, Resolve, Consume, Unbind, Uncache, Load, AgentReplies, AgentErrs,
                     Store, Reply, End, Goto, TypeOK
        <2>4. \A o \in Tasks \ {t} : pc'[o] = pc[o] /\ sid'[o] = sid[o]
              BY <1>3 DEF Receive, Resolve, Consume, Unbind, Uncache, Load, AgentReplies, AgentErrs,
                     Store, Reply, End, Goto, TypeOK
        <2> QED BY <2>1, <2>3, <2>4 DEF Stuck
  <1>4. ASSUME Restart PROVE Stuck(s)'
        <2>1. UNCHANGED <<rows, db>> /\ \A t \in Tasks : pc'[t] # "greet"
              BY <1>4 DEF Restart, Live
        <2> QED BY <2>1 DEF Stuck
  <1>5. ASSUME UNCHANGED vars PROVE Stuck(s)'
        BY <1>5 DEF vars, Stuck
  <1> QED BY <1>1, <1>2, <1>3, <1>4, <1>5 DEF Next, Step, Rest

(* Only a failure or a death leaves a session stuck.                       *)
LEMMA StuckHasACause ==
    ASSUME TypeOK, TaskShape, PromptInv, SilenceInv, [Next]_vars, NEW s \in Sessions, Stuck(s)'
    PROVE  faults' + crashes' > 0
  <1> USE DEF locals, disk
  <1>1. faults \in Nat /\ crashes \in Nat
        BY DEF TypeOK
  <1>2. ASSUME NEW t \in Tasks, Fail(t) PROVE faults' + crashes' > 0
        BY <1>1, <1>2 DEF Fail, Fault
  <1>3. ASSUME Restart PROVE faults' + crashes' > 0
        BY <1>1, <1>3 DEF Restart
  <1>4. ASSUME NEW t \in Tasks, Consume(t) \/ Unbind(t) PROVE faults' + crashes' > 0
        <2>1. /\ UNCHANGED <<rows, db, sid, crashes>>
              /\ faults' = faults \/ faults' = faults + 1
              BY <1>4 DEF Consume, Unbind, Save, Fault
        <2>2. \A o \in Tasks : pc[o] = "greet" => pc'[o] = "greet"
              BY <1>4 DEF Consume, Unbind, Goto, TypeOK
        <2>3. Stuck(s)
              BY <2>1, <2>2 DEF Stuck
        <2>4. faults + crashes > 0
              BY <2>3 DEF SilenceInv
        <2> QED BY <1>1, <2>1, <2>4
  <1>5. ASSUME NEW t \in Tasks, Greet(t) PROVE faults' + crashes' > 0
        <2>1. PICK e \in Entry : e = Tagged(0, SystemMessage)
              BY Entries
        <2>2. /\ sid[t] \in Sessions /\ db' = Stored(sid[t], e) /\ rows' = rows /\ sid' = sid
              /\ UNCHANGED <<faults, crashes>>
              BY <1>5, <2>1, RowIsThere DEF Greet
        <2>3. s # sid[t]
              <3>1. db[s] \in Seq(Entry) /\ db'[s] = <<>>
                    BY DEF Stuck, TypeOK
              <3>2. s = sid[t] => db'[s] = Append(db[s], e)
                    BY <2>2, OtherSessions
              <3>3. PICK es \in Seq(Entry) : es = db[s]
                    BY <3>1
              <3>4. Len(Append(es, e)) = Len(es) + 1 /\ Len(es) \in Nat /\ Len(<<>>) = 0
                    OBVIOUS
              <3>5. db'[s] # Append(es, e)
                    BY <3>1, <3>4
              <3> QED BY <3>2, <3>3, <3>5
        <2>4. db'[s] = db[s]
              BY <2>2, <2>3, OtherSessions
        <2>5. \A o \in Tasks : pc[o] = "greet" => sid[o] # s
              <3>1. \A o \in Tasks \ {t} : pc'[o] = pc[o]
                    BY <1>5 DEF Greet, Goto, TypeOK
              <3> QED BY <2>2, <2>3, <3>1 DEF Stuck
        <2>6. Stuck(s)
              BY <2>2, <2>4, <2>5 DEF Stuck
        <2> QED BY <2>2, <2>6 DEF SilenceInv
  <1>6. ASSUME NEW t \in Tasks, Say(t) \/ SaveOne(t) PROVE faults' + crashes' > 0
        <2>1. pc[t] \in Engaged
              BY <1>6 DEF Say, SaveOne, Engaged
        <2>2. sid[t] \in Sessions
              BY <2>1, RowIsThere
        <2>3. /\ \E e : db' = Stored(sid[t], e)
              /\ UNCHANGED <<rows, sid, faults, crashes>>
              BY <1>6 DEF Say, SaveOne
        <2>4. \A o \in Sessions : o # sid[t] => db'[o] = db[o]
              BY <2>2, <2>3 DEF Stored, TypeOK
        <2>5. PICK e : db'[sid[t]] = Append(db[sid[t]], e)
              BY <2>2, <2>3 DEF Stored, TypeOK
        <2>6. db'[sid[t]] # <<>>
              <3>1. PICK es \in Seq(Entry) : es = db[sid[t]]
                    BY <2>2 DEF TypeOK
              <3>2. Len(Append(es, e)) = Len(es) + 1 /\ Len(es) \in Nat /\ Len(<<>>) = 0
                    OBVIOUS
              <3> QED BY <2>5, <3>1, <3>2
        <2>7. db'[s] = db[s]
              BY <2>4, <2>6 DEF Stuck
        <2>8. \A o \in Tasks : pc[o] = "greet" => pc'[o] = "greet"
              BY <1>6 DEF Say, SaveOne, Goto, TypeOK
        <2>9. Stuck(s)
              BY <2>3, <2>7, <2>8 DEF Stuck
        <2> QED BY <2>3, <2>9 DEF SilenceInv
  <1>7. ASSUME NEW t \in Tasks, Open(t) PROVE faults' + crashes' > 0
        <2>1. UNCHANGED <<db, faults, crashes>> /\ pc[t] = "open"
              BY <1>7 DEF Open
        <2>2. s \in rows
              <3>1. CASE s \in rows' \ rows
                    <4>1. s = sid[t] /\ Goto(t, "greet") /\ sid' = sid
                          BY <1>7, <3>1 DEF Open, InsertSession
                    <4>2. pc'[t] = "greet" /\ sid'[t] = s
                          BY <4>1 DEF Goto, TypeOK
                    <4> QED BY <4>2 DEF Stuck
              <3> QED BY <3>1 DEF Stuck
        <2>3. \A o \in Tasks : pc[o] = "greet" => pc'[o] = "greet" /\ sid'[o] = sid[o]
              BY <1>7, <2>1 DEF Open, End, Goto, TypeOK
        <2>4. Stuck(s)
              BY <2>1, <2>2, <2>3 DEF Stuck
        <2> QED BY <2>1, <2>4 DEF SilenceInv
  <1>8. ASSUME NEW t \in Tasks,
               Receive(t) \/ Resolve(t) \/ Uncache(t) \/ Load(t)
                 \/ AgentReplies(t) \/ AgentErrs(t) \/ Store(t) \/ Reply(t)
        PROVE  faults' + crashes' > 0
        <2>1. UNCHANGED <<rows, db, faults, crashes>>
              BY <1>8 DEF Receive, Resolve, Uncache, Load, AgentReplies, AgentErrs, Store, Reply
        <2>2. pc[t] # "greet"
              BY <1>8, Fresh DEF Resolve, Uncache, Load, AgentReplies, AgentErrs, Store, Reply
        <2>3. \A o \in Tasks \ {t} : pc'[o] = pc[o] /\ sid'[o] = sid[o]
              BY <1>8 DEF Receive, Resolve, Uncache, Load, AgentReplies, AgentErrs, Store, Reply,
                          End, Goto, TypeOK
        <2>4. Stuck(s)
              BY <2>1, <2>2, <2>3 DEF Stuck
        <2> QED BY <2>1, <2>4 DEF SilenceInv
  <1>9. ASSUME UNCHANGED vars PROVE faults' + crashes' > 0
        <2>1. Stuck(s) /\ UNCHANGED <<faults, crashes>>
              BY <1>9 DEF vars, Stuck
        <2> QED BY <2>1 DEF SilenceInv
  <1> QED BY <1>2, <1>3, <1>4, <1>5, <1>6, <1>7, <1>8, <1>9 DEF Next, Step, Rest

LEMMA SilenceStep ==
    ASSUME TypeOK, TaskShape, PromptInv, SilenceInv, [Next]_vars PROVE SilenceInv'
  <1> USE DEF locals, disk
  <1>1. \A s \in Sessions : Stuck(s)' => faults' + crashes' > 0
        BY StuckHasACause
  <1>2. CASE \E s \in Sessions : Stuck(s)
        BY <1>1, <1>2, StuckForGood DEF SilenceInv
  <1>3. ASSUME Cardinality(Failed) <= faults
        PROVE  Cardinality(Failed') <= faults' \/ \E s \in Sessions : Stuck(s)'
        <2>0. /\ IsFiniteSet(Failed) /\ Cardinality(Failed) \in Nat /\ faults \in Nat
              BY TasksAreFinite DEF Failed, TypeOK
        <2>1. ASSUME NEW t \in Tasks, Fail(t) PROVE Cardinality(Failed') <= faults'
              <3>1. End(t, "failed") /\ pc[t] # "none" /\ pc[t] # "failed" /\ faults' = faults + 1
                    BY <2>1 DEF Fail, Fault
              <3>2. Failed' = Failed \cup {t} /\ t \notin Failed
                    BY <3>1, EndTypes DEF Failed
              <3>3. Cardinality(Failed') = Cardinality(Failed) + 1
                    BY <2>0, <3>2, FS_AddElement
              <3> QED BY <1>3, <2>0, <3>1, <3>3
        <2>2. ASSUME NEW t \in Tasks, Open(t)
              PROVE  Cardinality(Failed') <= faults' \/ \E s \in Sessions : Stuck(s)'
              <3>1. CASE End(t, "failed") /\ db[sid[t]] = <<>> /\ sid[t] \in rows /\ rows' = rows
                    <4>1. sid[t] \in Sessions /\ db' = db /\ DbFree
                          BY <2>2 DEF Open, TaskShape, Shaped, Resolved, Holding
                    <4>2. \A o \in Tasks : pc'[o] # "greet"
                          BY <3>1, <4>1 DEF End, Goto, TypeOK, DbFree
                    <4>3. PICK s \in Sessions : s = sid[t]
                          BY <4>1
                    <4>4. Stuck(s)'
                          BY <3>1, <4>1, <4>2, <4>3 DEF Stuck
                    <4> QED BY <4>4
              <3>2. CASE Goto(t, "say") \/ Goto(t, "greet")
                    <4>1. Failed' = Failed
                          BY <2>2, <3>2 DEF Open, Goto, TypeOK, Failed
                    <4> QED BY <1>3, <2>2, <4>1 DEF Open
              <3> QED BY <2>2, <3>1, <3>2 DEF Open
        <2>3. ASSUME NEW t \in Tasks,
                     Receive(t) \/ Resolve(t) \/ Consume(t) \/ Unbind(t) \/ Uncache(t) \/ Load(t)
                       \/ Greet(t) \/ Say(t) \/ AgentReplies(t) \/ AgentErrs(t) \/ SaveOne(t)
                       \/ Store(t) \/ Reply(t)
              PROVE  Cardinality(Failed') <= faults'
              <3>1. faults' = faults \/ faults' = faults + 1
                    BY <2>3 DEF Receive, Resolve, Consume, Unbind, Save, Fault, Uncache, Load, Greet, Say,
                                AgentReplies, AgentErrs, SaveOne, Store, Reply
              <3>2. pc[t] # "none" => Cmd(t) \in Commands
                    BY AuthorIsUser
              <3>3. pc[t] # "failed" /\ pc'[t] # "failed"
                    BY <2>3, <3>2, AfterLabels, Fresh
                       DEF Receive, Resolve, Consume, Unbind, Uncache, Load, Greet, Say,
                           AgentReplies, AgentErrs, SaveOne, Store, Reply, End, Goto, TypeOK
              <3>4. \A o \in Tasks \ {t} : pc'[o] = pc[o]
                    BY <2>3 DEF Receive, Resolve, Consume, Unbind, Uncache, Load, Greet, Say,
                                AgentReplies, AgentErrs, SaveOne, Store, Reply, End, Goto, TypeOK
              <3>5. Failed' = Failed
                    BY <3>3, <3>4 DEF Failed
              <3> QED BY <1>3, <2>0, <3>1, <3>5
        <2>4. ASSUME Restart PROVE Cardinality(Failed') <= faults'
              <3>1. Failed' = Failed /\ faults' = faults
                    BY <2>4 DEF Restart, Failed, Live
              <3> QED BY <1>3, <3>1
        <2>5. ASSUME UNCHANGED vars PROVE Cardinality(Failed') <= faults'
              <3>1. Failed' = Failed /\ faults' = faults
                    BY <2>5 DEF vars, Failed
              <3> QED BY <1>3, <3>1
        <2> QED BY <2>1, <2>2, <2>3, <2>4, <2>5 DEF Next, Step, Rest
  <1> QED BY <1>1, <1>2, <1>3 DEF SilenceInv

-----------------------------------------------------------------------------
DispatcherInv == /\ TypeOK /\ TaskShape /\ PromptInv /\ EntryInv
                 /\ MemoryInv /\ SerialInv /\ CompleteInv /\ SilenceInv

LEMMA DispatcherInvHolds == Spec => []DispatcherInv
  <1>1. Init => DispatcherInv
        BY InitTypes, InitPrompts, InitEntries, InitMemory, InitSerial, InitComplete, InitSilence
           DEF DispatcherInv
  <1>2. DispatcherInv /\ [Next]_vars => DispatcherInv'
        <2> SUFFICES ASSUME DispatcherInv, [Next]_vars PROVE DispatcherInv'
            OBVIOUS
        <2>1. TypeOK' /\ TaskShape' /\ PromptInv'
              BY TypeStep, ShapeStep, PromptStep DEF DispatcherInv
        <2>2. EntryInv' /\ MemoryInv' /\ SerialInv'
              BY EntryStep, MemoryStep, SerialStep DEF DispatcherInv
        <2>3. CompleteInv' /\ SilenceInv'
              BY CompleteStep, SilenceStep DEF DispatcherInv
        <2> QED BY <2>1, <2>2, <2>3 DEF DispatcherInv
  <1> QED BY <1>1, <1>2, PTL DEF Spec

(* The map, the join store, the tables and the tasks keep their types, and *)
(* only a session with a row has messages.                                 *)
THEOREM DispatcherTypes == Spec => []TypeOK
  <1>1. DispatcherInv => TypeOK
        BY DEF DispatcherInv
  <1> QED BY <1>1, DispatcherInvHolds, PTL

(* Whatever first messages race, fail or die, a stored session begins with *)
(* its one prompt, and an account's words stand only in its own session or *)
(* in one whose key it redeemed (load_state, resolve_session_id, /join).   *)
THEOREM SessionsStayProper == Spec => []SessionsAreProper
  <1>1. DispatcherInv => SessionsAreProper
        BY DEF DispatcherInv, PromptInv, EntryInv, SessionsAreProper
  <1> QED BY <1>1, DispatcherInvHolds, PTL

(* At any interleaving of load_state, append_message and store_state, a    *)
(* task's memory and the cached state are part of the session's rows, in   *)
(* their order; where no two tasks ever held a session, all of them.       *)
THEOREM MemoryIsDisk == Spec => []MemoryFollowsDisk
  <1>1. DispatcherInv => MemoryFollowsDisk
        <2> SUFFICES ASSUME DispatcherInv PROVE MemoryFollowsDisk
            OBVIOUS
        <2> USE DEF DispatcherInv
        <2>1. ASSUME NEW s \in Sessions PROVE Within(cache[s], db[s])
              <3>1. cache[s] \in Seq(Entry) /\ db[s] \in Seq(Entry)
                    BY DEF TypeOK
              <3>2. Embeds(cache[s], db[s])
                    BY DEF MemoryInv
              <3> QED BY <3>1, <3>2, EmbeddedIsWithin
        <2>2. ASSUME NEW t \in Tasks, mem[t] # <<>> PROVE Within(mem[t], db[sid[t]])
              <3>1. pc[t] \in Engaged
                    BY <2>2 DEF TaskShape, Shaped
              <3>2. sid[t] \in Sessions
                    BY <3>1, RowIsThere
              <3>3. mem[t] \in Seq(Entry) /\ db[sid[t]] \in Seq(Entry)
                    BY <3>2 DEF TypeOK
              <3>4. Embeds(mem[t], db[sid[t]])
                    BY <3>1 DEF MemoryInv
              <3> QED BY <3>3, <3>4, EmbeddedIsWithin
        <2>3. MemoryIsWithinDisk
              BY <2>1, <2>2 DEF MemoryIsWithinDisk
        <2>4. SerialMemoryIsDisk
              BY DEF SerialInv, Serial, SerialMemoryIsDisk
        <2> QED BY <2>3, <2>4 DEF MemoryFollowsDisk
  <1> QED BY <1>1, DispatcherInvHolds, PTL

(* The agent is run on an incomplete history only in a session where two   *)
(* turns overlapped or a turn was stored in part (handle_chat).            *)
THEOREM OnlyOverlapSpoils == Spec => []OnlyOverlapOrBreakSpoils
  <1>1. DispatcherInv => OnlyOverlapOrBreakSpoils
        <2> SUFFICES ASSUME DispatcherInv,
                            NEW t \in Tasks, pc[t] = "run", sid[t] \notin overlapped \cup broken
                     PROVE  Complete(Untagged(mem[t]))
            BY DEF OnlyOverlapOrBreakSpoils
        <2> USE DEF DispatcherInv
        <2>1. sid[t] \in Sessions
              BY RowIsThere DEF Engaged
        <2>2. PICK s \in Sessions : s = sid[t]
              BY <2>1
        <2>3. Holds(t, s) /\ pc[t] \in Engaged
              BY <2>2 DEF Holds, Holding, Engaged
        <2>4. Serial(s) /\ Whole(s)
              BY <2>2 DEF SerialInv, CompleteInv
        <2>5. mem[t] = db[s]
              BY <2>3, <2>4 DEF Serial
        <2>6. \A o \in Tasks : ~Saves(o, s)
              <3>1. SUFFICES ASSUME NEW o \in Tasks, Saves(o, s) PROVE FALSE
                    OBVIOUS
              <3>2. Holds(o, s) /\ pc[o] = "save"
                    BY <3>1 DEF Holds, Saves, Holding
              <3> QED BY <2>3, <2>4, <3>2 DEF Serial
        <2> QED BY <2>4, <2>5, <2>6 DEF Whole
  <1> QED BY <1>1, DispatcherInvHolds, PTL

(* A message stays without a reply only for a failure of its own task, a   *)
(* death, or an earlier one that left a row without a message, on which    *)
(* create_session fails for good.                                          *)
THEOREM SilenceIsCaused == Spec => []SilenceHasACause
  <1>1. DispatcherInv => SilenceHasACause
        <2> SUFFICES ASSUME DispatcherInv PROVE SilenceHasACause
            OBVIOUS
        <2>1. CASE Cardinality(Failed) <= faults
              BY <2>1 DEF Failed, SilenceHasACause
        <2>2. CASE \E s \in Sessions : Stuck(s)
              BY <2>2 DEF DispatcherInv, SilenceInv, Stuck, SilenceHasACause
        <2> QED BY <2>1, <2>2 DEF DispatcherInv, SilenceInv
  <1> QED BY <1>1, DispatcherInvHolds, PTL
=============================================================================
