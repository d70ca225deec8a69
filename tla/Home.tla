-------------------------------- MODULE Home --------------------------------
(***************************************************************************)
(* The directory ~/.merlion and the processes that share it without a      *)
(* lock: chats and commands that read a YAML file, change their copy and   *)
(* write it back as a whole, the memory tool with its files and its index, *)
(* the session database with one connection per process, `checkpoints      *)
(* prune`, and the commands that copy, replace or remove the directory     *)
(* under the others: backup, import, uninstall.                            *)
(*                                                                         *)
(* A file is the set of its entries, a database its sessions (and whether  *)
(* they are older than the cutoff of a prune), its rows, each with the next id, *)
(* and the rows of the search index. A process sees a file by   *)
(* its path, so always the one of the live directory, but a database by    *)
(* the connection it opened.                                               *)
(***************************************************************************)
EXTENDS Naturals, FiniteSets

CONSTANTS
    Procs, Items, Sessions,
    Unreadable,   \* a file cut off while it was written, which does not parse
    Corrupt,      \* a database put together from copies that do not belong together
    Bundled,      \* the names of skills that come with the working directory
    Scenarios,    \* the kinds of operation each process is out for
    MaxOps, MaxAppends, MaxDirs

Files == {"approvals", "join", "mcp", "tokens", "fallback", "curator"}
Parts == Files \cup {"bodies", "index", "main", "wal"}
Units == {Files, {"bodies"}, {"index"}, {"main"}, {"wal"}}   \* bound: copied or removed at once
EntriesOf(f) == CASE f = "mcp" -> Items \X {"stdio", "http"} \X BOOLEAN
                  [] f = "curator" -> {"paused"}
                  [] OTHER -> Items
Databases == [updated : UNION {[known -> {"fresh", "old"}] : known \in SUBSET Sessions},
              rows : SUBSET [id : Nat, sid : Sessions, who : Procs, ord : Nat],
              found : SUBSET Nat, next : Nat]
Empty == [updated |-> <<>>, rows |-> {}, found |-> {}, next |-> 1]

ASSUME HomeAssumption ==
    /\ Scenarios \subseteq [Procs -> SUBSET {"chat", "approve", "share", "memory", "say",
                                             "mcp", "oauth", "fallback", "curator", "skill", "skills",
                                             "prune", "backup", "import", "uninstall"}]
    /\ Bundled \subseteq Items
    /\ MaxDirs \in Nat \ {0}
    /\ 0 \notin Sessions
ASSUME NoContentAssumption ==
    /\ \A f \in Files : \A entries \in SUBSET EntriesOf(f) : entries # Unreadable
    /\ Corrupt \notin Databases

VARIABLES
    scenario, ops,
    live,       \* which directory is called ~/.merlion
    file,       \* [directory -> [YAML file, memory bodies, memory index -> entries]]
    db,         \* [directory -> the database: its main file and what it holds]
    skill,      \* [name -> [form -> the state of the user's file of that skill]]
    proc, archive,
    \* history: the entries one process after the other would have left; files
    \* several used at once or one left half written; keys past their time;
    \* sessions used since the cutoff, or whose row was never touched after
    \* it; memories a death left half written; nothing written meanwhile;
    \* skills the user has stored and not deleted, and those a death cut off
    \* or that were stored in both forms
    kept, spoiled, expired, active, untouched, half, steady, mine, unsure

disk == <<live, file, db>>
homeHistory == <<kept, spoiled, expired, active, untouched, half, steady>>
library == <<skill, mine, unsure>>
still == <<scenario, library>>
homeVars == <<scenario, ops, disk, proc, archive, homeHistory, library>>

(***************************************************************************)
(* Processes                                                               *)
(***************************************************************************)
(* dir: the directory its database connection was opened in; 0 for one     *)
(* that has been unlinked since.                                           *)
Resting == [at |-> "idle", always |-> {}, dir |-> 0, sid |-> 0, said |-> 0, ord |-> 0,
            file |-> "none", copy |-> {}, add |-> {}, del |-> {}, form |-> "flat",
            skills |-> {}]
Is(p, at) == proc[p].at = at
Chatting(p) == proc[p].sid # 0
(* A command starts from nothing, an operation of a chat from its prompt.  *)
Command(p, kind) == Is(p, "idle") /\ kind \in scenario[p] /\ ops < MaxOps /\ ops' = ops + 1
InChat(p, kind) == Is(p, "chat") /\ kind \in scenario[p] /\ ops < MaxOps /\ ops' = ops + 1
Rest(p) == IF Chatting(p) THEN "chat" ELSE "idle"
Goes(p, at) == proc' = [proc EXCEPT ![p].at = at]

(***************************************************************************)
(* A YAML file: read, changed in memory, written as a whole                *)
(***************************************************************************)
Entries(f) == IF file[live][f] = Unreadable THEN {} ELSE file[live][f]
Parses(f) == file[live][f] # Unreadable
Holds(q, f) == \/ q \in Procs /\ Is(q, "save") /\ proc[q].file = f
               \/ f = "approvals" /\ Chatting(q)
               \/ f = "index" /\ proc[q].at \in {"index", "line"}
Touched(p, f) == IF \E q \in Procs \ {p} : Holds(q, f) THEN spoiled \cup {f} ELSE spoiled

Edit(p, f, base, add, del) ==
    /\ proc' = [proc EXCEPT ![p].at = "save", ![p].file = f, ![p].add = add, ![p].del = del,
                            ![p].copy = (base \ del) \cup add]
    /\ spoiled' = Touched(p, f)
    /\ UNCHANGED <<still, disk, archive, kept, expired, active, untouched, half, steady>>
Save(p) ==
    /\ Is(p, "save")
    /\ LET f == proc[p].file IN
         /\ file' = [file EXCEPT ![live][f] = proc[p].copy]
         /\ kept' = [kept EXCEPT ![f] = (@ \ proc[p].del) \cup proc[p].add]
    /\ Goes(p, Rest(p)) /\ steady' = FALSE
    /\ UNCHANGED <<still, ops, live, db, archive, spoiled, expired, active, untouched, half>>

Approvals == Entries("approvals")
(* approvals.yaml is read once, when the chat starts; "always" writes all  *)
(* the chat knows of.                                                      *)
RememberAlways_AsAnswered(p, tool) ==
    /\ InChat(p, "approve") /\ tool \notin proc[p].always
    /\ Edit(p, "approvals", {}, {tool}, {})
RememberAlways(p, tool) ==
    /\ InChat(p, "approve") /\ tool \notin proc[p].always
    /\ LET known == proc[p].always \cup {tool} IN
         /\ proc' = [proc EXCEPT ![p].always = known, ![p].at = "save", ![p].copy = known,
                                 ![p].file = "approvals", ![p].add = {tool}, ![p].del = {}]
         /\ spoiled' = Touched(p, "approvals")
    /\ UNCHANGED <<still, disk, archive, kept, expired, active, untouched, half, steady>>

(* /share: a file that does not parse counts as empty; keys past their     *)
(* time go.                                                                *)
JoinKeys == Entries("join")
Minted(key) == key \notin JoinKeys \cup expired \cup kept["join"]
Stale == expired
Share(p, key) ==
    InChat(p, "share") /\ Minted(key) /\ Edit(p, "join", JoinKeys, {key}, Stale)
Expire(key) ==
    /\ key \in kept["join"] \ expired /\ expired' = expired \cup {key}
    /\ UNCHANGED <<still, ops, disk, proc, archive, kept, spoiled, active, untouched, half,
                   steady>>

(* mcp.yaml: servers, how they are reached, and whether they are enabled.  *)
(* What is added takes the place of what had its name.                     *)
Servers == Entries("mcp")
Server(n) == {n} \X {"stdio", "http"} \X BOOLEAN
Named(n) == Server(n) \cap Servers
McpAdd(p, n) ==
    /\ Command(p, "mcp") /\ Parses("mcp")
    /\ Edit(p, "mcp", Servers, {<<n, "stdio", TRUE>>}, Server(n))
McpAddHttp(p, n) ==
    /\ Command(p, "mcp") /\ Parses("mcp")
    /\ Edit(p, "mcp", Servers, {<<n, "http", TRUE>>}, Server(n))
McpRemove(p, n) ==
    /\ Command(p, "mcp") /\ Parses("mcp") /\ Named(n) # {}
    /\ Edit(p, "mcp", Servers, {}, Server(n))
McpToggle(p, n, enabled) ==
    /\ Command(p, "mcp") /\ Parses("mcp") /\ Named(n) # {}
    /\ Edit(p, "mcp", Servers, {<<n, e[2], enabled>> : e \in Named(n)}, Server(n))
(* Only for a server reached over HTTP.  The browser comes first,          *)
(* mcp-tokens.yaml is read afterwards.                                     *)
Tokens == Entries("tokens")
McpOauth(p, n) ==
    /\ Command(p, "oauth") /\ Parses("mcp") /\ \E e \in Named(n) : e[2] = "http"
    /\ proc' = [proc EXCEPT ![p].at = "browser", ![p].add = {n}]
    /\ UNCHANGED <<still, disk, archive, homeHistory>>
Authorized(p) ==
    /\ Is(p, "browser") /\ Parses("tokens") /\ UNCHANGED ops
    /\ Edit(p, "tokens", Tokens, proc[p].add, {})
Chain == Entries("fallback")
FallbackAdd(p, n) ==
    /\ Command(p, "fallback") /\ Parses("fallback") /\ n \notin Chain
    /\ Edit(p, "fallback", Chain, {n}, {})
FallbackRemove(p, n) ==
    /\ Command(p, "fallback") /\ Parses("fallback") /\ n \in Chain
    /\ Edit(p, "fallback", Chain, {}, {n})
FallbackClear(p) == Command(p, "fallback") /\ Edit(p, "fallback", {}, {}, Items)
CuratorPause(p) ==
    Command(p, "curator") /\ Parses("curator") /\ Edit(p, "curator", {}, {"paused"}, {})
CuratorResume(p) ==
    Command(p, "curator") /\ Parses("curator") /\ Edit(p, "curator", {}, {}, {"paused"})

(***************************************************************************)
(* Memories: the body, then the line of the index                          *)
(***************************************************************************)
Body(p, bodies, add, del) ==
    /\ file' = [file EXCEPT ![live]["bodies"] = bodies] /\ steady' = FALSE
    /\ proc' = [proc EXCEPT ![p].at = "index", ![p].add = add, ![p].del = del]
    /\ spoiled' = Touched(p, "index")
    /\ UNCHANGED <<still, live, db, archive, kept, expired, active, untouched, half>>
MemoryWrite(p, n) ==
    InChat(p, "memory") /\ Body(p, file[live]["bodies"] \cup {n}, {n}, {})
MemoryDelete(p, n) ==
    InChat(p, "memory") /\ Body(p, file[live]["bodies"] \ {n}, {}, {n})
IndexText == file[live]["index"]
Upserted(index, n) == index \cup n
Stripped(index, n) == index \ n
Healed(p) == {h \in half : h[1] \notin proc[p].add \cup proc[p].del}
ReadIndex(p) ==
    /\ Is(p, "index")
    /\ LET new == IF proc[p].add = {} THEN Stripped(IndexText, proc[p].del)
                                      ELSE Upserted(IndexText, proc[p].add)
           done == proc[p].add = {} /\ new = IndexText
       IN /\ proc' = [proc EXCEPT ![p].copy = new, ![p].at = IF done THEN "chat" ELSE "line"]
          /\ half' = IF done THEN Healed(p) ELSE half
    /\ UNCHANGED <<still, ops, disk, archive, kept, spoiled, expired, active, untouched,
                   steady>>
WriteIndex_Once(p) ==
    /\ Is(p, "line")
    /\ file' = IF proc[p].add \subseteq file[live]["index"] THEN file
               ELSE [file EXCEPT ![live]["index"] = proc[p].copy]
    /\ Goes(p, "chat") /\ steady' = FALSE /\ half' = Healed(p)
    /\ UNCHANGED <<still, ops, live, db, archive, kept, spoiled, expired, active, untouched>>
WriteIndex(p) ==
    /\ Is(p, "line")
    /\ file' = [file EXCEPT ![live]["index"] = proc[p].copy]
    /\ Goes(p, "chat") /\ steady' = FALSE /\ half' = Healed(p)
    /\ UNCHANGED <<still, ops, live, db, archive, kept, spoiled, expired, active, untouched>>

(***************************************************************************)
(* Skills: <name>.md or <name>/SKILL.md in ~/.merlion/skills, before those *)
(* of the working directory                                                *)
(***************************************************************************)
Forms == {"flat", "dir"}
\* "none", "torn" while or after a write was cut off, "whole", or "odd": written as a
\* whole, and passed over by the loader; the order in which a directory lists two forms
\* of one name does not matter here
ParsesAsSkill(n, form) == skill[n][form] = "whole"
Candidates(n) == {form \in Forms : skill[n][form] # "none"}
Loaded_BundledWins ==
    (Bundled \X {"bundled"})
    \cup ({n \in Items \ Bundled : \E form \in Candidates(n) : ParsesAsSkill(n, form)} \X {"user"})
Loaded ==
    LET users == {n \in Items : \E form \in Candidates(n) : ParsesAsSkill(n, form)}
    IN  (users \X {"user"}) \cup ((Bundled \ users) \X {"bundled"})

SkillRests == <<scenario, disk, archive, homeHistory>>
\* fs::write: the file is emptied, then filled
SkillBegins(p, n) ==
    /\ skill' = [skill EXCEPT ![n].flat = "torn"]
    /\ proc' = [proc EXCEPT ![p].at = "skill", ![p].add = {n}]
    /\ UNCHANGED <<SkillRests, mine, unsure>>
SkillCreate(p, n) == InChat(p, "skill") /\ skill[n].flat = "none" /\ SkillBegins(p, n)
SkillUpdate(p, n) == InChat(p, "skill") /\ skill[n].flat # "none" /\ SkillBegins(p, n)
\* description and name are put into the front matter as they are: the loader may not
\* find the YAML it wants there, and it ignores a README.md
SkillWritten(p) ==
    /\ Is(p, "skill") /\ Goes(p, "chat")
    /\ \E written \in {"whole", "odd"} :
          skill' = [n \in Items |-> IF n \in proc[p].add THEN [skill[n] EXCEPT !.flat = written]
                                                          ELSE skill[n]]
    /\ mine' = mine \cup proc[p].add
    /\ unsure' = unsure \cup {n \in proc[p].add : skill[n].dir # "none"}
    /\ UNCHANGED <<SkillRests, ops>>
SkillWriteFails(p) ==
    /\ Is(p, "skill") /\ Goes(p, "chat") /\ ops < MaxOps /\ ops' = ops + 1
    /\ unsure' = unsure \cup proc[p].add /\ UNCHANGED <<SkillRests, skill, mine>>
InstallSkill(n) ==
    /\ \E p \in Procs : "skills" \in scenario[p]
    /\ ops < MaxOps /\ ops' = ops + 1
    /\ skill[n].dir = "none" /\ skill' = [skill EXCEPT ![n].dir = "whole"]
    /\ mine' = mine \cup {n}
    /\ unsure' = IF skill[n].flat = "none" THEN unsure ELSE unsure \cup {n}
    /\ UNCHANGED <<SkillRests, proc>>
\* merlion skills delete: the file the skill was loaded from, never a bundled
\* one, nor a user's that does not parse
SkillsDelete(p, n) ==
    /\ Command(p, "skills") /\ <<n, "user">> \in Loaded
    /\ \E form \in Candidates(n) :
        /\ ParsesAsSkill(n, form)
        /\ proc' = [proc EXCEPT ![p].at = "unlink", ![p].del = {n}, ![p].form = form]
    /\ UNCHANGED <<SkillRests, library>>
Unlink(p) ==
    /\ Is(p, "unlink") /\ proc' = [proc EXCEPT ![p] = Resting]
    /\ skill' = [n \in Items |-> IF n \in proc[p].del
                                THEN [skill[n] EXCEPT ![proc[p].form] = "none"] ELSE skill[n]]
    /\ mine' = mine \ {n \in proc[p].del : skill[n][proc[p].form] # "none"}
    /\ UNCHANGED <<SkillRests, ops, unsure>>

(***************************************************************************)
(* The session database: every statement commits on its own                *)
(***************************************************************************)
Now(d) == db[d].now
Commit(d, new) == db' = [db EXCEPT ![d].now = new] /\ steady' = FALSE
OrdsOf(d, s) == {r.ord : r \in {t \in Now(d).rows : t.sid = s}}
NextOrd(d, s) == IF OrdsOf(d, s) = {} THEN 0
                 ELSE 1 + CHOOSE o \in OrdsOf(d, s) : \A other \in OrdsOf(d, s) : other <= o

(* Left out: who opens the database while an archive is unpacked over it.  *)
Undisturbed == \A q \in Procs : ~Is(q, "unpack")

(* A chat reads the approvals, opens the database, and creates its session *)
(* or resumes it.                                                          *)
OpenChat(p, s) ==
    /\ Command(p, "chat") /\ Now(live) # Corrupt /\ Undisturbed
    /\ proc' = [proc EXCEPT ![p] = [Resting EXCEPT !.at = "chat", !.dir = live, !.sid = s,
                                                   !.always = Approvals, !.skills = Loaded]]
    /\ spoiled' = Touched(p, "approvals")
    /\ IF s \in DOMAIN Now(live).updated THEN UNCHANGED <<db, steady>>
       ELSE Commit(live, [Now(live) EXCEPT !.updated = [k \in DOMAIN @ \cup {s} |->
                              IF k = s THEN "fresh" ELSE @[k]]])
    /\ UNCHANGED <<still, live, file, archive, kept, expired, active, untouched, half>>
(* Only the last connection to close checkpoints: Checkpoint below.        *)
CloseChat(p) ==
    /\ Is(p, "chat")
    /\ proc' = [proc EXCEPT ![p] = Resting]
    /\ UNCHANGED <<still, ops, disk, archive, homeHistory>>

SelectOrd(p) ==
    /\ InChat(p, "say") /\ proc[p].said < MaxAppends
    /\ proc' = [proc EXCEPT ![p].at = "insert", ![p].ord = NextOrd(proc[p].dir, proc[p].sid)]
    /\ UNCHANGED <<still, disk, archive, homeHistory>>
(* The foreign key fails when the session has been pruned.                 *)
InsertRow(p) ==
    /\ Is(p, "insert")
    /\ LET d == proc[p].dir
           s == proc[p].sid
       IN IF s \in DOMAIN Now(d).updated
          THEN /\ Commit(d, [Now(d) EXCEPT
                              !.rows = @ \cup {[id |-> Now(d).next, sid |-> s, who |-> p,
                                                   ord |-> proc[p].ord]},
                              !.next = @ + 1])
               /\ proc' = [q \in Procs |->
                             IF q = p THEN [proc[p] EXCEPT !.at = "find", !.said = @ + 1,
                                                                    !.ord = Now(d).next]
                             ELSE IF Is(q, "prune") /\ proc[q].dir = d THEN [proc[q] EXCEPT !.add = @ \cup {s}]
                             ELSE proc[q]]
               /\ active' = IF d = live THEN active \cup {s} ELSE active
          ELSE Goes(p, "chat") /\ UNCHANGED <<db, active, steady>>
    /\ UNCHANGED <<still, ops, live, file, archive, kept, spoiled, expired, untouched, half>>
InsertFound(p) ==
    /\ Is(p, "find")
    /\ LET d == proc[p].dir
       IN Commit(d, [Now(d) EXCEPT !.found = @ \cup {proc[p].ord}])
    /\ Goes(p, "touch")
    /\ UNCHANGED <<still, ops, live, file, archive, kept, spoiled, expired, active,
                   untouched, half>>
(* A message is stored, its session not touched yet, in the live database. *)
Between(q) == proc[q].at \in {"find", "touch"} /\ proc[q].dir = live
TouchSession_Never(p) ==
    /\ Is(p, "touch") /\ Goes(p, "chat")
    /\ UNCHANGED <<still, ops, disk, archive, homeHistory>>
TouchSession(p) ==
    /\ Is(p, "touch")
    /\ LET d == proc[p].dir
           s == proc[p].sid
       IN IF s \in DOMAIN Now(d).updated
          THEN Commit(d, [Now(d) EXCEPT !.updated[s] = "fresh"])
          ELSE UNCHANGED <<db, steady>>
    /\ Goes(p, "chat")
    /\ untouched' = IF Between(p) THEN untouched \ {proc[p].sid} ELSE untouched
    /\ UNCHANGED <<still, ops, live, file, archive, kept, spoiled, expired, active, half>>

(* SQLite moves what the WAL holds to the main file. It shows in backups:  *)
(* bound, only while one is taken.                                         *)
Checkpoint(d) ==
    /\ \E p \in Procs : Is(p, "copy")
    /\ db[d].main # Now(d)
    /\ db' = [db EXCEPT ![d].main = Now(d)] /\ steady' = FALSE
    /\ UNCHANGED <<still, ops, live, file, proc, archive, kept, spoiled, expired, active,
                   untouched, half>>

(* The time of a cutoff passes over everything stored so far; only prune   *)
(* looks at it.                                                            *)
Age ==
    /\ \E p \in Procs : "prune" \in scenario[p]
    /\ Now(live) # Corrupt
    /\ \E s \in DOMAIN Now(live).updated : Now(live).updated[s] = "fresh"
    /\ \A p \in Procs : proc[p].at \notin {"find", "touch"}
    /\ Commit(live, [Now(live) EXCEPT !.updated = [s \in DOMAIN @ |-> "old"]])
    /\ active' = {} /\ untouched' = {}
    /\ UNCHANGED <<still, ops, live, file, proc, archive, kept, spoiled, expired, half>>

(* checkpoints prune: the stale sessions are looked up, then deleted, with *)
(* their rows, in one transaction. The rows of the search index stay: the  *)
(* table keeps no content, so none of them has the session_id asked for.   *)
Midway == {proc[q].sid : q \in {r \in Procs : Between(r)}} \cup untouched
PruneLooks(p) ==
    /\ Command(p, "prune") /\ Now(live) # Corrupt /\ Undisturbed
    /\ LET stale == {s \in DOMAIN Now(live).updated : Now(live).updated[s] = "old"} IN
         /\ stale # {}
         /\ proc' = [proc EXCEPT ![p].at = "prune", ![p].dir = live, ![p].del = stale,
                                 ![p].add = Midway]
    /\ UNCHANGED <<still, disk, archive, homeHistory>>
Without(d, stale) ==
    [Now(d) EXCEPT !.updated = [s \in DOMAIN @ \ stale |-> @[s]],
                   !.rows = {r \in @ : r.sid \notin stale}]
PruneDeletes(p) ==
    /\ Is(p, "prune")
    /\ Commit(proc[p].dir, Without(proc[p].dir, proc[p].del))
    /\ proc' = [proc EXCEPT ![p] = Resting]
    /\ UNCHANGED <<still, ops, live, file, archive, kept, spoiled, expired, active,
                   untouched, half>>

(***************************************************************************)
(* merlion backup: the directory is walked and its files are put into the  *)
(* archive one by one, all but logs/ and .env.                             *)
(***************************************************************************)
Contents(f) == CASE f = "main" -> db[live].main
                 [] f = "wal" -> [base |-> db[live].main, now |-> Now(live)]
                 [] OTHER -> file[live][f]
Backup(p) ==
    /\ Command(p, "backup") /\ Undisturbed
    /\ Goes(p, "copy") /\ steady' = TRUE
    /\ archive' = [held |-> <<>>, was |-> [files |-> file[live], now |-> Now(live)],
                   whole |-> FALSE]
    /\ UNCHANGED <<still, disk, kept, spoiled, expired, active, untouched, half>>
CopyPart(p, unit) ==
    /\ Is(p, "copy") /\ unit \cap DOMAIN archive.held = {}
    /\ archive' = [archive EXCEPT !.held = [f \in DOMAIN @ \cup unit |->
                                             IF f \in unit THEN Contents(f) ELSE @[f]]]
    /\ UNCHANGED <<still, ops, disk, proc, homeHistory>>
BackupEnds_Early(p) ==
    /\ Is(p, "copy") /\ Files \cup {"bodies", "index", "main"} \subseteq DOMAIN archive.held
    /\ archive' = [archive EXCEPT !.whole = steady]
    /\ Goes(p, "idle")
    /\ UNCHANGED <<still, ops, disk, homeHistory>>
BackupEnds(p) ==
    /\ Is(p, "copy") /\ DOMAIN archive.held = Parts
    /\ archive' = [archive EXCEPT !.whole = steady]
    /\ Goes(p, "idle")
    /\ UNCHANGED <<still, ops, disk, homeHistory>>

(* merlion import --force: the directory is renamed, an empty one takes    *)
(* its name and is filled from the archive, as far as that goes.           *)
NewDir == [f \in Files \cup {"bodies", "index"} |-> {}]
NewDb == [main |-> Empty, now |-> Empty]
Import(p) ==
    /\ Command(p, "import") /\ archive.held # <<>> /\ live < MaxDirs /\ Undisturbed
    /\ \A q \in Procs : ~Is(q, "copy")
    /\ live' = live + 1
    /\ proc' = [proc EXCEPT ![p].at = "unpack", ![p].del = DOMAIN archive.held]
    /\ steady' = TRUE /\ spoiled' = Files \cup {"index"} /\ active' = {}
    /\ UNCHANGED <<still, file, db, archive, kept, expired, untouched, half>>
(* A write-ahead log counts on top of the main file it was written for,    *)
(* or that has taken it in already.                                        *)
Together(main, wal) == IF main \in {wal.base, wal.now} THEN wal.now ELSE Corrupt
Unpack(p, unit) ==
    /\ Is(p, "unpack") /\ unit \subseteq proc[p].del
    /\ LET held == archive.held
           todo == proc[p].del \ unit
           there == DOMAIN held \ todo
       IN /\ proc' = [proc EXCEPT ![p].del = todo]
          /\ file' = [file EXCEPT ![live] =
                        [f \in DOMAIN @ |-> IF f \in unit THEN held[f] ELSE @[f]]]
          /\ db' = IF unit \notin {{"main"}, {"wal"}} \/ "main" \notin there THEN db
                   ELSE [db EXCEPT ![live] =
                           [main |-> held["main"],
                            now |-> IF "wal" \in there THEN Together(held["main"], held["wal"])
                                    ELSE held["main"]]]
    /\ UNCHANGED <<still, ops, live, archive, homeHistory>>
ImportEnds(p) ==
    /\ Is(p, "unpack") /\ proc[p].del = {} /\ Goes(p, "idle")
    /\ UNCHANGED <<still, ops, disk, archive, homeHistory>>

(* merlion uninstall: what has an open connection lives on without a name. *)
(* Bound: one such database at a time.                                     *)
Connected(q) == Chatting(q) \/ Is(q, "prune")
Uninstall(p) ==
    /\ Command(p, "uninstall")
    /\ proc' = [proc EXCEPT ![p].at = "remove", ![p].del = Parts]
    /\ spoiled' = Files \cup {"index"} /\ active' = {}
    /\ UNCHANGED <<still, disk, archive, kept, expired, untouched, half, steady>>
RemovePart(p, unit) ==
    /\ Is(p, "remove") /\ unit \subseteq proc[p].del
    /\ unit = {"main"} => \A q \in Procs : Connected(q) => proc[q].dir # 0
    /\ proc' = [q \in Procs |->
                  LET r == IF q = p THEN [proc[p] EXCEPT !.del = @ \ unit] ELSE proc[q] IN
                  IF unit = {"main"} /\ r.dir = live THEN [r EXCEPT !.dir = 0] ELSE r]
    /\ db' = CASE unit = {"main"} -> [db EXCEPT ![0] = db[live], ![live] = NewDb]
               [] unit = {"wal"} /\ \A q \in Procs : proc[q].dir # live ->
                     [db EXCEPT ![live].now = db[live].main]
               [] OTHER -> db
    /\ file' = [file EXCEPT ![live] = [f \in DOMAIN @ |-> IF f \in unit THEN {} ELSE @[f]]]
    /\ active' = IF db'[live] = db[live] THEN active ELSE {}
    /\ steady' = FALSE
    /\ UNCHANGED <<still, ops, live, archive, kept, spoiled, expired, untouched, half>>
UninstallEnds(p) ==
    /\ Is(p, "remove") /\ proc[p].del = {} /\ Goes(p, "idle")
    /\ UNCHANGED <<still, ops, disk, archive, homeHistory>>

(***************************************************************************)
(* A process dies. fs::write truncates a file before it fills it.          *)
(***************************************************************************)
Dies(p) ==
    /\ ~Is(p, "idle") /\ ops < MaxOps /\ ops' = ops + 1
    /\ proc' = [proc EXCEPT ![p] = Resting]
    /\ LET cut == CASE Is(p, "save") -> proc[p].file [] Is(p, "line") -> "index"
                    [] OTHER -> "none" IN
       \/ UNCHANGED <<file, spoiled, steady>>
       \/ /\ cut # "none"
          /\ \E left \in {{}} \cup (IF cut = "index" THEN {} ELSE {Unreadable}) :
                file' = [file EXCEPT ![live][cut] = left]
          /\ spoiled' = spoiled \cup {cut} /\ steady' = FALSE
    /\ unsure' = IF Is(p, "skill") THEN unsure \cup proc[p].add ELSE unsure
    /\ half' = IF proc[p].at \in {"index", "line"}
               THEN Healed(p) \cup (proc[p].add \X {"write"}) \cup (proc[p].del \X {"delete"})
               ELSE half
    /\ untouched' = IF Between(p) THEN untouched \cup {proc[p].sid} ELSE untouched
    /\ UNCHANGED <<scenario, skill, mine, live, db, archive, kept, expired, active>>

(***************************************************************************)
HomeInit ==
    /\ scenario \in Scenarios /\ ops = 0
    /\ skill = [n \in Items |-> [form \in Forms |-> "none"]] /\ mine = {} /\ unsure = {}
    /\ live = 1
    /\ file = [d \in 0..MaxDirs |-> NewDir] /\ db = [d \in 0..MaxDirs |-> NewDb]
    /\ proc = [p \in Procs |-> Resting]
    /\ archive = [held |-> <<>>, was |-> <<>>, whole |-> FALSE]
    /\ kept = [f \in Files |-> {}]
    /\ spoiled = {} /\ expired = {} /\ active = {} /\ untouched = {} /\ half = {}
    /\ steady = FALSE

Yaml(p) ==
    \/ \E x \in Items :
        \/ RememberAlways(p, x) \/ Share(p, x) \/ FallbackAdd(p, x) \/ FallbackRemove(p, x)
        \/ McpAdd(p, x) \/ McpAddHttp(p, x) \/ McpRemove(p, x) \/ McpOauth(p, x)
        \/ \E enabled \in BOOLEAN : McpToggle(p, x, enabled)
    \/ Authorized(p) \/ FallbackClear(p) \/ CuratorPause(p) \/ CuratorResume(p) \/ Save(p)
Memory(p) ==
    (\E x \in Items : MemoryWrite(p, x) \/ MemoryDelete(p, x)) \/ ReadIndex(p) \/ WriteIndex(p)
Database(p) ==
    \/ \E s \in Sessions : OpenChat(p, s)
    \/ CloseChat(p) \/ SelectOrd(p) \/ InsertRow(p) \/ InsertFound(p) \/ TouchSession(p)
    \/ PruneLooks(p) \/ PruneDeletes(p)
Library(p) ==
    \/ \E x \in Items : SkillCreate(p, x) \/ SkillUpdate(p, x) \/ SkillsDelete(p, x)
    \/ SkillWritten(p) \/ SkillWriteFails(p) \/ Unlink(p)
Maintenance(p) ==
    \/ Backup(p) \/ BackupEnds(p) \/ Import(p) \/ ImportEnds(p)
    \/ Uninstall(p) \/ UninstallEnds(p)
    \/ \E unit \in Units : CopyPart(p, unit) \/ Unpack(p, unit) \/ RemovePart(p, unit)
HomeNext ==
    \/ \E p \in Procs : Yaml(p) \/ Memory(p) \/ Database(p) \/ Library(p) \/ Maintenance(p) \/ Dies(p)
    \/ (\E x \in Items : Expire(x) \/ InstallSkill(x)) \/ (\E d \in 1..MaxDirs : Checkpoint(d)) \/ Age

HomeSpec == HomeInit /\ [][HomeNext]_homeVars

(***************************************************************************)
(* Properties                                                              *)
(***************************************************************************)
(* Every file holds what its commands would have left one after the other, *)
(* a key past its time aside: unless two processes have used it at once, a *)
(* death has cut it off, or the directory has been replaced.               *)
EntriesAreKept ==
    \A f \in Files \ spoiled : file[live][f] = kept[f]

(* Where no two processes have used the index at once, a line of MEMORY.md *)
(* has a body unless a delete is under way or was cut off, and a body has  *)
(* a line unless a write is or was.                                        *)
IndexMatchesBodies ==
    "index" \notin spoiled =>
        \A n \in Items :
            LET busy == \E p \in Procs : /\ proc[p].at \in {"index", "line"}
                                         /\ n \in proc[p].add \cup proc[p].del
                listed == n \in file[live]["index"]
                stored == n \in file[live]["bodies"]
            IN /\ listed /\ ~stored => busy \/ <<n, "delete">> \in half
               /\ stored /\ ~listed => busy \/ <<n, "write">> \in half

(* However two processes append to a session, each loads its own messages  *)
(* in the order it wrote them, and a session is pruned only if nothing was *)
(* said in it since the cutoff: but for what was said after prune looked,  *)
(* and for a death between a message and the touch of its session.         *)
MessagesKeepTheirPlace ==
    /\ \A d \in 0..MaxDirs : Now(d) # Corrupt =>
          \A r, t \in Now(d).rows :
              /\ r.sid \in DOMAIN Now(d).updated
              /\ r.id < t.id /\ r.who = t.who /\ r.sid = t.sid => r.ord < t.ord
    /\ \A p \in Procs : Is(p, "prune") /\ proc[p].dir = live =>
          proc[p].del \cap active \subseteq proc[p].add

(* What a backup took while nobody wrote, an import puts back while nobody *)
(* writes: every file, and all messages, those in the write-ahead log too. *)
ArchiveRestores ==
    \A p \in Procs :
        Is(p, "unpack") /\ proc[p].del = {} /\ archive.whole /\ steady =>
            file[live] = archive.was.files /\ Now(live) = archive.was.now

(* A chat that is opened offers the user's skill of every name that has    *)
(* one, the bundled one of any other, and no skill that was deleted:       *)
(* unless one was just being written or removed, a write was cut off or    *)
(* failed, or the skill was stored as a file and as a directory            *)
(* (SkillSet::load against skill_create, skill_update and `skills          *)
(* delete`).  A file that skill_create has reported and that the loader    *)
(* passes over, for front matter that is not YAML or for the name README,  *)
(* counts as none: the bundled skill is offered in its place.              *)
SkillsAreOffered ==
    [][\A p \in Procs : proc[p].sid = 0 /\ proc'[p].sid # 0 =>
         \A n \in Items \ unsure :
            LET busy == \E q \in Procs : (Is(q, "skill") /\ n \in proc[q].add)
                                         \/ (Is(q, "unlink") /\ n \in proc[q].del)
                offered == {o \in proc'[p].skills : o[1] = n}
                owed == IF n \in mine /\ skill[n].flat # "odd" THEN {<<n, "user">>}
                        ELSE IF n \in Bundled THEN {<<n, "bundled">>} ELSE {}
            IN  ~busy => offered = owed]_homeVars
=============================================================================
