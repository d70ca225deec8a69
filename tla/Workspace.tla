----------------------------- MODULE Workspace -----------------------------
(***************************************************************************)
(* The built-in tools at work on the files around an agent: edit, write,   *)
(* skill_create and skill_update, the commands that bash starts here and   *)
(* its sandboxed variants elsewhere, the tools that only look (read, ls,   *)
(* grep, glob, web_fetch, web_search) and task, which runs another agent   *)
(* with the same tools.                                                    *)
(*                                                                         *)
(* A file is the sequence of its tokens, a skill <<description, body>>; an *)
(* edit's new string is as long as the old one.                            *)
(* tokio's fs::write is a job of the blocking pool that first empties the  *)
(* file, and a command is a child process: neither ends with the future    *)
(* that waits for it.                                                      *)
(***************************************************************************)
EXTENDS Naturals, Sequences, FiniteSets

CONSTANTS
    Main, Subs,        \* the chat's agent, and the agents task can start
    Tokens, NoDescription,
    Strings,           \* what an edit may be asked to replace, and by what
    Folded,            \* descriptions the loader reads and extract_description does not
    Paths, Skill, Remote,   \* Skill: a file of the skills directory; Remote: one elsewhere
    InitialFiles,
    Limit,             \* how much of an answer a tool shows
    MaxCalls, MaxCuts

Agents == {Main} \cup Subs
Missing == <<NoDescription, NoDescription, NoDescription>>
Found == 0 .. Limit + 1                    \* bound: sizes of what a tool finds

ASSUME WorkspaceAssumption ==
    /\ Main \notin Subs
    /\ {Skill, Remote} \subseteq Paths /\ Limit \in Nat \ {0}
    /\ Strings \subseteq Seq(Tokens) \ {<<>>} /\ Folded \subseteq Tokens
    /\ InitialFiles \subseteq [Paths -> Seq(Tokens) \cup {Missing}]

VARIABLES
    file,
    run,      \* of each agent: where it is, who waits for its reply, its reply
    result,   \* the answer to its last call
    jobs,     \* writes and child processes on their way
    made, cuts,
    \* history: what the files would hold if every change were made at once, files
    \* two changes overlapped on, files a change damaged by itself, and whether anything
    \* was cut loose from its call
    kept, overlapped, damaged, cut

history == <<kept, overlapped, damaged, cut>>
workspaceVars == <<file, run, result, jobs, made, cuts, history>>

Off == [at |-> "off", for |-> Main, reply |-> "none"]
(* left: how much was found and is not in the answer; silent: what leaves  *)
(* something out and says nothing.                                         *)
Answer(error, left, marker) ==
    [error |-> error, left |-> left, marker |-> marker, silent |-> "nothing"]
Failed == Answer(TRUE, 0, FALSE)
Done == Answer(FALSE, 0, FALSE)
Silently(left, what) ==
    [error |-> FALSE, left |-> left, marker |-> FALSE,
     silent |-> IF left = 0 THEN "nothing" ELSE what]
Beyond(size) == IF size <= Limit THEN 0 ELSE size - Limit
(* A byte limit is applied with String::truncate; "split" is an output     *)
(* whose limit falls within a character, where truncate panics.            *)
Outputs == {"short", "long", "split"}
Truncated(error, output) ==
    IF output = "long" THEN Answer(error, 1, TRUE) ELSE Answer(error, 0, FALSE)

Thinks(a) == run[a].at = "thinking"
Acts(a) == Thinks(a) /\ made < MaxCalls /\ made' = made + 1
Waits(a, at) == run' = [run EXCEPT ![a].at = at]
Gets(a, r) == run' = [run EXCEPT ![a].at = "thinking"] /\ result' = [result EXCEPT ![a] = r]
(* A call that is answered at once.                                        *)
Tells(a, r) ==
    /\ Acts(a) /\ result' = [result EXCEPT ![a] = r]
    /\ UNCHANGED <<file, run, jobs, cuts, history>>

(***************************************************************************)
(* Tools that change a file                                                *)
(***************************************************************************)
Occurrences(text, old) ==
    {i \in DOMAIN text : /\ i + Len(old) <= Len(text) + 1
                         /\ \A k \in DOMAIN old : text[i + k - 1] = old[k]}
(* str::matches goes on behind a match: those do not overlap.              *)
Clash(i, k, old) == i < k /\ k < i + Len(old)
Matches(text, old) ==
    CHOOSE M \in SUBSET Occurrences(text, old) :
        \A k \in Occurrences(text, old) : k \in M <=> \A i \in M : ~Clash(i, k, old)
With(text, old, new, M) ==
    [k \in DOMAIN text |->
        LET over == {i \in M \cap DOMAIN text : i = k \/ Clash(i, k, old)} IN
          IF over = {} THEN text[k] ELSE new[k + 1 - CHOOSE i \in over : TRUE]]
Replaced(text, old, new, all) ==
    LET M == Matches(text, old) IN With(text, old, new, {i \in M : all \/ \A k \in M : i <= k})
Ambiguous_Never(text, old, all) == FALSE
Ambiguous(text, old, all) == Cardinality(Matches(text, old)) > 1 /\ ~all
(* Overlapping occurrences are one match: the edit is made, not refused.   *)
Tangled(text, old) == \E i, k \in Occurrences(text, old) : Clash(i, k, old)

Described(text) == IF text = <<>> THEN NoDescription ELSE text[1]
(* extract_description wants an unindented line between two bare "---".    *)
Description(text) == IF Described(text) \in Folded THEN NoDescription ELSE Described(text)

(* The part the tools promise: "Overwrites existing files", an edit of the *)
(* one occurrence "unless replace_all is true", "The skill must already    *)
(* exist", "if omitted, the existing description is preserved".            *)
Promised(text, j) ==
    CASE j.how = "edit" -> IF j.all \/ \E i \in DOMAIN text : Occurrences(text, j.old) = {i}
                           THEN With(text, j.old, j.new, Occurrences(text, j.old)) ELSE text
      [] j.how = "create" -> IF text = Missing THEN j.text ELSE text
      [] j.how = "update" /\ text # Missing /\ j.old = <<NoDescription>> ->
            <<Described(text), j.new[1]>>
      [] OTHER -> j.text

Job(a, how, p, text, old, new, all) ==
    [by |-> {a}, how |-> how, path |-> p, text |-> text, old |-> old, new |-> new, all |-> all,
     begun |-> FALSE]
(* What one change alone may do to a file.                                 *)
Damages(j) ==
    \/ j.how = "edit" /\ Tangled(file[j.path], j.old)
    \/ j.how = "update" /\ j.old = <<NoDescription>> /\ Described(file[j.path]) \in Folded
Starts(a, at, j) ==
    /\ Acts(a) /\ jobs' = jobs \cup {j} /\ Waits(a, at)
    /\ overlapped' = IF \E k \in jobs : k.path = j.path
                      THEN overlapped \cup {j.path} ELSE overlapped
    /\ damaged' = IF Damages(j) THEN damaged \cup {j.path} ELSE damaged
    /\ UNCHANGED <<file, result, cuts, kept, cut>>

Write(a, p, text) ==
    p \notin {Skill, Remote} /\ Starts(a, "tool", Job(a, "write", p, text, text, text, FALSE))
EditRefused(a, p, old, new, all) ==
    /\ \/ old = new \/ file[p] = Missing \/ Matches(file[p], old) = {}
       \/ Ambiguous(file[p], old, all)
    /\ Tells(a, Failed)
Edit(a, p, old, new, all) ==
    /\ p # Remote /\ old # new /\ file[p] # Missing
    /\ Matches(file[p], old) # {} /\ ~Ambiguous(file[p], old, all)
    /\ Starts(a, "tool", Job(a, "edit", p, Replaced(file[p], old, new, all), old, new, all))

SkillRefused(a, exists) == (file[Skill] # Missing) = exists /\ Tells(a, Failed)
SkillCreate(a, text) ==
    /\ file[Skill] = Missing
    /\ Starts(a, "tool", Job(a, "create", Skill, text, text, text, FALSE))
SkillUpdate(a, description, body) ==
    /\ file[Skill] # Missing
    /\ LET kind == IF description = NoDescription THEN Description(file[Skill]) ELSE description
           text == <<kind, body>> IN
         Starts(a, "tool", Job(a, "update", Skill, text, <<description>>, <<body>>, FALSE))

(* fs::write opens the file, which empties it, and then writes; each may   *)
(* fail, the second after a part. The caller may be gone.                  *)
Hears(j, r) ==
    IF j.by = {} THEN UNCHANGED <<run, result>>
    ELSE LET a == CHOOSE a \in Agents : a \in j.by IN Gets(a, r)
Writing(j) == j \in jobs /\ j.how # "command"
Opens(j) ==
    /\ Writing(j) /\ ~j.begun /\ file' = [file EXCEPT ![j.path] = <<>>]
    /\ jobs' = (jobs \ {j}) \cup {[j EXCEPT !.begun = TRUE]}
    /\ UNCHANGED <<run, result, made, cuts, history>>
Writes(j) ==
    /\ Writing(j) /\ j.begun /\ file' = [file EXCEPT ![j.path] = j.text]
    /\ jobs' = jobs \ {j} /\ kept' = [kept EXCEPT ![j.path] = Promised(@, j)]
    /\ damaged' = IF j.how = "write" THEN damaged \ {j.path} ELSE damaged
    /\ Hears(j, Done) /\ UNCHANGED <<made, cuts, overlapped, cut>>
WriteFails(j) ==
    /\ Writing(j) /\ cuts < MaxCuts /\ cuts' = cuts + 1
    /\ jobs' = jobs \ {j} /\ Hears(j, Failed) /\ UNCHANGED <<made, kept, overlapped, cut>>
    /\ \/ ~j.begun /\ UNCHANGED <<file, damaged>>
       \/ /\ j.begun /\ damaged' = damaged \cup {j.path}
          /\ \E n \in 0 .. Len(j.text) - 1 : file' = [file EXCEPT ![j.path] = SubSeq(j.text, 1, n)]

(***************************************************************************)
(* Commands                                                                *)
(***************************************************************************)
SpawnFails(a) == Tells(a, Failed)
Bash(a, p, text) ==
    p # Remote /\ Starts(a, "command", Job(a, "command", p, text, text, text, FALSE))
(* bash_docker and bash_ssh run docker and ssh here and the command        *)
(* elsewhere. Nothing registers them by default.                           *)
BashDocker(a, text) == Starts(a, "command", Job(a, "command", Remote, text, text, text, FALSE))
BashSsh(a, text) == Starts(a, "command", Job(a, "command", Remote, text, text, text, FALSE))

Command(j) == j \in jobs /\ j.how = "command"
CommandWrites(j) ==
    /\ Command(j) /\ ~j.begun
    /\ file' = [file EXCEPT ![j.path] = j.text] /\ kept' = [kept EXCEPT ![j.path] = j.text]
    /\ jobs' = (jobs \ {j}) \cup {[j EXCEPT !.begun = TRUE]} /\ damaged' = damaged \ {j.path}
    /\ UNCHANGED <<run, result, made, cuts, overlapped, cut>>
(* collect_output waits for the end of both pipes and of the child.        *)
Panics(a) ==
    IF a = Main
    THEN /\ run' = [b \in Agents |-> Off] /\ cut' = TRUE
         /\ jobs' = {[j EXCEPT !.by = {}] : j \in jobs}
    ELSE /\ run' = [run EXCEPT ![a].at = "ended", ![a].reply = "panicked"]
         /\ UNCHANGED <<jobs, cut>>
CommandEnds(a, j, error, output) ==
    /\ Command(j) /\ j.by = {a}
    /\ IF output = "split"
       THEN /\ Waits(a, "panic") /\ UNCHANGED <<result>>
       ELSE Gets(a, Truncated(error, output))
    /\ jobs' = jobs \ {j} /\ UNCHANGED <<file, made, cuts, history>>
Unwinds(a) ==
    /\ run[a].at = "panic" /\ Panics(a)
    /\ UNCHANGED <<file, result, made, cuts, kept, overlapped, damaged>>
LeftEnds(j) ==
    /\ Command(j) /\ j.by = {} /\ jobs' = jobs \ {j}
    /\ UNCHANGED <<file, run, result, made, cuts, history>>
(* A child that closed its pipes, or one nobody waits for any longer:      *)
(* nothing kills it.                                                       *)
Loose(j) ==
    /\ cuts < MaxCuts /\ cuts' = cuts + 1 /\ cut' = TRUE
    /\ jobs' = (jobs \ {j}) \cup {[j EXCEPT !.by = {}]}
    /\ UNCHANGED <<file, made, kept, overlapped, damaged>>
CommandDetaches(a, j) == Command(j) /\ j.by = {a} /\ Loose(j) /\ Gets(a, Done)
CommandTimesOut(a, j) == Command(j) /\ j.by = {a} /\ Loose(j) /\ Gets(a, Failed)

(***************************************************************************)
(* Tools that only look                                                    *)
(***************************************************************************)
(* read shows the lines it was asked for, or as many as it shows unasked.  *)
Read(a, p, asked) ==
    Tells(a, IF file[p] = Missing THEN Failed
             ELSE IF asked THEN Done ELSE Silently(Beyond(Len(file[p])), "unasked"))
Ls(a) == Tells(a, Done)
LsFails(a) == Tells(a, Failed)
(* glob gives up on the entry after the last it may show; it passes over   *)
(* entries it cannot read, and asked for none it finds none.               *)
Glob_AtTheLimit(a, size, hidden) ==
    Tells(a, IF size < Limit THEN Silently(hidden, "hidden")
             ELSE Answer(FALSE, Beyond(size) + hidden, TRUE))
Glob(a, size, hidden) ==
    Tells(a, IF size <= Limit THEN Silently(hidden, "hidden")
             ELSE Answer(FALSE, Beyond(size) + hidden, TRUE))
GlobForNone(a, size) == Tells(a, Silently(size, "none wanted"))
TruncateLines(size) == IF size <= Limit THEN Done ELSE Answer(FALSE, Beyond(size), TRUE)
(* Status 1 of rg and grep means no match, anything above an error. A      *)
(* search that takes a minute is left running, which changes nothing.      *)
Grep(a, size, code) ==
    /\ size = 0 \/ code # 1
    /\ Tells(a, [TruncateLines(size) EXCEPT !.error = code = 2])
GrepFails(a) == Tells(a, Failed)
(* A body arrives in chunks; the one that passes the limit is cut, and the *)
(* rest is not read.                                                       *)
Chunk(body, n) ==
    IF body.cut \/ body.shown + n > Limit
    THEN [cut |-> TRUE, shown |-> Limit, of |-> body.of + n]
    ELSE [cut |-> FALSE, shown |-> body.shown + n, of |-> body.of + n]
WebFetch(a, n, m) ==                                        \* bound: two chunks
    LET body == Chunk(Chunk([cut |-> FALSE, shown |-> 0, of |-> 0], n), m) IN
      Tells(a, Answer(FALSE, body.of - body.shown, body.cut))
WebFetchFails(a) == Tells(a, Failed)
(* Of each result the beginning.                                           *)
WebSearch(a, size) == Tells(a, Silently(Beyond(size), "snippet"))
WebSearchFails(a) == Tells(a, Failed)

(***************************************************************************)
(* Runs and sub-agents                                                     *)
(***************************************************************************)
Prompt ==
    /\ run[Main].at = "off" /\ made < MaxCalls
    /\ Waits(Main, "thinking") /\ UNCHANGED <<file, result, jobs, made, cuts, history>>
Replies == {"text", "long", "split", "nothing", "failed"}
Ends(a, reply) ==
    /\ Thinks(a)
    /\ run' = IF a = Main \/ run[a].for = a THEN [run EXCEPT ![a] = Off]
              ELSE [run EXCEPT ![a].at = "ended", ![a].reply = reply]
    /\ UNCHANGED <<file, result, jobs, made, cuts, history>>

(* task: a run of its own in a spawned task.                               *)
Task(a, s) ==
    /\ Acts(a) /\ run[s].at = "off" /\ s # a
    /\ run' = [run EXCEPT ![a].at = "task", ![s] = [Off EXCEPT !.at = "thinking", !.for = a]]
    /\ UNCHANGED <<file, result, jobs, cuts, history>>
TaskNotInstalled(a) == Tells(a, Failed)
SubOf(a, s) == s \in Subs /\ run[s].for = a /\ run[s].at # "off"
Reply(reply) ==
    CASE reply \in {"failed", "panicked"} -> Failed
      [] reply = "long" -> Answer(FALSE, 1, TRUE)
      [] OTHER -> Done
TaskAnswers_AtTheReply(a, s) ==
    /\ run[a].at = "task" /\ SubOf(a, s)
    /\ run' = [run EXCEPT ![a].at = "thinking", ![s] = IF run[s].at = "ended" THEN Off ELSE @]
    /\ result' = [result EXCEPT ![a] = Reply(run[s].reply)]
    /\ UNCHANGED <<file, jobs, made, cuts, history>>
TaskAnswers(a, s) ==
    /\ run[a].at = "task" /\ SubOf(a, s) /\ run[s].at = "ended"
    /\ IF run[s].reply = "split"
       THEN run' = [run EXCEPT ![a].at = "panic", ![s] = Off] /\ UNCHANGED result
       ELSE /\ run' = [run EXCEPT ![a].at = "thinking", ![s] = Off]
            /\ result' = [result EXCEPT ![a] = Reply(run[s].reply)]
    /\ UNCHANGED <<file, jobs, made, cuts, history>>

(* Ctrl-C drops the run's future: what it was waiting for goes on alone.   *)
Interrupt ==
    /\ run[Main].at \notin {"off", "panic"} /\ cuts < MaxCuts /\ cuts' = cuts + 1 /\ cut' = TRUE
    /\ run' = [a \in Agents |-> IF a = Main THEN Off
                                ELSE IF ~SubOf(Main, a) THEN run[a]
                                ELSE IF run[a].at = "ended" THEN Off
                                ELSE [run[a] EXCEPT !.for = a]]
    /\ jobs' = {IF j.by = {Main} THEN [j EXCEPT !.by = {}] ELSE j : j \in jobs}
    /\ UNCHANGED <<file, result, made, kept, overlapped, damaged>>

WorkspaceInit ==
    /\ file \in InitialFiles /\ kept = file
    /\ run = [a \in Agents |-> Off] /\ result = [a \in Agents |-> Done]
    /\ jobs = {} /\ made = 0 /\ cuts = 0 /\ overlapped = {} /\ damaged = {} /\ cut = FALSE

Looks(a) ==
    \/ \E p \in Paths \ {Remote}, asked \in BOOLEAN : Read(a, p, asked)
    \/ \E n \in Found : WebSearch(a, n) \/ GlobForNone(a, n)
    \/ \E n \in Found, hidden \in 0 .. 1 : Glob(a, n, hidden)
    \/ \E n \in Found, code \in 0 .. 2 : Grep(a, n, code)
    \/ \E n, m \in 0 .. Limit : WebFetch(a, n, m)
    \/ Ls(a) \/ LsFails(a)
    \/ GrepFails(a) \/ WebFetchFails(a) \/ WebSearchFails(a) \/ SpawnFails(a) \/ TaskNotInstalled(a)
Changes(a) ==
    \/ \E p \in Paths, t \in Tokens : Write(a, p, <<t>>) \/ Bash(a, p, <<t, t>>)
    \/ \E p \in Paths \ {Remote}, old, new \in Strings, all \in BOOLEAN :
            /\ Len(old) = Len(new)
            /\ Edit(a, p, old, new, all) \/ EditRefused(a, p, old, new, all)
    \/ \E t, u \in Tokens : SkillCreate(a, <<t, u>>)
    \/ \E t \in Tokens \cup {NoDescription}, u \in Tokens : SkillUpdate(a, t, u)
    \/ \E exists \in BOOLEAN : SkillRefused(a, exists)
    \/ \E t, u \in Tokens : BashDocker(a, <<t, t>>) \/ BashSsh(a, <<t, u>>)
Commands(a) ==
    \E j \in jobs :
        \/ CommandDetaches(a, j) \/ CommandTimesOut(a, j)
        \/ \E error \in BOOLEAN, output \in Outputs : CommandEnds(a, j, error, output)
JobSteps ==
    \E j \in jobs : Opens(j) \/ Writes(j) \/ WriteFails(j) \/ CommandWrites(j) \/ LeftEnds(j)
RunSteps ==
    \E a \in Agents :
        \/ Unwinds(a) \/ \E reply \in Replies : Ends(a, reply)
        \/ \E s \in Subs : Task(a, s) \/ TaskAnswers(a, s)

WorkspaceNext ==
    \/ Prompt \/ Interrupt \/ RunSteps \/ JobSteps
    \/ \E a \in Agents : Thinks(a) /\ made < MaxCalls /\ (Looks(a) \/ Changes(a))
    \/ \E a \in Agents : Commands(a)

WorkspaceSpec == WorkspaceInit /\ [][WorkspaceNext]_workspaceVars

-----------------------------------------------------------------------------
(* What nothing else was changing meanwhile holds what the tools promised: *)
(* every file two changes never overlapped on is the result of the changes *)
(* that were reported, one after the other.  Three things may damage it    *)
(* for as long as it is not written as a whole: a write that fails after   *)
(* the file was emptied, an edit of a string that overlaps itself, which   *)
(* counts as one occurrence, and an update without a description of a      *)
(* skill whose description stands where only the loader finds it.          *)
ChangesAreKept ==
    \A p \in Paths \ (overlapped \cup damaged) :
        (\A j \in jobs : j.path = p => ~j.begun \/ j.how = "command") => file[p] = kept[p]

(* Unless a command timed out or detached, or a run was interrupted or     *)
(* panicked, whatever may still change a file is waited for by the call    *)
(* that started it, up to the chat's own run.                              *)
NothingOutlivesItsCall ==
    ~cut =>
        /\ \A j \in jobs : \E a \in Agents : j.by = {a} /\ run[a].at \in {"tool", "command"}
        /\ \A s \in Subs : run[s].at # "off" => run[run[s].for].at = "task" /\ run[s].for # s

(* A tool that cuts its answer says so, and only when it did, at the limit *)
(* and around it.  What is left out without a word: the lines after those  *)
(* read shows unasked, the rest of a search result, and what glob could    *)
(* not read or was to show none of.                                        *)
MarkersAreHonest ==
    \A a \in Agents : ~result[a].error =>
        /\ result[a].marker => result[a].left > 0
        /\ result[a].left > 0 =>
              result[a].marker \/ result[a].silent \in {"unasked", "snippet", "hidden", "none wanted"}
=============================================================================
