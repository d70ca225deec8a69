------------------------------ MODULE Settings ------------------------------
(***************************************************************************)
(* What the program is configured with, and the commands that change it:   *)
(* config.yaml, the lines of .env and the credential pool auth.yaml        *)
(* (merlion-config), written by `merlion model`, `merlion setup` and       *)
(* `merlion auth`, each a process of its own that reads the files and its  *)
(* environment once, asks, and writes.                                     *)
(*                                                                         *)
(* A model is reduced to its provider, base_url and api_key_env to the     *)
(* provider they were written for, everything else in config.yaml to the   *)
(* system prompt and where it came from. Keys are numbered as they are     *)
(* typed; 0 is an empty value.                                             *)
(***************************************************************************)
EXTENDS Providers, Naturals, Sequences, FiniteSets

CONSTANTS
    Providers,     \* what may stand before the colon of a model id
    GatewayVars,   \* TELEGRAM_BOT_TOKEN and the like
    Terminals,
    NoFile, Torn, Idle,
    Surroundings,  \* what a shell may export and a directory hold
    FirstFiles,    \* what config.yaml may hold at first
    FirstEnvs,     \* and .env
    Chains,        \* the entries fallback.yaml may hold
    Flags,         \* what -m and --provider may say
    MaxCommands, MaxKeys

Known == Providers \cap Resolvable
Vars == {Owner(p) : p \in (Providers \cup UNION Chains) \cap Resolvable} \cup GatewayVars \cup {Custom}
Labels == 1..2
Configs == [provider : Providers, base : Providers \cup {None},
            keyEnv : Providers \cup {None}, prompt : {"none", "mine", "project", "shell"}]

ASSUME SettingsAssumption ==
    /\ Usual \in Providers /\ Flags \subseteq (Providers \cup {None}) \X (Providers \cup {None})
    /\ Surroundings \subseteq [exported : [Vars -> {Unset, 0, 1}], prompt : BOOLEAN,
                               project : Configs \cup {NoFile}]
    /\ FirstFiles \subseteq Configs \cup {NoFile}
    /\ FirstEnvs \subseteq Seq([var : Vars, key : Nat])

(* A command at work: the stage it is at, what it has loaded and found,    *)
(* how many lines .env had, the sections to come, and the key it asks for. *)
Stages == {"save", "modelkey", "model", "gateway", "agent", "key", "write", "mirror"}
Processes ==
    [at : Stages, cfg : Configs, found : [Vars -> {Unset} \cup Nat], lines : Nat,
     todo : Seq({"model", "gateway", "agent"}), dirty : BOOLEAN, var : Providers \cup Vars, key : Nat,
     again : BOOLEAN]
ASSUME NoValueAssumption == Unset \notin Nat /\ Idle \notin Processes

(* What was in the files was written for the provider they name.           *)
Fits(c) == c.provider \in Resolvable => StaysHome(Client(c))
ASSUME FirstFilesAssumption ==
    /\ \A c \in (FirstFiles \cup {s.project : s \in Surroundings}) \ {NoFile} : Fits(c)
    /\ \A c \in FirstFiles \ {NoFile} : c.prompt \in {"none", "mine"}

VARIABLES
    around,     \* the shell and the directory, the same for every command
    config,     \* config.yaml: NoFile, Torn, or its settings
    env,        \* .env, a sequence of lines
    pool,       \* auth.yaml: for each provider its labels and their keys
    cmd,        \* the command at work in each terminal
    started, typed,
    \* history: the last key written for a variable; where it was written
    \* behind another key, and why; keys never mirrored; settings carried over
    saved, reentered, raced, unmirrored, misfit, leaked

files == <<config, env, pool>>
history == <<saved, reentered, raced, unmirrored, misfit, leaked>>
vars == <<around, files, cmd, started, typed, history>>

(***************************************************************************)
(* What a process that starts now finds                                    *)
(***************************************************************************)
(* dotenvy::from_path sets a variable that is not set yet, line by line,   *)
(* and gives up at a line it cannot parse.                                 *)
Parsed == {i \in DOMAIN env : \A k \in 1..i : env[k].var \notin Keyless}
LinesOf(v) == {i \in DOMAIN env : env[i].var = v}
Environment ==
    [v \in Vars |->
        LET found == LinesOf(v) \cap Parsed IN
        IF around.exported[v] # Unset THEN around.exported[v]
        ELSE IF found = {} THEN Unset
        ELSE env[CHOOSE i \in found : \A k \in found : i <= k].key]

(* A file replaces everything below it, the environment single settings.   *)
Default == [provider |-> Usual, base |-> None, keyEnv |-> None, prompt |-> "none"]
UserConfig == IF config = NoFile THEN Default ELSE config
Merged ==
    LET c == IF around.project = NoFile THEN UserConfig ELSE around.project IN
    IF around.prompt THEN [c EXCEPT !.prompt = "shell"] ELSE c

Missing(e, v) == e[v] \in {Unset, 0}

(* main loads the configuration before it looks at the command.            *)
Begin(t) ==
    /\ cmd[t] = Idle /\ config # Torn
    /\ started < MaxCommands /\ started' = started + 1
Process(at, c, todo) ==
    [at |-> at, cfg |-> c, found |-> Environment, lines |-> Len(env), todo |-> todo,
     dirty |-> FALSE, var |-> c.provider, key |-> 0, again |-> FALSE]
Becomes(t, p) == cmd' = [cmd EXCEPT ![t] = p]
Ends(t) == Becomes(t, Idle)
IsAt(t, at) == cmd[t] # Idle /\ cmd[t].at = at

(***************************************************************************)
(* .env                                                                    *)
(***************************************************************************)
(* append_env_line: behind whatever is there.                              *)
AppendLine(t, v, key) ==
    /\ env' = Append(env, [var |-> v, key |-> key])
    /\ saved' = [saved EXCEPT ![v] = key]
    /\ reentered' = IF cmd[t].again THEN reentered \cup {v} ELSE reentered
    /\ raced' = IF \E i \in LinesOf(v) : i > cmd[t].lines THEN raced \cup {v} ELSE raced

Type(t, v) ==
    /\ typed < MaxKeys /\ typed' = typed + 1
    /\ AppendLine(t, v, typed + 2)

(***************************************************************************)
(* merlion model                                                           *)
(***************************************************************************)
(* The overrides of the old model are cleared; the rest is what was loaded.*)
SetModel(t, p) ==
    /\ Begin(t)
    /\ Becomes(t, Process("save", [Merged EXCEPT !.provider = p, !.base = None, !.keyEnv = None], <<>>))
    /\ UNCHANGED <<around, files, typed, history>>

(* The picker offers what is known, and last to keep the current model.    *)
Offered == (Known \cap Catalog) \cup {None}
Pick(t) == \E p \in Offered :
    IF p # None THEN SetModel(t, p)
    ELSE Begin(t) /\ UNCHANGED <<around, files, cmd, typed, history>>

(* Saved first, resolved afterwards: an unknown provider ends the command  *)
(* with config.yaml changed.                                               *)
SaveModel_Asks(t) ==
    /\ IsAt(t, "save")
    /\ LET c == cmd[t].cfg IN
         /\ config' = c
         /\ leaked' = (leaked \/ c.prompt \in {"project", "shell"})
         /\ IF c.provider \in Known \ Keyless
            THEN cmd' = [cmd EXCEPT ![t].at = "modelkey", ![t].var = Owner(c.provider)]
            ELSE Ends(t)
    /\ UNCHANGED <<around, env, pool, started, typed, saved, reentered, raced,
                   unmirrored, misfit>>
SaveModel(t) ==
    /\ IsAt(t, "save")
    /\ LET c == cmd[t].cfg IN
         /\ config' = c
         /\ leaked' = (leaked \/ c.prompt \in {"project", "shell"})
         /\ IF c.provider \in Known \ Keyless /\ Missing(cmd[t].found, Owner(c.provider))
            THEN cmd' = [cmd EXCEPT ![t].at = "modelkey", ![t].var = Owner(c.provider)]
            ELSE Ends(t)
    /\ UNCHANGED <<around, env, pool, started, typed, saved, reentered, raced,
                   unmirrored, misfit>>

(***************************************************************************)
(* merlion setup [model|gateway|agent]                                     *)
(***************************************************************************)
Sections == {<<"model">>, <<"gateway">>, <<"agent">>, <<"model", "gateway", "agent">>}

(* The next section; after the last one config.yaml is written if a        *)
(* section changed something.                                              *)
Moves(c) ==
    IF c.todo # <<>> THEN [c EXCEPT !.at = Head(c.todo), !.todo = Tail(c.todo), !.again = FALSE]
    ELSE IF c.dirty THEN [c EXCEPT !.at = "write"] ELSE Idle
Advance(t, c) == cmd' = [cmd EXCEPT ![t] = Moves(c)]

Setup(t, sections) ==
    /\ Begin(t) /\ Becomes(t, Process(Head(sections), UserConfig, Tail(sections)))
    /\ UNCHANGED <<around, files, typed, history>>

HasCreds(c) == c.cfg.provider \in Keyless \/ ~Missing(c.found, KeyVar(c.cfg))

UseExisting(t) ==
    /\ IsAt(t, "model") /\ HasCreds(cmd[t])
    /\ Advance(t, cmd[t])
    /\ UNCHANGED <<around, files, started, typed, history>>
ReenterKey(t) ==
    /\ IsAt(t, "model") /\ HasCreds(cmd[t])
    /\ cmd[t].cfg.provider \notin Keyless
    /\ cmd' = [cmd EXCEPT ![t].at = "key", ![t].var = KeyVar(cmd[t].cfg), ![t].again = TRUE]
    /\ UNCHANGED <<around, files, started, typed, history>>
(* base_url and api_key_env are kept, whatever the new provider.           *)
ChangeModel(t, p) ==
    /\ IsAt(t, "model") /\ p \in Known \cap Catalog
    /\ LET c == [cmd[t] EXCEPT !.cfg.provider = p, !.dirty = TRUE] IN
         IF p \notin Keyless /\ Missing(c.found, KeyVar(c.cfg))
         THEN cmd' = [cmd EXCEPT ![t] = [c EXCEPT !.at = "key", !.var = KeyVar(c.cfg)]]
         ELSE Advance(t, c)
    /\ misfit' = (misfit \/ {cmd[t].cfg.base, cmd[t].cfg.keyEnv} \ {None, p} # {})
    /\ UNCHANGED <<around, files, started, typed, saved, reentered, raced, unmirrored, leaked>>

(* Each variable that is not set is asked for, and may be left out.        *)
GatewaySection(t) ==
    /\ IsAt(t, "gateway")
    /\ \/ \E v \in GatewayVars :
            /\ Missing(cmd[t].found, v)
            /\ Type(t, v)
            /\ cmd' = [cmd EXCEPT ![t].found[v] = typed + 2]
       \/ Advance(t, cmd[t]) /\ UNCHANGED <<env, typed, saved, reentered, raced>>
    /\ UNCHANGED <<around, config, pool, started, unmirrored, misfit, leaked>>

AgentSection(t) ==
    /\ IsAt(t, "agent")
    /\ \/ Advance(t, [cmd[t] EXCEPT !.cfg.prompt = "mine", !.dirty = TRUE])
       \/ Advance(t, cmd[t])
    /\ UNCHANGED <<around, files, started, typed, history>>

WriteConfig(t) ==
    /\ IsAt(t, "write")
    /\ config' = cmd[t].cfg
    /\ Ends(t)
    /\ UNCHANGED <<around, env, pool, started, typed, saved, reentered, raced, unmirrored,
                   misfit, leaked>>

(* prompt_and_save_key of model and of setup: an empty answer is none.     *)
AskKeyOfModel(t) ==
    /\ IsAt(t, "modelkey")
    /\ Type(t, cmd[t].var) \/ UNCHANGED <<env, typed, saved, reentered, raced>>
    /\ Ends(t)
    /\ UNCHANGED <<around, config, pool, started, unmirrored, misfit, leaked>>
AskKey(t) ==
    /\ IsAt(t, "key")
    /\ Type(t, cmd[t].var) \/ UNCHANGED <<env, typed, saved, reentered, raced>>
    /\ Advance(t, cmd[t])
    /\ UNCHANGED <<around, config, pool, started, unmirrored, misfit, leaked>>

(***************************************************************************)
(* merlion auth: the pool, and .env for a provider's first key             *)
(***************************************************************************)
AutoLabel(p) ==
    IF DOMAIN pool[p] = {} THEN 1
    ELSE CHOOSE n \in 2..(Cardinality(DOMAIN pool[p]) + 2) :
            n \notin DOMAIN pool[p] /\ 2..(n - 1) \subseteq DOMAIN pool[p]
With(p, l, key) == [k \in DOMAIN pool[p] \cup {l} |-> IF k = l THEN key ELSE pool[p][k]]

Adding(t, p, l, at) ==
    /\ typed < MaxKeys /\ typed' = typed + 1
    /\ Begin(t)
    /\ Becomes(t, IF at = "done" THEN Idle
                  ELSE [Process(at, [Default EXCEPT !.provider = p], <<>>) EXCEPT
                          !.key = typed + 2])
    /\ pool' = [pool EXCEPT ![p] = With(p, l, typed + 2)]
    /\ UNCHANGED <<around, config, env, history>>
AuthAdd(t, p, l) ==
    Adding(t, p, l, IF DOMAIN pool[p] = {} /\ p \in Known THEN "mirror" ELSE "done")

(* Not if the file has a line for the variable, whatever its value.        *)
MirrorVar(c) == KeyVar([Default EXCEPT !.provider = c.cfg.provider])
Mirror(t) ==
    /\ IsAt(t, "mirror")
    /\ LET p == MirrorVar(cmd[t]) IN
         IF LinesOf(p) = {} THEN AppendLine(t, p, cmd[t].key)
         ELSE UNCHANGED <<env, saved, reentered, raced>>
    /\ Ends(t)
    /\ UNCHANGED <<around, config, pool, started, typed, unmirrored, misfit, leaked>>

WithoutLabel(p, l) == [k \in DOMAIN pool[p] \ {l} |-> pool[p][k]]
AuthRemove(t, p, l) ==
    /\ Begin(t) /\ l \in DOMAIN pool[p]
    /\ pool' = [pool EXCEPT ![p] = WithoutLabel(p, l)]
    /\ UNCHANGED <<around, config, env, cmd, typed, history>>

(***************************************************************************)
(* Ctrl+C at a prompt or between two steps, a death while config.yaml is   *)
(* written (fs::write truncates it first), and the user who deletes it.    *)
(***************************************************************************)
Interrupt(t) ==
    /\ cmd[t] # Idle
    /\ Ends(t)
    /\ unmirrored' = IF IsAt(t, "mirror") THEN unmirrored \cup {cmd[t].cfg.provider}
                     ELSE unmirrored
    /\ \/ UNCHANGED config
       \/ config' = Torn /\ (IsAt(t, "save") \/ IsAt(t, "write"))
    /\ UNCHANGED <<around, env, pool, started, typed, saved, reentered, raced, misfit, leaked>>
DeleteTorn ==
    /\ config = Torn /\ config' = NoFile
    /\ UNCHANGED <<around, env, pool, cmd, started, typed, history>>

(***************************************************************************)
Init ==
    /\ around \in Surroundings
    /\ config \in FirstFiles /\ env \in FirstEnvs
    /\ pool = [p \in Providers |-> <<>>]
    /\ cmd = [t \in Terminals |-> Idle] /\ started = 0 /\ typed = 0
    /\ saved = [v \in Vars |-> Unset]
    /\ reentered = {} /\ raced = {} /\ unmirrored = {} /\ misfit = FALSE /\ leaked = FALSE

Model(t) == (\E p \in Providers : SetModel(t, p)) \/ Pick(t) \/ SaveModel(t) \/ AskKeyOfModel(t)
Wizard(t) ==
    \/ \E s \in Sections : Setup(t, s)
    \/ UseExisting(t) \/ ReenterKey(t) \/ (\E p \in Providers : ChangeModel(t, p))
    \/ GatewaySection(t) \/ AgentSection(t) \/ WriteConfig(t)
Auth(t) ==
    \/ \E p \in Providers, l \in Labels : AuthRemove(t, p, l) \/ AuthAdd(t, p, l)
    \/ \E p \in Providers : AuthAdd(t, p, AutoLabel(p))
    \/ Mirror(t)
Next == \/ \E t \in Terminals : Model(t) \/ Wizard(t) \/ AskKey(t) \/ Auth(t) \/ Interrupt(t)
        \/ DeleteTorn

Spec == Init /\ [][Next]_vars

(***************************************************************************)
(* Properties                                                              *)
(***************************************************************************)
TypeOK ==
    /\ around \in Surroundings /\ config \in Configs \cup {NoFile, Torn}
    /\ env \in Seq([var : Vars, key : 0..(MaxKeys + 1)])
    /\ \A p \in Providers : DOMAIN pool[p] \subseteq Labels \cup {3}
    /\ saved \in [Vars -> {Unset} \cup 0..(MaxKeys + 1)]
    /\ started \in 0..MaxCommands /\ typed \in 0..MaxKeys

(* `merlion auth add codex` has written a line nobody can parse.           *)
Garbled == Parsed # DOMAIN env
Blank(v) == \E i \in LinesOf(v) : env[i].key = 0 /\ \A k \in LinesOf(v) : i <= k

(* "later values win, so re-running the wizard correctly overrides an      *)
(* earlier key" (append_env_line): the key written last is the key the     *)
(* next process uses, if the shell exports none, no empty line stands      *)
(* before it, every line can be parsed and no two commands wrote it at the *)
(* same time.                                                              *)
LaterKeyWins ==
    \A v \in Vars \ Keyless :
        saved[v] # Unset =>
            \/ Environment[v] = saved[v]
            \/ around.exported[v] # Unset \/ Blank(v) \/ Garbled \/ v \in raced

(* Of that only this holds: the one exception more is a key that setup was *)
(* told to replace, where the old one stays in use.                        *)
NewKeyIsUsed ==
    \A v \in Vars \ Keyless :
        saved[v] # Unset =>
            \/ Environment[v] = saved[v]
            \/ around.exported[v] # Unset \/ Blank(v) \/ Garbled
            \/ v \in reentered \cup raced

(* A provider with a key in the pool has a key in the environment (the     *)
(* pool itself is read by nobody but `merlion auth`), unless `auth add`    *)
(* was cut off between its two files, or the key cannot be reached: behind *)
(* a line nobody can parse, or an empty value in the shell or in .env,     *)
(* which `auth add` takes for a key that is set.                           *)
PooledKeyIsMirrored ==
    \A p \in Known \ Keyless :
        DOMAIN pool[p] # {} =>
            \/ ~Missing(Environment, Owner(p)) \/ p \in unmirrored
            \/ around.exported[Owner(p)] = 0 \/ Blank(Owner(p)) \/ Garbled
            \/ \E t \in Terminals : IsAt(t, "mirror") /\ cmd[t].cfg.provider = p

(* A key that was entered is the key that is used, the wizards' and the    *)
(* pool's alike, but for the causes that the two parts above name.         *)
EnteredKeysAreUsed == NewKeyIsUsed /\ PooledKeyIsMirrored

KeysStayHome ==
    \A flags \in Flags, chain \in Chains :
        LET c == Overridden(Merged, flags[1], flags[2])
            lent == misfit \/ (c.provider # Merged.provider /\ {c.base, c.keyEnv} # {None})
        IN \A k \in Clients(c, chain, Environment) :
               StaysHome(k) \/ (lent /\ k = Client(c))
PromptStaysHome ==
    config # NoFile /\ config.prompt \in {"project", "shell"} => leaked

(* Whatever commands have run, a setting is used for what it was made for. *)
(* A chat started now, with whatever -m or --provider, sends a key only to *)
(* the service it is for: base_url and api_key_env do not follow a model   *)
(* they were not written for into config.yaml nor to an entry of the       *)
(* fallback chain, unless setup or the command line has changed the        *)
(* provider under them. And a prompt that a project or the shell lent to   *)
(* one process is kept only by `merlion model`, which saves what it loaded.*)
SettingsStayHome == config # Torn => KeysStayHome /\ PromptStaysHome
=============================================================================
