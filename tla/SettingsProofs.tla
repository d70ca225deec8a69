--------------------------- MODULE SettingsProofs ---------------------------
(***************************************************************************)
(* What is kept in ~/.merlion. SettingsStayHome and EnteredKeysAreUsed for *)
(* any providers, terminals, shells, files and fallback chains, however    *)
(* many commands run and are interrupted. Then what the processes that     *)
(* share the directory keep of each other's work, for any processes, any   *)
(* entries and any number of directories: the files, the memory index,     *)
(* the session database, the backups and the skills.                       *)
(***************************************************************************)
EXTENDS Settings, Home, SequenceTheorems, WellFoundedInduction, TLAPS

(* A record of a command has the fields of Process.                        *)
Shaped(c) ==
    c = [at |-> c.at, cfg |-> c.cfg, found |-> c.found, lines |-> c.lines, todo |-> c.todo,
         dirty |-> c.dirty, var |-> c.var, key |-> c.key, again |-> c.again]
Borrowed(c) == c.prompt \in {"project", "shell"}

(* What is on disk fits, or the wizard has changed a provider under its    *)
(* settings; and what was borrowed was saved by `merlion model`.           *)
FileInv ==
    /\ config \in Configs \cup {NoFile, Torn}
    /\ around \in Surroundings
    /\ misfit \in BOOLEAN /\ leaked \in BOOLEAN
    /\ config \in Configs \ {NoFile, Torn} =>
          /\ misfit \/ Fits(config)
          /\ Borrowed(config) => leaked

(* What a command is about to write fits as well, and has borrowed nothing *)
(* but when it is `merlion model` that has yet to save what it loaded.     *)
CopyInv(c) ==
    /\ Shaped(c) /\ c.cfg \in Configs
    /\ misfit \/ Fits(c.cfg)
    /\ c.at # "save" /\ Borrowed(c.cfg) => leaked
HomeInv == FileInv /\ \A t \in Terminals : cmd[t] # Idle => CopyInv(cmd[t])
CmdType == DOMAIN cmd = Terminals /\ cmd = [t \in Terminals |-> cmd[t]]

(***************************************************************************)
(* Facts about providers                                                   *)
(***************************************************************************)
LEMMA SameService == \A p \in Resolvable : Wire(Owner(p)) = Wire(p)
  <1> QED BY DEF Resolvable, OpenAiLike, Wire, Owner

(* An entry of fallback.yaml, and a model whose overrides were cleared, is *)
(* asked at its own service with its own key (main.rs, model_cmd.rs).      *)
LEMMA OwnSettingsFit ==
    ASSUME NEW c, c.base = None, c.keyEnv = None PROVE Fits(c)
  <1> SUFFICES ASSUME c.provider \in Resolvable PROVE StaysHome(Client(c))
      BY DEF Fits
  <1>1. /\ Client(c).url = Owner(c.provider) /\ Client(c).key = Owner(c.provider)
        /\ Client(c).wire = Wire(c.provider)
        BY DEF Client
  <1> QED BY <1>1, SameService DEF StaysHome

LEMMA OfferedFit ==
    ASSUME NEW c, c.provider \in Catalog, {c.base, c.keyEnv} \ {None, c.provider} = {}
    PROVE  Fits(c)
  <1> SUFFICES ASSUME c.provider \in Resolvable PROVE StaysHome(Client(c))
      BY DEF Fits
  <1>1. Owner(c.provider) = c.provider
        BY DEF Owner, Catalog
  <1>2. c.base \in {None, c.provider} /\ c.keyEnv \in {None, c.provider}
        OBVIOUS
  <1>3. /\ Client(c).url = c.provider /\ Client(c).key = c.provider
        /\ Client(c).wire = Wire(c.provider)
        BY <1>1, <1>2 DEF Client
  <1> QED BY <1>3 DEF StaysHome

LEMMA DefaultFits == Default \in Configs /\ Fits(Default) /\ ~Borrowed(Default)
  <1>1. Usual \in Providers
        BY SettingsAssumption
  <1>2. Default \in Configs /\ Default.base = None /\ Default.keyEnv = None
        BY <1>1 DEF Default, Configs
  <1> QED BY <1>2, OwnSettingsFit DEF Default, Borrowed

(* Fits does not look at the prompt.                                       *)
LEMMA PromptAside ==
    ASSUME NEW c \in Configs, NEW s \in {"none", "mine", "project", "shell"}
    PROVE  /\ [c EXCEPT !.prompt = s] \in Configs
           /\ Fits(c) => Fits([c EXCEPT !.prompt = s])
  <1> DEFINE d == [c EXCEPT !.prompt = s]
  <1>1. /\ d \in Configs /\ d.provider = c.provider
        /\ d.base = c.base /\ d.keyEnv = c.keyEnv
        BY DEF Configs
  <1>2. KeyVar(d) = KeyVar(c)
        BY <1>1 DEF KeyVar
  <1>3. Client(d) = Client(c)
        BY <1>1, <1>2 DEF Client
  <1> QED BY <1>1, <1>3 DEF Fits

(* What a process loads fits if what is on disk does.                      *)
LEMMA LoadedFits ==
    ASSUME FileInv, config # Torn
    PROVE  /\ UserConfig \in Configs /\ (misfit \/ Fits(UserConfig))
           /\ Borrowed(UserConfig) => leaked
           /\ Merged \in Configs /\ (misfit \/ Fits(Merged))
  <1>1. /\ UserConfig \in Configs /\ (misfit \/ Fits(UserConfig))
        /\ Borrowed(UserConfig) => leaked
        BY DefaultFits DEF FileInv, UserConfig
  <1> DEFINE c == IF around.project = NoFile THEN UserConfig ELSE around.project
  <1>2. c \in Configs /\ (misfit \/ Fits(c))
    <2>1. CASE around.project = NoFile
          BY <1>1, <2>1
    <2>2. CASE around.project # NoFile
      <3>1. around \in Surroundings /\ around.project \in Configs
            BY <2>2, SettingsAssumption DEF FileInv
      <3> QED BY <2>2, <3>1, FirstFilesAssumption
    <2> QED BY <2>1, <2>2
  <1>3. Merged = c \/ Merged = [c EXCEPT !.prompt = "shell"]
        BY DEF Merged
  <1> QED BY <1>1, <1>2, <1>3, PromptAside

(***************************************************************************)
(* Steps                                                                   *)
(***************************************************************************)
LEMMA InitHome == Init => HomeInv /\ CmdType
  <1> SUFFICES ASSUME Init PROVE HomeInv /\ CmdType
      OBVIOUS
  <1>1. CmdType /\ \A t \in Terminals : cmd[t] = Idle
        BY DEF Init, CmdType
  <1>2. FileInv
    <2>1. config \in Configs \cup {NoFile, Torn}
          BY SettingsAssumption DEF Init
    <2>2. config # NoFile => Fits(config) /\ ~Borrowed(config)
          BY FirstFilesAssumption DEF Init, Borrowed
    <2> QED BY <2>1, <2>2 DEF Init, FileInv
  <1> QED BY <1>1, <1>2 DEF HomeInv

(* One command becomes another stage of itself, or ends, and the files and *)
(* the history are as they were.                                           *)
LEMMA CommandMoves ==
    ASSUME HomeInv, CmdType, NEW t \in Terminals, NEW p,
           cmd' = [cmd EXCEPT ![t] = p], UNCHANGED <<around, config, misfit, leaked>>,
           p # Idle => CopyInv(p)
    PROVE  HomeInv' /\ CmdType'
  <1>1. /\ CmdType' /\ cmd'[t] = p
        /\ \A u \in Terminals \ {t} : cmd'[u] = cmd[u]
        BY DEF CmdType
  <1>2. FileInv'
        BY DEF HomeInv, FileInv, Configs
  <1>3. \A u \in Terminals : cmd'[u] # Idle => CopyInv(cmd[u])'
        BY <1>1 DEF HomeInv, CopyInv
  <1> QED BY <1>1, <1>2, <1>3 DEF HomeInv

LEMMA Starting ==
    ASSUME NEW a, NEW c \in Configs, NEW todo, misfit \/ Fits(c),
           a # "save" /\ Borrowed(c) => leaked
    PROVE  CopyInv(Process(a, c, todo))
  <1>1. Process(a, c, todo).cfg = c /\ Process(a, c, todo).at = a
        BY DEF Process
  <1>2. Shaped(Process(a, c, todo))
        BY DEF Process, Shaped
  <1> QED BY <1>1, <1>2 DEF CopyInv

(* The next section, or the end.                                           *)
LEMMA Moving ==
    ASSUME NEW c, CopyInv(c), Borrowed(c.cfg) => leaked, Moves(c) # Idle
    PROVE  CopyInv(Moves(c))
  <1>1. Shaped(c)
        BY DEF CopyInv
  <1>2. \/ Moves(c) = [c EXCEPT !.at = Head(c.todo), !.todo = Tail(c.todo), !.again = FALSE]
        \/ Moves(c) = [c EXCEPT !.at = "write"]
        BY DEF Moves
  <1>3. Moves(c).cfg = c.cfg /\ Shaped(Moves(c))
        BY <1>1, <1>2 DEF Shaped
  <1> QED BY <1>3 DEF CopyInv

(* `merlion model`: the overrides of the old model are cleared.            *)
LEMMA SetModelKeeps ==
    ASSUME HomeInv, CmdType, NEW t \in Terminals, NEW p \in Providers, SetModel(t, p)
    PROVE  HomeInv' /\ CmdType'
  <1> DEFINE c == [Merged EXCEPT !.provider = p, !.base = None, !.keyEnv = None]
  <1>1. Merged \in Configs
        BY LoadedFits DEF SetModel, Begin, HomeInv
  <1>2. c \in Configs /\ c.base = None /\ c.keyEnv = None
        BY <1>1 DEF Configs
  <1>3. CopyInv(Process("save", c, <<>>))
        BY <1>2, OwnSettingsFit, Starting
  <1> HIDE DEF c
  <1>4. /\ cmd' = [cmd EXCEPT ![t] = Process("save", c, <<>>)]
        /\ UNCHANGED <<around, config, misfit, leaked>>
        BY DEF SetModel, Becomes, files, history, c
  <1> QED BY <1>3, <1>4, CommandMoves

(* What it writes is marked as borrowed if it is.                          *)
LEMMA SaveModelKeeps ==
    ASSUME HomeInv, CmdType, NEW t \in Terminals, SaveModel(t)
    PROVE  HomeInv' /\ CmdType'
  <1> DEFINE c == cmd[t]
  <1>1. /\ c # Idle /\ CopyInv(c)
        /\ config' = c.cfg /\ (Borrowed(c.cfg) => leaked') /\ (leaked => leaked')
        /\ UNCHANGED <<around, misfit>>
        BY DEF SaveModel, IsAt, HomeInv, Borrowed
  <1>2. PICK p : /\ cmd' = [cmd EXCEPT ![t] = p]
                 /\ p = Idle \/ p = [c EXCEPT !.at = "modelkey", !.var = Owner(c.cfg.provider)]
    <2>1. CASE c.cfg.provider \in Known \ Keyless /\ Missing(c.found, Owner(c.cfg.provider))
          BY <2>1, <1>1 DEF SaveModel, CopyInv, CmdType
    <2>2. CASE ~(c.cfg.provider \in Known \ Keyless /\ Missing(c.found, Owner(c.cfg.provider)))
          BY <2>2 DEF SaveModel, Ends, Becomes
    <2> QED BY <2>1, <2>2
  <1>3. leaked' \in BOOLEAN
        BY DEF SaveModel
  <1>4. FileInv'
        BY <1>1, <1>3 DEF HomeInv, FileInv, CopyInv, Fits, Client, KeyVar, Borrowed, Configs
  <1>5. /\ CmdType' /\ cmd'[t] = p /\ \A u \in Terminals \ {t} : cmd'[u] = cmd[u]
        BY <1>2 DEF CmdType
  <1>6. p # Idle => CopyInv(p)'
    <2> SUFFICES ASSUME p # Idle PROVE CopyInv(p)'
        OBVIOUS
    <2>1. p.cfg = c.cfg /\ Shaped(p)
          BY <1>1, <1>2 DEF CopyInv, Shaped
    <2> QED BY <1>1, <2>1 DEF CopyInv
  <1>7. \A u \in Terminals \ {t} : cmd[u] # Idle => CopyInv(cmd[u])'
        BY <1>1, <1>5 DEF HomeInv, CopyInv
  <1> QED BY <1>4, <1>5, <1>6, <1>7 DEF HomeInv

(* The wizard keeps base_url and api_key_env, and says so if they do not   *)
(* fit the new provider.                                                   *)
LEMMA ChangeModelKeeps ==
    ASSUME HomeInv, CmdType, NEW t \in Terminals, NEW p \in Providers, ChangeModel(t, p)
    PROVE  HomeInv' /\ CmdType'
  <1> DEFINE old == cmd[t]
             c == [cmd[t] EXCEPT !.cfg.provider = p, !.dirty = TRUE]
  <1>1. /\ old # Idle /\ CopyInv(old) /\ old.at = "model" /\ p \in Catalog
        /\ misfit' = (misfit \/ {old.cfg.base, old.cfg.keyEnv} \ {None, p} # {})
        /\ UNCHANGED <<around, config, leaked>>
        BY DEF ChangeModel, IsAt, HomeInv, files
  <1>2. Shaped(old) /\ old.cfg \in Configs /\ (Borrowed(old.cfg) => leaked)
        BY <1>1 DEF CopyInv
  <1>3. /\ Shaped(c) /\ c.at = "model" /\ c.cfg = [old.cfg EXCEPT !.provider = p]
    <2> DEFINE new == [old.cfg EXCEPT !.provider = p]
    <2>1. c = [old EXCEPT !.cfg = new, !.dirty = TRUE]
          BY <1>2 DEF Shaped
    <2> HIDE DEF new, c
    <2>2. Shaped(c) /\ c.at = "model" /\ c.cfg = new
          BY <1>1, <1>2, <2>1 DEF Shaped
    <2> QED BY <2>2 DEF new
  <1>4. /\ c.cfg \in Configs /\ c.cfg.provider = p /\ c.cfg.prompt = old.cfg.prompt
        /\ c.cfg.base = old.cfg.base /\ c.cfg.keyEnv = old.cfg.keyEnv
        BY <1>2, <1>3 DEF Configs
  <1>5. misfit' \/ Fits(c.cfg)
        BY <1>1, <1>4, OfferedFit
  <1> HIDE DEF c
  <1>6. PICK q : /\ cmd' = [cmd EXCEPT ![t] = q]
                 /\ q = Moves(c) \/ q = [c EXCEPT !.at = "key", !.var = KeyVar(c.cfg)]
        BY DEF ChangeModel, Advance, c
  <1>7. misfit' \in BOOLEAN
        BY <1>1 DEF HomeInv, FileInv
  <1>8. FileInv'
        BY <1>1, <1>7 DEF HomeInv, FileInv, Fits, Client, KeyVar, Borrowed, Configs
  <1>9. /\ CmdType' /\ cmd'[t] = q /\ \A u \in Terminals \ {t} : cmd'[u] = cmd[u]
        BY <1>6 DEF CmdType
  <1>10. q # Idle => q.cfg = c.cfg /\ Shaped(q)
    <2>1. CASE q = [c EXCEPT !.at = "key", !.var = KeyVar(c.cfg)]
          BY <1>3, <2>1 DEF Shaped
    <2>2. ASSUME q = Moves(c), q # Idle PROVE q.cfg = c.cfg /\ Shaped(q)
      <3>1. \/ q = [c EXCEPT !.at = Head(c.todo), !.todo = Tail(c.todo), !.again = FALSE]
            \/ q = [c EXCEPT !.at = "write"]
            BY <2>2 DEF Moves
      <3> QED BY <1>3, <3>1 DEF Shaped
    <2> QED BY <1>6, <2>1, <2>2
  <1>11. q # Idle => CopyInv(q)'
        BY <1>1, <1>2, <1>4, <1>5, <1>10 DEF CopyInv, Borrowed
  <1>12. \A u \in Terminals \ {t} : cmd[u] # Idle => CopyInv(cmd[u])'
        BY <1>1, <1>9 DEF HomeInv, CopyInv
  <1> QED BY <1>8, <1>9, <1>11, <1>12 DEF HomeInv

LEMMA WriteConfigKeeps ==
    ASSUME HomeInv, CmdType, NEW t \in Terminals, WriteConfig(t)
    PROVE  HomeInv' /\ CmdType'
  <1>1. /\ cmd[t] # Idle /\ CopyInv(cmd[t]) /\ cmd[t].at = "write"
        /\ config' = cmd[t].cfg /\ UNCHANGED <<around, misfit, leaked>>
        /\ cmd' = [cmd EXCEPT ![t] = Idle]
        BY DEF WriteConfig, IsAt, HomeInv, Ends, Becomes
  <1>2. FileInv'
        BY <1>1 DEF HomeInv, FileInv, CopyInv
  <1>3. /\ CmdType' /\ cmd'[t] = Idle /\ \A u \in Terminals \ {t} : cmd'[u] = cmd[u]
        BY <1>1 DEF CmdType
  <1>4. \A u \in Terminals \ {t} : cmd[u] # Idle => CopyInv(cmd[u])'
        BY <1>1, <1>3 DEF HomeInv, CopyInv
  <1> QED BY <1>2, <1>3, <1>4 DEF HomeInv

LEMMA SetupKeeps ==
    ASSUME HomeInv, CmdType, NEW t \in Terminals, NEW sections, Setup(t, sections)
    PROVE  HomeInv' /\ CmdType'
  <1>1. /\ config # Torn
        /\ cmd' = [cmd EXCEPT ![t] = Process(Head(sections), UserConfig, Tail(sections))]
        /\ UNCHANGED <<around, config, misfit, leaked>>
        BY DEF Setup, Begin, Becomes, files, history
  <1>2. CopyInv(Process(Head(sections), UserConfig, Tail(sections)))
        BY <1>1, LoadedFits, Starting DEF HomeInv
  <1> QED BY <1>1, <1>2, CommandMoves

LEMMA AuthAddKeeps ==
    ASSUME HomeInv, CmdType, NEW t \in Terminals, NEW p \in Providers, NEW l, AuthAdd(t, p, l)
    PROVE  HomeInv' /\ CmdType'
  <1> DEFINE c == [Default EXCEPT !.provider = p]
             made == Process("mirror", c, <<>>)
  <1>1. PICK q : /\ cmd' = [cmd EXCEPT ![t] = q] /\ UNCHANGED <<around, config, misfit, leaked>>
                 /\ q = Idle \/ q = [made EXCEPT !.key = typed + 2]
    <2>1. PICK a \in {"mirror", "done"} : Adding(t, p, l, a)
          BY DEF AuthAdd
    <2> QED BY <2>1 DEF Adding, Becomes, history
  <1>2. c \in Configs /\ c.base = None /\ c.keyEnv = None /\ ~Borrowed(c)
        BY DefaultFits DEF Default, Configs, Borrowed
  <1>3. CopyInv(made)
        BY <1>2, OwnSettingsFit, Starting
  <1>4. made.at = "mirror"
        BY DEF Process
  <1> HIDE DEF made
  <1>5. CopyInv([made EXCEPT !.key = typed + 2])
    <2>1. Shaped([made EXCEPT !.key = typed + 2]) /\ [made EXCEPT !.key = typed + 2].cfg = made.cfg
          BY <1>3 DEF CopyInv, Shaped
    <2> QED BY <1>3, <1>4, <2>1 DEF CopyInv
  <1> QED BY <1>1, <1>5, CommandMoves

(* Sections and prompts that do not touch the copy's model.                *)
LEMMA PromptsKeep ==
    ASSUME HomeInv, CmdType, NEW t \in Terminals,
           \/ UseExisting(t) \/ ReenterKey(t) \/ GatewaySection(t) \/ AgentSection(t)
           \/ AskKeyOfModel(t) \/ AskKey(t) \/ Mirror(t)
    PROVE  HomeInv' /\ CmdType'
  <1> DEFINE c == cmd[t]
             own == [c EXCEPT !.cfg.prompt = "mine", !.dirty = TRUE]
  <1>1. /\ c # Idle /\ CopyInv(c) /\ c.at # "save"
        /\ UNCHANGED <<around, config, misfit, leaked>>
        BY DEF UseExisting, ReenterKey, GatewaySection, AgentSection, AskKeyOfModel, AskKey,
               Mirror, IsAt, HomeInv, files, history
  <1>2. Shaped(c) /\ c.cfg \in Configs /\ (Borrowed(c.cfg) => leaked)
        BY <1>1 DEF CopyInv
  <1>3. CopyInv(own) /\ (Borrowed(own.cfg) => leaked)
    <2> DEFINE new == [c.cfg EXCEPT !.prompt = "mine"]
    <2>1. own = [c EXCEPT !.cfg = new, !.dirty = TRUE]
          BY <1>2 DEF Shaped
    <2>2. new \in Configs /\ (Fits(c.cfg) => Fits(new)) /\ ~Borrowed(new)
          BY <1>2, PromptAside DEF Configs, Borrowed
    <2> HIDE DEF new, own
    <2>3. Shaped(own) /\ own.cfg = new
          BY <1>2, <2>1 DEF Shaped
    <2> QED BY <1>1, <2>2, <2>3 DEF CopyInv
  <1>4. ASSUME NEW q, q # Idle,
               \/ q = Moves(c) \/ q = Moves(own)
               \/ \E v : q = [c EXCEPT !.at = "key", !.var = v, !.again = TRUE]
               \/ \E v : q = [c EXCEPT !.found[v] = typed + 2]
        PROVE  CopyInv(q)
    <2>1. ASSUME NEW v, q = [c EXCEPT !.at = "key", !.var = v, !.again = TRUE] PROVE CopyInv(q)
      <3>1. Shaped(q) /\ q.cfg = c.cfg
            BY <1>2, <2>1 DEF Shaped
      <3> QED BY <1>1, <1>2, <3>1 DEF CopyInv
    <2>2. ASSUME NEW v, q = [c EXCEPT !.found[v] = typed + 2] PROVE CopyInv(q)
      <3>1. Shaped(q) /\ q.cfg = c.cfg
            BY <1>2, <2>2 DEF Shaped
      <3> QED BY <1>1, <1>2, <3>1 DEF CopyInv
    <2> QED BY <1>1, <1>2, <1>3, <1>4, <2>1, <2>2, Moving
  <1>5. PICK q : /\ cmd' = [cmd EXCEPT ![t] = q]
                 /\ \/ q = Idle \/ q = Moves(c) \/ q = Moves(own)
                    \/ \E v : q = [c EXCEPT !.at = "key", !.var = v, !.again = TRUE]
                    \/ \E v : q = [c EXCEPT !.found[v] = typed + 2]
    <2>1. CASE UseExisting(t) \/ AskKey(t)
          BY <2>1 DEF UseExisting, AskKey, Advance
    <2>2. CASE ReenterKey(t)
          BY <2>2, <1>2 DEF ReenterKey, Shaped
    <2>3. CASE GatewaySection(t)
      <3>1. CASE Advance(t, c)
            BY <3>1 DEF Advance
      <3>2. ASSUME NEW v \in GatewayVars, cmd' = [cmd EXCEPT ![t].found[v] = typed + 2]
            PROVE  cmd' = [cmd EXCEPT ![t] = [c EXCEPT !.found[v] = typed + 2]]
            BY <3>2
      <3> QED BY <2>3, <3>1, <3>2 DEF GatewaySection
    <2>4. CASE AgentSection(t)
          BY <2>4 DEF AgentSection, Advance
    <2>5. CASE AskKeyOfModel(t) \/ Mirror(t)
          BY <2>5 DEF AskKeyOfModel, Mirror, Ends, Becomes
    <2> QED BY <2>1, <2>2, <2>3, <2>4, <2>5
  <1> HIDE DEF own
  <1> QED BY <1>1, <1>4, <1>5, CommandMoves

LEMMA InterruptKeeps ==
    ASSUME HomeInv, CmdType, NEW t \in Terminals, Interrupt(t)
    PROVE  HomeInv' /\ CmdType'
  <1>1. /\ cmd' = [cmd EXCEPT ![t] = Idle] /\ config' \in {config, Torn}
        /\ UNCHANGED <<around, misfit, leaked>>
        BY DEF Interrupt, Ends, Becomes
  <1>2. FileInv'
        BY <1>1 DEF HomeInv, FileInv
  <1>3. /\ CmdType' /\ cmd'[t] = Idle /\ \A u \in Terminals \ {t} : cmd'[u] = cmd[u]
        BY <1>1 DEF CmdType
  <1>4. \A u \in Terminals \ {t} : cmd[u] # Idle => CopyInv(cmd[u])'
        BY <1>1, <1>3 DEF HomeInv, CopyInv
  <1> QED BY <1>2, <1>3, <1>4 DEF HomeInv

(* No command moves.                                                       *)
LEMMA RestKeeps ==
    ASSUME HomeInv, CmdType, UNCHANGED <<around, cmd, misfit, leaked>>, config' \in {config, NoFile}
    PROVE  HomeInv' /\ CmdType'
  <1>1. FileInv'
        BY DEF HomeInv, FileInv
  <1>2. \A u \in Terminals : cmd'[u] # Idle => CopyInv(cmd[u])'
        BY DEF HomeInv, CopyInv
  <1> QED BY <1>1, <1>2 DEF HomeInv, CmdType

LEMMA NextHome == HomeInv /\ CmdType /\ [Next]_vars => HomeInv' /\ CmdType'
  <1> SUFFICES ASSUME HomeInv, CmdType, [Next]_vars PROVE HomeInv' /\ CmdType'
      OBVIOUS
  <1>1. CASE UNCHANGED vars \/ DeleteTorn
        BY <1>1, RestKeeps DEF vars, files, history, DeleteTorn
  <1>2. ASSUME NEW t \in Terminals, Model(t) PROVE HomeInv' /\ CmdType'
    <2>1. CASE Pick(t)
      <3>1. (\E p \in Offered : SetModel(t, p) /\ p # None) \/ UNCHANGED <<around, files, cmd, typed, history>>
            BY <2>1 DEF Pick
      <3>2. \A p \in Offered : p # None => p \in Providers
            BY DEF Offered, Known
      <3> QED BY <3>1, <3>2, SetModelKeeps, RestKeeps DEF files, history
    <2> QED BY <1>2, <2>1, SetModelKeeps, SaveModelKeeps, PromptsKeep DEF Model
  <1>3. ASSUME NEW t \in Terminals, Wizard(t) PROVE HomeInv' /\ CmdType'
        BY <1>3, SetupKeeps, PromptsKeep, ChangeModelKeeps, WriteConfigKeeps DEF Wizard
  <1>4. ASSUME NEW t \in Terminals, Auth(t) PROVE HomeInv' /\ CmdType'
    <2>1. ASSUME NEW p, NEW l, AuthRemove(t, p, l) PROVE HomeInv' /\ CmdType'
          BY <2>1, RestKeeps DEF AuthRemove, history
    <2> QED BY <1>4, <2>1, AuthAddKeeps, PromptsKeep DEF Auth
  <1>5. ASSUME NEW t \in Terminals, AskKey(t) \/ Interrupt(t) PROVE HomeInv' /\ CmdType'
        BY <1>5, PromptsKeep, InterruptKeeps
  <1> QED BY <1>1, <1>2, <1>3, <1>4, <1>5 DEF Next

(* With -m and --provider, too: what is lent is the model's, not an        *)
(* entry's of the chain.                                                   *)
LEMMA HomeMeansStaysHome == HomeInv => SettingsStayHome
  <1> SUFFICES ASSUME FileInv, config # Torn PROVE KeysStayHome /\ PromptStaysHome
      BY DEF HomeInv, SettingsStayHome
  <1>1. PromptStaysHome
        BY DEF FileInv, PromptStaysHome, Borrowed
  <1>2. KeysStayHome
    <2> SUFFICES ASSUME NEW flags \in Flags, NEW chain \in Chains
                 PROVE  LET c == Overridden(Merged, flags[1], flags[2])
                            lent == misfit \/ (c.provider # Merged.provider
                                               /\ {c.base, c.keyEnv} # {None})
                        IN \A k \in Clients(c, chain, Environment) :
                               StaysHome(k) \/ (lent /\ k = Client(c))
        BY DEF KeysStayHome
    <2> DEFINE c == Overridden(Merged, flags[1], flags[2])
               lent == misfit \/ (c.provider # Merged.provider /\ {c.base, c.keyEnv} # {None})
    <2>1. Merged \in Configs /\ (misfit \/ Fits(Merged))
          BY LoadedFits
    <2>2. PICK p : c = [Merged EXCEPT !.provider = p]
          BY DEF Overridden
    <2>3. c.base = Merged.base /\ c.keyEnv = Merged.keyEnv /\ c.provider = p
          /\ (c.provider = Merged.provider => c = Merged)
          BY <2>1, <2>2 DEF Configs
    <2>4. misfit \in BOOLEAN
          BY DEF FileInv
    <2> HIDE DEF c
    <2>5. ASSUME c.provider \in Resolvable PROVE StaysHome(Client(c)) \/ lent
      <3>1. CASE c.base = None /\ c.keyEnv = None
            BY <2>5, <3>1, OwnSettingsFit DEF Fits
      <3>2. CASE c.provider = Merged.provider
            BY <2>1, <2>3, <2>5, <3>2 DEF Fits
      <3> QED BY <3>1, <3>2
    <2>6. ASSUME NEW q, Builds(Entry(c, q), Environment) PROVE StaysHome(Client(Entry(c, q)))
      <3>1. /\ Entry(c, q).base = None /\ Entry(c, q).keyEnv = None
            BY <2>1, <2>2 DEF Entry, Configs
      <3> QED BY <2>6, <3>1, OwnSettingsFit DEF Builds, Fits
    <2>7. \A k \in Clients(c, chain, Environment) :
              \/ k = Client(c) /\ c.provider \in Resolvable
              \/ \E q : Builds(Entry(c, q), Environment) /\ k = Client(Entry(c, q))
          BY DEF Clients, Builds
    <2> QED BY <2>5, <2>6, <2>7 DEF c
  <1> QED BY <1>1, <1>2

(* However `merlion model`, setup and auth interleave and are interrupted, *)
(* a chat sends a key only to the service it is for, and a borrowed prompt *)
(* is kept by nobody but `merlion model`: for any providers, files, shells *)
(* and fallback chains.                                                    *)
THEOREM KeysAndPromptsStayHome == Spec => []SettingsStayHome
  <1>1. Spec => [](HomeInv /\ CmdType)
        BY InitHome, NextHome, PTL DEF Spec
  <1> QED BY <1>1, HomeMeansStaysHome, PTL

(***************************************************************************)
(* The keys that were entered.  A line of .env that says nothing yet is    *)
(* what excuses it: what the shell exports, a line nobody can parse and an *)
(* empty line in front stand before every line that is added.              *)
(***************************************************************************)
Excused(v) == around.exported[v] # Unset \/ Garbled \/ Blank(v)
FirstLine(v, key) == \E i \in LinesOf(v) : env[i].key = key /\ \A k \in LinesOf(v) : i <= k

EnvOK ==
    /\ env \in Seq([var : Vars, key : Nat]) /\ typed \in Nat
    /\ around \in Surroundings
    /\ saved \in [Vars -> {Unset} \cup Nat]
    /\ pool = [p \in Providers |-> pool[p]]
CmdOK == cmd \in [Terminals -> Processes \cup {Idle}]

(* A variable a process takes for missing had no line when it started, or  *)
(* is excused for good.                                                    *)
FoundInv(c) ==
    /\ c.lines <= Len(env)
    /\ \A v \in Vars : Missing(c.found, v) => Excused(v) \/ (\A i \in LinesOf(v) : i > c.lines)

(* What is asked for is missing, or setup was told to replace it.          *)
AskInv(c) ==
    /\ c.at \in {"key", "modelkey"} => c.var \in Vars /\ (c.again \/ Missing(c.found, c.var))
    /\ c.at = "mirror" => c.cfg.provider \in Known

SavedInv ==
    \A v \in Vars :
        saved[v] # Unset => Excused(v) \/ v \in reentered \cup raced \/ FirstLine(v, saved[v])

Mirroring(p) == \E t \in Terminals : IsAt(t, "mirror") /\ cmd[t].cfg.provider = p
PoolInv ==
    \A p \in Known \ Keyless :
        DOMAIN pool[p] # {} => LinesOf(Owner(p)) # {} \/ p \in unmirrored \/ Mirroring(p)

EntryInv ==
    /\ EnvOK /\ CmdOK /\ SavedInv /\ PoolInv
    /\ \A t \in Terminals : cmd[t] # Idle => FoundInv(cmd[t]) /\ AskInv(cmd[t])

(***************************************************************************)
(* Facts about variables and lines                                         *)
(***************************************************************************)
LEMMA NamesOfVariables ==
    /\ GatewayVars \subseteq Vars
    /\ \A p \in Known : Owner(p) \in Vars
    /\ \A c \in Configs : KeyVar(c) \in Vars
    /\ \A p \in Known : KeyVar([Default EXCEPT !.provider = p]) = Owner(p)
  <1>1. GatewayVars \subseteq Vars /\ Custom \in Vars
        BY DEF Vars
  <1>2. \A p \in Known : Owner(p) \in Vars
        BY DEF Vars, Known
  <1>3. Usual \in Known /\ Owner(Usual) = Usual
        BY SettingsAssumption DEF Known, Usual, Resolvable, OpenAiLike, Owner
  <1>4. ASSUME NEW c \in Configs PROVE KeyVar(c) \in Vars
    <2>1. c.provider \in Resolvable => c.provider \in Known
          BY DEF Configs, Known
    <2> QED BY <1>1, <1>2, <1>3, <2>1 DEF KeyVar
  <1>5. ASSUME NEW p \in Known PROVE KeyVar([Default EXCEPT !.provider = p]) = Owner(p)
    <2>1. /\ [Default EXCEPT !.provider = p].provider = p
          /\ [Default EXCEPT !.provider = p].keyEnv = None
          BY DEF Default
    <2>2. p \in Resolvable
          BY DEF Known
    <2> QED BY <2>1, <2>2 DEF KeyVar
  <1> QED BY <1>1, <1>2, <1>4, <1>5

LEMMA LeastOfSome ==
    ASSUME NEW S \in SUBSET Nat, S # {}
    PROVE  \E i \in S : \A k \in S : i <= k
  <1>1. PICK i \in S : \A k \in S : <<k, i>> \notin OpToRel(<, Nat)
        BY WFMin, NatLessThanWellFounded, Zenon
  <1>2. ASSUME NEW k \in S PROVE i <= k
    <2>1. <<k, i>> \in Nat \X Nat /\ <<k, i>> \notin OpToRel(<, Nat)
          BY <1>1
    <2>2. ~(<<k, i>>[1] < <<k, i>>[2])
          BY <2>1 DEF OpToRel
    <2>3. ~(k < i)
          BY <2>2
    <2> QED BY <2>3
  <1> QED BY <1>2

LEMMA LinesAreNumbers ==
    ASSUME EnvOK, NEW v
    PROVE  /\ LinesOf(v) \subseteq 1..Len(env) /\ Len(env) \in Nat
           /\ \A i \in LinesOf(v) : env[i].key \in Nat /\ i \in Nat
  <1>1. DOMAIN env = 1..Len(env) /\ Len(env) \in Nat
        BY DEF EnvOK
  <1>2. \A i \in 1..Len(env) : env[i] \in [var : Vars, key : Nat]
        BY ElementOfSeq DEF EnvOK
  <1>3. \A i \in LinesOf(v) : i \in DOMAIN env
        BY DEF LinesOf
  <1>4. ASSUME NEW i \in LinesOf(v) PROVE env[i].key \in Nat /\ i \in Nat
    <2>1. env[i] \in [var : Vars, key : Nat] /\ i \in 1..Len(env)
          BY <1>1, <1>2, <1>3
    <2> QED BY <1>1, <2>1
  <1> QED BY <1>1, <1>3, <1>4

LEMMA GarbledMeans ==
    ASSUME EnvOK
    PROVE  Garbled <=> \E i \in DOMAIN env : env[i].var \in Keyless
  <1>1. DOMAIN env = 1..Len(env) /\ Len(env) \in Nat
        BY DEF EnvOK
  <1>2. ASSUME NEW i \in DOMAIN env, env[i].var \in Keyless PROVE Garbled
    <2>1. i \in 1..i
          BY <1>1
    <2> QED BY <1>2, <2>1 DEF Garbled, Parsed
  <1>3. ASSUME Garbled PROVE \E i \in DOMAIN env : env[i].var \in Keyless
    <2>1. PICK i \in DOMAIN env : \E k \in 1..i : env[k].var \in Keyless
          BY <1>3 DEF Garbled, Parsed
    <2>2. PICK k \in 1..i : env[k].var \in Keyless
          BY <2>1
    <2> QED BY <1>1, <2>2
  <1> QED BY <1>2, <1>3

(* What the next process finds where nothing stands in the way.            *)
LEMMA FirstLineIsFound ==
    ASSUME EnvOK, NEW v \in Vars, NEW key, FirstLine(v, key),
           around.exported[v] = Unset, ~Garbled
    PROVE  Environment[v] = key
  <1>1. LinesOf(v) \cap Parsed = LinesOf(v)
        BY DEF Garbled, LinesOf
  <1>2. PICK i \in LinesOf(v) : env[i].key = key /\ \A k \in LinesOf(v) : i <= k
        BY DEF FirstLine
  <1> DEFINE j == CHOOSE j \in LinesOf(v) : \A k \in LinesOf(v) : j <= k
  <1>3. j \in LinesOf(v) /\ \A k \in LinesOf(v) : j <= k
        BY <1>2
  <1>4. Environment[v] = env[j].key
        BY <1>1, <1>2 DEF Environment
  <1> HIDE DEF j
  <1>5. i \in Nat /\ j \in Nat /\ i <= j /\ j <= i
        BY <1>2, <1>3, LinesAreNumbers
  <1>6. i = j
        BY <1>5
  <1> QED BY <1>2, <1>4, <1>6

LEMMA SomeFirstLine ==
    ASSUME EnvOK, NEW v, LinesOf(v) # {}
    PROVE  \E key \in Nat : FirstLine(v, key)
  <1>1. LinesOf(v) \in SUBSET Nat
        BY LinesAreNumbers
  <1>2. PICK i \in LinesOf(v) : \A k \in LinesOf(v) : i <= k
        BY <1>1, LeastOfSome
  <1>3. env[i].key \in Nat
        BY <1>2, LinesAreNumbers
  <1> QED BY <1>2, <1>3 DEF FirstLine

LEMMA EnvironmentType == EnvOK => Environment \in [Vars -> {Unset} \cup Nat]
  <1> SUFFICES ASSUME EnvOK, NEW v \in Vars PROVE Environment[v] \in {Unset} \cup Nat
      BY DEF Environment
  <1> DEFINE found == LinesOf(v) \cap Parsed
             j == CHOOSE i \in found : \A k \in found : i <= k
  <1>1. CASE around.exported[v] # Unset
    <2>1. around.exported \in [Vars -> {Unset, 0, 1}]
          BY SettingsAssumption DEF EnvOK
    <2> QED BY <1>1, <2>1 DEF Environment
  <1>2. CASE around.exported[v] = Unset /\ found = {}
        BY <1>2 DEF Environment
  <1>3. CASE around.exported[v] = Unset /\ found # {}
    <2>1. found \in SUBSET Nat
          BY LinesAreNumbers
    <2>2. \E i \in found : \A k \in found : i <= k
          BY <1>3, <2>1, LeastOfSome
    <2>3. j \in found
          BY <2>2
    <2>4. Environment[v] = env[j].key
          BY <1>3 DEF Environment
    <2> HIDE DEF j
    <2>5. env[j].key \in Nat
          BY <2>3, LinesAreNumbers
    <2> QED BY <2>4, <2>5
  <1> QED BY <1>1, <1>2, <1>3

(* What a process that starts now takes for missing.                       *)
LEMMA MissingNow ==
    ASSUME EnvOK, NEW v \in Vars, Missing(Environment, v), ~Excused(v)
    PROVE  LinesOf(v) = {}
  <1> SUFFICES ASSUME LinesOf(v) # {} PROVE FALSE
      OBVIOUS
  <1>1. PICK key \in Nat : FirstLine(v, key)
        BY SomeFirstLine
  <1>2. Environment[v] = key
        BY <1>1, FirstLineIsFound DEF Excused
  <1>3. key = 0
        BY <1>2, NoValueAssumption DEF Missing
  <1>4. Blank(v)
        BY <1>1, <1>3 DEF FirstLine, Blank
  <1> QED BY <1>4 DEF Excused

(* A line that is added stands behind everything.                          *)
LEMMA LineAdded ==
    ASSUME EnvOK, NEW w \in Vars, NEW key \in Nat, env' = Append(env, [var |-> w, key |-> key])
    PROVE  /\ env' \in Seq([var : Vars, key : Nat]) /\ Len(env') = Len(env) + 1
           /\ \A i \in 1..Len(env) : env'[i] = env[i]
           /\ \A v : LinesOf(v)' = IF v = w THEN LinesOf(v) \cup {Len(env) + 1} ELSE LinesOf(v)
           /\ env'[Len(env) + 1].key = key
  <1>1. PICK line \in [var : Vars, key : Nat] : line = [var |-> w, key |-> key]
        OBVIOUS
  <1>2. line.var = w /\ line.key = key
        BY <1>1
  <1>3. /\ env' \in Seq([var : Vars, key : Nat]) /\ Len(env') = Len(env) + 1
        /\ Len(env) \in Nat
        /\ \A i \in 1..Len(env) : env'[i] = env[i]
        /\ env'[Len(env) + 1] = line
        BY <1>1 DEF EnvOK
  <1>4. DOMAIN env = 1..Len(env) /\ DOMAIN env' = 1..(Len(env) + 1)
        BY <1>3 DEF EnvOK
  <1>5. ASSUME NEW v
        PROVE  LinesOf(v)' = IF v = w THEN LinesOf(v) \cup {Len(env) + 1} ELSE LinesOf(v)
    <2>1. LinesOf(v)' = {i \in 1..(Len(env) + 1) : env'[i].var = v}
          BY <1>4 DEF LinesOf
    <2>2. LinesOf(v) = {i \in 1..Len(env) : env[i].var = v}
          BY <1>4 DEF LinesOf
    <2> QED BY <1>2, <1>3, <2>1, <2>2
  <1> QED BY <1>2, <1>3, <1>5

(* So it excuses nothing that was not, and hides no line in front of it.   *)
LEMMA AddedBehind ==
    ASSUME EnvOK, NEW w \in Vars, NEW key \in Nat, env' = Append(env, [var |-> w, key |-> key]),
           around' = around, EnvOK'
    PROVE  /\ \A v : Excused(v) => Excused(v)'
           /\ \A v, k : FirstLine(v, k) => FirstLine(v, k)'
           /\ \A v : LinesOf(v) # {} => LinesOf(v)' # {}
           /\ LinesOf(w) = {} => FirstLine(w, key)'
           /\ LinesOf(w)' # {}
  <1>1. /\ Len(env') = Len(env) + 1 /\ Len(env) \in Nat
        /\ \A i \in 1..Len(env) : env'[i] = env[i]
        /\ \A v : LinesOf(v)' = IF v = w THEN LinesOf(v) \cup {Len(env) + 1} ELSE LinesOf(v)
        /\ env'[Len(env) + 1].key = key
        BY LineAdded, LinesAreNumbers
  <1>2. ASSUME NEW v PROVE LinesOf(v) \subseteq 1..Len(env)
        BY LinesAreNumbers
  <1>3. ASSUME NEW v, NEW k, FirstLine(v, k) PROVE FirstLine(v, k)'
    <2>1. PICK i \in LinesOf(v) : env[i].key = k /\ \A j \in LinesOf(v) : i <= j
          BY <1>3 DEF FirstLine
    <2>2. i \in 1..Len(env) /\ i \in LinesOf(v)' /\ env'[i].key = k
          BY <1>1, <1>2, <2>1
    <2>3. \A j \in LinesOf(v)' : i <= j
          BY <1>1, <1>2, <2>1, <2>2
    <2> QED BY <2>2, <2>3 DEF FirstLine
  <1>4. ASSUME NEW v, Blank(v) PROVE Blank(v)'
    <2>1. FirstLine(v, 0)
          BY <1>4 DEF Blank, FirstLine
    <2>2. FirstLine(v, 0)'
          BY <1>3, <2>1
    <2> QED BY <2>2 DEF Blank, FirstLine
  <1>5. ASSUME Garbled PROVE Garbled'
    <2>1. PICK i \in DOMAIN env : env[i].var \in Keyless
          BY <1>5, GarbledMeans
    <2>2. i \in DOMAIN env' /\ env'[i].var \in Keyless /\ i \in 1..i
          BY <1>1, <2>1 DEF EnvOK
    <2> QED BY <2>2 DEF Garbled, Parsed
  <1>6. LinesOf(w) = {} => FirstLine(w, key)'
        BY <1>1 DEF FirstLine
  <1>7. \A v : Excused(v) => Excused(v)'
        BY <1>4, <1>5 DEF Excused
  <1> QED BY <1>1, <1>3, <1>6, <1>7

(***************************************************************************)
(* Steps                                                                   *)
(***************************************************************************)
(* A command that is asked for a key writes its line: the key is in front, *)
(* or there is a reason why not.                                           *)
LEMMA LineKeeps ==
    ASSUME EnvOK, SavedInv, NEW t \in Terminals, NEW c \in Processes, c = cmd[t], FoundInv(c),
           NEW w \in Vars, NEW key \in Nat, AppendLine(t, w, key),
           c.again \/ Missing(c.found, w) \/ LinesOf(w) = {},
           typed' \in Nat, around' = around, pool' = pool
    PROVE  /\ EnvOK' /\ SavedInv'
           /\ \A d \in Processes : FoundInv(d) => FoundInv(d)'
           /\ \A v : LinesOf(v) # {} => LinesOf(v)' # {}
           /\ LinesOf(w)' # {}
  <1>1. /\ env' = Append(env, [var |-> w, key |-> key])
        /\ saved' = [saved EXCEPT ![w] = key]
        /\ reentered \subseteq reentered' /\ (c.again => w \in reentered')
        /\ raced \subseteq raced' /\ ((\E i \in LinesOf(w) : i > c.lines) => w \in raced')
        BY DEF AppendLine
  <1>2. EnvOK'
    <2>1. env' \in Seq([var : Vars, key : Nat])
          BY <1>1, LineAdded
    <2>2. saved' \in [Vars -> {Unset} \cup Nat]
          BY <1>1 DEF EnvOK
    <2>3. pool' = [p \in Providers |-> pool'[p]]
          BY DEF EnvOK
    <2> QED BY <2>1, <2>2, <2>3 DEF EnvOK
  <1>3. /\ \A v : Excused(v) => Excused(v)'
        /\ \A v, k : FirstLine(v, k) => FirstLine(v, k)'
        /\ \A v : LinesOf(v) # {} => LinesOf(v)' # {}
        /\ LinesOf(w) = {} => FirstLine(w, key)'
        /\ LinesOf(w)' # {}
        BY <1>1, <1>2, AddedBehind
  <1>4. ASSUME NEW d \in Processes, FoundInv(d) PROVE FoundInv(d)'
    <2>1. d.lines \in Nat /\ Len(env) \in Nat /\ Len(env') = Len(env) + 1 /\ d.lines <= Len(env)
          BY <1>1, <1>4, LineAdded, LinesAreNumbers DEF Processes, FoundInv
    <2>2. ASSUME NEW v \in Vars, Missing(d.found, v)
          PROVE  Excused(v)' \/ (\A i \in LinesOf(v)' : i > d.lines)
      <3>1. LinesOf(v)' \subseteq LinesOf(v) \cup {Len(env) + 1}
            BY <1>1, LineAdded
      <3>2. Excused(v) \/ (\A i \in LinesOf(v) : i > d.lines)
            BY <1>4, <2>2 DEF FoundInv
      <3> QED BY <1>3, <2>1, <3>1, <3>2
    <2> QED BY <2>1, <2>2 DEF FoundInv
  <1>5. ASSUME NEW v \in Vars, saved'[v] # Unset
        PROVE  Excused(v)' \/ v \in reentered' \cup raced' \/ FirstLine(v, saved[v])'
    <2>1. CASE v # w
      <3>1. saved'[v] = saved[v]
            BY <1>1, <2>1 DEF EnvOK
      <3>2. Excused(v) \/ v \in reentered \cup raced \/ FirstLine(v, saved[v])
            BY <1>5, <3>1 DEF SavedInv
      <3>3. FirstLine(v, saved[v]) => FirstLine(v, saved[v])'
        <4>1. PICK k : k = saved[v]
              OBVIOUS
        <4>2. FirstLine(v, k) => FirstLine(v, k)'
              BY <1>3
        <4> QED BY <3>1, <4>1, <4>2 DEF FirstLine
      <3> QED BY <1>1, <1>3, <3>2, <3>3
    <2>2. CASE v = w
      <3>1. saved'[v] = key
            BY <1>1, <2>2 DEF EnvOK
      <3>2. LinesOf(w) = {} => FirstLine(v, saved[v])'
            BY <1>3, <2>2, <3>1 DEF FirstLine
      <3>3. Missing(c.found, w) => Excused(w) \/ (\A i \in LinesOf(w) : i > c.lines)
            BY DEF FoundInv
      <3> QED BY <1>1, <1>3, <2>2, <3>2, <3>3
    <2> QED BY <2>1, <2>2
  <1>6. SavedInv'
        BY <1>5 DEF SavedInv
  <1> QED BY <1>2, <1>3, <1>4, <1>6

(* Nothing written to .env.                                                *)
LEMMA NoLineKeeps ==
    ASSUME EnvOK, SavedInv, UNCHANGED <<env, around, saved, reentered, raced>>, typed' \in Nat,
           pool' = [p \in Providers |-> pool'[p]]
    PROVE  /\ EnvOK' /\ SavedInv'
           /\ \A d \in Processes : FoundInv(d) => FoundInv(d)'
           /\ \A v : LinesOf(v) # {} => LinesOf(v)' # {}
  <1>1. \A v : LinesOf(v)' = LinesOf(v)
        BY DEF LinesOf
  <1>2. \A v : Excused(v)' <=> Excused(v)
        BY <1>1 DEF Excused, Garbled, Parsed, Blank
  <1>3. \A v, k : FirstLine(v, k)' <=> FirstLine(v, k)
        BY <1>1 DEF FirstLine
  <1>4. EnvOK'
        BY DEF EnvOK
  <1>5. SavedInv'
    <2> SUFFICES ASSUME NEW v \in Vars, saved[v] # Unset
                 PROVE  Excused(v)' \/ v \in reentered' \cup raced' \/ FirstLine(v, saved[v])'
        BY DEF SavedInv
    <2>1. Excused(v) \/ v \in reentered \cup raced \/ FirstLine(v, saved[v])
          BY DEF SavedInv
    <2>2. PICK k : k = saved[v]
          OBVIOUS
    <2>3. FirstLine(v, k)' <=> FirstLine(v, k)
          BY <1>3
    <2> QED BY <1>2, <2>1, <2>2, <2>3 DEF FirstLine
  <1>6. ASSUME NEW d \in Processes, FoundInv(d) PROVE FoundInv(d)'
        BY <1>1, <1>2, <1>6 DEF FoundInv
  <1> QED BY <1>1, <1>4, <1>5, <1>6

(* What was mirrored stays so when a command that is not mirroring, or has *)
(* done it or given it up, goes on.                                        *)
LEMMA PoolKeeps ==
    ASSUME EntryInv, NEW t \in Terminals, NEW p, cmd' = [cmd EXCEPT ![t] = p],
           pool' = pool, unmirrored \subseteq unmirrored',
           \A v : LinesOf(v) # {} => LinesOf(v)' # {},
           \A q : IsAt(t, "mirror") /\ cmd[t].cfg.provider = q
                    => LinesOf(Owner(q))' # {} \/ q \in unmirrored'
    PROVE  PoolInv'
  <1> SUFFICES ASSUME NEW q \in Known \ Keyless, DOMAIN pool[q] # {}
               PROVE  LinesOf(Owner(q))' # {} \/ q \in unmirrored' \/ Mirroring(q)'
      BY DEF PoolInv
  <1>1. LinesOf(Owner(q)) # {} \/ q \in unmirrored \/ Mirroring(q)
        BY DEF EntryInv, PoolInv
  <1>2. ASSUME Mirroring(q)
        PROVE  LinesOf(Owner(q))' # {} \/ q \in unmirrored' \/ Mirroring(q)'
    <2>1. PICK u \in Terminals : IsAt(u, "mirror") /\ cmd[u].cfg.provider = q
          BY <1>2 DEF Mirroring
    <2>2. CASE u = t
      <3>1. IsAt(t, "mirror") /\ cmd[t].cfg.provider = q
            BY <2>1, <2>2
      <3> QED BY <3>1
    <2>3. CASE u # t
      <3>1. cmd'[u] = cmd[u]
            BY <2>3 DEF EntryInv, CmdOK
      <3> QED BY <2>1, <3>1 DEF Mirroring, IsAt
    <2> QED BY <2>2, <2>3
  <1>3. LinesOf(Owner(q)) # {} => LinesOf(Owner(q))' # {}
        OBVIOUS
  <1> QED BY <1>1, <1>2, <1>3

(* One command becomes another stage of itself, or ends.                   *)
LEMMA EntryMoves ==
    ASSUME EntryInv, NEW t \in Terminals, NEW p \in Processes \cup {Idle},
           cmd' = [cmd EXCEPT ![t] = p],
           p # Idle => FoundInv(p) /\ AskInv(p),
           EnvOK', SavedInv', PoolInv',
           \A d \in Processes : FoundInv(d) => FoundInv(d)'
    PROVE  EntryInv'
  <1>1. /\ CmdOK' /\ cmd'[t] = p
        /\ \A u \in Terminals \ {t} : cmd'[u] = cmd[u]
        BY DEF EntryInv, CmdOK
  <1>2. ASSUME NEW u \in Terminals, cmd'[u] # Idle
        PROVE  FoundInv(cmd[u])' /\ AskInv(cmd[u])'
    <2>1. PICK d \in Processes : d = cmd'[u] /\ FoundInv(d) /\ AskInv(d)
      <3>1. CASE u = t
            BY <1>1, <1>2, <3>1
      <3>2. CASE u # t
            BY <1>1, <1>2, <3>2 DEF EntryInv, CmdOK
      <3> QED BY <3>1, <3>2
    <2>2. FoundInv(d)'
          BY <2>1
    <2> QED BY <2>1, <2>2 DEF FoundInv, AskInv
  <1> QED BY <1>1, <1>2 DEF EntryInv

(* The records commands are made of.                                       *)
LEMMA ProcessStarts ==
    ASSUME EnvOK, NEW a \in Stages, NEW c \in Configs, NEW todo \in Seq({"model", "gateway", "agent"})
    PROVE  /\ Process(a, c, todo) \in Processes /\ Process(a, c, todo).at = a
           /\ Process(a, c, todo).cfg = c /\ FoundInv(Process(a, c, todo))
  <1>1. Environment \in [Vars -> {Unset} \cup Nat] /\ Len(env) \in Nat
        BY EnvironmentType, LinesAreNumbers
  <1>2. c.provider \in Providers
        BY DEF Configs
  <1>3. Process(a, c, todo) \in Processes
        BY <1>1, <1>2 DEF Process, Processes
  <1>4. /\ Process(a, c, todo).found = Environment /\ Process(a, c, todo).lines = Len(env)
        /\ Process(a, c, todo).at = a /\ Process(a, c, todo).cfg = c
        BY DEF Process
  <1>5. \A v \in Vars : Missing(Environment, v) => Excused(v) \/ LinesOf(v) = {}
        BY MissingNow
  <1>6. FoundInv(Process(a, c, todo))
        BY <1>1, <1>4, <1>5 DEF FoundInv
  <1> QED BY <1>3, <1>4, <1>6

LEMMA SameFindings ==
    ASSUME NEW c, NEW p, FoundInv(c), p.found = c.found, p.lines = c.lines
    PROVE  FoundInv(p)
  BY DEF FoundInv

LEMMA MovesOn ==
    ASSUME NEW c \in Processes, Moves(c) # Idle
    PROVE  /\ Moves(c) \in Processes /\ Moves(c).found = c.found /\ Moves(c).lines = c.lines
           /\ Moves(c).at \in {"model", "gateway", "agent", "write"}
  <1>1. CASE c.todo # <<>>
    <2>1. /\ Head(c.todo) \in {"model", "gateway", "agent"}
          /\ Tail(c.todo) \in Seq({"model", "gateway", "agent"})
      <3>1. PICK todo \in Seq({"model", "gateway", "agent"}) : todo = c.todo
            BY DEF Processes
      <3>2. todo # <<>>
            BY <1>1, <3>1
      <3>3. Len(todo) \in Nat /\ Len(todo) # 0
            BY <3>2
      <3>4. 1 \in 1..Len(todo) /\ Head(todo) = todo[1]
            BY <3>3
      <3>5. todo[1] \in {"model", "gateway", "agent"}
            BY <3>4, ElementOfSeq
      <3>6. Tail(todo) \in Seq({"model", "gateway", "agent"})
            BY <3>2
      <3> QED BY <3>1, <3>4, <3>5, <3>6
    <2>2. Moves(c) = [c EXCEPT !.at = Head(c.todo), !.todo = Tail(c.todo), !.again = FALSE]
          BY <1>1 DEF Moves
    <2>3. Head(c.todo) \in Stages
          BY <2>1 DEF Stages
    <2> QED BY <2>1, <2>2, <2>3 DEF Processes
  <1>2. CASE c.todo = <<>>
    <2>1. Moves(c) = [c EXCEPT !.at = "write"]
          BY <1>2 DEF Moves
    <2> QED BY <2>1 DEF Processes, Stages
  <1> QED BY <1>1, <1>2

(* A command goes on without a key: with the same findings, or from the    *)
(* start.                                                                  *)
LEMMA QuietKeeps ==
    ASSUME EntryInv, NEW t \in Terminals, NEW p \in Processes \cup {Idle},
           cmd' = [cmd EXCEPT ![t] = p], ~IsAt(t, "mirror"),
           UNCHANGED <<env, around, pool, typed, saved, reentered, raced, unmirrored>>,
           p # Idle => FoundInv(p) /\ AskInv(p)
    PROVE  EntryInv'
  <1>1. EnvOK /\ SavedInv /\ typed' \in Nat /\ pool' = [q \in Providers |-> pool'[q]]
        BY DEF EntryInv, EnvOK
  <1>2. /\ EnvOK' /\ SavedInv'
        /\ \A d \in Processes : FoundInv(d) => FoundInv(d)'
        /\ \A v : LinesOf(v) # {} => LinesOf(v)' # {}
        BY <1>1, NoLineKeeps
  <1>3. PoolInv'
        BY <1>2, PoolKeeps
  <1> QED BY <1>2, <1>3, EntryMoves

(* The command in a terminal, as the actions see it.                       *)
LEMMA AtWork ==
    ASSUME EntryInv, NEW t \in Terminals, NEW a, IsAt(t, a)
    PROVE  cmd[t] \in Processes /\ cmd[t].at = a /\ FoundInv(cmd[t]) /\ AskInv(cmd[t])
  BY DEF EntryInv, CmdOK, IsAt

LEMMA ModelEnters ==
    ASSUME EntryInv, HomeInv, NEW t \in Terminals,
           (\E p \in Providers : SetModel(t, p)) \/ SaveModel(t)
    PROVE  EntryInv'
  <1>1. ASSUME NEW p \in Providers, SetModel(t, p) PROVE EntryInv'
    <2> DEFINE c == [Merged EXCEPT !.provider = p, !.base = None, !.keyEnv = None]
               q == Process("save", c, <<>>)
    <2>1. Merged \in Configs
          BY <1>1, LoadedFits DEF SetModel, Begin, HomeInv
    <2>2. c \in Configs /\ "save" \in Stages /\ <<>> \in Seq({"model", "gateway", "agent"})
      <3>1. c \in Configs
            BY <2>1 DEF Configs
      <3>2. <<>> \in Seq({"model", "gateway", "agent"})
            OBVIOUS
      <3> QED BY <3>1, <3>2 DEF Stages
    <2>3. /\ cmd' = [cmd EXCEPT ![t] = q] /\ cmd[t] = Idle
          /\ UNCHANGED <<env, around, pool, typed, saved, reentered, raced, unmirrored>>
          BY <1>1 DEF SetModel, Begin, Becomes, files, history
    <2>4. EnvOK
          BY DEF EntryInv
    <2> HIDE DEF c
    <2>5. q \in Processes /\ FoundInv(q) /\ q.at = "save"
      <3>1. \A a \in Stages, s \in Seq({"model", "gateway", "agent"}) :
                LET new == Process(a, c, s) IN new \in Processes /\ FoundInv(new) /\ new.at = a
            BY <2>2, <2>4, ProcessStarts
      <3> QED BY <2>2, <3>1, Zenon
    <2>6. ~IsAt(t, "mirror") /\ AskInv(q)
          BY <2>3, <2>5 DEF IsAt, AskInv
    <2> HIDE DEF q
    <2> QED BY <2>3, <2>5, <2>6, QuietKeeps
  <1>2. CASE SaveModel(t)
    <2> DEFINE c == cmd[t]
    <2>1. c \in Processes /\ c.at = "save" /\ FoundInv(c)
          BY <1>2, AtWork DEF SaveModel
    <2>2. UNCHANGED <<env, around, pool, typed, saved, reentered, raced, unmirrored>>
          BY <1>2 DEF SaveModel
    <2>3. ~IsAt(t, "mirror")
          BY <2>1 DEF IsAt
    <2>4. CASE c.cfg.provider \in Known \ Keyless /\ Missing(c.found, Owner(c.cfg.provider))
      <3> DEFINE q == [c EXCEPT !.at = "modelkey", !.var = Owner(c.cfg.provider)]
      <3>1. Owner(c.cfg.provider) \in Vars
            BY <2>4, NamesOfVariables
      <3>2. q \in Processes /\ q.found = c.found /\ q.lines = c.lines /\ q.at = "modelkey"
            /\ q.var = Owner(c.cfg.provider)
            BY <2>1, <3>1 DEF Processes, Stages
      <3>3. FoundInv(q)
            BY <2>1, <3>2, SameFindings
      <3>4. AskInv(q)
            BY <2>4, <3>1, <3>2 DEF AskInv
      <3>5. cmd' = [cmd EXCEPT ![t] = q]
            BY <1>2, <2>4 DEF SaveModel
      <3> HIDE DEF q
      <3> QED BY <2>2, <2>3, <3>2, <3>3, <3>4, <3>5, QuietKeeps
    <2>5. CASE ~(c.cfg.provider \in Known \ Keyless /\ Missing(c.found, Owner(c.cfg.provider)))
      <3>1. cmd' = [cmd EXCEPT ![t] = Idle]
            BY <1>2, <2>5 DEF SaveModel, Ends, Becomes
      <3> QED BY <2>2, <2>3, <3>1, QuietKeeps
    <2> QED BY <2>4, <2>5
  <1> QED BY <1>1, <1>2

(* Moving on to the next section, or to the end, is quiet.                 *)
LEMMA AdvanceKeeps ==
    ASSUME EntryInv, NEW t \in Terminals, NEW c \in Processes, FoundInv(c), ~IsAt(t, "mirror"),
           cmd' = [cmd EXCEPT ![t] = Moves(c)],
           UNCHANGED <<env, around, pool, typed, saved, reentered, raced, unmirrored>>
    PROVE  EntryInv'
  <1>1. PICK p : p = Moves(c)
        OBVIOUS
  <1>2. p # Idle => /\ p \in Processes /\ p.found = c.found /\ p.lines = c.lines
                    /\ p.at \in {"model", "gateway", "agent", "write"}
        BY <1>1, MovesOn
  <1>3. p # Idle => FoundInv(p) /\ AskInv(p)
        BY <1>2, SameFindings DEF AskInv
  <1> QED BY <1>1, <1>2, <1>3, QuietKeeps, Zenon

LEMMA WizardEnters ==
    ASSUME EntryInv, HomeInv, NEW t \in Terminals,
           \/ \E s \in Sections : Setup(t, s)
           \/ UseExisting(t) \/ ReenterKey(t) \/ (\E p \in Providers : ChangeModel(t, p))
           \/ AgentSection(t) \/ WriteConfig(t)
    PROVE  EntryInv'
  <1> DEFINE c == cmd[t]
  <1>1. UNCHANGED <<env, around, pool, typed, saved, reentered, raced, unmirrored>>
        BY Zenon DEF Setup, UseExisting, ReenterKey, ChangeModel, AgentSection, WriteConfig, files, history
  <1>2. ~IsAt(t, "mirror")
    <2>1. CASE \E s \in Sections : Setup(t, s)
          BY <2>1 DEF Setup, Begin, IsAt
    <2>2. CASE UseExisting(t) \/ ReenterKey(t) \/ AgentSection(t) \/ WriteConfig(t)
          BY <2>2, Zenon DEF UseExisting, ReenterKey, AgentSection, WriteConfig, IsAt
    <2>3. CASE \E p \in Providers : ChangeModel(t, p)
          BY <2>3, Zenon DEF ChangeModel, IsAt
    <2> QED BY <2>1, <2>2, <2>3
  <1>3. ASSUME NEW s \in Sections, Setup(t, s) PROVE EntryInv'
    <2>1. /\ Head(s) \in {"model", "gateway", "agent"}
          /\ Tail(s) \in Seq({"model", "gateway", "agent"})
      <3>1. s \in Seq({"model", "gateway", "agent"}) /\ s # <<>>
        <4>1. /\ <<"model">> \in Seq({"model", "gateway", "agent"})
              /\ <<"gateway">> \in Seq({"model", "gateway", "agent"})
              /\ <<"agent">> \in Seq({"model", "gateway", "agent"})
              OBVIOUS
        <4>2. <<"model", "gateway", "agent">> \in Seq({"model", "gateway", "agent"})
              OBVIOUS
        <4>3. s \in Seq({"model", "gateway", "agent"})
              BY <4>1, <4>2 DEF Sections
        <4>4. s # <<>>
              BY DEF Sections
        <4> QED BY <4>3, <4>4
      <3>2. Head(s) = s[1] /\ Tail(s) \in Seq({"model", "gateway", "agent"})
            BY <3>1
      <3>3. s[1] \in {"model", "gateway", "agent"}
            BY DEF Sections
      <3> QED BY <3>2, <3>3
    <2>2. UserConfig \in Configs /\ Head(s) \in Stages
          BY <1>3, <2>1, LoadedFits DEF Setup, Begin, HomeInv, Stages
    <2>3. PICK q : /\ q = Process(Head(s), UserConfig, Tail(s))
                   /\ cmd' = [cmd EXCEPT ![t] = q]
          BY <1>3 DEF Setup, Becomes
    <2>4. q \in Processes /\ FoundInv(q) /\ q.at = Head(s)
      <3>1. \A a \in Stages, todo \in Seq({"model", "gateway", "agent"}) :
                LET new == Process(a, UserConfig, todo)
                IN  new \in Processes /\ FoundInv(new) /\ new.at = a
            BY <2>2, ProcessStarts DEF EntryInv
      <3> QED BY <2>1, <2>2, <2>3, <3>1, Zenon
    <2>5. AskInv(q)
          BY <2>1, <2>4 DEF AskInv
    <2> QED BY <1>1, <1>2, <2>3, <2>4, <2>5, QuietKeeps
  <1>4. CASE UseExisting(t)
    <2>1. c \in Processes /\ FoundInv(c)
          BY <1>4, AtWork DEF UseExisting
    <2>2. cmd' = [cmd EXCEPT ![t] = Moves(c)]
          BY <1>4 DEF UseExisting, Advance
    <2> QED BY <1>1, <1>2, <2>1, <2>2, AdvanceKeeps
  <1>5. CASE ReenterKey(t)
    <2>1. c \in Processes /\ FoundInv(c)
          BY <1>5, AtWork DEF ReenterKey
    <2>2. c.cfg \in Configs /\ KeyVar(c.cfg) \in Vars
          BY <2>1, NamesOfVariables DEF Processes
    <2>3. PICK q : /\ q = [c EXCEPT !.at = "key", !.var = KeyVar(c.cfg), !.again = TRUE]
                   /\ cmd' = [cmd EXCEPT ![t] = q]
          BY <1>5, <2>1 DEF ReenterKey, Processes
    <2>4. q \in Processes /\ q.found = c.found /\ q.lines = c.lines /\ q.at = "key"
          /\ q.var \in Vars /\ q.again
          BY <2>1, <2>2, <2>3 DEF Processes, Stages
    <2>5. FoundInv(q) /\ AskInv(q)
          BY <2>1, <2>4, SameFindings DEF AskInv
    <2> QED BY <1>1, <1>2, <2>3, <2>4, <2>5, QuietKeeps
  <1>6. ASSUME NEW p \in Providers, ChangeModel(t, p) PROVE EntryInv'
    <2> DEFINE new == [c.cfg EXCEPT !.provider = p]
    <2>1. c \in Processes /\ FoundInv(c)
          BY <1>6, AtWork, Zenon DEF ChangeModel
    <2>2. c.cfg \in Configs /\ new \in Configs
          BY <2>1 DEF Processes, Configs
    <2>3. PICK d : d = [c EXCEPT !.cfg = new, !.dirty = TRUE]
          OBVIOUS
    <2>4. d = [cmd[t] EXCEPT !.cfg.provider = p, !.dirty = TRUE]
          BY <2>1, <2>3 DEF Processes
    <2> HIDE DEF new
    <2>5. /\ d \in Processes /\ d.cfg = new /\ d.found = c.found /\ d.lines = c.lines
          BY <2>1, <2>2, <2>3 DEF Processes
    <2>6. FoundInv(d)
          BY <2>1, <2>5, SameFindings
    <2>7. CASE p \notin Keyless /\ Missing(d.found, KeyVar(d.cfg))
      <3>1. PICK q : /\ q = [d EXCEPT !.at = "key", !.var = KeyVar(d.cfg)]
                     /\ cmd' = [cmd EXCEPT ![t] = q]
            BY <1>6, <2>4, <2>7, Zenon DEF ChangeModel
      <3>2. KeyVar(d.cfg) \in Vars
            BY <2>2, <2>5, NamesOfVariables
      <3>3. q \in Processes /\ q.found = d.found /\ q.lines = d.lines /\ q.at = "key"
            /\ q.var = KeyVar(d.cfg)
            BY <2>5, <3>1, <3>2 DEF Processes, Stages
      <3>4. FoundInv(q) /\ AskInv(q)
            BY <2>6, <2>7, <3>2, <3>3, SameFindings DEF AskInv
      <3> QED BY <1>1, <1>2, <3>1, <3>3, <3>4, QuietKeeps, Zenon
    <2>8. CASE ~(p \notin Keyless /\ Missing(d.found, KeyVar(d.cfg)))
      <3>1. cmd' = [cmd EXCEPT ![t] = Moves(d)]
            BY <1>6, <2>4, <2>8, Zenon DEF ChangeModel, Advance
      <3> QED BY <1>1, <1>2, <2>5, <2>6, <3>1, AdvanceKeeps, Zenon
    <2> QED BY <2>7, <2>8, Zenon
  <1>7. CASE AgentSection(t)
    <2> DEFINE new == [c.cfg EXCEPT !.prompt = "mine"]
    <2>1. c \in Processes /\ FoundInv(c)
          BY <1>7, AtWork DEF AgentSection
    <2>2. new \in Configs
          BY <2>1 DEF Processes, Configs
    <2>3. PICK d : d = [c EXCEPT !.cfg = new, !.dirty = TRUE]
          OBVIOUS
    <2>4. d = [cmd[t] EXCEPT !.cfg.prompt = "mine", !.dirty = TRUE]
          BY <2>1, <2>3 DEF Processes
    <2> HIDE DEF new
    <2>5. d \in Processes /\ d.found = c.found /\ d.lines = c.lines
          BY <2>1, <2>2, <2>3 DEF Processes
    <2>6. FoundInv(d)
          BY <2>1, <2>5, SameFindings
    <2>7. cmd' = [cmd EXCEPT ![t] = Moves(d)] \/ cmd' = [cmd EXCEPT ![t] = Moves(c)]
          BY <1>7, <2>4 DEF AgentSection, Advance
    <2> QED BY <1>1, <1>2, <2>1, <2>5, <2>6, <2>7, AdvanceKeeps
  <1>8. CASE WriteConfig(t)
    <2>1. cmd' = [cmd EXCEPT ![t] = Idle]
          BY <1>8 DEF WriteConfig, Ends, Becomes
    <2> QED BY <1>1, <1>2, <2>1, QuietKeeps
  <1> QED BY <1>3, <1>4, <1>5, <1>6, <1>7, <1>8
(* An answer to a prompt for a key is a line.                              *)
LEMMA TypedKeeps ==
    ASSUME EntryInv, NEW t \in Terminals, cmd[t] # Idle, ~IsAt(t, "mirror"),
           NEW w \in Vars, cmd[t].again \/ Missing(cmd[t].found, w), Type(t, w),
           NEW p \in Processes \cup {Idle}, cmd' = [cmd EXCEPT ![t] = p],
           UNCHANGED <<around, pool, unmirrored>>,
           p # Idle => FoundInv(p) /\ AskInv(p)
    PROVE  EntryInv'
  <1>1. PICK c \in Processes : c = cmd[t] /\ FoundInv(c)
        BY DEF EntryInv, CmdOK
  <1>2. EnvOK /\ SavedInv
        BY DEF EntryInv
  <1>3. typed \in Nat /\ AppendLine(t, w, typed + 2) /\ typed' = typed + 1
        BY <1>2 DEF EnvOK, Type
  <1>4. typed + 2 \in Nat /\ typed' \in Nat /\ (c.again \/ Missing(c.found, w) \/ LinesOf(w) = {})
        BY <1>1, <1>3
  <1>5. /\ EnvOK' /\ SavedInv'
        /\ \A d \in Processes : FoundInv(d) => FoundInv(d)'
        /\ \A v : LinesOf(v) # {} => LinesOf(v)' # {}
        BY <1>1, <1>2, <1>3, <1>4, LineKeeps
  <1>6. PoolInv'
        BY <1>5, PoolKeeps
  <1> QED BY <1>5, <1>6, EntryMoves

LEMMA PromptsEnter ==
    ASSUME EntryInv, NEW t \in Terminals, AskKey(t) \/ AskKeyOfModel(t) \/ GatewaySection(t)
    PROVE  EntryInv'
  <1> DEFINE c == cmd[t]
  <1>1. PICK a \in {"key", "modelkey", "gateway"} : IsAt(t, a)
        BY DEF AskKey, AskKeyOfModel, GatewaySection
  <1>2. /\ c \in Processes /\ c.at = a /\ FoundInv(c) /\ AskInv(c)
        /\ c # Idle /\ ~IsAt(t, "mirror")
        BY <1>1, AtWork DEF IsAt
  <1>3. UNCHANGED <<around, pool, unmirrored>>
        BY DEF AskKey, AskKeyOfModel, GatewaySection
  <1>4. ASSUME AskKey(t) \/ AskKeyOfModel(t)
        PROVE  EntryInv'
    <2>1. c.var \in Vars /\ (c.again \/ Missing(c.found, c.var))
          BY <1>2, <1>4 DEF AskKey, AskKeyOfModel, IsAt, AskInv
    <2>2. PICK p : cmd' = [cmd EXCEPT ![t] = p] /\ (p = Moves(c) \/ p = Idle)
          BY <1>4 DEF AskKey, AskKeyOfModel, Advance, Ends, Becomes
    <2>3. p # Idle => /\ p \in Processes /\ p.found = c.found /\ p.lines = c.lines
                      /\ p.at \in {"model", "gateway", "agent", "write"}
          BY <1>2, <2>2, MovesOn
    <2>4. p # Idle => FoundInv(p) /\ AskInv(p)
          BY <1>2, <2>3, SameFindings DEF AskInv
    <2>5. Type(t, c.var) \/ UNCHANGED <<env, typed, saved, reentered, raced>>
          BY <1>4 DEF AskKey, AskKeyOfModel
    <2>6. CASE Type(t, c.var)
          BY <1>2, <1>3, <2>1, <2>2, <2>3, <2>4, <2>6, TypedKeeps
    <2>7. CASE UNCHANGED <<env, typed, saved, reentered, raced>>
          BY <1>2, <1>3, <2>2, <2>3, <2>4, <2>7, QuietKeeps
    <2> QED BY <2>5, <2>6, <2>7
  <1>5. ASSUME GatewaySection(t) PROVE EntryInv'
    <2>1. ASSUME NEW v \in GatewayVars, Missing(c.found, v), Type(t, v),
                 cmd' = [cmd EXCEPT ![t].found[v] = typed + 2]
          PROVE  EntryInv'
      <3>1. v \in Vars /\ typed + 2 \in Nat /\ typed + 2 # 0 /\ typed + 2 # Unset
        <4>1. v \in Vars
              BY NamesOfVariables
        <4>2. typed \in Nat
              BY DEF EntryInv, EnvOK
        <4> QED BY <4>1, <4>2, NoValueAssumption
      <3>2. PICK new : new = [c.found EXCEPT ![v] = typed + 2]
            OBVIOUS
      <3>3. PICK p : p = [c EXCEPT !.found = new]
            OBVIOUS
      <3>4. c.found \in [Vars -> {Unset} \cup Nat]
            BY <1>2 DEF Processes
      <3>5. new \in [Vars -> {Unset} \cup Nat] /\ \A u \in Vars \ {v} : new[u] = c.found[u]
            BY <3>1, <3>2, <3>4
      <3>6. new[v] = typed + 2
            BY <3>1, <3>2, <3>4
      <3>7. cmd' = [cmd EXCEPT ![t] = p]
            BY <1>2, <2>1, <3>2, <3>3 DEF Processes
      <3>8. /\ p \in Processes /\ p.found = new /\ p.lines = c.lines /\ p.at = c.at /\ p.cfg = c.cfg
            BY <1>2, <3>3, <3>5 DEF Processes
      <3>9. \A u \in Vars : Missing(p.found, u) => Missing(c.found, u)
            BY <3>1, <3>5, <3>6, <3>8 DEF Missing
      <3>10. FoundInv(p)
            BY <1>2, <3>8, <3>9 DEF FoundInv
      <3>11. AskInv(p)
        <4>1. p.at = "gateway"
              BY <1>5, <3>8 DEF GatewaySection, IsAt
        <4> QED BY <4>1 DEF AskInv
      <3> QED BY <1>2, <1>3, <2>1, <3>1, <3>7, <3>8, <3>10, <3>11, TypedKeeps
    <2>2. ASSUME Advance(t, c), UNCHANGED <<env, typed, saved, reentered, raced>> PROVE EntryInv'
          BY <1>2, <1>3, <2>2, AdvanceKeeps DEF Advance
    <2> QED BY <1>5, <2>1, <2>2 DEF GatewaySection
  <1> QED BY <1>4, <1>5

(* auth add writes its line last, unless the variable has one.             *)
LEMMA MirrorEnters ==
    ASSUME EntryInv, NEW t \in Terminals, Mirror(t)
    PROVE  EntryInv'
  <1> DEFINE c == cmd[t]
  <1>1. /\ c \in Processes /\ c.at = "mirror" /\ FoundInv(c) /\ AskInv(c) /\ c # Idle
        BY AtWork DEF Mirror, IsAt
  <1>2. c.cfg.provider \in Known
        BY <1>1 DEF AskInv
  <1>3. PICK w \in Vars : w = MirrorVar(c) /\ w = Owner(c.cfg.provider)
        BY <1>2, NamesOfVariables DEF MirrorVar
  <1>4. /\ cmd' = [cmd EXCEPT ![t] = Idle] /\ UNCHANGED <<around, pool, typed, unmirrored>>
        BY DEF Mirror, Ends, Becomes
  <1>5. EnvOK /\ SavedInv /\ typed' \in Nat /\ c.key \in Nat
        /\ pool' = [p \in Providers |-> pool'[p]]
        BY <1>1, <1>4 DEF EntryInv, EnvOK, Processes
  <1>6. /\ EnvOK' /\ SavedInv'
        /\ \A d \in Processes : FoundInv(d) => FoundInv(d)'
        /\ \A v : LinesOf(v) # {} => LinesOf(v)' # {}
        /\ LinesOf(w)' # {}
    <2>1. CASE LinesOf(w) = {}
      <3>1. AppendLine(t, w, c.key)
            BY <1>3, <2>1 DEF Mirror
      <3> QED BY <1>1, <1>4, <1>5, <2>1, <3>1, LineKeeps
    <2>2. CASE LinesOf(w) # {}
      <3>1. UNCHANGED <<env, saved, reentered, raced>>
            BY <1>3, <2>2 DEF Mirror
      <3> QED BY <1>4, <1>5, <2>2, <3>1, NoLineKeeps
    <2> QED BY <2>1, <2>2
  <1>7. PoolInv'
        BY <1>3, <1>4, <1>6, PoolKeeps
  <1> QED BY <1>4, <1>6, <1>7, EntryMoves

(* auth add pools the key first, and owes the line to .env.                *)
LEMMA AuthAddEnters ==
    ASSUME EntryInv, NEW t \in Terminals, NEW p \in Providers, NEW l, AuthAdd(t, p, l)
    PROVE  EntryInv'
  <1> DEFINE c == [Default EXCEPT !.provider = p]
             made == Process("mirror", c, <<>>)
             first == DOMAIN pool[p] = {} /\ p \in Known
  <1>1. Adding(t, p, l, IF first THEN "mirror" ELSE "done")
        BY DEF AuthAdd
  <1>2. /\ cmd[t] = Idle /\ typed' = typed + 1
        /\ pool' = [pool EXCEPT ![p] = With(p, l, typed + 2)]
        /\ UNCHANGED <<env, around, saved, reentered, raced, unmirrored>>
        BY <1>1 DEF Adding, Begin, history
  <1>3. PICK q : /\ cmd' = [cmd EXCEPT ![t] = q]
                 /\ ~first => q = Idle
                 /\ first => q = [made EXCEPT !.key = typed + 2]
        BY <1>1 DEF Adding, Becomes
  <1>4. EnvOK /\ SavedInv /\ typed \in Nat /\ pool = [r \in Providers |-> pool[r]]
        BY DEF EntryInv, EnvOK
  <1>5. c \in Configs /\ c.provider = p
        BY DefaultFits DEF Default, Configs
  <1>6. /\ made \in Processes /\ made.at = "mirror" /\ made.cfg = c /\ FoundInv(made)
    <2>1. "mirror" \in Stages /\ <<>> \in Seq({"model", "gateway", "agent"})
      <3>1. <<>> \in Seq({"model", "gateway", "agent"})
            OBVIOUS
      <3> QED BY <3>1 DEF Stages
    <2> HIDE DEF c
    <2>2. PICK todo \in Seq({"model", "gateway", "agent"}) : todo = <<>>
          BY <2>1
    <2>3. /\ Process("mirror", c, todo) \in Processes /\ Process("mirror", c, todo).at = "mirror"
          /\ Process("mirror", c, todo).cfg = c /\ FoundInv(Process("mirror", c, todo))
          BY <1>4, <1>5, <2>1, ProcessStarts
    <2> QED BY <2>2, <2>3
  <1> HIDE DEF made, c
  <1>7. first => /\ q \in Processes /\ q.at = "mirror" /\ q.cfg.provider = p
                 /\ FoundInv(q) /\ AskInv(q)
    <2> SUFFICES ASSUME first PROVE /\ q \in Processes /\ q.at = "mirror" /\ q.cfg.provider = p
                                    /\ FoundInv(q) /\ AskInv(q)
        OBVIOUS
    <2>1. q = [made EXCEPT !.key = typed + 2] /\ typed + 2 \in Nat
          BY <1>3, <1>4
    <2>2. /\ q \in Processes /\ q.at = "mirror" /\ q.cfg = c
          /\ q.found = made.found /\ q.lines = made.lines
          BY <1>6, <2>1 DEF Processes
    <2>3. FoundInv(q)
          BY <1>6, <2>2, SameFindings
    <2> QED BY <1>5, <2>2, <2>3 DEF AskInv
  <1>8. /\ pool' = [r \in Providers |-> pool'[r]]
        /\ \A r \in Providers : r # p => pool'[r] = pool[r]
        BY <1>2, <1>4
  <1>9. /\ EnvOK' /\ SavedInv'
        /\ \A d \in Processes : FoundInv(d) => FoundInv(d)'
        /\ \A v : LinesOf(v) # {} => LinesOf(v)' # {}
    <2>1. typed' \in Nat
          BY <1>2, <1>4
    <2> QED BY <1>2, <1>4, <1>8, <2>1, NoLineKeeps
  <1>10. cmd'[t] = q /\ \A u \in Terminals \ {t} : cmd'[u] = cmd[u]
        BY <1>3 DEF EntryInv, CmdOK
  <1>11. PoolInv'
    <2> SUFFICES ASSUME NEW r \in Known \ Keyless, DOMAIN pool'[r] # {}
                 PROVE  LinesOf(Owner(r))' # {} \/ r \in unmirrored' \/ Mirroring(r)'
        BY DEF PoolInv
    <2>1. CASE r = p /\ DOMAIN pool[p] = {}
      <3>1. first /\ q.at = "mirror" /\ q.cfg.provider = r /\ q \in Processes
            BY <1>7, <2>1
      <3>2. q # Idle
            BY <3>1, NoValueAssumption
      <3> QED BY <1>10, <3>1, <3>2 DEF Mirroring, IsAt
    <2>2. CASE r # p \/ DOMAIN pool[p] # {}
      <3>1. DOMAIN pool[r] # {}
            BY <1>8, <2>2 DEF Known
      <3>2. LinesOf(Owner(r)) # {} \/ r \in unmirrored \/ Mirroring(r)
            BY <3>1 DEF EntryInv, PoolInv
      <3>3. ASSUME Mirroring(r) PROVE Mirroring(r)'
        <4>1. PICK u \in Terminals : IsAt(u, "mirror") /\ cmd[u].cfg.provider = r
              BY <3>3 DEF Mirroring
        <4>2. u # t
              BY <1>2, <4>1 DEF IsAt
        <4>3. cmd'[u] = cmd[u]
              BY <1>10, <4>2
        <4> QED BY <4>1, <4>3 DEF Mirroring, IsAt
      <3> QED BY <1>2, <1>9, <3>2, <3>3
    <2> QED BY <2>1, <2>2
  <1>12. q \in Processes \cup {Idle} /\ (q # Idle => FoundInv(q) /\ AskInv(q))
        BY <1>3, <1>7
  <1> QED BY <1>3, <1>9, <1>11, <1>12, EntryMoves

(* Nothing happens to .env and the commands, and the pool only shrinks.    *)
LEMMA RestEnters ==
    ASSUME EntryInv, UNCHANGED <<env, around, cmd, typed, saved, reentered, raced, unmirrored>>,
           pool' = [r \in Providers |-> pool'[r]],
           \A r \in Providers : DOMAIN pool'[r] \subseteq DOMAIN pool[r]
    PROVE  EntryInv'
  <1>1. EnvOK /\ SavedInv /\ typed' \in Nat
        BY DEF EntryInv, EnvOK
  <1>2. /\ EnvOK' /\ SavedInv'
        /\ \A d \in Processes : FoundInv(d) => FoundInv(d)'
        /\ \A v : LinesOf(v) # {} => LinesOf(v)' # {}
        BY <1>1, NoLineKeeps
  <1>3. PoolInv'
    <2> SUFFICES ASSUME NEW r \in Known \ Keyless, DOMAIN pool'[r] # {}
                 PROVE  LinesOf(Owner(r))' # {} \/ r \in unmirrored' \/ Mirroring(r)'
        BY DEF PoolInv
    <2>1. DOMAIN pool[r] # {}
          BY DEF Known
    <2>2. LinesOf(Owner(r)) # {} \/ r \in unmirrored \/ Mirroring(r)
          BY <2>1 DEF EntryInv, PoolInv
    <2>3. Mirroring(r) => Mirroring(r)'
          BY DEF Mirroring, IsAt
    <2> QED BY <1>2, <2>2, <2>3
  <1>4. CmdOK'
        BY DEF EntryInv, CmdOK
  <1>5. ASSUME NEW u \in Terminals, cmd'[u] # Idle PROVE FoundInv(cmd[u])' /\ AskInv(cmd[u])'
    <2>1. PICK d \in Processes : d = cmd[u] /\ FoundInv(d) /\ AskInv(d)
          BY <1>5 DEF EntryInv, CmdOK
    <2>2. FoundInv(d)' /\ d = cmd'[u]
          BY <1>2, <2>1
    <2> QED BY <2>1, <2>2 DEF FoundInv, AskInv
  <1> QED BY <1>2, <1>3, <1>4, <1>5 DEF EntryInv

(* What is cut off between the pool and .env is marked.                    *)
LEMMA InterruptEnters ==
    ASSUME EntryInv, NEW t \in Terminals, Interrupt(t)
    PROVE  EntryInv'
  <1>1. /\ cmd' = [cmd EXCEPT ![t] = Idle] /\ cmd[t] # Idle
        /\ UNCHANGED <<env, around, pool, typed, saved, reentered, raced>>
        /\ unmirrored \subseteq unmirrored'
        /\ IsAt(t, "mirror") => cmd[t].cfg.provider \in unmirrored'
        BY DEF Interrupt, Ends, Becomes
  <1>2. EnvOK /\ SavedInv /\ typed' \in Nat /\ pool' = [r \in Providers |-> pool'[r]]
        BY <1>1 DEF EntryInv, EnvOK
  <1>3. /\ EnvOK' /\ SavedInv'
        /\ \A d \in Processes : FoundInv(d) => FoundInv(d)'
        /\ \A v : LinesOf(v) # {} => LinesOf(v)' # {}
        BY <1>1, <1>2, NoLineKeeps
  <1>4. PoolInv'
        BY <1>1, <1>3, PoolKeeps
  <1> QED BY <1>1, <1>3, <1>4, EntryMoves

LEMMA NextEnters == EntryInv /\ HomeInv /\ [Next]_vars => EntryInv'
  <1> SUFFICES ASSUME EntryInv, HomeInv, [Next]_vars PROVE EntryInv'
      OBVIOUS
  <1>1. pool = [r \in Providers |-> pool[r]]
        BY DEF EntryInv, EnvOK
  <1>2. CASE UNCHANGED vars \/ DeleteTorn
    <2>1. UNCHANGED <<env, around, cmd, typed, pool, saved, reentered, raced, unmirrored>>
          BY <1>2 DEF vars, files, history, DeleteTorn
    <2> QED BY <1>1, <2>1, RestEnters
  <1>3. ASSUME NEW t \in Terminals, Model(t) PROVE EntryInv'
    <2>1. ASSUME Pick(t) PROVE EntryInv'
      <3>1. \/ \E p \in Offered : SetModel(t, p) /\ p # None
            \/ UNCHANGED <<env, around, cmd, typed, pool, saved, reentered, raced, unmirrored>>
            BY <2>1 DEF Pick, files, history
      <3>2. \A p \in Offered : p # None => p \in Providers
            BY DEF Offered, Known
      <3> QED BY <1>1, <3>1, <3>2, ModelEnters, RestEnters
    <2> QED BY <1>3, <2>1, ModelEnters, PromptsEnter DEF Model
  <1>4. ASSUME NEW t \in Terminals, Wizard(t) PROVE EntryInv'
        BY <1>4, WizardEnters, PromptsEnter DEF Wizard
  <1>5. ASSUME NEW t \in Terminals, Auth(t) PROVE EntryInv'
    <2>1. ASSUME NEW p \in Providers, NEW l, AuthRemove(t, p, l) PROVE EntryInv'
      <3>1. /\ pool' = [pool EXCEPT ![p] = WithoutLabel(p, l)]
            /\ UNCHANGED <<env, around, cmd, typed, saved, reentered, raced, unmirrored>>
            BY <2>1 DEF AuthRemove, history
      <3>2. DOMAIN WithoutLabel(p, l) \subseteq DOMAIN pool[p]
            BY DEF WithoutLabel
      <3>3. /\ pool' = [r \in Providers |-> pool'[r]]
            /\ \A r \in Providers : DOMAIN pool'[r] \subseteq DOMAIN pool[r]
            BY <1>1, <3>1, <3>2
      <3> QED BY <3>1, <3>3, RestEnters
    <2> QED BY <1>5, <2>1, AuthAddEnters, MirrorEnters DEF Auth
  <1>6. ASSUME NEW t \in Terminals, AskKey(t) \/ Interrupt(t) PROVE EntryInv'
        BY <1>6, PromptsEnter, InterruptEnters
  <1> QED BY <1>2, <1>3, <1>4, <1>5, <1>6 DEF Next

LEMMA InitEnters == Init => EntryInv
  <1> SUFFICES ASSUME Init PROVE EntryInv
      OBVIOUS
  <1>1. EnvOK
    <2>1. env \in Seq([var : Vars, key : Nat])
          BY SettingsAssumption DEF Init
    <2> QED BY <2>1 DEF Init, EnvOK
  <1>2. CmdOK /\ SavedInv /\ \A t \in Terminals : cmd[t] = Idle
        BY DEF Init, CmdOK, SavedInv
  <1>3. PoolInv
    <2>1. \A p \in Known : DOMAIN pool[p] = {}
          BY DEF Init, Known
    <2> QED BY <2>1 DEF PoolInv
  <1> QED BY <1>1, <1>2, <1>3 DEF EntryInv

LEMMA EnteredMeansUsed == EntryInv => EnteredKeysAreUsed
  <1> SUFFICES ASSUME EntryInv PROVE NewKeyIsUsed /\ PooledKeyIsMirrored
      BY DEF EnteredKeysAreUsed
  <1>1. EnvOK
        BY DEF EntryInv
  <1>2. ASSUME NEW v \in Vars, saved[v] # Unset
        PROVE  \/ Environment[v] = saved[v]
               \/ around.exported[v] # Unset \/ Blank(v) \/ Garbled
               \/ v \in reentered \cup raced
    <2>1. Excused(v) \/ v \in reentered \cup raced \/ FirstLine(v, saved[v])
          BY <1>2 DEF EntryInv, SavedInv
    <2>2. ASSUME FirstLine(v, saved[v]), ~Excused(v) PROVE Environment[v] = saved[v]
          BY <1>1, <2>2, FirstLineIsFound DEF Excused
    <2> QED BY <2>1, <2>2 DEF Excused
  <1>3. ASSUME NEW p \in Known \ Keyless, DOMAIN pool[p] # {}
        PROVE  \/ ~Missing(Environment, Owner(p)) \/ p \in unmirrored
               \/ around.exported[Owner(p)] = 0 \/ Blank(Owner(p)) \/ Garbled
               \/ Mirroring(p)
    <2>1. PICK v \in Vars : v = Owner(p)
          BY NamesOfVariables
    <2>2. LinesOf(v) # {} \/ p \in unmirrored \/ Mirroring(p)
          BY <1>3, <2>1 DEF EntryInv, PoolInv
    <2>3. CASE around.exported[v] # Unset
      <3>1. Environment[v] = around.exported[v]
            BY <2>3 DEF Environment
      <3> QED BY <2>1, <2>3, <3>1 DEF Missing
    <2>4. CASE around.exported[v] = Unset
      <3>1. Missing(Environment, v) /\ ~Garbled /\ ~Blank(v) => LinesOf(v) = {}
            BY <1>1, <2>4, MissingNow DEF Excused
      <3> QED BY <2>1, <2>2, <3>1
    <2> QED BY <2>3, <2>4
  <1> QED BY <1>2, <1>3 DEF NewKeyIsUsed, PooledKeyIsMirrored, Mirroring

(* A key that was typed is the key the next process uses, and a pooled key *)
(* has its line in .env, for any number of terminals, lines and commands   *)
(* that interleave and are interrupted, but for the causes the property    *)
(* lists: an export, an empty or garbled line in front, a race between two *)
(* commands, a key that setup was told to replace, and a command cut off   *)
(* between auth.yaml and .env.                                             *)
THEOREM EnteredKeysAreTheUsed == Spec => []EnteredKeysAreUsed
  <1>1. Init => HomeInv /\ CmdType /\ EntryInv
        BY InitHome, InitEnters
  <1>2. (HomeInv /\ CmdType /\ EntryInv) /\ [Next]_vars => (HomeInv /\ CmdType /\ EntryInv)'
        BY NextHome, NextEnters
  <1>3. Spec => [](HomeInv /\ CmdType /\ EntryInv)
        BY <1>1, <1>2, PTL DEF Spec
  <1> QED BY <1>3, EnteredMeansUsed, PTL

(***************************************************************************)
(* The directory the processes share: what its parts and the processes     *)
(* hold.                                                                   *)
(***************************************************************************)
Paths == Files \cup {"bodies", "index"}
Content(f) == (SUBSET EntriesOf(f)) \cup (IF f \in Files THEN {Unreadable} ELSE {})
Thing == Sessions \cup Parts \cup UNION {EntriesOf(f) : f \in Paths}
AtChat == {"chat", "index", "line", "skill", "insert", "find", "touch"}
Alone == {"idle", "browser", "unlink", "prune", "copy", "unpack", "remove"}
Frame == [at : AtChat \cup Alone \cup {"save"}, always : SUBSET Items, dir : 0..MaxDirs,
          sid : Sessions \cup {0}, said : Nat, ord : Nat, file : Files \cup {"none"},
          copy : SUBSET Thing, add : SUBSET Thing, del : SUBSET Thing, form : Forms,
          skills : SUBSET (Items \X {"user", "bundled"})]
(* A process in a chat has a session, and one that is not has none.        *)
Placed(r) == (r.at \in AtChat => r.sid # 0) /\ (r.at \in Alone => r.sid = 0)
ProcTypes == proc \in [Procs -> Frame] /\ \A q \in Procs : Placed(proc[q])

FileTypes ==
    /\ live \in 1..MaxDirs
    /\ file \in [0..MaxDirs -> [Paths -> UNION {Content(f) : f \in Paths}]]
    /\ \A d \in 0..MaxDirs : \A f \in Paths : file[d][f] \in Content(f)
    /\ expired \subseteq Items
    /\ kept \in [Files -> SUBSET Thing]
    /\ \A f \in Files : kept[f] \in SUBSET EntriesOf(f)
    /\ \A f \in Paths : f \in DOMAIN archive.held => archive.held[f] \in Content(f)

Stored == Databases \cup {Corrupt}
ArchiveTypes ==
    /\ archive = [held |-> archive.held, was |-> archive.was, whole |-> archive.whole]
    /\ DOMAIN archive.held \subseteq Parts
(* The rows of a session that one process wrote are numbered in the order  *)
(* of their ids, and have a session.                                       *)
Proper(D) ==
    /\ \A r \in D.rows : r.id < D.next /\ r.sid \in DOMAIN D.updated
    /\ \A r, t \in D.rows : r.id < t.id /\ r.who = t.who /\ r.sid = t.sid => r.ord < t.ord
    /\ \E most \in Nat : \A r \in D.rows : r.ord <= most
Sound(D) == D = Corrupt \/ (D \in Databases /\ Proper(D))
DbSound ==
    /\ db \in [0..MaxDirs -> [main : Stored, now : Stored]]
    /\ \A d \in 0..MaxDirs : Sound(db[d].now) /\ Sound(db[d].main)
    /\ "main" \in DOMAIN archive.held => Sound(archive.held["main"])
    /\ "wal" \in DOMAIN archive.held => Sound(archive.held["wal"].now)
Unpacking == \E p \in Procs : Is(p, "unpack")
(* One import at a time, of an archive that is not being written.          *)
AtArchive ==
    \A p, q \in Procs : Is(p, "unpack") =>
        /\ ~Is(q, "copy")
        /\ Is(q, "unpack") => p = q
        /\ proc[p].del \subseteq DOMAIN archive.held
Connections ==
    \A q \in Procs : Connected(q) =>
        /\ proc[q].dir \in 0..live
        /\ Now(proc[q].dir) # Corrupt
        /\ Unpacking => proc[q].dir # live
Sids == active \cup untouched \subseteq Sessions

(* One process goes on: it holds what it should, and the others stay.      *)
LEMMA FrameMoves ==
    ASSUME ProcTypes, NEW p \in Procs, NEW r \in Frame, Placed(r), proc' = [proc EXCEPT ![p] = r]
    PROVE  ProcTypes' /\ proc'[p] = r /\ \A q \in Procs \ {p} : proc'[q] = proc[q]
    BY DEF ProcTypes

LEMMA RestingFrame == Resting \in Frame /\ Placed(Resting)
  BY HomeAssumption DEF Resting, Frame, Placed, AtChat, Alone, Forms

(* A step of one process that goes to another place.                       *)
LEMMA Going ==
    ASSUME ProcTypes, NEW p \in Procs, NEW at \in AtChat \cup Alone \cup {"save"}, Goes(p, at),
           Placed([proc[p] EXCEPT !.at = at])
    PROVE  /\ ProcTypes'
           /\ proc'[p] = [proc[p] EXCEPT !.at = at]
           /\ \A q \in Procs \ {p} : proc'[q] = proc[q]
  BY DEF ProcTypes, Goes, Frame

LEMMA EditTypes ==
    ASSUME ProcTypes, FileTypes, NEW p \in Procs, NEW f \in Files, NEW base, NEW add, NEW del,
           base \subseteq EntriesOf(f), add \subseteq EntriesOf(f), del \subseteq Thing,
           Edit(p, f, base, add, del)
    PROVE  /\ ProcTypes'
           /\ proc'[p].at = "save" /\ proc'[p].file = f
           /\ proc'[p].add = add /\ proc'[p].del = del /\ proc'[p].copy = (base \ del) \cup add
           /\ proc'[p].sid = proc[p].sid /\ proc'[p].dir = proc[p].dir
           /\ proc'[p].always = proc[p].always
           /\ \A q \in Procs \ {p} : proc'[q] = proc[q]
  <1>1. EntriesOf(f) \subseteq Thing
        BY DEF Thing, Paths
  <1>2. add \in SUBSET Thing /\ del \in SUBSET Thing /\ (base \ del) \cup add \in SUBSET Thing
        BY <1>1
  <1>3. proc[p] \in Frame
        BY DEF ProcTypes
  <1> DEFINE r == [proc[p] EXCEPT !.at = "save", !.file = f, !.add = add, !.del = del,
                                  !.copy = (base \ del) \cup add]
  <1>4. r \in Frame
        BY <1>2, <1>3 DEF Frame
  <1>5. Placed(r)
        BY <1>3 DEF Placed, Frame, AtChat, Alone
  <1>6. proc' = [proc EXCEPT ![p] = r]
        BY DEF Edit, ProcTypes
  <1>7. ProcTypes' /\ proc'[p] = r /\ \A q \in Procs \ {p} : proc'[q] = proc[q]
        BY <1>4, <1>5, <1>6, FrameMoves
  <1> QED BY <1>3, <1>7 DEF Frame

LEMMA EntriesOfTypes ==
    /\ \A f \in {"approvals", "join", "tokens", "fallback", "bodies", "index"} : EntriesOf(f) = Items
    /\ EntriesOf("curator") = {"paused"}
  BY DEF EntriesOf

LEMMA ServersOf == EntriesOf("mcp") = Items \X {"stdio", "http"} \X BOOLEAN
  BY DEF EntriesOf

LEMMA EntriesAreThings == \A f \in Paths : EntriesOf(f) \subseteq Thing
  <1> SUFFICES ASSUME NEW f \in Paths PROVE EntriesOf(f) \subseteq Thing
      OBVIOUS
  <1>1. EntriesOf(f) \in {EntriesOf(g) : g \in Paths}
        OBVIOUS
  <1> QED BY <1>1 DEF Thing

LEMMA ThingsAre == Sessions \subseteq Thing /\ Parts \subseteq Thing /\ Items \subseteq Thing
  <1>1. Items \subseteq Thing
        BY EntriesOfTypes, EntriesAreThings DEF Paths, Files
  <1>2. Sessions \subseteq Thing /\ Parts \subseteq Thing
    <2>1. \A t : t \in Sessions \/ t \in Parts => t \in Thing
          BY DEF Thing
    <2> QED BY <2>1
  <1> QED BY <1>1, <1>2

LEMMA EntriesAre ==
    ASSUME FileTypes, NEW f \in Files
    PROVE  Entries(f) \subseteq EntriesOf(f)
  BY DEF FileTypes, Entries, Content, Paths

(* A command that changes a file: what it leaves in its copy is what the   *)
(* change makes of what it read.                                           *)
Edits(p) ==
    \E f \in Files \ {"approvals"} :
        \E add, base \in SUBSET EntriesOf(f), del \in SUBSET Thing :
            /\ proc[p].at \in {"idle", "chat", "browser"}
            /\ (base \ del) \cup add = (Entries(f) \ del) \cup add
            /\ Edit(p, f, base, add, del)

LEMMA YamlEdits ==
    ASSUME ProcTypes, FileTypes, NEW p \in Procs, Yaml(p),
           proc[p].at = "browser" => proc[p].add \subseteq Items
    PROVE  \/ Edits(p)
           \/ Save(p)
           \/ \E x \in Items : RememberAlways(p, x) \/ McpOauth(p, x)
  <1>1. ASSUME NEW f \in Files \ {"approvals"}, NEW add \in SUBSET EntriesOf(f),
               NEW base \in SUBSET EntriesOf(f), NEW del \in SUBSET Thing,
               proc[p].at \in {"idle", "chat", "browser"},
               (base \ del) \cup add = (Entries(f) \ del) \cup add,
               Edit(p, f, base, add, del)
        PROVE  Edits(p)
        BY <1>1 DEF Edits
  <1>2. \A f \in Files : Entries(f) \in SUBSET EntriesOf(f) /\ SUBSET EntriesOf(f) \subseteq SUBSET Thing
        BY EntriesAre, EntriesAreThings DEF Paths
  <1>3. ASSUME NEW n \in Items PROVE Server(n) \subseteq EntriesOf("mcp") /\ Server(n) \subseteq Thing
        BY ServersOf, EntriesAreThings DEF Server, Paths, Files
  <1>4. ASSUME NEW x \in Items, Share(p, x) PROVE Edits(p)
        BY <1>1, <1>2, <1>4, EntriesOfTypes DEF Share, JoinKeys, InChat, Is, Stale, FileTypes, Files, Paths
  <1>5. ASSUME NEW x \in Items, FallbackAdd(p, x) \/ FallbackRemove(p, x) PROVE Edits(p)
    <2>1. /\ "fallback" \in Files \ {"approvals"}
          /\ {x} \in SUBSET EntriesOf("fallback") /\ {} \in SUBSET EntriesOf("fallback")
          /\ {x} \in SUBSET Thing /\ {} \in SUBSET Thing
          BY <1>2, EntriesOfTypes DEF Files
    <2>2. CASE FallbackAdd(p, x)
          BY <1>1, <1>2, <2>1, <2>2 DEF FallbackAdd, Chain, Command, Is
    <2>3. CASE FallbackRemove(p, x)
      <3>1. Edit(p, "fallback", Entries("fallback"), {}, {x}) /\ proc[p].at = "idle"
            BY <2>3 DEF FallbackRemove, Chain, Command, Is
      <3> QED BY <1>1, <1>2, <2>1, <3>1
    <2> QED BY <1>5, <2>2, <2>3
  <1>6. ASSUME NEW x \in Items, McpAdd(p, x) \/ McpAddHttp(p, x) PROVE Edits(p)
    <2>1. /\ "mcp" \in Files \ {"approvals"}
          /\ \A how \in {"stdio", "http"} : {<<x, how, TRUE>>} \in SUBSET EntriesOf("mcp")
          BY ServersOf DEF Files
    <2>2. \E how \in {"stdio", "http"} :
              Edit(p, "mcp", Entries("mcp"), {<<x, how, TRUE>>}, Server(x)) /\ proc[p].at = "idle"
          BY <1>6 DEF McpAdd, McpAddHttp, Servers, Command, Is
    <2> QED BY <1>1, <1>2, <1>3, <2>1, <2>2
  <1>7. ASSUME NEW x \in Items, McpRemove(p, x) PROVE Edits(p)
        BY <1>1, <1>2, <1>3, <1>7 DEF McpRemove, Servers, Command, Is, Files, Paths
  <1>8. ASSUME NEW x \in Items, NEW enabled \in BOOLEAN, McpToggle(p, x, enabled) PROVE Edits(p)
    <2>1. {<<x, e[2], enabled>> : e \in Named(x)} \subseteq EntriesOf("mcp")
          BY <1>2, ServersOf DEF Named, Server, Servers, Files
    <2> QED BY <1>1, <1>2, <1>3, <1>8, <2>1 DEF McpToggle, Servers, Command, Is, Files, Paths
  <1>9. ASSUME Authorized(p) PROVE Edits(p)
        BY <1>1, <1>2, <1>9, EntriesOfTypes DEF Authorized, Tokens, Is, Files, Paths
  <1>10. ASSUME FallbackClear(p) PROVE Edits(p)
    <2>1. ({} \ Items) \cup {} = (Entries("fallback") \ Items) \cup {} /\ Items \in SUBSET Thing
          BY <1>2, EntriesOfTypes DEF Files, Paths
    <2> QED BY <1>1, <1>10, <2>1 DEF FallbackClear, Command, Is, Files
  <1>11. ASSUME CuratorPause(p) \/ CuratorResume(p) PROVE Edits(p)
    <2>1. /\ ({} \ {}) \cup {"paused"} = (Entries("curator") \ {}) \cup {"paused"}
          /\ ({} \ {"paused"}) \cup {} = (Entries("curator") \ {"paused"}) \cup {}
          /\ {"paused"} \in SUBSET Thing /\ {"paused"} \in SUBSET EntriesOf("curator")
          BY <1>2, EntriesOfTypes DEF Files, Paths
    <2> QED BY <1>1, <1>11, <2>1 DEF CuratorPause, CuratorResume, Command, Is, Files
  <1> QED BY <1>4, <1>5, <1>6, <1>7, <1>8, <1>9, <1>10, <1>11 DEF Yaml

LEMMA RememberTypes ==
    ASSUME ProcTypes, NEW p \in Procs, NEW tool \in Items, RememberAlways(p, tool)
    PROVE  /\ ProcTypes'
           /\ proc[p].at = "chat"
           /\ LET known == proc[p].always \cup {tool} IN
              proc'[p] = [proc[p] EXCEPT !.always = known, !.at = "save", !.copy = known,
                                         !.file = "approvals", !.add = {tool}, !.del = {}]
           /\ \A q \in Procs \ {p} : proc'[q] = proc[q]
  <1> DEFINE known == proc[p].always \cup {tool}
             r == [proc[p] EXCEPT !.always = known, !.at = "save", !.copy = known,
                                  !.file = "approvals", !.add = {tool}, !.del = {}]
  <1>1. proc[p] \in Frame /\ proc[p].at = "chat"
        BY DEF ProcTypes, RememberAlways, InChat, Is
  <1>2. known \subseteq Items /\ known \subseteq Thing /\ {tool} \subseteq Thing
        BY <1>1, EntriesOfTypes, EntriesAreThings DEF Frame, Paths, Files
  <1>3. r \in Frame /\ Placed(r)
        BY <1>1, <1>2 DEF Frame, Placed, AtChat, Alone, Files
  <1>4. proc' = [proc EXCEPT ![p] = r]
        BY DEF RememberAlways, ProcTypes
  <1> QED BY <1>1, <1>3, <1>4, FrameMoves

LEMMA YamlTypes ==
    ASSUME ProcTypes, FileTypes, NEW p \in Procs, Yaml(p),
           proc[p].at = "browser" => proc[p].add \subseteq Items
    PROVE  ProcTypes'
  <1>1. CASE Edits(p)
        BY <1>1, EditTypes DEF Edits
  <1>2. CASE Save(p)
    <2>1. Goes(p, Rest(p)) /\ Rest(p) \in {"chat", "idle"}
          BY <1>2 DEF Save, Rest
    <2>2. Placed([proc[p] EXCEPT !.at = Rest(p)])
          BY DEF ProcTypes, Frame, Placed, Rest, Chatting, AtChat, Alone
    <2> QED BY <2>1, <2>2, Going DEF AtChat, Alone
  <1>3. ASSUME NEW x \in Items, RememberAlways(p, x) PROVE ProcTypes'
        BY <1>3, RememberTypes
  <1>4. ASSUME NEW x \in Items, McpOauth(p, x) PROVE ProcTypes'
    <2> DEFINE r == [proc[p] EXCEPT !.at = "browser", !.add = {x}]
    <2>1. proc' = [proc EXCEPT ![p] = r] /\ proc[p] \in Frame /\ proc[p].at = "idle"
          BY <1>4 DEF McpOauth, ProcTypes, Command, Is
    <2>2. {x} \subseteq Thing
          BY EntriesOfTypes, EntriesAreThings DEF Paths, Files
    <2>3. r \in Frame
          BY <2>1, <2>2 DEF Frame, Alone
    <2>4. Placed(r)
          BY <2>1 DEF ProcTypes, Placed, Frame, AtChat, Alone
    <2> QED BY <2>1, <2>3, <2>4, FrameMoves
  <1> QED BY <1>1, <1>2, <1>3, <1>4, YamlEdits

LEMMA MemoryTypes ==
    ASSUME ProcTypes, FileTypes, NEW p \in Procs, Memory(p),
           proc[p].at = "index" => proc[p].add \cup proc[p].del \subseteq Items
    PROVE  ProcTypes'
  <1>0. Items \subseteq Thing
        BY EntriesOfTypes, EntriesAreThings DEF Paths, Files
  <1>1. ASSUME NEW x \in Items, MemoryWrite(p, x) \/ MemoryDelete(p, x) PROVE ProcTypes'
    <2>0. \E bodies : Body(p, bodies, {x}, {}) \/ Body(p, bodies, {}, {x})
          BY <1>1 DEF MemoryWrite, MemoryDelete
    <2>1. PICK add \in SUBSET Thing, del \in SUBSET Thing :
              proc' = [proc EXCEPT ![p].at = "index", ![p].add = add, ![p].del = del]
      <3>1. {x} \in SUBSET Thing /\ {} \in SUBSET Thing
            BY <1>0
      <3> QED BY <2>0, <3>1 DEF Body
    <2> DEFINE r == [proc[p] EXCEPT !.at = "index", !.add = add, !.del = del]
    <2>2. proc' = [proc EXCEPT ![p] = r] /\ proc[p] \in Frame /\ proc[p].at = "chat"
          BY <1>1, <2>1 DEF MemoryWrite, MemoryDelete, ProcTypes, InChat, Is
    <2>3. r \in Frame
          BY <2>2 DEF Frame, AtChat
    <2>4. Placed(r)
          BY <2>2 DEF ProcTypes, Placed, Frame, AtChat, Alone
    <2> QED BY <2>2, <2>3, <2>4, FrameMoves
  <1>2. CASE ReadIndex(p)
    <2>1. PICK new \in SUBSET Thing, at \in {"chat", "line"} :
              proc' = [proc EXCEPT ![p].copy = new, ![p].at = at]
      <3>1. IndexText \subseteq Items
            BY EntriesOfTypes DEF IndexText, FileTypes, Content, Paths, Files
      <3> DEFINE new == IF proc[p].add = {} THEN Stripped(IndexText, proc[p].del)
                                            ELSE Upserted(IndexText, proc[p].add)
      <3>2. new \in SUBSET Thing
            BY <1>0, <1>2, <3>1 DEF Stripped, Upserted, ReadIndex, Is
      <3> QED BY <1>2, <3>2 DEF ReadIndex
    <2> DEFINE r == [proc[p] EXCEPT !.copy = new, !.at = at]
    <2>2. proc' = [proc EXCEPT ![p] = r] /\ proc[p] \in Frame /\ proc[p].at = "index"
          BY <1>2, <2>1 DEF ReadIndex, ProcTypes, Is
    <2>3. r \in Frame
          BY <2>2 DEF Frame, AtChat
    <2>4. Placed(r)
          BY <2>2 DEF ProcTypes, Placed, Frame, AtChat, Alone
    <2> QED BY <2>2, <2>3, <2>4, FrameMoves
  <1>3. CASE WriteIndex(p)
    <2>1. Goes(p, "chat") /\ proc[p].at = "line"
          BY <1>3 DEF WriteIndex, Is
    <2>2. Placed([proc[p] EXCEPT !.at = "chat"])
          BY <2>1 DEF ProcTypes, Frame, Placed, AtChat, Alone
    <2> QED BY <2>1, <2>2, Going DEF AtChat
  <1> QED BY <1>1, <1>2, <1>3 DEF Memory

LEMMA GreatestOfSome ==
    ASSUME NEW S \in SUBSET Nat, S # {}, NEW most \in Nat, \A i \in S : i <= most
    PROVE  \E i \in S : \A k \in S : k <= i
  <1> DEFINE Remainders == {r \in 0..most : most - r \in S}
  <1>1. Remainders \in SUBSET Nat /\ Remainders # {}
    <2>1. PICK i \in S : TRUE
          OBVIOUS
    <2>2. most - i \in 0..most /\ most - (most - i) = i
          BY <2>1
    <2> QED BY <2>1, <2>2
  <1>2. PICK r \in Remainders : \A o \in Remainders : r <= o
        BY <1>1, LeastOfSome
  <1>3. ASSUME NEW k \in S PROVE k <= most - r
    <2>1. most - k \in 0..most /\ most - (most - k) = k
          BY <1>3
    <2>2. r <= most - k /\ r \in Nat
          BY <1>1, <1>2, <2>1
    <2> QED BY <1>3, <2>2
  <1> QED BY <1>2, <1>3

(* The number the next message of a session gets is above those it has.    *)
LEMMA NextIsAbove ==
    ASSUME NEW d, NEW s, Now(d) \in Databases, Proper(Now(d))
    PROVE  /\ NextOrd(d, s) \in Nat
           /\ \A r \in Now(d).rows : r.sid = s => r.ord < NextOrd(d, s)
  <1>1. \A r \in Now(d).rows : r.ord \in Nat
        BY DEF Databases
  <1>2. OrdsOf(d, s) \in SUBSET Nat
        BY <1>1 DEF OrdsOf
  <1>3. \A r \in Now(d).rows : r.sid = s => r.ord \in OrdsOf(d, s)
        BY DEF OrdsOf
  <1>4. CASE OrdsOf(d, s) = {}
        BY <1>3, <1>4 DEF NextOrd
  <1>5. CASE OrdsOf(d, s) # {}
    <2> DEFINE greatest == CHOOSE o \in OrdsOf(d, s) : \A other \in OrdsOf(d, s) : other <= o
    <2>1. PICK most \in Nat : \A r \in Now(d).rows : r.ord <= most
          BY DEF Proper
    <2>2. \A o \in OrdsOf(d, s) : o <= most
          BY <2>1 DEF OrdsOf
    <2>3. \E o \in OrdsOf(d, s) : \A other \in OrdsOf(d, s) : other <= o
          BY <1>2, <1>5, <2>2, GreatestOfSome
    <2>4. greatest \in OrdsOf(d, s) /\ \A other \in OrdsOf(d, s) : other <= greatest
          BY <2>3
    <2>5. NextOrd(d, s) = 1 + greatest
          BY <1>5 DEF NextOrd
    <2> HIDE DEF greatest
    <2>6. \A o \in OrdsOf(d, s) : o < 1 + greatest
          BY <1>2, <2>4
    <2> QED BY <1>2, <1>3, <2>4, <2>5, <2>6
  <1> QED BY <1>4, <1>5

(* A process that is connected uses a database that can be read.           *)
LEMMA ConnectedToSound ==
    ASSUME ProcTypes, DbSound, Connections, FileTypes, NEW q \in Procs, Connected(q)
    PROVE  /\ proc[q].dir \in 0..MaxDirs
           /\ Now(proc[q].dir) \in Databases /\ Proper(Now(proc[q].dir))
  BY DEF Connections, DbSound, Sound, Now, FileTypes, ProcTypes, Frame

LEMMA ChatsAreConnected ==
    ASSUME ProcTypes, NEW q \in Procs, proc[q].at \in AtChat
    PROVE  Connected(q) /\ proc[q].sid \in Sessions /\ Rest(q) = "chat"
  BY DEF ProcTypes, Frame, Placed, Connected, Chatting, Rest

(* A process that leaves its chat or its command.                          *)
LEMMA Leaving ==
    ASSUME ProcTypes, NEW p \in Procs, proc' = [proc EXCEPT ![p] = Resting]
    PROVE  ProcTypes' /\ proc'[p] = Resting /\ \A q \in Procs \ {p} : proc'[q] = proc[q]
  BY RestingFrame, FrameMoves

(* A process that goes on within its chat.                                 *)
LEMMA Chatters ==
    ASSUME ProcTypes, NEW p \in Procs, NEW at \in AtChat, proc[p].at \in AtChat, Goes(p, at)
    PROVE  /\ ProcTypes'
           /\ proc'[p] = [proc[p] EXCEPT !.at = at]
           /\ \A q \in Procs \ {p} : proc'[q] = proc[q]
  <1>1. Placed([proc[p] EXCEPT !.at = at])
        BY DEF ProcTypes, Frame, Placed, AtChat, Alone
  <1> QED BY <1>1, Going

(* A process that goes on outside of any chat.                             *)
LEMMA Loners ==
    ASSUME ProcTypes, NEW p \in Procs, NEW at \in Alone, proc[p].at \in Alone, Goes(p, at)
    PROVE  /\ ProcTypes'
           /\ proc'[p] = [proc[p] EXCEPT !.at = at]
           /\ \A q \in Procs \ {p} : proc'[q] = proc[q]
  <1>1. Placed([proc[p] EXCEPT !.at = at])
        BY DEF ProcTypes, Frame, Placed, AtChat, Alone
  <1> QED BY <1>1, Going

LEMMA OpenChatTypes ==
    ASSUME ProcTypes, FileTypes, NEW p \in Procs, NEW s \in Sessions, OpenChat(p, s)
    PROVE  /\ ProcTypes'
           /\ proc'[p] = [Resting EXCEPT !.at = "chat", !.dir = live, !.sid = s,
                                         !.always = Approvals, !.skills = Loaded]
           /\ \A q \in Procs \ {p} : proc'[q] = proc[q]
  <1> DEFINE r == [Resting EXCEPT !.at = "chat", !.dir = live, !.sid = s,
                                  !.always = Approvals, !.skills = Loaded]
  <1>1. Approvals \subseteq Items
        BY EntriesAre, EntriesOfTypes DEF Approvals, Files
  <1>2. Loaded \subseteq Items \X {"user", "bundled"}
        BY HomeAssumption DEF Loaded
  <1>3. live \in 0..MaxDirs
        BY HomeAssumption DEF FileTypes
  <1>4. r \in Frame
        BY <1>1, <1>2, <1>3, RestingFrame DEF Frame, AtChat
  <1>5. Placed(r)
        BY HomeAssumption DEF Placed, Resting, AtChat, Alone
  <1>6. proc' = [proc EXCEPT ![p] = r]
        BY DEF OpenChat
  <1> QED BY <1>4, <1>5, <1>6, FrameMoves

LEMMA SelectOrdTypes ==
    ASSUME ProcTypes, FileTypes, DbSound, Connections, NEW p \in Procs, SelectOrd(p)
    PROVE  /\ ProcTypes'
           /\ proc'[p] = [proc[p] EXCEPT !.at = "insert", !.ord = NextOrd(proc[p].dir, proc[p].sid)]
           /\ \A q \in Procs \ {p} : proc'[q] = proc[q]
  <1> DEFINE r == [proc[p] EXCEPT !.at = "insert", !.ord = NextOrd(proc[p].dir, proc[p].sid)]
  <1>1. proc[p] \in Frame /\ proc[p].at = "chat"
        BY DEF ProcTypes, SelectOrd, InChat, Is
  <1>2. NextOrd(proc[p].dir, proc[p].sid) \in Nat
        BY <1>1, ChatsAreConnected, ConnectedToSound, NextIsAbove DEF AtChat
  <1>3. r \in Frame
        BY <1>1, <1>2 DEF Frame, AtChat
  <1>4. Placed(r)
        BY <1>1 DEF ProcTypes, Placed, Frame, AtChat, Alone
  <1>5. proc' = [proc EXCEPT ![p] = r]
        BY DEF SelectOrd, ProcTypes
  <1> QED BY <1>3, <1>4, <1>5, FrameMoves

(* The row goes in: the process goes on, and a prune that has looked hears *)
(* of it.                                                                  *)
LEMMA InsertRowTypes ==
    ASSUME ProcTypes, FileTypes, DbSound, Connections, NEW p \in Procs, InsertRow(p)
    PROVE  /\ ProcTypes'
           /\ proc'[p].at \in {"chat", "find"} /\ proc'[p].sid = proc[p].sid
           /\ proc'[p].dir = proc[p].dir /\ proc'[p].always = proc[p].always
           /\ \A q \in Procs \ {p} :
                 \/ proc'[q] = proc[q]
                 \/ /\ Is(q, "prune") /\ proc[q].dir = proc[p].dir
                    /\ proc[p].sid \in DOMAIN Now(proc[p].dir).updated
                    /\ proc'[q] = [proc[q] EXCEPT !.add = @ \cup {proc[p].sid}]
  <1> DEFINE d == proc[p].dir
             s == proc[p].sid
  <1>1. proc[p] \in Frame /\ proc[p].at = "insert"
        BY DEF ProcTypes, InsertRow, Is
  <1>2. Now(d) \in Databases /\ s \in Sessions /\ s # 0
        BY <1>1, ChatsAreConnected, ConnectedToSound, HomeAssumption DEF AtChat
  <1>3. CASE s \notin DOMAIN Now(d).updated
    <2>1. Goes(p, "chat")
          BY <1>3 DEF InsertRow
    <2>2. /\ ProcTypes'
          /\ proc'[p] = [proc[p] EXCEPT !.at = "chat"]
          /\ \A q \in Procs \ {p} : proc'[q] = proc[q]
          BY <1>1, <2>1, Chatters DEF AtChat
    <2>3. /\ proc'[p].at = "chat" /\ proc'[p].sid = s
          /\ proc'[p].dir = d /\ proc'[p].always = proc[p].always
          BY <1>1, <2>2 DEF Frame
    <2> QED BY <2>2, <2>3
  <1>4. CASE s \in DOMAIN Now(d).updated
    <2> DEFINE r == [proc[p] EXCEPT !.at = "find", !.said = @ + 1, !.ord = Now(d).next]
    <2>1. proc' = [q \in Procs |->
                     IF q = p THEN r
                     ELSE IF Is(q, "prune") /\ proc[q].dir = d THEN [proc[q] EXCEPT !.add = @ \cup {s}]
                     ELSE proc[q]]
          BY <1>4 DEF InsertRow
    <2>2. r \in Frame
      <3>1. Now(d).next \in Nat
            BY <1>2 DEF Databases
      <3>2. proc[p].said + 1 \in Nat
            BY <1>1 DEF Frame
      <3> QED BY <1>1, <3>1, <3>2 DEF Frame, AtChat
    <2>3. Placed(r)
          BY <1>1, <1>2 DEF Placed, Frame, AtChat, Alone
    <2>4. ASSUME NEW q \in Procs PROVE [proc[q] EXCEPT !.add = @ \cup {s}] \in Frame
      <3>1. proc[q] \in Frame /\ proc[q].add \cup {s} \in SUBSET Thing
            BY <1>2, ThingsAre DEF ProcTypes, Frame
      <3> QED BY <3>1 DEF Frame
    <2>5. ASSUME NEW q \in Procs PROVE Placed([proc[q] EXCEPT !.add = @ \cup {s}])
      <3>1. proc[q] \in Frame /\ Placed(proc[q])
            BY DEF ProcTypes
      <3> QED BY <3>1 DEF Frame, Placed
    <2>6. ASSUME NEW q \in Procs PROVE proc'[q] \in Frame /\ Placed(proc'[q])
      <3>1. CASE q = p
            BY <2>1, <2>2, <2>3, <3>1
      <3>2. CASE q # p /\ Is(q, "prune") /\ proc[q].dir = d
            BY <2>1, <2>4, <2>5, <3>2
      <3>3. CASE q # p /\ ~(Is(q, "prune") /\ proc[q].dir = d)
            BY <2>1, <3>3 DEF ProcTypes
      <3> QED BY <3>1, <3>2, <3>3
    <2>7. ProcTypes'
          BY <2>1, <2>6 DEF ProcTypes
    <2>8. proc'[p].at = "find" /\ proc'[p].sid = s /\ proc'[p].dir = d /\ proc'[p].always = proc[p].always
          BY <1>1, <2>1 DEF Frame
    <2>9. \A q \in Procs \ {p} :
                 \/ proc'[q] = proc[q]
                 \/ /\ Is(q, "prune") /\ proc[q].dir = proc[p].dir
                    /\ proc'[q] = [proc[q] EXCEPT !.add = @ \cup {proc[p].sid}]
          BY <2>1
    <2> QED BY <1>4, <2>7, <2>8, <2>9
  <1> QED BY <1>3, <1>4

LEMMA PruneLooksTypes ==
    ASSUME ProcTypes, FileTypes, DbSound, Sids, NEW p \in Procs, PruneLooks(p)
    PROVE  /\ ProcTypes'
           /\ proc[p].at = "idle"
           /\ LET stale == {s \in DOMAIN Now(live).updated : Now(live).updated[s] = "old"} IN
              proc'[p] = [proc[p] EXCEPT !.at = "prune", !.dir = live, !.del = stale, !.add = Midway]
           /\ \A q \in Procs \ {p} : proc'[q] = proc[q]
  <1> DEFINE stale == {s \in DOMAIN Now(live).updated : Now(live).updated[s] = "old"}
             r == [proc[p] EXCEPT !.at = "prune", !.dir = live, !.del = stale, !.add = Midway]
  <1>1. proc[p] \in Frame /\ proc[p].at = "idle"
        BY DEF ProcTypes, PruneLooks, Command, Is
  <1>2. live \in 0..MaxDirs /\ Now(live) \in Databases
    <2>1. live \in 0..MaxDirs
          BY HomeAssumption DEF FileTypes
    <2> QED BY <2>1 DEF DbSound, Sound, PruneLooks, Now
  <1>3. DOMAIN Now(live).updated \subseteq Sessions
        BY <1>2 DEF Databases
  <1>4. stale \subseteq Thing
        BY <1>3, ThingsAre
  <1>5. ASSUME NEW q \in Procs, Between(q) PROVE proc[q].sid \in Sessions
        BY <1>5, ChatsAreConnected DEF Between, AtChat
  <1>6. Midway \subseteq Thing
        BY <1>5, ThingsAre DEF Midway, Sids
  <1>7. r \in Frame
        BY <1>1, <1>2, <1>4, <1>6 DEF Frame, Alone
  <1>8. Placed(r)
        BY <1>1 DEF ProcTypes, Placed, Frame, AtChat, Alone
  <1>9. proc' = [proc EXCEPT ![p] = r]
        BY DEF PruneLooks, ProcTypes
  <1> QED BY <1>1, <1>7, <1>8, <1>9, FrameMoves

LEMMA DatabaseTypes ==
    ASSUME ProcTypes, FileTypes, DbSound, Connections, Sids, NEW p \in Procs, Database(p)
    PROVE  ProcTypes'
  <1>1. CASE InsertFound(p)
        BY <1>1, Chatters DEF InsertFound, Is, AtChat
  <1>2. CASE TouchSession(p)
        BY <1>2, Chatters DEF TouchSession, Is, AtChat
  <1>3. CASE CloseChat(p)
        BY <1>3, Leaving DEF CloseChat
  <1>4. CASE PruneDeletes(p)
        BY <1>4, Leaving DEF PruneDeletes
  <1> QED BY <1>1, <1>2, <1>3, <1>4, OpenChatTypes, SelectOrdTypes, InsertRowTypes,
             PruneLooksTypes DEF Database

LEMMA LibraryTypes ==
    ASSUME ProcTypes, NEW p \in Procs, Library(p)
    PROVE  ProcTypes'
  <1>1. ASSUME NEW x \in Items, SkillCreate(p, x) \/ SkillUpdate(p, x) PROVE ProcTypes'
    <2> DEFINE r == [proc[p] EXCEPT !.at = "skill", !.add = {x}]
    <2>1. SkillBegins(p, x) /\ proc[p].at = "chat" /\ proc[p] \in Frame
          BY <1>1 DEF SkillCreate, SkillUpdate, InChat, Is, ProcTypes
    <2>2. proc' = [proc EXCEPT ![p].at = "skill", ![p].add = {x}]
          BY <2>1 DEF SkillBegins
    <2>3. proc' = [proc EXCEPT ![p] = r]
          BY <2>2 DEF ProcTypes
    <2>4. {x} \in SUBSET Thing
          BY ThingsAre
    <2>5. r \in Frame
          BY <2>1, <2>4 DEF Frame, AtChat
    <2>6. Placed(r)
          BY <2>1 DEF ProcTypes, Placed, Frame, AtChat, Alone
    <2> QED BY <2>3, <2>5, <2>6, FrameMoves
  <1>2. ASSUME NEW x \in Items, SkillsDelete(p, x) PROVE ProcTypes'
    <2>1. PICK form \in Forms :
              proc' = [proc EXCEPT ![p].at = "unlink", ![p].del = {x}, ![p].form = form]
          BY <1>2 DEF SkillsDelete, Candidates
    <2> DEFINE r == [proc[p] EXCEPT !.at = "unlink", !.del = {x}, !.form = form]
    <2>2. proc[p].at = "idle" /\ proc[p] \in Frame
          BY <1>2 DEF SkillsDelete, Command, Is, ProcTypes
    <2>3. proc' = [proc EXCEPT ![p] = r]
          BY <2>1 DEF ProcTypes
    <2>4. {x} \in SUBSET Thing
          BY ThingsAre
    <2>5. r \in Frame
          BY <2>2, <2>4 DEF Frame, Alone
    <2>6. Placed(r)
          BY <2>2 DEF ProcTypes, Placed, Frame, AtChat, Alone
    <2> QED BY <2>3, <2>5, <2>6, FrameMoves
  <1>3. CASE SkillWritten(p) \/ SkillWriteFails(p)
        BY <1>3, Chatters DEF SkillWritten, SkillWriteFails, Is, AtChat
  <1>4. CASE Unlink(p)
        BY <1>4, Leaving DEF Unlink
  <1> QED BY <1>1, <1>2, <1>3, <1>4 DEF Library

(* A process of an import or an uninstall goes on.                         *)
LEMMA Replacers ==
    ASSUME ProcTypes, NEW p \in Procs, NEW at \in Alone, NEW del \in SUBSET Parts,
           proc[p].at \in Alone, proc' = [proc EXCEPT ![p].at = at, ![p].del = del]
    PROVE  /\ ProcTypes'
           /\ proc'[p] = [proc[p] EXCEPT !.at = at, !.del = del]
           /\ \A q \in Procs \ {p} : proc'[q] = proc[q]
  <1> DEFINE r == [proc[p] EXCEPT !.at = at, !.del = del]
  <1>1. proc[p] \in Frame /\ del \in SUBSET Thing
        BY ThingsAre DEF ProcTypes
  <1>2. r \in Frame
        BY <1>1 DEF Frame
  <1>3. Placed(r)
        BY <1>1 DEF ProcTypes, Placed, Frame, AtChat, Alone
  <1>4. proc' = [proc EXCEPT ![p] = r]
        BY DEF ProcTypes
  <1> QED BY <1>2, <1>3, <1>4, FrameMoves

LEMMA ImportTypes ==
    ASSUME ProcTypes, ArchiveTypes, NEW p \in Procs, Import(p)
    PROVE  /\ ProcTypes'
           /\ proc'[p] = [proc[p] EXCEPT !.at = "unpack", !.del = DOMAIN archive.held]
           /\ \A q \in Procs \ {p} : proc'[q] = proc[q]
  BY Replacers DEF Import, Command, Is, ArchiveTypes, Alone

LEMMA UninstallTypes ==
    ASSUME ProcTypes, NEW p \in Procs, Uninstall(p)
    PROVE  /\ ProcTypes'
           /\ proc'[p] = [proc[p] EXCEPT !.at = "remove", !.del = Parts]
           /\ \A q \in Procs \ {p} : proc'[q] = proc[q]
  BY Replacers DEF Uninstall, Command, Is, Alone

LEMMA UnpackTypes ==
    ASSUME ProcTypes, NEW p \in Procs, NEW unit \in Units, Unpack(p, unit)
    PROVE  /\ ProcTypes'
           /\ proc'[p] = [proc[p] EXCEPT !.del = @ \ unit]
           /\ \A q \in Procs \ {p} : proc'[q] = proc[q]
  <1> DEFINE r == [proc[p] EXCEPT !.del = proc[p].del \ unit]
  <1>1. proc' = [proc EXCEPT ![p].del = proc[p].del \ unit]
        BY DEF Unpack
  <1>2. proc[p] \in Frame /\ Placed(proc[p])
        BY DEF ProcTypes
  <1>3. r \in Frame /\ Placed(r)
        BY <1>2 DEF Frame, Placed
  <1>4. proc' = [proc EXCEPT ![p] = r]
        BY <1>1 DEF ProcTypes
  <1> QED BY <1>3, <1>4, FrameMoves

(* The main file of the database goes: who has it open keeps it, by no     *)
(* name.                                                                   *)
Unlinks(unit, q) == unit = {"main"} /\ proc[q].dir = live
LEMMA RemovePartTypes ==
    ASSUME ProcTypes, NEW p \in Procs, NEW unit \in Units, RemovePart(p, unit)
    PROVE  /\ ProcTypes'
           /\ \A q \in Procs :
                /\ proc'[q].at = proc[q].at /\ proc'[q].file = proc[q].file
                /\ proc'[q].add = proc[q].add /\ proc'[q].copy = proc[q].copy
                /\ proc'[q].sid = proc[q].sid /\ proc'[q].always = proc[q].always
                /\ proc'[q].ord = proc[q].ord
                /\ q = p => proc'[q].del = proc[q].del \ unit
                /\ q # p => proc'[q].del = proc[q].del
                /\ Unlinks(unit, q) => proc'[q].dir = 0
                /\ ~Unlinks(unit, q) => proc'[q].dir = proc[q].dir
  <1> DEFINE R(q) == IF q = p THEN [proc[p] EXCEPT !.del = @ \ unit] ELSE proc[q]
             S(q) == IF unit = {"main"} /\ R(q).dir = live THEN [R(q) EXCEPT !.dir = 0] ELSE R(q)
  <1>1. proc' = [q \in Procs |-> S(q)]
        BY DEF RemovePart
  <1>2. ASSUME NEW q \in Procs PROVE S(q) \in Frame /\ Placed(S(q))
    <2>1. proc[q] \in Frame /\ Placed(proc[q]) /\ proc[p] \in Frame
          BY DEF ProcTypes
    <2>2. R(q) \in Frame /\ Placed(R(q))
          BY <2>1 DEF Frame, Placed
    <2> HIDE DEF R
    <2>3. 0 \in 0..MaxDirs
          BY HomeAssumption
    <2> QED BY <2>2, <2>3 DEF Frame, Placed
  <1> HIDE DEF S
  <1>3. ProcTypes'
        BY <1>1, <1>2 DEF ProcTypes
  <1>4. \A q \in Procs : proc'[q] = S(q)
        BY <1>1
  <1>5. ASSUME NEW q \in Procs
        PROVE  /\ R(q).at = proc[q].at /\ R(q).file = proc[q].file /\ R(q).add = proc[q].add
               /\ R(q).copy = proc[q].copy /\ R(q).sid = proc[q].sid
               /\ R(q).always = proc[q].always /\ R(q).ord = proc[q].ord
               /\ R(q).dir = proc[q].dir
               /\ R(q).del = IF q = p THEN proc[q].del \ unit ELSE proc[q].del
               /\ R(q) \in Frame
    <2>1. proc[q] \in Frame
          BY DEF ProcTypes
    <2> QED BY <2>1 DEF Frame
  <1> HIDE DEF R
  <1>6. ASSUME NEW q \in Procs
        PROVE  /\ S(q).at = R(q).at /\ S(q).file = R(q).file /\ S(q).add = R(q).add
               /\ S(q).copy = R(q).copy /\ S(q).sid = R(q).sid
               /\ S(q).always = R(q).always /\ S(q).ord = R(q).ord /\ S(q).del = R(q).del
               /\ S(q).dir = IF unit = {"main"} /\ R(q).dir = live THEN 0 ELSE R(q).dir
        BY <1>5 DEF Frame, S
  <1>7. ASSUME NEW q \in Procs
        PROVE  /\ proc'[q].at = proc[q].at /\ proc'[q].file = proc[q].file
               /\ proc'[q].add = proc[q].add /\ proc'[q].copy = proc[q].copy
               /\ proc'[q].sid = proc[q].sid /\ proc'[q].always = proc[q].always
               /\ proc'[q].ord = proc[q].ord
               /\ proc'[q].del = IF q = p THEN proc[q].del \ unit ELSE proc[q].del
               /\ proc'[q].dir = IF unit = {"main"} /\ proc[q].dir = live THEN 0 ELSE proc[q].dir
        BY <1>4, <1>5, <1>6
  <1> QED BY <1>3, <1>7 DEF Unlinks

LEMMA MaintenanceTypes ==
    ASSUME ProcTypes, ArchiveTypes, NEW p \in Procs, Maintenance(p)
    PROVE  ProcTypes'
  <1>1. CASE Backup(p)
        BY <1>1, Loners DEF Backup, Command, Is, Alone
  <1>2. CASE BackupEnds(p)
        BY <1>2, Loners DEF BackupEnds, Is, Alone
  <1>3. CASE ImportEnds(p)
        BY <1>3, Loners DEF ImportEnds, Is, Alone
  <1>4. CASE UninstallEnds(p)
        BY <1>4, Loners DEF UninstallEnds, Is, Alone
  <1>5. ASSUME NEW unit \in Units, CopyPart(p, unit) PROVE ProcTypes'
        BY <1>5 DEF CopyPart, ProcTypes
  <1> QED BY <1>1, <1>2, <1>3, <1>4, <1>5, ImportTypes, UninstallTypes, UnpackTypes,
             RemovePartTypes DEF Maintenance

LEMMA DiesTypes ==
    ASSUME ProcTypes, NEW p \in Procs, Dies(p)
    PROVE  ProcTypes' /\ proc'[p] = Resting /\ \A q \in Procs \ {p} : proc'[q] = proc[q]
  <1>1. proc' = [proc EXCEPT ![p] = Resting]
        BY DEF Dies
  <1> QED BY <1>1, Leaving

(* What no process does leaves them as they are.                           *)
Around == (\E x \in Items : Expire(x) \/ InstallSkill(x))
          \/ (\E d \in 1..MaxDirs : Checkpoint(d)) \/ Age
LEMMA AroundThem == Around => proc' = proc
  BY DEF Around, Expire, InstallSkill, Checkpoint, Age

(***************************************************************************)
(* What a process carries at each place.                                   *)
(***************************************************************************)
Carried(r) ==
    /\ r.at = "save" => /\ r.file \in Files
                        /\ r.add \subseteq EntriesOf(r.file) /\ r.copy \subseteq EntriesOf(r.file)
                        /\ r.file = "approvals" => r.sid # 0
    /\ r.at = "browser" => r.add \subseteq Items
    /\ r.at \in {"index", "line"} =>
          \E n \in Items : (r.add = {n} /\ r.del = {}) \/ (r.add = {} /\ r.del = {n})
    /\ r.at = "line" => r.copy \subseteq Items
    /\ r.at = "skill" => \E n \in Items : r.add = {n}
    /\ r.at = "unlink" => r.del \subseteq Items
    /\ r.at = "prune" => r.del \subseteq Sessions
    /\ r.at \in {"unpack", "remove"} => r.del \subseteq Parts
Carriers == \A q \in Procs : Carried(proc[q])

Unburdened == {"idle", "chat", "insert", "find", "touch", "copy"}
LEMMA UnburdenedCarry == \A r : r.at \in Unburdened => Carried(r)
  BY DEF Unburdened, Carried

LEMMA YamlCarries ==
    ASSUME ProcTypes, FileTypes, Carriers, NEW p \in Procs, Yaml(p)
    PROVE  Carriers'
  <1>0. proc[p].at = "browser" => proc[p].add \subseteq Items
        BY DEF Carriers, Carried
  <1>1. CASE Edits(p)
    <2>0. PICK f \in Files \ {"approvals"} :
              \E add, base \in SUBSET EntriesOf(f), del \in SUBSET Thing : Edit(p, f, base, add, del)
          BY <1>1 DEF Edits
    <2>1. PICK add \in SUBSET EntriesOf(f), base \in SUBSET EntriesOf(f), del \in SUBSET Thing :
              Edit(p, f, base, add, del)
          BY <2>0
    <2>2. /\ proc'[p].at = "save" /\ proc'[p].file = f /\ proc'[p].add = add
          /\ proc'[p].copy = (base \ del) \cup add
          /\ \A q \in Procs \ {p} : proc'[q] = proc[q]
          BY <2>1, EditTypes
    <2>3. Carried(proc'[p])
          BY <2>2 DEF Carried
    <2> QED BY <2>2, <2>3 DEF Carriers
  <1>2. CASE Save(p)
    <2>1. Goes(p, Rest(p)) /\ Rest(p) \in {"chat", "idle"}
          BY <1>2 DEF Save, Rest
    <2>2. proc'[p].at = Rest(p) /\ \A q \in Procs \ {p} : proc'[q] = proc[q]
          BY <2>1 DEF Goes, ProcTypes, Frame
    <2>3. Carried(proc'[p])
          BY <2>1, <2>2, UnburdenedCarry DEF Unburdened
    <2> QED BY <2>2, <2>3 DEF Carriers
  <1>3. ASSUME NEW x \in Items, RememberAlways(p, x) PROVE Carriers'
    <2>1. /\ proc'[p].at = "save" /\ proc'[p].file = "approvals" /\ proc'[p].add = {x}
          /\ proc'[p].copy = proc[p].always \cup {x} /\ proc'[p].sid = proc[p].sid
          /\ proc[p].at = "chat"
          /\ \A q \in Procs \ {p} : proc'[q] = proc[q]
      <3>1. /\ proc[p].at = "chat"
            /\ proc'[p] = [proc[p] EXCEPT !.always = proc[p].always \cup {x}, !.at = "save",
                              !.copy = proc[p].always \cup {x}, !.file = "approvals",
                              !.add = {x}, !.del = {}]
            /\ \A q \in Procs \ {p} : proc'[q] = proc[q]
            BY <1>3, RememberTypes, Zenon
      <3>2. proc[p] \in Frame
            BY DEF ProcTypes
      <3> QED BY <3>1, <3>2 DEF Frame
    <2>2. proc[p].sid # 0 /\ proc[p].always \subseteq Items
          BY <2>1 DEF ProcTypes, Frame, Placed, AtChat
    <2>3. EntriesOf("approvals") = Items
          BY EntriesOfTypes
    <2>4. Carried(proc'[p])
          BY <2>1, <2>2, <2>3 DEF Carried, Files
    <2> QED BY <2>1, <2>4 DEF Carriers
  <1>4. ASSUME NEW x \in Items, McpOauth(p, x) PROVE Carriers'
    <2>1. proc'[p].at = "browser" /\ proc'[p].add = {x} /\ \A q \in Procs \ {p} : proc'[q] = proc[q]
          BY <1>4 DEF McpOauth, ProcTypes, Frame
    <2>2. Carried(proc'[p])
          BY <2>1 DEF Carried
    <2> QED BY <2>1, <2>2 DEF Carriers
  <1> QED BY <1>0, <1>1, <1>2, <1>3, <1>4, YamlEdits

LEMMA MemoryCarries ==
    ASSUME ProcTypes, FileTypes, Carriers, NEW p \in Procs, Memory(p)
    PROVE  Carriers'
  <1>1. ASSUME NEW x \in Items, MemoryWrite(p, x) \/ MemoryDelete(p, x) PROVE Carriers'
    <2>1. \E bodies : Body(p, bodies, {x}, {}) \/ Body(p, bodies, {}, {x})
          BY <1>1 DEF MemoryWrite, MemoryDelete
    <2>2. \/ proc' = [proc EXCEPT ![p].at = "index", ![p].add = {x}, ![p].del = {}]
          \/ proc' = [proc EXCEPT ![p].at = "index", ![p].add = {}, ![p].del = {x}]
          BY <2>1 DEF Body
    <2>3. /\ proc'[p].at = "index"
          /\ (proc'[p].add = {x} /\ proc'[p].del = {}) \/ (proc'[p].add = {} /\ proc'[p].del = {x})
          /\ \A q \in Procs \ {p} : proc'[q] = proc[q]
          BY <2>2 DEF ProcTypes, Frame
    <2>4. Carried(proc'[p])
          BY <2>3 DEF Carried
    <2> QED BY <2>3, <2>4 DEF Carriers
  <1>2. CASE ReadIndex(p)
    <2>0. IndexText \subseteq Items
          BY EntriesOfTypes DEF IndexText, FileTypes, Content, Paths, Files
    <2>1. PICK n \in Items : \/ proc[p].add = {n} /\ proc[p].del = {}
                             \/ proc[p].add = {} /\ proc[p].del = {n}
          BY <1>2 DEF Carriers, Carried, ReadIndex, Is
    <2> DEFINE new == IF proc[p].add = {} THEN Stripped(IndexText, proc[p].del)
                                          ELSE Upserted(IndexText, proc[p].add)
    <2>2. new \subseteq Items
          BY <2>0, <2>1 DEF Stripped, Upserted
    <2>3. PICK at \in {"chat", "line"} : proc' = [proc EXCEPT ![p].copy = new, ![p].at = at]
          BY <1>2 DEF ReadIndex
    <2> HIDE DEF new
    <2>4. /\ proc'[p].at \in {"chat", "line"} /\ proc'[p].copy = new
          /\ proc'[p].add = proc[p].add /\ proc'[p].del = proc[p].del
          /\ \A q \in Procs \ {p} : proc'[q] = proc[q]
          BY <2>3 DEF ProcTypes, Frame
    <2>5. Carried(proc'[p])
          BY <2>1, <2>2, <2>4 DEF Carried
    <2> QED BY <2>4, <2>5 DEF Carriers
  <1>3. CASE WriteIndex(p)
    <2>1. proc'[p].at = "chat" /\ \A q \in Procs \ {p} : proc'[q] = proc[q]
          BY <1>3 DEF WriteIndex, Goes, ProcTypes, Frame
    <2>2. Carried(proc'[p])
          BY <2>1, UnburdenedCarry DEF Unburdened
    <2> QED BY <2>1, <2>2 DEF Carriers
  <1> QED BY <1>1, <1>2, <1>3 DEF Memory

LEMMA RestingCarries == Carried(Resting)
  BY UnburdenedCarry DEF Resting, Unburdened

LEMMA DatabaseCarries ==
    ASSUME ProcTypes, FileTypes, DbSound, Connections, Sids, Carriers, NEW p \in Procs, Database(p)
    PROVE  Carriers'
  <1>1. CASE InsertFound(p) \/ TouchSession(p)
    <2>1. proc'[p].at \in {"touch", "chat"} /\ \A q \in Procs \ {p} : proc'[q] = proc[q]
          BY <1>1 DEF InsertFound, TouchSession, Goes, ProcTypes, Frame
    <2>2. Carried(proc'[p])
          BY <2>1, UnburdenedCarry DEF Unburdened
    <2> QED BY <2>1, <2>2 DEF Carriers
  <1>2. CASE CloseChat(p) \/ PruneDeletes(p)
    <2>1. proc'[p] = Resting /\ \A q \in Procs \ {p} : proc'[q] = proc[q]
          BY <1>2, Leaving DEF CloseChat, PruneDeletes
    <2> QED BY <2>1, RestingCarries DEF Carriers
  <1>3. ASSUME NEW s \in Sessions, OpenChat(p, s) PROVE Carriers'
    <2>1. proc'[p].at = "chat" /\ \A q \in Procs \ {p} : proc'[q] = proc[q]
      <3>1. /\ proc'[p] = [Resting EXCEPT !.at = "chat", !.dir = live, !.sid = s,
                                         !.always = Approvals, !.skills = Loaded]
            /\ \A q \in Procs \ {p} : proc'[q] = proc[q]
            BY <1>3, OpenChatTypes, Zenon
      <3> QED BY <3>1 DEF Resting
    <2>2. Carried(proc'[p])
          BY <2>1, UnburdenedCarry DEF Unburdened
    <2> QED BY <2>1, <2>2 DEF Carriers
  <1>4. CASE SelectOrd(p)
    <2>1. proc'[p].at = "insert" /\ \A q \in Procs \ {p} : proc'[q] = proc[q]
      <3>1. /\ proc'[p] = [proc[p] EXCEPT !.at = "insert", !.ord = NextOrd(proc[p].dir, proc[p].sid)]
            /\ \A q \in Procs \ {p} : proc'[q] = proc[q]
            BY <1>4, SelectOrdTypes, Zenon
      <3>2. proc[p] \in Frame
            BY DEF ProcTypes
      <3> QED BY <3>1, <3>2 DEF Frame
    <2>2. Carried(proc'[p])
          BY <2>1, UnburdenedCarry DEF Unburdened
    <2> QED BY <2>1, <2>2 DEF Carriers
  <1>5. CASE InsertRow(p)
    <2>1. Carried(proc'[p])
          BY <1>5, InsertRowTypes, UnburdenedCarry DEF Unburdened
    <2>2. ASSUME NEW q \in Procs \ {p} PROVE Carried(proc'[q])
      <3>1. \/ proc'[q] = proc[q]
            \/ proc'[q].at = "prune" /\ proc[q].at = "prune" /\ proc'[q].del = proc[q].del
        <4>1. \/ proc'[q] = proc[q]
              \/ Is(q, "prune") /\ proc'[q] = [proc[q] EXCEPT !.add = @ \cup {proc[p].sid}]
              BY <1>5, InsertRowTypes
        <4>2. proc[q] \in Frame
              BY DEF ProcTypes
        <4> QED BY <4>1, <4>2 DEF Frame, Is
      <3> QED BY <3>1 DEF Carriers, Carried
    <2> QED BY <2>1, <2>2 DEF Carriers
  <1>6. CASE PruneLooks(p)
    <2> DEFINE stale == {s \in DOMAIN Now(live).updated : Now(live).updated[s] = "old"}
    <2>1. proc'[p].at = "prune" /\ proc'[p].del = stale /\ \A q \in Procs \ {p} : proc'[q] = proc[q]
      <3>1. /\ proc'[p] = [proc[p] EXCEPT !.at = "prune", !.dir = live, !.del = stale, !.add = Midway]
            /\ \A q \in Procs \ {p} : proc'[q] = proc[q]
            BY <1>6, PruneLooksTypes, Zenon
      <3>2. proc[p] \in Frame
            BY DEF ProcTypes
      <3> QED BY <3>1, <3>2 DEF Frame
    <2>2. stale \subseteq Sessions
      <3>1. live \in 0..MaxDirs
            BY HomeAssumption DEF FileTypes
      <3>2. Now(live) \in Databases
            BY <1>6, <3>1 DEF DbSound, Sound, PruneLooks, Now
      <3> QED BY <3>2 DEF Databases
    <2>3. Carried(proc'[p])
          BY <2>1, <2>2 DEF Carried
    <2> QED BY <2>1, <2>3 DEF Carriers
  <1> QED BY <1>1, <1>2, <1>3, <1>4, <1>5, <1>6 DEF Database

LEMMA LibraryCarries ==
    ASSUME ProcTypes, Carriers, NEW p \in Procs, Library(p)
    PROVE  Carriers'
  <1>1. ASSUME NEW x \in Items, SkillCreate(p, x) \/ SkillUpdate(p, x) PROVE Carriers'
    <2>1. proc'[p].at = "skill" /\ proc'[p].add = {x} /\ \A q \in Procs \ {p} : proc'[q] = proc[q]
          BY <1>1 DEF SkillCreate, SkillUpdate, SkillBegins, ProcTypes, Frame
    <2>2. Carried(proc'[p])
          BY <2>1 DEF Carried
    <2> QED BY <2>1, <2>2 DEF Carriers
  <1>2. ASSUME NEW x \in Items, SkillsDelete(p, x) PROVE Carriers'
    <2>1. proc'[p].at = "unlink" /\ proc'[p].del = {x} /\ \A q \in Procs \ {p} : proc'[q] = proc[q]
          BY <1>2 DEF SkillsDelete, ProcTypes, Frame
    <2>2. Carried(proc'[p])
          BY <2>1 DEF Carried
    <2> QED BY <2>1, <2>2 DEF Carriers
  <1>3. CASE SkillWritten(p) \/ SkillWriteFails(p)
    <2>1. proc'[p].at = "chat" /\ \A q \in Procs \ {p} : proc'[q] = proc[q]
          BY <1>3 DEF SkillWritten, SkillWriteFails, Goes, ProcTypes, Frame
    <2>2. Carried(proc'[p])
          BY <2>1, UnburdenedCarry DEF Unburdened
    <2> QED BY <2>1, <2>2 DEF Carriers
  <1>4. CASE Unlink(p)
    <2>1. proc'[p] = Resting /\ \A q \in Procs \ {p} : proc'[q] = proc[q]
          BY <1>4, Leaving DEF Unlink
    <2> QED BY <2>1, RestingCarries DEF Carriers
  <1> QED BY <1>1, <1>2, <1>3, <1>4 DEF Library

LEMMA MaintenanceCarries ==
    ASSUME ProcTypes, ArchiveTypes, Carriers, NEW p \in Procs, Maintenance(p)
    PROVE  Carriers'
  <1>1. CASE Backup(p) \/ BackupEnds(p) \/ ImportEnds(p) \/ UninstallEnds(p)
    <2>1. proc'[p].at \in {"copy", "idle"} /\ \A q \in Procs \ {p} : proc'[q] = proc[q]
          BY <1>1 DEF Backup, BackupEnds, ImportEnds, UninstallEnds, Goes, ProcTypes, Frame
    <2>2. Carried(proc'[p])
          BY <2>1, UnburdenedCarry DEF Unburdened
    <2> QED BY <2>1, <2>2 DEF Carriers
  <1>2. CASE Import(p) \/ Uninstall(p)
    <2>1. /\ proc'[p].at \in {"unpack", "remove"} /\ proc'[p].del \subseteq Parts
          /\ \A q \in Procs \ {p} : proc'[q] = proc[q]
      <3>1. /\ \/ proc'[p] = [proc[p] EXCEPT !.at = "unpack", !.del = DOMAIN archive.held]
               \/ proc'[p] = [proc[p] EXCEPT !.at = "remove", !.del = Parts]
            /\ \A q \in Procs \ {p} : proc'[q] = proc[q]
            BY <1>2, ImportTypes, UninstallTypes, Zenon
      <3>2. proc[p] \in Frame /\ DOMAIN archive.held \subseteq Parts
            BY DEF ProcTypes, ArchiveTypes
      <3> QED BY <3>1, <3>2 DEF Frame
    <2>2. Carried(proc'[p])
          BY <2>1 DEF Carried
    <2> QED BY <2>1, <2>2 DEF Carriers
  <1>3. ASSUME NEW unit \in Units, CopyPart(p, unit) PROVE Carriers'
        BY <1>3 DEF CopyPart, Carriers
  <1>4. ASSUME NEW unit \in Units, Unpack(p, unit) PROVE Carriers'
    <2>1. /\ proc'[p].at = "unpack" /\ proc[p].at = "unpack" /\ proc'[p].del = proc[p].del \ unit
          /\ \A q \in Procs \ {p} : proc'[q] = proc[q]
          BY <1>4, UnpackTypes DEF ProcTypes, Frame, Unpack, Is
    <2>2. Carried(proc'[p])
          BY <2>1 DEF Carriers, Carried
    <2> QED BY <2>1, <2>2 DEF Carriers
  <1>5. ASSUME NEW unit \in Units, RemovePart(p, unit), NEW q \in Procs PROVE Carried(proc'[q])
    <2>0. proc[q] \in Frame /\ proc[p] \in Frame /\ Carried(proc[q])
          BY DEF ProcTypes, Carriers
    <2>1. /\ proc'[q].at = proc[q].at /\ proc'[q].file = proc[q].file /\ proc'[q].add = proc[q].add
          /\ proc'[q].copy = proc[q].copy /\ proc'[q].sid = proc[q].sid
          /\ q = p => proc'[q].del = proc[q].del \ unit
          /\ q # p => proc'[q].del = proc[q].del
          BY <1>5, RemovePartTypes
    <2>2. CASE q = p
      <3>1. proc[p].at = "remove"
            BY <1>5 DEF RemovePart, Is
      <3> QED BY <2>0, <2>1, <2>2, <3>1 DEF Carried
    <2>3. CASE q # p
          BY <2>0, <2>1, <2>3 DEF Carried
    <2> QED BY <2>2, <2>3
  <1> QED BY <1>1, <1>2, <1>3, <1>4, <1>5 DEF Maintenance, Carriers

LEMMA DeathCarries ==
    ASSUME ProcTypes, Carriers, NEW p \in Procs, Dies(p)
    PROVE  Carriers'
  BY DiesTypes, RestingCarries DEF Carriers

(***************************************************************************)
(* What the files and the archive hold.                                    *)
(***************************************************************************)
LEMMA SameFiles ==
    FileTypes /\ UNCHANGED <<live, file, expired, kept, archive>> => FileTypes'
  BY DEF FileTypes, Content

(* A file is written by its path, so in the live directory.                *)
LEMMA FileWritten ==
    ASSUME FileTypes, NEW f \in Paths, NEW content \in Content(f),
           file' = [file EXCEPT ![live][f] = content]
    PROVE  /\ file' \in [0..MaxDirs -> [Paths -> UNION {Content(g) : g \in Paths}]]
           /\ \A d \in 0..MaxDirs : \A g \in Paths : file'[d][g] \in Content(g)
           /\ file'[live][f] = content
           /\ \A g \in Paths \ {f} : file'[live][g] = file[live][g]
  <1>1. live \in 0..MaxDirs
        BY HomeAssumption DEF FileTypes
  <1>2. content \in UNION {Content(g) : g \in Paths}
        OBVIOUS
  <1>3. file \in [0..MaxDirs -> [Paths -> UNION {Content(g) : g \in Paths}]]
        BY DEF FileTypes
  <1>4. \A d \in 0..MaxDirs : \A g \in Paths :
            file'[d][g] = IF d = live /\ g = f THEN content ELSE file[d][g]
        BY <1>1, <1>3
  <1>5. file' \in [0..MaxDirs -> [Paths -> UNION {Content(g) : g \in Paths}]]
        BY <1>1, <1>2, <1>3
  <1>6. \A d \in 0..MaxDirs : \A g \in Paths : file'[d][g] \in Content(g)
        BY <1>4 DEF FileTypes
  <1> QED BY <1>1, <1>4, <1>5, <1>6

(* A directory is filled or emptied.                                       *)
LEMMA DirectoryWritten ==
    ASSUME FileTypes, NEW written \in [Paths -> UNION {Content(g) : g \in Paths}],
           \A f \in Paths : written[f] \in Content(f), file' = [file EXCEPT ![live] = written]
    PROVE  /\ file' \in [0..MaxDirs -> [Paths -> UNION {Content(g) : g \in Paths}]]
           /\ \A d \in 0..MaxDirs : \A g \in Paths : file'[d][g] \in Content(g)
           /\ file'[live] = written
  <1>1. live \in 0..MaxDirs
        BY HomeAssumption DEF FileTypes
  <1>2. file \in [0..MaxDirs -> [Paths -> UNION {Content(g) : g \in Paths}]]
        BY DEF FileTypes
  <1>3. \A d \in 0..MaxDirs : file'[d] = IF d = live THEN written ELSE file[d]
        BY <1>1, <1>2
  <1>4. file' \in [0..MaxDirs -> [Paths -> UNION {Content(g) : g \in Paths}]]
        BY <1>1, <1>2
  <1>5. \A d \in 0..MaxDirs : \A g \in Paths : file'[d][g] \in Content(g)
        BY <1>3 DEF FileTypes
  <1> QED BY <1>1, <1>3, <1>4, <1>5

LEMMA SetsAreContent == \A f \in Paths : \A S : S \subseteq EntriesOf(f) => S \in Content(f)
  BY DEF Content

LEMMA YamlFiles ==
    ASSUME ProcTypes, FileTypes, Carriers, NEW p \in Procs, Yaml(p)
    PROVE  FileTypes'
  <1>0. proc[p].at = "browser" => proc[p].add \subseteq Items
        BY DEF Carriers, Carried
  <1>1. CASE Edits(p)
    <2>1. UNCHANGED <<live, file, expired, kept, archive>>
          BY <1>1 DEF Edits, Edit, disk
    <2> QED BY <2>1, SameFiles
  <1>2. CASE Save(p)
    <2> DEFINE f == proc[p].file
    <2>1. /\ f \in Files /\ f \in Paths
          /\ proc[p].add \subseteq EntriesOf(f) /\ proc[p].copy \subseteq EntriesOf(f)
          BY <1>2 DEF Carriers, Carried, Save, Is, Paths
    <2>2. /\ file' = [file EXCEPT ![live][f] = proc[p].copy]
          /\ kept' = [kept EXCEPT ![f] = (kept[f] \ proc[p].del) \cup proc[p].add]
          /\ UNCHANGED <<live, expired, archive>>
          BY <1>2 DEF Save
    <2> HIDE DEF f
    <2>3. proc[p].copy \in Content(f)
          BY <2>1, SetsAreContent
    <2>4. /\ file' \in [0..MaxDirs -> [Paths -> UNION {Content(g) : g \in Paths}]]
          /\ \A d \in 0..MaxDirs : \A g \in Paths : file'[d][g] \in Content(g)
          BY <2>1, <2>2, <2>3, FileWritten
    <2>5. (kept[f] \ proc[p].del) \cup proc[p].add \subseteq EntriesOf(f)
          BY <2>1 DEF FileTypes
    <2>6. EntriesOf(f) \subseteq Thing
          BY <2>1, EntriesAreThings
    <2>7. kept' \in [Files -> SUBSET Thing] /\ \A g \in Files : kept'[g] \in SUBSET EntriesOf(g)
          BY <2>1, <2>2, <2>5, <2>6 DEF FileTypes
    <2> QED BY <2>2, <2>4, <2>7 DEF FileTypes, Content
  <1>3. ASSUME NEW x \in Items, RememberAlways(p, x) \/ McpOauth(p, x) PROVE FileTypes'
    <2>1. UNCHANGED <<live, file, expired, kept, archive>>
          BY <1>3 DEF RememberAlways, McpOauth, disk, homeHistory
    <2> QED BY <2>1, SameFiles
  <1> QED BY <1>0, <1>1, <1>2, <1>3, YamlEdits

LEMMA MemoryFiles ==
    ASSUME ProcTypes, FileTypes, Carriers, NEW p \in Procs, Memory(p)
    PROVE  FileTypes'
  <1>0. {"bodies", "index"} \subseteq Paths /\ EntriesOf("bodies") = Items /\ EntriesOf("index") = Items
        BY EntriesOfTypes DEF Paths
  <1>1. ASSUME NEW f \in {"bodies", "index"}, NEW content \in SUBSET Items,
               file' = [file EXCEPT ![live][f] = content],
               UNCHANGED <<live, expired, kept, archive>>
        PROVE  FileTypes'
    <2>1. f \in Paths /\ content \in Content(f)
          BY <1>0, SetsAreContent
    <2>2. /\ file' \in [0..MaxDirs -> [Paths -> UNION {Content(g) : g \in Paths}]]
          /\ \A d \in 0..MaxDirs : \A g \in Paths : file'[d][g] \in Content(g)
          BY <1>1, <2>1, FileWritten
    <2> QED BY <1>1, <2>2 DEF FileTypes, Content
  <1>2. ASSUME NEW x \in Items, MemoryWrite(p, x) \/ MemoryDelete(p, x) PROVE FileTypes'
    <2>1. file[live]["bodies"] \subseteq Items
          BY <1>0, HomeAssumption DEF FileTypes, Content, Files
    <2>2. \E bodies \in SUBSET Items : Body(p, bodies, {x}, {}) \/ Body(p, bodies, {}, {x})
          BY <1>2, <2>1 DEF MemoryWrite, MemoryDelete
    <2>3. PICK bodies \in SUBSET Items : /\ file' = [file EXCEPT ![live]["bodies"] = bodies]
                                         /\ UNCHANGED <<live, expired, kept, archive>>
          BY <2>2 DEF Body
    <2> QED BY <1>1, <2>3
  <1>3. CASE ReadIndex(p)
    <2>1. UNCHANGED <<live, file, expired, kept, archive>>
          BY <1>3 DEF ReadIndex, disk
    <2> QED BY <2>1, SameFiles
  <1>4. CASE WriteIndex(p)
    <2>1. proc[p].copy \in SUBSET Items
          BY <1>4 DEF WriteIndex, Is, Carriers, Carried
    <2>2. /\ file' = [file EXCEPT ![live]["index"] = proc[p].copy]
          /\ UNCHANGED <<live, expired, kept, archive>>
          BY <1>4 DEF WriteIndex
    <2> QED BY <1>1, <2>1, <2>2
  <1> QED BY <1>2, <1>3, <1>4 DEF Memory

LEMMA DatabaseFiles ==
    ASSUME FileTypes, NEW p \in Procs, Database(p)
    PROVE  FileTypes'
  <1>1. UNCHANGED <<live, file, expired, kept, archive>>
        BY DEF Database, OpenChat, CloseChat, SelectOrd, InsertRow, InsertFound, TouchSession,
               PruneLooks, PruneDeletes, disk, homeHistory
  <1> QED BY <1>1, SameFiles

LEMMA LibraryFiles ==
    ASSUME FileTypes, NEW p \in Procs, Library(p)
    PROVE  FileTypes'
  <1>1. UNCHANGED <<live, file, expired, kept, archive>>
        BY DEF Library, SkillCreate, SkillUpdate, SkillBegins, SkillsDelete, SkillWritten,
               SkillWriteFails, Unlink, SkillRests, disk, homeHistory
  <1> QED BY <1>1, SameFiles

LEMMA UnitsArePaths == \A unit \in Units : unit \subseteq Parts
  BY DEF Units, Parts

LEMMA MaintenanceFiles ==
    ASSUME FileTypes, ArchiveTypes, AtArchive, NEW p \in Procs, Maintenance(p)
    PROVE  FileTypes'
  <1>0. live \in 0..MaxDirs
        BY HomeAssumption DEF FileTypes
  <1>1. CASE Backup(p) \/ BackupEnds(p)
    <2>1. archive'.held = <<>> \/ archive'.held = archive.held
          BY <1>1 DEF Backup, BackupEnds, ArchiveTypes
    <2>2. \A f \in Paths : f \in DOMAIN archive'.held => archive'.held[f] \in Content(f)
      <3>1. CASE archive'.held = <<>>
        <4>1. DOMAIN archive'.held = {}
              BY <3>1
        <4> QED BY <4>1
      <3>2. CASE archive'.held = archive.held
            BY <3>2 DEF FileTypes
      <3> QED BY <2>1, <3>1, <3>2
    <2>3. UNCHANGED <<live, file, expired, kept>>
          BY <1>1 DEF Backup, BackupEnds, disk, homeHistory
    <2> QED BY <2>2, <2>3 DEF FileTypes, Content
  <1>2. ASSUME NEW unit \in Units, CopyPart(p, unit) PROVE FileTypes'
    <2>1. archive'.held = [f \in DOMAIN archive.held \cup unit |->
                              IF f \in unit THEN Contents(f) ELSE archive.held[f]]
          BY <1>2 DEF CopyPart, ArchiveTypes
    <2>2. \A f \in Paths : Contents(f) \in Content(f)
      <3>1. \A f \in Paths : Contents(f) = file[live][f]
            BY DEF Contents, Paths, Files
      <3> QED BY <1>0, <3>1 DEF FileTypes
    <2>3. \A f \in Paths : f \in DOMAIN archive'.held => archive'.held[f] \in Content(f)
          BY <2>1, <2>2 DEF FileTypes
    <2>4. UNCHANGED <<live, file, expired, kept>>
          BY <1>2 DEF CopyPart, disk, homeHistory
    <2> QED BY <2>3, <2>4 DEF FileTypes, Content
  <1>3. CASE Import(p)
    <2>1. live' \in 1..MaxDirs
          BY <1>3, HomeAssumption DEF Import, FileTypes
    <2>2. UNCHANGED <<file, expired, kept, archive>>
          BY <1>3 DEF Import
    <2> QED BY <2>1, <2>2 DEF FileTypes, Content
  <1>4. ASSUME NEW written \in [Paths -> UNION {Content(g) : g \in Paths}],
               \A f \in Paths : written[f] \in Content(f), file' = [file EXCEPT ![live] = written],
               UNCHANGED <<live, expired, kept, archive>>
        PROVE  FileTypes'
    <2>1. /\ file' \in [0..MaxDirs -> [Paths -> UNION {Content(g) : g \in Paths}]]
          /\ \A d \in 0..MaxDirs : \A g \in Paths : file'[d][g] \in Content(g)
          BY <1>4, DirectoryWritten
    <2> QED BY <1>4, <2>1 DEF FileTypes, Content
  <1>6. DOMAIN file[live] = Paths /\ \A f \in Paths : file[live][f] \in Content(f)
        BY <1>0 DEF FileTypes
  <1>7. ASSUME NEW unit \in Units, Unpack(p, unit) PROVE FileTypes'
    <2> DEFINE written == [f \in Paths |-> IF f \in unit THEN archive.held[f] ELSE file[live][f]]
    <2>1. unit \subseteq DOMAIN archive.held
          BY <1>7 DEF Unpack, AtArchive
    <2>2. \A f \in Paths : written[f] \in Content(f)
          BY <1>6, <2>1 DEF FileTypes
    <2>3. written \in [Paths -> UNION {Content(g) : g \in Paths}]
          BY <2>2
    <2>4. /\ file' = [file EXCEPT ![live] = written]
          /\ UNCHANGED <<live, expired, kept, archive>>
          BY <1>6, <1>7 DEF Unpack, homeHistory
    <2> QED BY <1>4, <2>2, <2>3, <2>4
  <1>8. ASSUME NEW unit \in Units, RemovePart(p, unit) PROVE FileTypes'
    <2> DEFINE written == [f \in Paths |-> IF f \in unit THEN {} ELSE file[live][f]]
    <2>1. \A f \in Paths : written[f] \in Content(f)
          BY <1>6, SetsAreContent
    <2>2. written \in [Paths -> UNION {Content(g) : g \in Paths}]
          BY <2>1
    <2>3. /\ file' = [file EXCEPT ![live] = written]
          /\ UNCHANGED <<live, expired, kept, archive>>
          BY <1>6, <1>8 DEF RemovePart, homeHistory
    <2> QED BY <1>4, <2>1, <2>2, <2>3
  <1>5. CASE Uninstall(p) \/ ImportEnds(p) \/ UninstallEnds(p)
    <2>1. UNCHANGED <<live, file, expired, kept, archive>>
          BY <1>5 DEF Uninstall, ImportEnds, UninstallEnds, disk, homeHistory
    <2> QED BY <2>1, SameFiles
  <1> QED BY <1>1, <1>2, <1>3, <1>5, <1>7, <1>8 DEF Maintenance

(* A death may cut off the file that is being written.                     *)
Writes(f, content) == file' = [file EXCEPT ![live][f] = content]
Spoils(f) == spoiled' = spoiled \cup {f} /\ steady' = FALSE
LEMMA DeathCuts ==
    ASSUME NEW p \in Procs, Dies(p)
    PROVE  \/ UNCHANGED <<file, spoiled, steady>>
           \/ /\ Is(p, "save") /\ Spoils(proc[p].file)
              /\ Writes(proc[p].file, {}) \/ Writes(proc[p].file, Unreadable)
           \/ Is(p, "line") /\ Spoils("index") /\ Writes("index", {})
  <1> DEFINE cut == CASE Is(p, "save") -> proc[p].file [] Is(p, "line") -> "index"
                      [] OTHER -> "none"
  <1>1. \/ UNCHANGED <<file, spoiled, steady>>
        \/ /\ cut # "none"
           /\ \E left \in {{}} \cup (IF cut = "index" THEN {} ELSE {Unreadable}) : Writes(cut, left)
           /\ Spoils(cut)
        BY DEF Dies, Writes, Spoils
  <1>2. /\ Is(p, "save") => cut = proc[p].file
        /\ Is(p, "line") => cut = "index"
        /\ ~Is(p, "save") /\ ~Is(p, "line") => cut = "none"
        BY DEF Is
  <1> HIDE DEF cut
  <1>3. \/ UNCHANGED <<file, spoiled, steady>>
        \/ /\ cut # "none" /\ Spoils(cut)
           /\ Writes(cut, {}) \/ (cut # "index" /\ Writes(cut, Unreadable))
        BY <1>1
  <1> QED BY <1>2, <1>3

LEMMA DeathFiles ==
    ASSUME ProcTypes, FileTypes, Carriers, NEW p \in Procs, Dies(p)
    PROVE  FileTypes'
  <1>1. UNCHANGED <<live, expired, kept, archive>>
        BY DEF Dies
  <1>2. CASE UNCHANGED <<file, spoiled, steady>>
    <2>1. UNCHANGED <<live, file, expired, kept, archive>>
          BY <1>1, <1>2
    <2> QED BY <2>1, SameFiles
  <1>3. ASSUME NEW f \in Paths, NEW content \in Content(f), Writes(f, content)
        PROVE  FileTypes'
    <2>1. /\ file' \in [0..MaxDirs -> [Paths -> UNION {Content(g) : g \in Paths}]]
          /\ \A d \in 0..MaxDirs : \A g \in Paths : file'[d][g] \in Content(g)
      <3>1. file' = [file EXCEPT ![live][f] = content]
            BY <1>3 DEF Writes
      <3> QED BY <3>1, FileWritten
    <2> QED BY <1>1, <2>1 DEF FileTypes, Content
  <1>4. Is(p, "save") => /\ proc[p].file \in Paths
                         /\ {} \in Content(proc[p].file) /\ Unreadable \in Content(proc[p].file)
        BY DEF Carriers, Carried, Is, Content, Paths
  <1>5. "index" \in Paths /\ {} \in Content("index")
        BY DEF Content, Paths
  <1> QED BY <1>2, <1>3, <1>4, <1>5, DeathCuts

LEMMA AroundFiles == FileTypes /\ Around => FileTypes'
  <1> SUFFICES ASSUME FileTypes, Around PROVE FileTypes'
      OBVIOUS
  <1>1. ASSUME NEW x \in Items, InstallSkill(x) PROVE FileTypes'
        BY <1>1, SameFiles DEF InstallSkill, SkillRests, disk, homeHistory
  <1>2. ASSUME NEW x \in Items, Expire(x) PROVE FileTypes'
        BY <1>2 DEF Expire, disk, FileTypes, Content
  <1>3. ASSUME NEW d \in 1..MaxDirs, Checkpoint(d) PROVE FileTypes'
        BY <1>3, SameFiles DEF Checkpoint
  <1>4. CASE Age
        BY <1>4, SameFiles DEF Age
  <1> QED BY <1>1, <1>2, <1>3, <1>4 DEF Around

(***************************************************************************)
(* Who is where after a step: what the archive and the databases need to   *)
(* know of the processes.                                                  *)
(***************************************************************************)
Busy == {"copy", "unpack", "remove"}
LEMMA YamlStep ==
    ASSUME ProcTypes, FileTypes, Carriers, NEW p \in Procs, Yaml(p)
    PROVE  /\ UNCHANGED <<live, archive, db, active, untouched, half, library>>
           /\ proc'[p].at \in {"save", "browser", "chat", "idle"}
           /\ proc'[p].sid = proc[p].sid /\ proc'[p].dir = proc[p].dir
           /\ \A q \in Procs \ {p} : proc'[q] = proc[q]
  <1>0. proc[p].at = "browser" => proc[p].add \subseteq Items
        BY DEF Carriers, Carried
  <1>1. CASE Edits(p)
    <2>1. PICK f \in Files \ {"approvals"} :
              \E add, base \in SUBSET EntriesOf(f), del \in SUBSET Thing : Edit(p, f, base, add, del)
          BY <1>1 DEF Edits
    <2>2. PICK add \in SUBSET EntriesOf(f), base \in SUBSET EntriesOf(f), del \in SUBSET Thing :
              Edit(p, f, base, add, del)
          BY <2>1
    <2>3. /\ proc'[p].at = "save" /\ proc'[p].sid = proc[p].sid /\ proc'[p].dir = proc[p].dir
          /\ \A q \in Procs \ {p} : proc'[q] = proc[q]
          BY <2>2, EditTypes
    <2>4. UNCHANGED <<live, archive, db, active, untouched, half, library>>
          BY <2>2 DEF Edit, disk, still
    <2> QED BY <2>3, <2>4
  <1>2. CASE Save(p)
    <2>1. Goes(p, Rest(p)) /\ Rest(p) \in {"chat", "idle"}
          BY <1>2 DEF Save, Rest
    <2>2. /\ proc'[p].at = Rest(p) /\ proc'[p].sid = proc[p].sid /\ proc'[p].dir = proc[p].dir
          /\ \A q \in Procs \ {p} : proc'[q] = proc[q]
          BY <2>1 DEF Goes, ProcTypes, Frame
    <2>3. UNCHANGED <<live, archive, db, active, untouched, half, library>>
          BY <1>2 DEF Save, still
    <2> QED BY <2>1, <2>2, <2>3
  <1>3. ASSUME NEW x \in Items, RememberAlways(p, x) \/ McpOauth(p, x)
        PROVE  /\ UNCHANGED <<live, archive, db, active, untouched, half, library>>
               /\ proc'[p].at \in {"save", "browser"}
               /\ proc'[p].sid = proc[p].sid /\ proc'[p].dir = proc[p].dir
               /\ \A q \in Procs \ {p} : proc'[q] = proc[q]
    <2>1. \/ proc' = [proc EXCEPT ![p].always = proc[p].always \cup {x}, ![p].at = "save",
                                 ![p].copy = proc[p].always \cup {x},
                                 ![p].file = "approvals", ![p].add = {x}, ![p].del = {}]
          \/ proc' = [proc EXCEPT ![p].at = "browser", ![p].add = {x}]
          BY <1>3 DEF RememberAlways, McpOauth
    <2>2. /\ proc'[p].at \in {"save", "browser"}
          /\ proc'[p].sid = proc[p].sid /\ proc'[p].dir = proc[p].dir
          /\ \A q \in Procs \ {p} : proc'[q] = proc[q]
          BY <2>1 DEF ProcTypes, Frame
    <2>3. UNCHANGED <<live, archive, db, active, untouched, half, library>>
          BY <1>3 DEF RememberAlways, McpOauth, disk, still, homeHistory
    <2> QED BY <2>2, <2>3
  <1> QED BY <1>0, <1>1, <1>2, <1>3, YamlEdits

LEMMA MemoryStep ==
    ASSUME ProcTypes, NEW p \in Procs, Memory(p)
    PROVE  /\ UNCHANGED <<live, archive, db, kept, active, untouched, library>>
           /\ proc[p].at \in {"chat", "index", "line"}
           /\ proc'[p].at \in {"index", "line", "chat"}
           /\ proc'[p].sid = proc[p].sid /\ proc'[p].dir = proc[p].dir
           /\ proc'[p].always = proc[p].always
           /\ \A q \in Procs \ {p} : proc'[q] = proc[q]
  <1>1. ASSUME NEW x \in Items, MemoryWrite(p, x) \/ MemoryDelete(p, x)
        PROVE  /\ proc'[p].at \in {"index", "line", "chat"}
               /\ proc'[p].sid = proc[p].sid /\ proc'[p].dir = proc[p].dir
               /\ proc'[p].always = proc[p].always
               /\ \A q \in Procs \ {p} : proc'[q] = proc[q]
    <2>1. \E bodies : Body(p, bodies, {x}, {}) \/ Body(p, bodies, {}, {x})
          BY <1>1 DEF MemoryWrite, MemoryDelete
    <2>2. \/ proc' = [proc EXCEPT ![p].at = "index", ![p].add = {x}, ![p].del = {}]
          \/ proc' = [proc EXCEPT ![p].at = "index", ![p].add = {}, ![p].del = {x}]
          BY <2>1 DEF Body
    <2> QED BY <2>2 DEF ProcTypes, Frame
  <1>2. CASE ReadIndex(p)
    <2>1. \E new : \E at \in {"chat", "line"} : proc' = [proc EXCEPT ![p].copy = new, ![p].at = at]
      <3> DEFINE new == IF proc[p].add = {} THEN Stripped(IndexText, proc[p].del)
                                            ELSE Upserted(IndexText, proc[p].add)
                 at == IF proc[p].add = {} /\ new = IndexText THEN "chat" ELSE "line"
      <3>1. proc' = [proc EXCEPT ![p].copy = new, ![p].at = at]
            BY <1>2 DEF ReadIndex
      <3>2. at \in {"chat", "line"}
            OBVIOUS
      <3> QED BY <3>1, <3>2
    <2>2. /\ proc'[p].at \in {"chat", "line"}
          /\ proc'[p].sid = proc[p].sid /\ proc'[p].dir = proc[p].dir
          /\ proc'[p].always = proc[p].always
          /\ \A q \in Procs \ {p} : proc'[q] = proc[q]
          BY <2>1 DEF ProcTypes, Frame
    <2>3. UNCHANGED <<live, archive, db, kept, active, untouched, library>> /\ proc[p].at = "index"
          BY <1>2 DEF ReadIndex, disk, still, Is
    <2> QED BY <2>2, <2>3
  <1>3. CASE WriteIndex(p)
    <2>1. /\ proc'[p].at = "chat"
          /\ proc'[p].sid = proc[p].sid /\ proc'[p].dir = proc[p].dir
          /\ proc'[p].always = proc[p].always
          /\ \A q \in Procs \ {p} : proc'[q] = proc[q]
          BY <1>3 DEF WriteIndex, Goes, ProcTypes, Frame
    <2>2. UNCHANGED <<live, archive, db, kept, active, untouched, library>> /\ proc[p].at = "line"
          BY <1>3 DEF WriteIndex, still, Is
    <2> QED BY <2>1, <2>2
  <1>4. (\E x \in Items : MemoryWrite(p, x) \/ MemoryDelete(p, x)) =>
            UNCHANGED <<live, archive, db, kept, active, untouched, library>> /\ proc[p].at = "chat"
        BY DEF MemoryWrite, MemoryDelete, Body, InChat, Is, still
  <1> QED BY <1>1, <1>2, <1>3, <1>4 DEF Memory

LEMMA LibraryStep ==
    ASSUME ProcTypes, NEW p \in Procs, Library(p)
    PROVE  /\ UNCHANGED <<disk, archive, homeHistory>>
           /\ proc[p].at \in {"chat", "skill", "idle", "unlink"}
           /\ proc'[p].at \in {"skill", "chat", "unlink", "idle"}
           /\ (proc'[p].sid = proc[p].sid /\ proc'[p].dir = proc[p].dir
               /\ proc'[p].always = proc[p].always)
              \/ proc'[p] = Resting
           /\ \A q \in Procs \ {p} : proc'[q] = proc[q]
  <1>1. ASSUME NEW x \in Items, SkillCreate(p, x) \/ SkillUpdate(p, x)
        PROVE  /\ proc'[p].at = "skill" /\ proc[p].at = "chat"
               /\ proc'[p].sid = proc[p].sid /\ proc'[p].dir = proc[p].dir
               /\ proc'[p].always = proc[p].always
               /\ \A q \in Procs \ {p} : proc'[q] = proc[q]
        BY <1>1 DEF SkillCreate, SkillUpdate, SkillBegins, ProcTypes, Frame, InChat, Is
  <1>2. ASSUME NEW x \in Items, SkillsDelete(p, x)
        PROVE  /\ proc'[p].at = "unlink" /\ proc[p].at = "idle"
               /\ proc'[p].sid = proc[p].sid /\ proc'[p].dir = proc[p].dir
               /\ proc'[p].always = proc[p].always
               /\ \A q \in Procs \ {p} : proc'[q] = proc[q]
        BY <1>2 DEF SkillsDelete, ProcTypes, Frame, Command, Is
  <1>3. CASE SkillWritten(p) \/ SkillWriteFails(p)
    <2>1. /\ proc'[p].at = "chat" /\ proc[p].at = "skill"
          /\ proc'[p].sid = proc[p].sid /\ proc'[p].dir = proc[p].dir
          /\ proc'[p].always = proc[p].always
          /\ \A q \in Procs \ {p} : proc'[q] = proc[q]
          BY <1>3 DEF SkillWritten, SkillWriteFails, Goes, ProcTypes, Frame, Is
    <2>2. UNCHANGED <<disk, archive, homeHistory>>
          BY <1>3 DEF SkillWritten, SkillWriteFails, SkillRests
    <2> QED BY <2>1, <2>2
  <1>4. CASE Unlink(p)
    <2>1. /\ proc'[p] = Resting /\ proc[p].at = "unlink"
          /\ \A q \in Procs \ {p} : proc'[q] = proc[q]
          BY <1>4, Leaving DEF Unlink, Is
    <2>3. proc'[p].at = "idle"
          BY <2>1 DEF Resting
    <2>2. UNCHANGED <<disk, archive, homeHistory>>
          BY <1>4 DEF Unlink, SkillRests
    <2> QED BY <2>1, <2>2, <2>3
  <1>5. (\E x \in Items : SkillCreate(p, x) \/ SkillUpdate(p, x) \/ SkillsDelete(p, x)) =>
            UNCHANGED <<disk, archive, homeHistory>>
        BY DEF SkillCreate, SkillUpdate, SkillsDelete, SkillBegins, SkillRests
  <1> QED BY <1>1, <1>2, <1>3, <1>4, <1>5 DEF Library

LEMMA DeathStep ==
    ASSUME ProcTypes, NEW p \in Procs, Dies(p)
    PROVE  /\ UNCHANGED <<live, archive, db, kept, active>>
           /\ proc'[p] = Resting
           /\ \A q \in Procs \ {p} : proc'[q] = proc[q]
  BY DiesTypes DEF Dies

(* What a process keeps of its place at the database when another, or      *)
(* itself, does something else: all but a prune, that hears of messages.   *)
AsBefore(q) ==
    /\ proc'[q].at = proc[q].at /\ proc'[q].sid = proc[q].sid /\ proc'[q].dir = proc[q].dir
    /\ proc'[q].del = proc[q].del /\ proc'[q].ord = proc[q].ord
    /\ proc'[q].file = proc[q].file /\ proc'[q].copy = proc[q].copy
    /\ proc'[q].always = proc[q].always
    /\ ~Is(q, "prune") => proc'[q].add = proc[q].add

LEMMA DatabaseStep ==
    ASSUME ProcTypes, FileTypes, DbSound, Connections, Sids, NEW p \in Procs, Database(p)
    PROVE  /\ UNCHANGED <<live, file, archive, kept, expired, half, library>>
           /\ proc[p].at \notin Busy /\ proc'[p].at \notin Busy
           /\ proc[p].at \in {"idle", "chat", "insert", "find", "touch", "prune"}
           /\ \A q \in Procs \ {p} : AsBefore(q)
  <1>1. UNCHANGED <<live, file, archive, kept, expired, half, library>>
        BY DEF Database, OpenChat, CloseChat, SelectOrd, InsertRow, InsertFound, TouchSession,
               PruneLooks, PruneDeletes, disk, homeHistory, still
  <1>2. proc[p].at \in {"idle", "chat", "insert", "find", "touch", "prune"}
        BY DEF Database, OpenChat, CloseChat, SelectOrd, InsertRow, InsertFound, TouchSession,
               PruneLooks, PruneDeletes, Command, InChat, Is
  <1>3. ASSUME NEW q \in Procs \ {p} PROVE AsBefore(q)
    <2>0. proc[q] \in Frame
          BY DEF ProcTypes
    <2>1. CASE CloseChat(p) \/ PruneDeletes(p) \/ InsertFound(p) \/ TouchSession(p) \/ SelectOrd(p)
               \/ PruneLooks(p) \/ \E s \in Sessions : OpenChat(p, s)
      <3>1. proc'[q] = proc[q]
            BY <2>1 DEF CloseChat, PruneDeletes, InsertFound, TouchSession, SelectOrd, PruneLooks,
                        OpenChat, Goes, ProcTypes
      <3> QED BY <3>1 DEF AsBefore
    <2>2. CASE InsertRow(p)
      <3>1. \/ proc'[q] = proc[q]
            \/ Is(q, "prune") /\ proc'[q] = [proc[q] EXCEPT !.add = @ \cup {proc[p].sid}]
            BY <2>2, InsertRowTypes
      <3> QED BY <2>0, <3>1 DEF AsBefore, Frame, Is
    <2> QED BY <2>1, <2>2 DEF Database
  <1>4. proc'[p].at \notin Busy
    <2>0. proc[p] \in Frame
          BY DEF ProcTypes
    <2>1. CASE InsertFound(p) \/ TouchSession(p)
          BY <2>1 DEF InsertFound, TouchSession, Goes, Busy, ProcTypes, Frame
    <2>2. CASE CloseChat(p) \/ PruneDeletes(p)
          BY <2>2 DEF CloseChat, PruneDeletes, Busy, ProcTypes, Resting
    <2>3. ASSUME NEW s \in Sessions, OpenChat(p, s) PROVE proc'[p].at \notin Busy
      <3>1. proc'[p] = [Resting EXCEPT !.at = "chat", !.dir = live, !.sid = s,
                                       !.always = Approvals, !.skills = Loaded]
            BY <2>3, OpenChatTypes
      <3> QED BY <3>1 DEF Resting, Busy
    <2>4. CASE SelectOrd(p) \/ PruneLooks(p)
      <3> DEFINE stale == {s \in DOMAIN Now(live).updated : Now(live).updated[s] = "old"}
      <3>0. \/ proc' = [proc EXCEPT ![p].at = "insert", ![p].ord = NextOrd(proc[p].dir, proc[p].sid)]
            \/ proc' = [proc EXCEPT ![p].at = "prune", ![p].dir = live, ![p].del = stale,
                                   ![p].add = Midway]
            BY <2>4 DEF SelectOrd, PruneLooks
      <3> HIDE DEF stale
      <3>1. proc'[p].at \in {"insert", "prune"}
            BY <2>0, <3>0 DEF ProcTypes, Frame
      <3> QED BY <3>1 DEF Busy
    <2>5. CASE InsertRow(p)
          BY <2>5, InsertRowTypes DEF Busy
    <2> QED BY <2>1, <2>2, <2>3, <2>4, <2>5 DEF Database
  <1> QED BY <1>1, <1>2, <1>3, <1>4 DEF Busy

(***************************************************************************)
(* Backups and imports.                                                    *)
(***************************************************************************)
(* Nobody begins a backup or an import.                                    *)
LEMMA ArchiveStays ==
    ASSUME ArchiveTypes, AtArchive, UNCHANGED archive,
           NEW p \in Procs, proc'[p].at \notin {"copy", "unpack"},
           \A q \in Procs \ {p} : proc'[q].at = proc[q].at /\ proc'[q].del = proc[q].del
    PROVE  ArchiveTypes' /\ AtArchive'
  BY DEF ArchiveTypes, AtArchive, Is

LEMMA MaintenanceArchive ==
    ASSUME ProcTypes, ArchiveTypes, AtArchive, NEW p \in Procs, Maintenance(p)
    PROVE  ArchiveTypes' /\ AtArchive'
  <1>0. proc[p] \in Frame
        BY DEF ProcTypes
  <1>1. CASE Backup(p)
    <2>1. ArchiveTypes'
      <3>1. /\ archive' = [held |-> <<>>, was |-> [files |-> file[live], now |-> Now(live)],
                           whole |-> FALSE]
            /\ DOMAIN archive'.held = {}
            BY <1>1 DEF Backup
      <3> QED BY <3>1 DEF ArchiveTypes
    <2>2. \A q \in Procs : ~Is(q, "unpack")'
          BY <1>1, <1>0 DEF Backup, Undisturbed, Is, Goes, ProcTypes, Frame
    <2> QED BY <2>1, <2>2 DEF AtArchive
  <1>2. CASE BackupEnds(p)
    <2>1. ArchiveTypes' /\ archive'.held = archive.held
      <3>1. archive' = [archive EXCEPT !.whole = steady]
            BY <1>2 DEF BackupEnds
      <3>2. DOMAIN archive.held = Parts /\ UNCHANGED steady
            BY <1>2 DEF BackupEnds, homeHistory
      <3>3. archive = [held |-> archive.held, was |-> archive.was, whole |-> archive.whole]
            BY DEF ArchiveTypes
      <3>4. archive' = [held |-> archive.held, was |-> archive.was, whole |-> steady]
            BY <3>1, <3>3
      <3> QED BY <3>2, <3>4 DEF ArchiveTypes
    <2>2. \A q \in Procs : ~Is(q, "unpack")'
          BY <1>2, <1>0 DEF BackupEnds, AtArchive, Is, Goes, ProcTypes, Frame
    <2> QED BY <2>1, <2>2 DEF AtArchive
  <1>3. ASSUME NEW unit \in Units, CopyPart(p, unit) PROVE ArchiveTypes' /\ AtArchive'
    <2>1. unit \subseteq Parts
          BY UnitsArePaths
    <2>2. ArchiveTypes'
          BY <1>3, <2>1 DEF CopyPart, ArchiveTypes
    <2>3. \A q \in Procs : ~Is(q, "unpack")'
          BY <1>3 DEF CopyPart, AtArchive, Is
    <2> QED BY <2>2, <2>3 DEF AtArchive
  <1>4. CASE Import(p)
    <2>1. /\ proc'[p].at = "unpack" /\ proc'[p].del = DOMAIN archive.held
          /\ \A q \in Procs \ {p} : proc'[q] = proc[q]
          /\ archive' = archive
          BY <1>4, <1>0 DEF Import, ProcTypes, Frame
    <2>2. \A q \in Procs : ~Is(q, "copy") /\ ~Is(q, "unpack")
          BY <1>4 DEF Import, Undisturbed
    <2>3. AtArchive'
          BY <2>1, <2>2 DEF AtArchive, Is
    <2> QED BY <2>1, <2>3 DEF ArchiveTypes
  <1>5. ASSUME NEW unit \in Units, Unpack(p, unit) PROVE ArchiveTypes' /\ AtArchive'
    <2>1. /\ proc'[p].at = "unpack" /\ proc[p].at = "unpack" /\ proc'[p].del \subseteq proc[p].del
          /\ \A q \in Procs \ {p} : proc'[q] = proc[q]
          /\ archive' = archive
          BY <1>5, <1>0 DEF Unpack, ProcTypes, Frame, Is
    <2> QED BY <2>1 DEF ArchiveTypes, AtArchive, Is
  <1>6. ASSUME NEW unit \in Units, RemovePart(p, unit) PROVE ArchiveTypes' /\ AtArchive'
    <2>1. \A q \in Procs : proc'[q].at = proc[q].at /\ (q # p => proc'[q].del = proc[q].del)
          BY <1>6, RemovePartTypes
    <2>2. proc'[p].at = "remove" /\ UNCHANGED archive
          BY <1>6, <2>1 DEF RemovePart, Is
    <2> QED BY <2>1, <2>2, ArchiveStays
  <1>7. CASE ImportEnds(p) \/ Uninstall(p) \/ UninstallEnds(p)
    <2>1. /\ proc'[p].at \in {"remove", "idle"}
          /\ \A q \in Procs \ {p} : proc'[q] = proc[q]
          BY <1>7, <1>0 DEF ImportEnds, Uninstall, UninstallEnds, Goes, ProcTypes, Frame
    <2>2. UNCHANGED archive
          BY <1>7 DEF ImportEnds, Uninstall, UninstallEnds
    <2> QED BY <2>1, <2>2, ArchiveStays
  <1> QED BY <1>1, <1>2, <1>3, <1>4, <1>5, <1>6, <1>7 DEF Maintenance

(***************************************************************************)
(* The databases.                                                          *)
(***************************************************************************)
(* Who is about to store a message has a number for it above those of its  *)
(* earlier ones.                                                           *)
Ahead ==
    \A q \in Procs : Is(q, "insert") =>
        \A r \in Now(proc[q].dir).rows :
            r.sid = proc[q].sid /\ r.who = q => r.ord < proc[q].ord
DbInv == DbSound /\ Connections /\ Ahead

LEMMA SessionAdded ==
    ASSUME NEW D \in Databases, Proper(D), NEW s \in Sessions
    PROVE  LET E == [D EXCEPT !.updated = [k \in DOMAIN D.updated \cup {s} |->
                                              IF k = s THEN "fresh" ELSE D.updated[k]]]
           IN  E \in Databases /\ Proper(E) /\ E.rows = D.rows
  <1> DEFINE new == [k \in DOMAIN D.updated \cup {s} |-> IF k = s THEN "fresh" ELSE D.updated[k]]
             E == [D EXCEPT !.updated = new]
  <1>1. PICK known \in SUBSET Sessions : D.updated \in [known -> {"fresh", "old"}]
        BY DEF Databases
  <1>2. new \in [known \cup {s} -> {"fresh", "old"}] /\ known \cup {s} \in SUBSET Sessions
        BY <1>1
  <1>3. new \in UNION {[k -> {"fresh", "old"}] : k \in SUBSET Sessions}
        BY <1>2
  <1>4. DOMAIN D.updated \subseteq DOMAIN new
        OBVIOUS
  <1> HIDE DEF new
  <1>5. E \in Databases /\ E.rows = D.rows /\ E.updated = new /\ E.next = D.next
        BY <1>3 DEF Databases
  <1>6. Proper(E)
        BY <1>4, <1>5 DEF Proper
  <1> QED BY <1>5, <1>6 DEF new

LEMMA RowAdded ==
    ASSUME NEW D \in Databases, Proper(D), NEW s \in DOMAIN D.updated, NEW p \in Procs, NEW ord \in Nat,
           \A r \in D.rows : r.sid = s /\ r.who = p => r.ord < ord
    PROVE  LET row == [id |-> D.next, sid |-> s, who |-> p, ord |-> ord]
               E == [D EXCEPT !.rows = @ \cup {row}, !.next = @ + 1]
           IN  E \in Databases /\ Proper(E) /\ E.rows = D.rows \cup {row}
  <1> DEFINE row == [id |-> D.next, sid |-> s, who |-> p, ord |-> ord]
             E == [D EXCEPT !.rows = D.rows \cup {row}, !.next = D.next + 1]
  <1>1. /\ DOMAIN D.updated \subseteq Sessions /\ D.next \in Nat
        /\ \A r \in D.rows : r.id \in Nat /\ r.ord \in Nat
        BY DEF Databases
  <1>2. row \in [id : Nat, sid : Sessions, who : Procs, ord : Nat]
        BY <1>1
  <1>3. /\ row.id = D.next /\ row.sid = s /\ row.who = p /\ row.ord = ord
        OBVIOUS
  <1> HIDE DEF row
  <1>4. /\ E \in Databases /\ E.rows = D.rows \cup {row} /\ E.updated = D.updated
        /\ E.next = D.next + 1
    <2> DEFINE rows == D.rows \cup {row}
               next == D.next + 1
    <2>1. rows \in SUBSET [id : Nat, sid : Sessions, who : Procs, ord : Nat]
          BY <1>2 DEF Databases
    <2>2. next \in Nat
          BY <1>1
    <2> HIDE DEF rows, next
    <2>3. LET F == [D EXCEPT !.rows = rows, !.next = next] IN
          F \in Databases /\ F.rows = rows /\ F.updated = D.updated /\ F.next = next
          BY <2>1, <2>2 DEF Databases
    <2> QED BY <2>3 DEF rows, next
  <1>5. \A r \in E.rows : r.id < E.next /\ r.sid \in DOMAIN E.updated
        BY <1>1, <1>3, <1>4 DEF Proper
  <1>6. ASSUME NEW r \in E.rows, NEW t \in E.rows, r.id < t.id, r.who = t.who, r.sid = t.sid
        PROVE  r.ord < t.ord
    <2>1. CASE r \in D.rows /\ t \in D.rows
          BY <1>6, <2>1 DEF Proper
    <2>2. CASE r \in D.rows /\ t = row
          BY <1>3, <1>6, <2>2
    <2>3. CASE r = row
      <3>1. t.id < D.next \/ t.id = D.next
            BY <1>3, <1>4 DEF Proper
      <3> QED BY <1>1, <1>3, <1>4, <1>6, <2>3, <3>1
    <2> QED BY <1>4, <1>6, <2>1, <2>2, <2>3
  <1>7. \E most \in Nat : \A r \in E.rows : r.ord <= most
    <2>1. PICK most \in Nat : \A r \in D.rows : r.ord <= most
          BY DEF Proper
    <2>2. most + ord \in Nat /\ most <= most + ord /\ ord <= most + ord
          OBVIOUS
    <2>3. \A r \in E.rows : r.ord <= most + ord
          BY <1>1, <1>3, <1>4, <2>1, <2>2
    <2> QED BY <2>2, <2>3
  <1>8. Proper(E)
        BY <1>5, <1>6, <1>7 DEF Proper
  <1> QED BY <1>4, <1>8 DEF row

LEMMA FoundAdded ==
    ASSUME NEW D \in Databases, Proper(D), NEW id \in Nat
    PROVE  LET E == [D EXCEPT !.found = @ \cup {id}]
           IN  E \in Databases /\ Proper(E) /\ E.rows = D.rows /\ E.updated = D.updated
  BY DEF Databases, Proper

LEMMA SessionTouched ==
    ASSUME NEW D \in Databases, Proper(D), NEW s \in DOMAIN D.updated
    PROVE  LET E == [D EXCEPT !.updated[s] = "fresh"]
           IN  E \in Databases /\ Proper(E) /\ E.rows = D.rows
  <1> DEFINE new == [D.updated EXCEPT ![s] = "fresh"]
             E == [D EXCEPT !.updated = new]
  <1>1. PICK known \in SUBSET Sessions : D.updated \in [known -> {"fresh", "old"}]
        BY DEF Databases
  <1>2. new \in [known -> {"fresh", "old"}] /\ DOMAIN new = DOMAIN D.updated
        BY <1>1
  <1>3. new \in UNION {[k -> {"fresh", "old"}] : k \in SUBSET Sessions}
        BY <1>2
  <1> HIDE DEF new
  <1>4. E \in Databases /\ E.rows = D.rows /\ E.updated = new /\ E.next = D.next
        BY <1>3 DEF Databases
  <1>5. Proper(E)
        BY <1>2, <1>4 DEF Proper
  <1> QED BY <1>4, <1>5 DEF new

LEMMA SessionsAged ==
    ASSUME NEW D \in Databases, Proper(D)
    PROVE  LET E == [D EXCEPT !.updated = [s \in DOMAIN @ |-> "old"]]
           IN  E \in Databases /\ Proper(E) /\ E.rows = D.rows
  <1> DEFINE new == [s \in DOMAIN D.updated |-> "old"]
             E == [D EXCEPT !.updated = new]
  <1>1. PICK known \in SUBSET Sessions : D.updated \in [known -> {"fresh", "old"}]
        BY DEF Databases
  <1>2. new \in [known -> {"fresh", "old"}] /\ DOMAIN new = DOMAIN D.updated
        BY <1>1
  <1>3. new \in UNION {[k -> {"fresh", "old"}] : k \in SUBSET Sessions}
        BY <1>2
  <1> HIDE DEF new
  <1>4. E \in Databases /\ E.rows = D.rows /\ E.updated = new /\ E.next = D.next
        BY <1>3 DEF Databases
  <1>5. Proper(E)
        BY <1>2, <1>4 DEF Proper
  <1> QED BY <1>4, <1>5 DEF new

LEMMA SessionsPruned ==
    ASSUME NEW d, Now(d) \in Databases, Proper(Now(d)), NEW stale
    PROVE  /\ Without(d, stale) \in Databases /\ Proper(Without(d, stale))
           /\ Without(d, stale).rows \subseteq Now(d).rows
           /\ Without(d, stale).updated = [s \in DOMAIN Now(d).updated \ stale |-> Now(d).updated[s]]
  <1> DEFINE D == Now(d)
             new == [s \in DOMAIN D.updated \ stale |-> D.updated[s]]
             rows == {r \in D.rows : r.sid \notin stale}
             E == [D EXCEPT !.updated = new, !.rows = rows]
  <1>0. Without(d, stale) = E
        BY DEF Without
  <1> HIDE DEF D
  <1>1. D \in Databases /\ Proper(D)
        BY DEF D
  <1>2. PICK known \in SUBSET Sessions : D.updated \in [known -> {"fresh", "old"}]
        BY <1>1 DEF Databases
  <1>3. new \in [known \ stale -> {"fresh", "old"}] /\ known \ stale \in SUBSET Sessions
        BY <1>2
  <1>4. new \in UNION {[k -> {"fresh", "old"}] : k \in SUBSET Sessions}
        BY <1>3
  <1>5. DOMAIN new = DOMAIN D.updated \ stale /\ rows \subseteq D.rows
        OBVIOUS
  <1>6. \A r \in rows : r.sid \notin stale
        OBVIOUS
  <1>7. rows \in SUBSET [id : Nat, sid : Sessions, who : Procs, ord : Nat]
        BY <1>1 DEF Databases
  <1>9. new = [s \in DOMAIN Now(d).updated \ stale |-> Now(d).updated[s]]
        BY DEF D
  <1> HIDE DEF new, rows
  <1>8. E \in Databases /\ E.rows = rows /\ E.updated = new /\ E.next = D.next
        BY <1>1, <1>4, <1>7 DEF Databases
  <1>10. Proper(E)
        BY <1>1, <1>5, <1>6, <1>8 DEF Proper
  <1>11. rows \subseteq Now(d).rows
        BY <1>5 DEF D
  <1> QED BY <1>0, <1>8, <1>9, <1>10, <1>11

(* One statement commits: the other databases stay, and all main files.    *)
LEMMA Committed ==
    ASSUME DbSound, NEW d \in 0..MaxDirs, NEW D \in Databases, Proper(D),
           Commit(d, D), UNCHANGED archive
    PROVE  /\ DbSound' /\ Now(d)' = D
           /\ \A e \in (0..MaxDirs) \ {d} : Now(e)' = Now(e)
           /\ \A e \in 0..MaxDirs : db'[e].main = db[e].main
  <1>1. db' = [db EXCEPT ![d].now = D] /\ D \in Stored
        BY DEF Commit, Stored
  <1>2. db \in [0..MaxDirs -> [main : Stored, now : Stored]]
        BY DEF DbSound
  <1>3. \A e \in 0..MaxDirs : /\ db'[e].main = db[e].main
                              /\ db'[e].now = IF e = d THEN D ELSE db[e].now
        BY <1>1, <1>2
  <1>4. db' \in [0..MaxDirs -> [main : Stored, now : Stored]]
        BY <1>1, <1>2
  <1>5. Sound(D)
        BY DEF Sound
  <1>6. \A e \in 0..MaxDirs : Sound(db'[e].now) /\ Sound(db'[e].main)
        BY <1>3, <1>5 DEF DbSound
  <1>7. DbSound'
        BY <1>4, <1>6 DEF DbSound, Sound, Stored, Proper
  <1> QED BY <1>3, <1>7 DEF Now

(* Who stays connected, and to what, when no other directory takes the     *)
(* place of the live one.                                                  *)
LEMMA ConnectionsStay ==
    ASSUME Connections, ProcTypes, FileTypes, UNCHANGED live, Unpacking' => Unpacking,
           \A q \in Procs : Connected(q)' => Connected(q) /\ proc'[q].dir = proc[q].dir,
           \A d \in 0..MaxDirs : Now(d) # Corrupt => Now(d)' # Corrupt
    PROVE  Connections'
  <1>1. \A q \in Procs : proc[q].dir \in 0..MaxDirs
        BY DEF ProcTypes, Frame
  <1>2. \A q \in Procs : Connected(q)' =>
            /\ proc'[q].dir \in 0..live /\ db'[proc[q].dir].now # Corrupt /\ proc'[q].dir = proc[q].dir
            /\ Unpacking => proc'[q].dir # live
        BY <1>1 DEF Connections, Now
  <1>3. \A q \in Procs : Connected(q)' => db'[proc'[q].dir].now # Corrupt
        BY <1>2 DEF Now
  <1> QED BY <1>2, <1>3 DEF Connections, Now

LEMMA AheadStays ==
    ASSUME Ahead,
           \A q \in Procs : Is(q, "insert")' =>
              /\ Is(q, "insert") /\ proc'[q].dir = proc[q].dir
              /\ proc'[q].sid = proc[q].sid /\ proc'[q].ord = proc[q].ord
              /\ \A r \in db'[proc[q].dir].now.rows : r \in Now(proc[q].dir).rows \/ r.who # q
    PROVE  Ahead'
  <1>1. ASSUME NEW q \in Procs, Is(q, "insert")',
               NEW r \in db'[proc'[q].dir].now.rows, r.sid = proc'[q].sid, r.who = q
        PROVE  r.ord < proc'[q].ord
    <2>1. r \in db'[proc[q].dir].now.rows
          BY <1>1 DEF Now
    <2>2. r \in Now(proc[q].dir).rows
          BY <1>1, <2>1
    <2> QED BY <1>1, <2>2 DEF Ahead
  <1> QED BY <1>1 DEF Ahead, Now

(* No other database is opened and nothing is stored.                      *)
LEMMA NothingStored ==
    ASSUME DbInv, ProcTypes, FileTypes, UNCHANGED <<live, db, archive>>,
           Unpacking' => Unpacking,
           \A q \in Procs : Connected(q)' => Connected(q) /\ proc'[q].dir = proc[q].dir,
           \A q \in Procs : Is(q, "insert")' =>
              /\ Is(q, "insert") /\ proc'[q].dir = proc[q].dir
              /\ proc'[q].sid = proc[q].sid /\ proc'[q].ord = proc[q].ord
    PROVE  DbInv'
  <1>1. \A d : Now(d)' = Now(d)
        BY DEF Now
  <1>2. DbSound'
        BY DEF DbInv, DbSound, Sound, Stored, Proper
  <1>3. Connections'
        BY <1>1, ConnectionsStay DEF DbInv
  <1>4. Ahead'
        BY <1>1, AheadStays DEF DbInv, Now
  <1> QED BY <1>2, <1>3, <1>4 DEF DbInv

(* What a process does away from the database.                             *)
LEMMA AwayDb ==
    ASSUME DbInv, ProcTypes, FileTypes, Carriers, NEW p \in Procs,
           Yaml(p) \/ Memory(p) \/ Library(p) \/ Dies(p)
    PROVE  DbInv' /\ proc'[p].at \notin Busy \cup {"prune", "insert"}
  <1>1. /\ UNCHANGED <<live, db, archive>>
        /\ proc'[p].at \in {"save", "browser", "chat", "idle", "index", "line", "skill", "unlink"}
        /\ (proc'[p].sid = proc[p].sid /\ proc'[p].dir = proc[p].dir) \/ proc'[p].sid = 0
        /\ \A q \in Procs \ {p} : proc'[q] = proc[q]
    <2>1. Resting.at = "idle" /\ Resting.sid = 0
          BY DEF Resting
    <2>2. CASE Yaml(p)
          BY <2>2, YamlStep
    <2>3. CASE Memory(p)
          BY <2>3, MemoryStep
    <2>4. CASE Library(p)
          BY <2>1, <2>4, LibraryStep DEF disk
    <2>5. CASE Dies(p)
          BY <2>1, <2>5, DeathStep
    <2> QED BY <2>2, <2>3, <2>4, <2>5
  <1>2. Unpacking' => Unpacking
        BY <1>1 DEF Unpacking, Is
  <1>3. \A q \in Procs : Connected(q)' => Connected(q) /\ proc'[q].dir = proc[q].dir
        BY <1>1 DEF Connected, Chatting, Is
  <1>4. \A q \in Procs : Is(q, "insert")' =>
              /\ Is(q, "insert") /\ proc'[q].dir = proc[q].dir
              /\ proc'[q].sid = proc[q].sid /\ proc'[q].ord = proc[q].ord
        BY <1>1 DEF Is
  <1> QED BY <1>1, <1>2, <1>3, <1>4, NothingStored DEF Busy

(* A database a process is connected to after it committed to it: the      *)
(* rows of others who are about to store a message do not become more.     *)
LEMMA CommitKeeps ==
    ASSUME DbInv, ProcTypes, FileTypes, NEW d \in 0..MaxDirs, NEW D \in Databases, Proper(D),
           Commit(d, D), UNCHANGED <<live, archive>>,
           Unpacking' => Unpacking,
           \A q \in Procs : Connected(q)' => Connected(q) /\ proc'[q].dir = proc[q].dir,
           \A q \in Procs : Is(q, "insert")' =>
              /\ Is(q, "insert") /\ proc'[q].dir = proc[q].dir
              /\ proc'[q].sid = proc[q].sid /\ proc'[q].ord = proc[q].ord
              /\ \A r \in D.rows : r \in Now(d).rows \/ r.who # q
    PROVE  DbInv' /\ \A e \in 0..MaxDirs : db'[e].now = Corrupt => db[e].now = Corrupt
  <1>1. /\ DbSound' /\ Now(d)' = D
        /\ \A e \in (0..MaxDirs) \ {d} : Now(e)' = Now(e)
        BY Committed DEF DbInv
  <1>2. \A e \in 0..MaxDirs : Now(e) # Corrupt => Now(e)' # Corrupt
        BY <1>1, NoContentAssumption
  <1>3. Connections'
        BY <1>2, ConnectionsStay DEF DbInv
  <1>4. ASSUME NEW q \in Procs, Is(q, "insert")'
        PROVE  \A r \in db'[proc[q].dir].now.rows : r \in Now(proc[q].dir).rows \/ r.who # q
    <2>1. proc[q].dir \in 0..MaxDirs
          BY DEF ProcTypes, Frame
    <2>2. CASE proc[q].dir = d
          BY <1>1, <1>4, <2>2 DEF Now
    <2>3. CASE proc[q].dir # d
          BY <1>1, <2>1, <2>3 DEF Now
    <2> QED BY <2>2, <2>3
  <1>5. Ahead'
        BY <1>4, AheadStays DEF DbInv
  <1>6. \A e \in 0..MaxDirs : db'[e].now = Corrupt => db[e].now = Corrupt
        BY <1>1, NoContentAssumption DEF Now
  <1> QED BY <1>1, <1>3, <1>5, <1>6 DEF DbInv

LEMMA OpenChatDb ==
    ASSUME DbInv, ProcTypes, FileTypes, NEW p \in Procs, NEW s \in Sessions, OpenChat(p, s)
    PROVE  /\ DbInv' /\ ~Unpacking'
           /\ db'[live].now # Corrupt
           /\ Now(live)'.rows = Now(live).rows
           /\ \A k \in DOMAIN Now(live).updated : /\ k \in DOMAIN Now(live)'.updated
                                                  /\ Now(live)'.updated[k] = Now(live).updated[k]
           /\ \A k \in DOMAIN Now(live)'.updated \ DOMAIN Now(live).updated :
                  Now(live)'.updated[k] = "fresh"
  <1>0. live \in 0..MaxDirs /\ Now(live) \in Databases /\ Proper(Now(live)) /\ Now(live) # Corrupt
    <2>1. live \in 0..MaxDirs /\ Now(live) # Corrupt
          BY HomeAssumption DEF FileTypes, OpenChat
    <2> QED BY <2>1 DEF DbInv, DbSound, Sound, Now
  <1>1. /\ proc'[p].at = "chat" /\ proc'[p].dir = live
        /\ \A q \in Procs \ {p} : proc'[q] = proc[q]
    <2>1. /\ proc'[p] = [Resting EXCEPT !.at = "chat", !.dir = live, !.sid = s,
                                        !.always = Approvals, !.skills = Loaded]
          /\ \A q \in Procs \ {p} : proc'[q] = proc[q]
          BY OpenChatTypes, Zenon
    <2> QED BY <2>1 DEF Resting
  <1>2. UNCHANGED <<live, archive>> /\ \A q \in Procs : ~Is(q, "unpack")
        BY DEF OpenChat, Undisturbed
  <1>3. ~Unpacking'
        BY <1>1, <1>2 DEF Unpacking, Is
  <1> DEFINE new == [k \in DOMAIN Now(live).updated \cup {s} |->
                        IF k = s THEN "fresh" ELSE Now(live).updated[k]]
             D == [Now(live) EXCEPT !.updated = new]
  <1>4. \/ UNCHANGED db
        \/ s \notin DOMAIN Now(live).updated /\ Commit(live, D)
        BY DEF OpenChat
  <1>5. D \in Databases /\ Proper(D) /\ D.rows = Now(live).rows
        BY <1>0, SessionAdded
  <1>6. D.updated = new
        BY <1>0 DEF Databases
  <1>7. DbSound'
        BY <1>0, <1>2, <1>4, <1>5, Committed DEF DbInv, DbSound, Sound, Stored, Proper
  <1>8. \/ UNCHANGED db
        \/ /\ s \notin DOMAIN Now(live).updated
           /\ db'[live].now = D
           /\ \A e \in (0..MaxDirs) \ {live} : db'[e].now = db[e].now
    <2>1. CASE Commit(live, D)
      <3>1. Now(live)' = D /\ \A e \in (0..MaxDirs) \ {live} : Now(e)' = Now(e)
            BY <1>0, <1>2, <1>5, <2>1, Committed DEF DbInv
      <3>2. db'[live].now = D
            BY <1>2, <3>1 DEF Now
      <3> QED BY <1>4, <3>1, <3>2 DEF Now
    <2> QED BY <1>4, <2>1
  <1>10. /\ \A k \in DOMAIN Now(live).updated :
               k \in DOMAIN new /\ (s \notin DOMAIN Now(live).updated => new[k] = Now(live).updated[k])
         /\ \A k \in DOMAIN new \ DOMAIN Now(live).updated : new[k] = "fresh"
        OBVIOUS
  <1> HIDE DEF new
  <1>11. /\ Now(live)'.rows = Now(live).rows
         /\ \A k \in DOMAIN Now(live).updated : /\ k \in DOMAIN Now(live)'.updated
                                                /\ Now(live)'.updated[k] = Now(live).updated[k]
         /\ \A k \in DOMAIN Now(live)'.updated \ DOMAIN Now(live).updated :
                Now(live)'.updated[k] = "fresh"
    <2>1. Now(live)' = Now(live) \/ (Now(live)' = D /\ s \notin DOMAIN Now(live).updated)
          BY <1>2, <1>8 DEF Now
    <2> HIDE DEF D
    <2> QED BY <1>5, <1>6, <1>10, <2>1
  <1>12. \A e \in 0..MaxDirs : db[e].now # Corrupt => db'[e].now # Corrupt
        BY <1>5, <1>8, NoContentAssumption DEF Now
  <1>13. Connections'
    <2>1. ASSUME NEW q \in Procs, Connected(q)'
          PROVE  proc'[q].dir \in 0..live /\ proc'[q].dir \in 0..MaxDirs /\ db[proc'[q].dir].now # Corrupt
      <3>1. CASE q = p
            BY <1>0, <1>1, <3>1 DEF Now, FileTypes
      <3>2. CASE q # p
        <4>1. Connected(q) /\ proc'[q].dir = proc[q].dir
              BY <1>1, <2>1, <3>2 DEF Connected, Chatting, Is
        <4>2. proc[q].dir \in 0..MaxDirs
              BY DEF ProcTypes, Frame
        <4> QED BY <4>1, <4>2 DEF DbInv, Connections, Now
      <3> QED BY <3>1, <3>2
    <2>2. ASSUME NEW q \in Procs, Connected(q)'
          PROVE  proc'[q].dir \in 0..live /\ db'[proc'[q].dir].now # Corrupt
          BY <1>12, <2>1, <2>2
    <2> QED BY <1>2, <1>3, <2>2 DEF Connections, Now
  <1>14. Ahead'
    <2>1. ASSUME NEW q \in Procs, Is(q, "insert")'
          PROVE  \A r \in db'[proc[q].dir].now.rows : r \in Now(proc[q].dir).rows \/ r.who # q
      <3>1. proc[q].dir \in 0..MaxDirs
            BY DEF ProcTypes, Frame
      <3> QED BY <1>5, <1>8, <3>1 DEF Now
    <2>2. \A q \in Procs : Is(q, "insert")' =>
              /\ Is(q, "insert") /\ proc'[q].dir = proc[q].dir
              /\ proc'[q].sid = proc[q].sid /\ proc'[q].ord = proc[q].ord
          BY <1>1 DEF Is
    <2> QED BY <2>1, <2>2, AheadStays DEF DbInv
  <1>15. db'[live].now # Corrupt
        BY <1>0, <1>12 DEF Now
  <1> QED BY <1>3, <1>7, <1>11, <1>13, <1>14, <1>15 DEF DbInv

(* The process that steps is not about to store a message afterwards, and  *)
(* is connected as before, or no longer.                                   *)
LEMMA OthersStay ==
    ASSUME NEW p \in Procs, proc'[p].at \notin {"insert", "unpack"},
           Connected(p)' => Connected(p) /\ proc'[p].dir = proc[p].dir,
           \A q \in Procs \ {p} : AsBefore(q)
    PROVE  /\ Unpacking' => Unpacking
           /\ \A q \in Procs : Connected(q)' => Connected(q) /\ proc'[q].dir = proc[q].dir
           /\ \A q \in Procs : Is(q, "insert")' =>
                 /\ Is(q, "insert") /\ proc'[q].dir = proc[q].dir
                 /\ proc'[q].sid = proc[q].sid /\ proc'[q].ord = proc[q].ord /\ q # p
  BY DEF AsBefore, Unpacking, Connected, Chatting, Is

LEMMA InsertRowDb ==
    ASSUME DbInv, ProcTypes, FileTypes, NEW p \in Procs, InsertRow(p)
    PROVE  /\ DbInv'
           /\ \A e \in 0..MaxDirs : db'[e].now = Corrupt => db[e].now = Corrupt
           /\ \/ UNCHANGED <<db, active, steady>> /\ proc'[p].at = "chat"
              \/ /\ \A e \in 0..MaxDirs : db'[e].now.updated = db[e].now.updated
                 /\ active' = IF proc[p].dir = live THEN active \cup {proc[p].sid} ELSE active
                 /\ proc'[p].at = "find" /\ ~steady'
  <1> DEFINE d == proc[p].dir
             s == proc[p].sid
             row == [id |-> Now(d).next, sid |-> s, who |-> p, ord |-> proc[p].ord]
             D == [Now(d) EXCEPT !.rows = @ \cup {row}, !.next = @ + 1]
  <1>1. proc[p] \in Frame /\ proc[p].at = "insert" /\ UNCHANGED <<live, archive>>
        BY DEF InsertRow, Is, ProcTypes
  <1>2. Connected(p) /\ d \in 0..MaxDirs /\ Now(d) \in Databases /\ Proper(Now(d))
        BY <1>1, ChatsAreConnected, ConnectedToSound DEF AtChat, DbInv
  <1>3. /\ ProcTypes' /\ proc'[p].at \in {"chat", "find"} /\ proc'[p].dir = d
        /\ \A q \in Procs \ {p} : AsBefore(q)
    <2>1. DbSound /\ Connections
          BY DEF DbInv
    <2>2. ASSUME NEW q \in Procs \ {p} PROVE AsBefore(q)
      <3>1. \/ proc'[q] = proc[q]
            \/ Is(q, "prune") /\ proc'[q] = [proc[q] EXCEPT !.add = @ \cup {proc[p].sid}]
            BY <2>1, InsertRowTypes
      <3>2. proc[q] \in Frame
            BY DEF ProcTypes
      <3> QED BY <3>1, <3>2 DEF AsBefore, Frame, Is
    <2> QED BY <2>1, <2>2, InsertRowTypes
  <1>4. /\ Unpacking' => Unpacking
        /\ \A q \in Procs : Connected(q)' => Connected(q) /\ proc'[q].dir = proc[q].dir
        /\ \A q \in Procs : Is(q, "insert")' =>
                 /\ Is(q, "insert") /\ proc'[q].dir = proc[q].dir
                 /\ proc'[q].sid = proc[q].sid /\ proc'[q].ord = proc[q].ord /\ q # p
    <2>1. proc'[p].at \notin {"insert", "unpack"}
          BY <1>3
    <2> QED BY <1>2, <1>3, <2>1, OthersStay
  <1>5. CASE s \notin DOMAIN Now(d).updated
    <2>1. UNCHANGED <<db, active, steady>> /\ Goes(p, "chat")
          BY <1>5 DEF InsertRow
    <2>2. proc'[p].at = "chat"
          BY <1>1, <2>1 DEF Goes, ProcTypes, Frame
    <2> QED BY <1>1, <1>4, <2>1, <2>2, NothingStored
  <1>6. CASE s \in DOMAIN Now(d).updated
    <2>1. /\ Commit(d, D)
          /\ active' = IF d = live THEN active \cup {s} ELSE active
          BY <1>6 DEF InsertRow
    <2>2. proc[p].ord \in Nat /\ \A r \in Now(d).rows : r.sid = s /\ r.who = p => r.ord < proc[p].ord
          BY <1>1 DEF DbInv, Ahead, Is, Frame
    <2>3. D \in Databases /\ Proper(D) /\ D.rows = Now(d).rows \cup {row}
          BY <1>2, <1>6, <2>2, RowAdded
    <2>4. row.who = p /\ D.updated = Now(d).updated
          BY <1>2 DEF Databases
    <2>5. proc'[p].at = "find"
      <3> DEFINE r == [proc[p] EXCEPT !.at = "find", !.said = @ + 1, !.ord = Now(d).next]
      <3>1. proc' = [q \in Procs |->
                       IF q = p THEN r
                       ELSE IF Is(q, "prune") /\ proc[q].dir = d
                            THEN [proc[q] EXCEPT !.add = @ \cup {s}] ELSE proc[q]]
            BY <1>6 DEF InsertRow
      <3>2. proc'[p] = r
            BY <3>1
      <3> QED BY <1>1, <3>2 DEF Frame
    <2> HIDE DEF D, row, d, s
    <2>6. DbInv' /\ \A e \in 0..MaxDirs : db'[e].now = Corrupt => db[e].now = Corrupt
          BY <1>1, <1>2, <1>4, <2>1, <2>3, <2>4, CommitKeeps
    <2>7. db'[d].now = D /\ \A e \in (0..MaxDirs) \ {d} : db'[e].now = db[e].now
          BY <1>2, <2>1 DEF Commit, DbInv, DbSound
    <2>8. \A e \in 0..MaxDirs : db'[e].now.updated = db[e].now.updated
          BY <2>4, <2>7 DEF Now
    <2>9. ~steady'
          BY <2>1 DEF Commit
    <2> QED BY <2>1, <2>5, <2>6, <2>8, <2>9 DEF d, s
  <1> QED BY <1>5, <1>6

LEMMA InsertFoundDb ==
    ASSUME DbInv, ProcTypes, FileTypes, NEW p \in Procs, InsertFound(p)
    PROVE  /\ DbInv'
           /\ \A e \in 0..MaxDirs : db'[e].now = Corrupt => db[e].now = Corrupt
           /\ \A e \in 0..MaxDirs : db'[e].now.updated = db[e].now.updated
           /\ proc'[p].at = "touch" /\ proc'[p].sid = proc[p].sid /\ proc'[p].dir = proc[p].dir
           /\ \A q \in Procs \ {p} : proc'[q] = proc[q]
  <1> DEFINE d == proc[p].dir
             D == [Now(d) EXCEPT !.found = @ \cup {proc[p].ord}]
  <1>1. /\ proc[p] \in Frame /\ proc[p].at = "find" /\ UNCHANGED <<live, archive>>
        /\ Commit(d, D) /\ Goes(p, "touch")
        BY DEF InsertFound, Is, ProcTypes
  <1>2. Connected(p) /\ d \in 0..MaxDirs /\ Now(d) \in Databases /\ Proper(Now(d))
        BY <1>1, ChatsAreConnected, ConnectedToSound DEF AtChat, DbInv
  <1>3. /\ proc'[p].at = "touch" /\ proc'[p].sid = proc[p].sid /\ proc'[p].dir = d
        /\ \A q \in Procs \ {p} : proc'[q] = proc[q]
        BY <1>1 DEF Goes, ProcTypes, Frame
  <1>4. D \in Databases /\ Proper(D) /\ D.rows = Now(d).rows /\ D.updated = Now(d).updated
    <2>1. proc[p].ord \in Nat
          BY <1>1 DEF Frame
    <2> QED BY <1>2, <2>1, FoundAdded
  <1>5. /\ Unpacking' => Unpacking
        /\ \A q \in Procs : Connected(q)' => Connected(q) /\ proc'[q].dir = proc[q].dir
        /\ \A q \in Procs : Is(q, "insert")' =>
                 /\ Is(q, "insert") /\ proc'[q].dir = proc[q].dir
                 /\ proc'[q].sid = proc[q].sid /\ proc'[q].ord = proc[q].ord /\ q # p
        BY <1>2, <1>3, OthersStay DEF AsBefore
  <1> HIDE DEF D, d
  <1>6. DbInv' /\ \A e \in 0..MaxDirs : db'[e].now = Corrupt => db[e].now = Corrupt
        BY <1>1, <1>2, <1>4, <1>5, CommitKeeps
  <1>7. db'[d].now = D /\ \A e \in (0..MaxDirs) \ {d} : db'[e].now = db[e].now
        BY <1>1, <1>2 DEF Commit, DbInv, DbSound
  <1>8. \A e \in 0..MaxDirs : db'[e].now.updated = db[e].now.updated
        BY <1>4, <1>7 DEF Now
  <1> QED BY <1>3, <1>6, <1>8 DEF d

LEMMA TouchSessionDb ==
    ASSUME DbInv, ProcTypes, FileTypes, NEW p \in Procs, TouchSession(p)
    PROVE  /\ DbInv'
           /\ \A e \in 0..MaxDirs : db'[e].now = Corrupt => db[e].now = Corrupt
           /\ \A e \in 0..MaxDirs : \A s \in DOMAIN db'[e].now.updated :
                 /\ s \in DOMAIN db[e].now.updated
                 /\ \/ db'[e].now.updated[s] = db[e].now.updated[s]
                    \/ db'[e].now.updated[s] = "fresh"
           /\ LET d == proc[p].dir
                  s == proc[p].sid
              IN  s \in DOMAIN db'[d].now.updated => db'[d].now.updated[s] = "fresh"
           /\ proc'[p].at = "chat" /\ proc'[p].sid = proc[p].sid /\ proc'[p].dir = proc[p].dir
           /\ \A q \in Procs \ {p} : proc'[q] = proc[q]
  <1> DEFINE d == proc[p].dir
             s == proc[p].sid
             D == [Now(d) EXCEPT !.updated[s] = "fresh"]
  <1>1. /\ proc[p] \in Frame /\ proc[p].at = "touch" /\ UNCHANGED <<live, archive>>
        /\ Goes(p, "chat")
        BY DEF TouchSession, Is, ProcTypes
  <1>2. Connected(p) /\ d \in 0..MaxDirs /\ Now(d) \in Databases /\ Proper(Now(d))
        BY <1>1, ChatsAreConnected, ConnectedToSound DEF AtChat, DbInv
  <1>3. /\ proc'[p].at = "chat" /\ proc'[p].sid = s /\ proc'[p].dir = d
        /\ \A q \in Procs \ {p} : proc'[q] = proc[q]
        BY <1>1 DEF Goes, ProcTypes, Frame
  <1>5. /\ Unpacking' => Unpacking
        /\ \A q \in Procs : Connected(q)' => Connected(q) /\ proc'[q].dir = proc[q].dir
        /\ \A q \in Procs : Is(q, "insert")' =>
                 /\ Is(q, "insert") /\ proc'[q].dir = proc[q].dir
                 /\ proc'[q].sid = proc[q].sid /\ proc'[q].ord = proc[q].ord /\ q # p
        BY <1>2, <1>3, OthersStay DEF AsBefore
  <1>6. CASE s \notin DOMAIN Now(d).updated
    <2>1. UNCHANGED db
          BY <1>6 DEF TouchSession
    <2>2. DbInv'
          BY <1>1, <1>5, <2>1, NothingStored
    <2> QED BY <1>3, <1>6, <2>1, <2>2 DEF Now
  <1>7. CASE s \in DOMAIN Now(d).updated
    <2>1. Commit(d, D)
          BY <1>7 DEF TouchSession
    <2>2. D \in Databases /\ Proper(D) /\ D.rows = Now(d).rows
          BY <1>2, <1>7, SessionTouched
    <2>3. D.updated = [Now(d).updated EXCEPT ![s] = "fresh"]
          BY <1>2 DEF Databases
    <2> HIDE DEF D, d, s
    <2>4. DbInv' /\ \A e \in 0..MaxDirs : db'[e].now = Corrupt => db[e].now = Corrupt
          BY <1>1, <1>2, <1>5, <2>1, <2>2, CommitKeeps
    <2>5. db'[d].now = D /\ \A e \in (0..MaxDirs) \ {d} : db'[e].now = db[e].now
          BY <1>2, <2>1 DEF Commit, DbInv, DbSound
    <2>6. /\ DOMAIN D.updated = DOMAIN db[d].now.updated
          /\ \A k \in DOMAIN D.updated : D.updated[k] = IF k = s THEN "fresh" ELSE db[d].now.updated[k]
          BY <2>3 DEF Now
    <2>7. \A e \in 0..MaxDirs : \A k \in DOMAIN db'[e].now.updated :
                 /\ k \in DOMAIN db[e].now.updated
                 /\ \/ db'[e].now.updated[k] = db[e].now.updated[k]
                    \/ db'[e].now.updated[k] = "fresh"
          BY <2>5, <2>6
    <2>8. db'[d].now.updated[s] = "fresh"
          BY <1>7, <2>3, <2>5
    <2> QED BY <1>3, <2>4, <2>7, <2>8 DEF d, s
  <1> QED BY <1>6, <1>7

LEMMA SelectOrdDb ==
    ASSUME DbInv, ProcTypes, FileTypes, NEW p \in Procs, SelectOrd(p)
    PROVE  DbInv'
  <1>1. /\ proc[p] \in Frame /\ proc[p].at = "chat" /\ UNCHANGED <<live, archive, db>>
        BY DEF SelectOrd, InChat, Is, ProcTypes, disk
  <1>2. /\ Connected(p) /\ proc[p].dir \in 0..MaxDirs
        /\ Now(proc[p].dir) \in Databases /\ Proper(Now(proc[p].dir))
        BY <1>1, ChatsAreConnected, ConnectedToSound DEF AtChat, DbInv
  <1>3. /\ proc'[p].at = "insert" /\ proc'[p].sid = proc[p].sid /\ proc'[p].dir = proc[p].dir
        /\ proc'[p].ord = NextOrd(proc[p].dir, proc[p].sid)
        /\ \A q \in Procs \ {p} : proc'[q] = proc[q]
    <2>1. /\ proc'[p] = [proc[p] EXCEPT !.at = "insert", !.ord = NextOrd(proc[p].dir, proc[p].sid)]
          /\ \A q \in Procs \ {p} : proc'[q] = proc[q]
          BY SelectOrdTypes, Zenon DEF DbInv
    <2> QED BY <1>1, <2>1 DEF Frame
  <1>4. Unpacking' => Unpacking
        BY <1>3 DEF Unpacking, Is
  <1>5. \A q \in Procs : Connected(q)' => Connected(q) /\ proc'[q].dir = proc[q].dir
        BY <1>2, <1>3 DEF Connected, Chatting, Is
  <1>6. DbSound'
        BY <1>1 DEF DbInv, DbSound, Sound, Stored, Proper
  <1>7. Connections'
        BY <1>1, <1>4, <1>5, ConnectionsStay DEF DbInv, Now
  <1>8. ASSUME NEW q \in Procs, Is(q, "insert")',
               NEW r \in db[proc'[q].dir].now.rows, r.sid = proc'[q].sid, r.who = q
        PROVE  r.ord < proc'[q].ord
    <2>1. CASE q = p
      <3>1. \A t \in Now(proc[p].dir).rows : t.sid = proc[p].sid => t.ord < NextOrd(proc[p].dir, proc[p].sid)
            BY <1>2, NextIsAbove
      <3> QED BY <1>3, <1>8, <2>1, <3>1 DEF Now
    <2>2. CASE q # p
          BY <1>3, <1>8, <2>2 DEF DbInv, Ahead, Is, Now
    <2> QED BY <2>1, <2>2
  <1>9. Ahead'
        BY <1>1, <1>8 DEF Ahead, Now
  <1> QED BY <1>6, <1>7, <1>9 DEF DbInv

LEMMA PruneDeletesDb ==
    ASSUME DbInv, ProcTypes, FileTypes, NEW p \in Procs, PruneDeletes(p)
    PROVE  /\ DbInv'
           /\ \A e \in 0..MaxDirs : db'[e].now = Corrupt => db[e].now = Corrupt
           /\ \A e \in 0..MaxDirs : \A s \in DOMAIN db'[e].now.updated :
                 /\ s \in DOMAIN db[e].now.updated
                 /\ db'[e].now.updated[s] = db[e].now.updated[s]
           /\ proc'[p] = Resting
           /\ \A q \in Procs \ {p} : proc'[q] = proc[q]
  <1> DEFINE d == proc[p].dir
             D == Without(d, proc[p].del)
  <1>1. /\ proc[p] \in Frame /\ proc[p].at = "prune" /\ UNCHANGED <<live, archive>>
        /\ Commit(d, D) /\ proc' = [proc EXCEPT ![p] = Resting]
        BY DEF PruneDeletes, Is, ProcTypes
  <1>2. Connected(p) /\ d \in 0..MaxDirs /\ Now(d) \in Databases /\ Proper(Now(d))
    <2>1. Connected(p)
          BY <1>1 DEF Connected, Is
    <2> QED BY <2>1, ConnectedToSound DEF DbInv
  <1>3. /\ proc'[p] = Resting
        /\ \A q \in Procs \ {p} : proc'[q] = proc[q]
        BY <1>1, Leaving
  <1>4. /\ D \in Databases /\ Proper(D) /\ D.rows \subseteq Now(d).rows
        /\ D.updated = [s \in DOMAIN Now(d).updated \ proc[p].del |-> Now(d).updated[s]]
        BY <1>2, SessionsPruned
  <1>5. /\ Unpacking' => Unpacking
        /\ \A q \in Procs : Connected(q)' => Connected(q) /\ proc'[q].dir = proc[q].dir
        /\ \A q \in Procs : Is(q, "insert")' =>
                 /\ Is(q, "insert") /\ proc'[q].dir = proc[q].dir
                 /\ proc'[q].sid = proc[q].sid /\ proc'[q].ord = proc[q].ord /\ q # p
    <2>1. proc'[p].at = "idle" /\ proc'[p].sid = 0
          BY <1>3 DEF Resting
    <2>2. ~Connected(p)'
          BY <2>1 DEF Connected, Chatting, Is
    <2>3. \A q \in Procs \ {p} : AsBefore(q)
          BY <1>3 DEF AsBefore
    <2>4. proc'[p].at \notin {"insert", "unpack"}
          BY <2>1
    <2> QED BY <2>2, <2>3, <2>4, OthersStay
  <1> HIDE DEF D, d
  <1>6. DbInv' /\ \A e \in 0..MaxDirs : db'[e].now = Corrupt => db[e].now = Corrupt
        BY <1>1, <1>2, <1>4, <1>5, CommitKeeps
  <1>7. db'[d].now = D /\ \A e \in (0..MaxDirs) \ {d} : db'[e].now = db[e].now
        BY <1>1, <1>2 DEF Commit, DbInv, DbSound
  <1>8. \A s \in DOMAIN D.updated : /\ s \in DOMAIN db[d].now.updated
                                    /\ D.updated[s] = db[d].now.updated[s]
        BY <1>4 DEF Now
  <1>9. \A e \in 0..MaxDirs : \A s \in DOMAIN db'[e].now.updated :
                 /\ s \in DOMAIN db[e].now.updated
                 /\ db'[e].now.updated[s] = db[e].now.updated[s]
        BY <1>7, <1>8
  <1> QED BY <1>3, <1>6, <1>9

LEMMA DatabaseDb ==
    ASSUME DbInv, ProcTypes, FileTypes, Sids, NEW p \in Procs, Database(p)
    PROVE  DbInv'
  <1>1. CASE CloseChat(p)
    <2>1. /\ proc'[p] = Resting /\ \A q \in Procs \ {p} : proc'[q] = proc[q]
          /\ UNCHANGED <<live, db, archive>>
          BY <1>1, Leaving DEF CloseChat, disk
    <2>2. proc'[p].at = "idle" /\ proc'[p].sid = 0
          BY <2>1 DEF Resting
    <2>3. ~Connected(p)'
          BY <2>2 DEF Connected, Chatting, Is
    <2>4. \A q \in Procs \ {p} : AsBefore(q)
          BY <2>1 DEF AsBefore
    <2>5. proc'[p].at \notin {"insert", "unpack"}
          BY <2>2
    <2> QED BY <2>1, <2>3, <2>4, <2>5, OthersStay, NothingStored
  <1>2. CASE PruneLooks(p)
    <2>1. /\ proc'[p].at = "prune" /\ proc'[p].dir = live /\ UNCHANGED <<live, db, archive>>
          /\ \A q \in Procs \ {p} : proc'[q] = proc[q]
      <3> DEFINE stale == {s \in DOMAIN Now(live).updated : Now(live).updated[s] = "old"}
      <3>1. /\ proc'[p] = [proc[p] EXCEPT !.at = "prune", !.dir = live, !.del = stale, !.add = Midway]
            /\ \A q \in Procs \ {p} : proc'[q] = proc[q]
            BY <1>2, PruneLooksTypes, Zenon DEF DbInv
      <3>2. proc[p] \in Frame
            BY DEF ProcTypes
      <3>3. UNCHANGED <<live, db, archive>>
            BY <1>2 DEF PruneLooks, disk
      <3> HIDE DEF stale
      <3> QED BY <3>1, <3>2, <3>3 DEF Frame
    <2>2. \A q \in Procs : ~Is(q, "unpack")
          BY <1>2 DEF PruneLooks, Undisturbed
    <2>3. ~Unpacking'
          BY <2>1, <2>2 DEF Unpacking, Is
    <2>4. Now(live) # Corrupt /\ live \in 0..live
      <3>1. Now(live) # Corrupt
            BY <1>2 DEF PruneLooks
      <3>2. live \in 1..MaxDirs
            BY DEF FileTypes
      <3> QED BY <3>1, <3>2, HomeAssumption
    <2>5. ASSUME NEW q \in Procs, Connected(q)'
          PROVE  proc'[q].dir \in 0..live /\ db[proc'[q].dir].now # Corrupt
      <3>1. CASE q = p
            BY <2>1, <2>4, <3>1 DEF Now
      <3>2. CASE q # p
            BY <2>1, <2>5, <3>2 DEF DbInv, Connections, Connected, Chatting, Is, Now
      <3> QED BY <3>1, <3>2
    <2>6. Connections'
          BY <2>1, <2>3, <2>5 DEF Connections, Now
    <2>7. DbSound'
          BY <2>1 DEF DbInv, DbSound, Sound, Stored, Proper
    <2>8. Ahead'
      <3>1. ASSUME NEW q \in Procs, Is(q, "insert")'
            PROVE  /\ Is(q, "insert") /\ proc'[q].dir = proc[q].dir
                   /\ proc'[q].sid = proc[q].sid /\ proc'[q].ord = proc[q].ord
                   /\ \A r \in db'[proc[q].dir].now.rows : r \in Now(proc[q].dir).rows \/ r.who # q
            BY <2>1, <3>1 DEF Is, Now
      <3> QED BY <3>1, AheadStays DEF DbInv
    <2> QED BY <2>6, <2>7, <2>8 DEF DbInv
  <1> QED BY <1>1, <1>2, OpenChatDb, SelectOrdDb, InsertRowDb, InsertFoundDb, TouchSessionDb,
             PruneDeletesDb DEF Database

(* The live directory gets another database.                               *)
LEMMA DatabaseReplaced ==
    ASSUME DbSound, NEW d \in 0..MaxDirs, NEW main, NEW now, Sound(main), Sound(now),
           UNCHANGED archive, db' = [db EXCEPT ![d] = [main |-> main, now |-> now]]
    PROVE  /\ DbSound' /\ db'[d] = [main |-> main, now |-> now]
           /\ \A e \in (0..MaxDirs) \ {d} : db'[e] = db[e]
  <1>1. main \in Stored /\ now \in Stored
        BY DEF Sound, Stored
  <1>2. db \in [0..MaxDirs -> [main : Stored, now : Stored]]
        BY DEF DbSound
  <1>3. \A e \in 0..MaxDirs : db'[e] = IF e = d THEN [main |-> main, now |-> now] ELSE db[e]
        BY <1>2
  <1>4. db' \in [0..MaxDirs -> [main : Stored, now : Stored]]
        BY <1>1, <1>2
  <1>5. \A e \in 0..MaxDirs : Sound(db'[e].now) /\ Sound(db'[e].main)
        BY <1>3 DEF DbSound
  <1>6. DbSound'
        BY <1>4, <1>5 DEF DbSound, Sound, Stored, Proper
  <1> QED BY <1>3, <1>6

LEMMA LiveIs == FileTypes => live \in 1..MaxDirs /\ live \in 0..MaxDirs /\ live \in 0..live /\ live # 0
  BY HomeAssumption DEF FileTypes

LEMMA CopyPartDb ==
    ASSUME DbInv, FileTypes, ArchiveTypes, NEW p \in Procs, NEW unit \in Units, CopyPart(p, unit)
    PROVE  DbInv'
  <1>1. UNCHANGED <<live, db, proc>>
        BY DEF CopyPart, disk
  <1>2. archive'.held = [f \in DOMAIN archive.held \cup unit |->
                              IF f \in unit THEN Contents(f) ELSE archive.held[f]]
        BY DEF CopyPart, ArchiveTypes
  <1>3. Sound(Contents("main"))
    <2>1. Contents("main") = db[live].main
          BY DEF Contents
    <2> QED BY <2>1, LiveIs DEF DbInv, DbSound
  <1>4. Sound(Contents("wal").now)
    <2>1. Contents("wal") = [base |-> db[live].main, now |-> Now(live)]
          BY DEF Contents
    <2>2. Sound(Now(live))
          BY LiveIs DEF DbInv, DbSound, Now
    <2> QED BY <2>1, <2>2
  <1>5. /\ "main" \in DOMAIN archive'.held => Sound(archive'.held["main"])
        /\ "wal" \in DOMAIN archive'.held => Sound(archive'.held["wal"].now)
        BY <1>2, <1>3, <1>4 DEF DbInv, DbSound
  <1>6. DbSound'
        BY <1>1, <1>5 DEF DbInv, DbSound, Sound, Stored, Proper
  <1>7. Connections' /\ Ahead'
        BY <1>1 DEF DbInv, Connections, Ahead, Unpacking, Is, Connected, Chatting, Now
  <1> QED BY <1>6, <1>7 DEF DbInv

LEMMA ImportDb ==
    ASSUME DbInv, ProcTypes, FileTypes, ArchiveTypes, NEW p \in Procs, Import(p)
    PROVE  DbInv'
  <1>1. /\ proc'[p].at = "unpack" /\ proc'[p].sid = proc[p].sid
        /\ \A q \in Procs \ {p} : proc'[q] = proc[q]
        /\ UNCHANGED <<db, archive>> /\ live' = live + 1
    <2>1. /\ proc'[p] = [proc[p] EXCEPT !.at = "unpack", !.del = DOMAIN archive.held]
          /\ \A q \in Procs \ {p} : proc'[q] = proc[q]
          BY ImportTypes, Zenon
    <2>2. proc[p] \in Frame /\ UNCHANGED <<db, archive>> /\ live' = live + 1
          BY DEF Import, ProcTypes
    <2> QED BY <2>1, <2>2 DEF Frame
  <1>2. proc[p].sid = 0
        BY DEF Import, Command, Is, ProcTypes, Placed, Alone
  <1>3. ASSUME NEW q \in Procs, Connected(q)'
        PROVE  /\ proc'[q].dir \in 0..live' /\ proc'[q].dir # live'
               /\ db[proc'[q].dir].now # Corrupt
    <2>1. q # p
          BY <1>1, <1>2, <1>3 DEF Connected, Chatting, Is
    <2>2. proc'[q] = proc[q] /\ Connected(q)
          BY <1>1, <1>3, <2>1 DEF Connected, Chatting, Is
    <2>3. proc[q].dir \in 0..live /\ db[proc[q].dir].now # Corrupt
          BY <2>2 DEF DbInv, Connections, Now
    <2> QED BY <1>1, <2>2, <2>3, LiveIs
  <1>4. Connections'
        BY <1>1, <1>3 DEF Connections, Now
  <1>5. DbSound'
        BY <1>1 DEF DbInv, DbSound, Sound, Stored, Proper
  <1>6. ASSUME NEW q \in Procs, Is(q, "insert")'
        PROVE  /\ Is(q, "insert") /\ proc'[q].dir = proc[q].dir
               /\ proc'[q].sid = proc[q].sid /\ proc'[q].ord = proc[q].ord
               /\ \A r \in db'[proc[q].dir].now.rows : r \in Now(proc[q].dir).rows \/ r.who # q
        BY <1>1, <1>6 DEF Is, Now
  <1>7. Ahead'
        BY <1>6, AheadStays DEF DbInv
  <1> QED BY <1>4, <1>5, <1>7 DEF DbInv

LEMMA TogetherIsSound ==
    ASSUME NEW main, NEW wal, Sound(main), Sound(wal.now)
    PROVE  Sound(Together(main, wal))
  BY DEF Together, Sound

(* What the live database becomes when a part is unpacked.                 *)
LEMMA UnpackedDb ==
    ASSUME DbInv, FileTypes, AtArchive, NEW p \in Procs, NEW unit \in Units, Unpack(p, unit)
    PROVE  LET there == DOMAIN archive.held \ (proc[p].del \ unit)
               now == IF "wal" \in there THEN Together(archive.held["main"], archive.held["wal"])
                                         ELSE archive.held["main"]
           IN  \/ UNCHANGED db /\ (unit \notin {{"main"}, {"wal"}} \/ "main" \notin there)
               \/ /\ db' = [db EXCEPT ![live] = [main |-> archive.held["main"], now |-> now]]
                  /\ Sound(archive.held["main"]) /\ Sound(now)
                  /\ "main" \in there /\ unit \in {{"main"}, {"wal"}}
  <1> DEFINE there == DOMAIN archive.held \ (proc[p].del \ unit)
             now == IF "wal" \in there THEN Together(archive.held["main"], archive.held["wal"])
                                       ELSE archive.held["main"]
  <1>1. \/ unit \notin {{"main"}, {"wal"}} \/ "main" \notin there
        \/ /\ unit \in {{"main"}, {"wal"}} /\ "main" \in there
           /\ db' = [db EXCEPT ![live] = [main |-> archive.held["main"], now |-> now]]
        BY DEF Unpack
  <1>2. "main" \in there => Sound(archive.held["main"])
        BY DEF DbInv, DbSound
  <1>3. "main" \in there => Sound(now)
    <2>1. "wal" \in there => Sound(archive.held["wal"].now)
          BY DEF DbInv, DbSound
    <2>2. CASE "wal" \in there
          BY <1>2, <2>1, <2>2, TogetherIsSound
    <2>3. CASE "wal" \notin there
          BY <1>2, <2>3
    <2> QED BY <2>2, <2>3
  <1>4. (unit \notin {{"main"}, {"wal"}} \/ "main" \notin there) => UNCHANGED db
        BY DEF Unpack
  <1> QED BY <1>1, <1>2, <1>3, <1>4

LEMMA UnpackDb ==
    ASSUME DbInv, ProcTypes, FileTypes, AtArchive, NEW p \in Procs, NEW unit \in Units, Unpack(p, unit)
    PROVE  /\ DbInv'
           /\ \A e \in (0..MaxDirs) \ {live} : db'[e] = db[e]
  <1> DEFINE there == DOMAIN archive.held \ (proc[p].del \ unit)
             now == IF "wal" \in there THEN Together(archive.held["main"], archive.held["wal"])
                                       ELSE archive.held["main"]
  <1>1. \/ UNCHANGED db
        \/ /\ db' = [db EXCEPT ![live] = [main |-> archive.held["main"], now |-> now]]
           /\ Sound(archive.held["main"]) /\ Sound(now)
        BY UnpackedDb
  <1>2. UNCHANGED <<live, archive>> /\ proc[p].at = "unpack" /\ Unpacking
        BY DEF Unpack, Is, Unpacking
  <1>3. /\ \A q \in Procs : AsBefore(q) \/ q = p
        /\ proc'[p].at = proc[p].at /\ proc'[p].sid = proc[p].sid /\ proc'[p].dir = proc[p].dir
    <2>1. /\ proc'[p] = [proc[p] EXCEPT !.del = @ \ unit]
          /\ \A q \in Procs \ {p} : proc'[q] = proc[q]
          BY UnpackTypes, Zenon
    <2>2. proc[p] \in Frame
          BY DEF ProcTypes
    <2> QED BY <2>1, <2>2 DEF AsBefore, Frame
  <1> HIDE DEF now
  <1>4. DbSound' /\ \A e \in (0..MaxDirs) \ {live} : db'[e] = db[e]
    <2>1. CASE UNCHANGED db
      <3>1. DbSound'
            BY <1>2, <2>1 DEF DbInv, DbSound, Sound, Stored, Proper
      <3> QED BY <2>1, <3>1
    <2>2. CASE /\ db' = [db EXCEPT ![live] = [main |-> archive.held["main"], now |-> now]]
               /\ Sound(archive.held["main"]) /\ Sound(now)
          BY <1>2, <2>2, LiveIs, DatabaseReplaced DEF DbInv
    <2> QED BY <1>1, <2>1, <2>2
  <1>5. ASSUME NEW q \in Procs, Connected(q)'
        PROVE  /\ Connected(q) /\ proc'[q].dir = proc[q].dir
               /\ proc[q].dir \in 0..live /\ proc[q].dir # live
               /\ db[proc[q].dir].now # Corrupt /\ db'[proc[q].dir] = db[proc[q].dir]
    <2>1. Connected(q) /\ proc'[q].dir = proc[q].dir
          BY <1>3, <1>5 DEF AsBefore, Connected, Chatting, Is
    <2>2. proc[q].dir \in 0..live /\ proc[q].dir # live /\ db[proc[q].dir].now # Corrupt
          BY <1>2, <2>1 DEF DbInv, Connections, Now
    <2>3. proc[q].dir \in 0..MaxDirs
          BY DEF ProcTypes, Frame
    <2> QED BY <1>4, <2>1, <2>2, <2>3
  <1>6. Connections'
        BY <1>2, <1>5 DEF Connections, Now
  <1>7. ASSUME NEW q \in Procs, Is(q, "insert")'
        PROVE  /\ Is(q, "insert") /\ proc'[q].dir = proc[q].dir
               /\ proc'[q].sid = proc[q].sid /\ proc'[q].ord = proc[q].ord
               /\ \A r \in db'[proc[q].dir].now.rows : r \in Now(proc[q].dir).rows \/ r.who # q
    <2>1. q # p /\ Is(q, "insert")
          BY <1>2, <1>3, <1>7 DEF AsBefore, Is
    <2>2. Connected(q)
          BY <2>1, ChatsAreConnected DEF Is, AtChat
    <2>3. AsBefore(q)
          BY <1>3, <2>1
    <2>4. Connected(q)'
          BY <2>2, <2>3 DEF AsBefore, Connected, Chatting, Is
    <2> QED BY <1>5, <2>1, <2>3, <2>4 DEF AsBefore, Now
  <1>8. Ahead'
        BY <1>7, AheadStays DEF DbInv
  <1> QED BY <1>4, <1>6, <1>8 DEF DbInv

LEMMA EmptyIsSound == Empty \in Databases /\ Sound(Empty)
  <1>1. <<>> \in [{} -> {"fresh", "old"}]
        BY EmptySeq
  <1>2. {} \in SUBSET Sessions
        OBVIOUS
  <1>3. [{} -> {"fresh", "old"}] \in {[known -> {"fresh", "old"}] : known \in SUBSET Sessions}
        BY <1>2
  <1>4. <<>> \in UNION {[known -> {"fresh", "old"}] : known \in SUBSET Sessions}
        BY <1>1, <1>3
  <1>5. Empty \in Databases
        BY <1>4 DEF Empty, Databases
  <1>6. Proper(Empty)
    <2>1. Empty.rows = {}
          BY DEF Empty
    <2> QED BY <2>1 DEF Proper
  <1> QED BY <1>5, <1>6 DEF Sound

LEMMA RemovePartDb ==
    ASSUME DbInv, ProcTypes, FileTypes, NEW p \in Procs, NEW unit \in Units, RemovePart(p, unit)
    PROVE  DbInv'
  <1>1. UNCHANGED <<live, archive>>
        BY DEF RemovePart
  <1>2. \A q \in Procs :
            /\ proc'[q].at = proc[q].at /\ proc'[q].sid = proc[q].sid /\ proc'[q].ord = proc[q].ord
            /\ proc'[q].dir = IF unit = {"main"} /\ proc[q].dir = live THEN 0 ELSE proc[q].dir
    <2>1. \A q \in Procs : /\ proc'[q].at = proc[q].at /\ proc'[q].sid = proc[q].sid
                           /\ proc'[q].ord = proc[q].ord
                           /\ Unlinks(unit, q) => proc'[q].dir = 0
                           /\ ~Unlinks(unit, q) => proc'[q].dir = proc[q].dir
          BY RemovePartTypes
    <2> QED BY <2>1 DEF Unlinks
  <1>3. CASE unit = {"main"}
    <2>1. db' = [db EXCEPT ![0] = db[live], ![live] = NewDb]
          BY <1>3 DEF RemovePart
    <2>2. \A q \in Procs : Connected(q) => proc[q].dir # 0
          BY <1>3 DEF RemovePart
    <2>3. db \in [0..MaxDirs -> [main : Stored, now : Stored]] /\ 0 \in 0..MaxDirs
          BY HomeAssumption DEF DbInv, DbSound
    <2>4. NewDb = [main |-> Empty, now |-> Empty] /\ NewDb \in [main : Stored, now : Stored]
          BY EmptyIsSound DEF NewDb, Stored
    <2>5. \A e \in 0..MaxDirs : db'[e] = IF e = live THEN NewDb ELSE IF e = 0 THEN db[live] ELSE db[e]
          BY <2>1, <2>3, LiveIs
    <2>6. db' \in [0..MaxDirs -> [main : Stored, now : Stored]]
          BY <2>1, <2>3, <2>4, LiveIs
    <2>7. \A e \in 0..MaxDirs : Sound(db'[e].now) /\ Sound(db'[e].main)
          BY <2>4, <2>5, EmptyIsSound, LiveIs DEF DbInv, DbSound
    <2>8. DbSound'
          BY <1>1, <2>6, <2>7 DEF DbInv, DbSound, Sound, Stored, Proper
    <2>9. ASSUME NEW q \in Procs, Connected(q)'
          PROVE  /\ Connected(q) /\ proc'[q].dir \in 0..live /\ proc'[q].dir # live
                 /\ db'[proc'[q].dir] = db[proc[q].dir] /\ db[proc[q].dir].now # Corrupt
      <3>1. Connected(q)
            BY <1>2, <2>9 DEF Connected, Chatting, Is
      <3>2. proc[q].dir \in 0..live /\ db[proc[q].dir].now # Corrupt /\ proc[q].dir \in 0..MaxDirs
            BY <3>1 DEF DbInv, Connections, Now, ProcTypes, Frame
      <3>3. CASE proc[q].dir = live
            BY <1>2, <1>3, <2>3, <2>5, <3>1, <3>2, <3>3, LiveIs
      <3>4. CASE proc[q].dir # live
        <4>1. proc'[q].dir = proc[q].dir /\ proc[q].dir # 0
              BY <1>2, <2>2, <3>1, <3>4
        <4> QED BY <2>5, <3>1, <3>2, <3>4, <4>1
      <3> QED BY <3>3, <3>4
    <2>10. Connections'
          BY <1>1, <2>9 DEF Connections, Now
    <2>11. ASSUME NEW q \in Procs, Is(q, "insert")',
                  NEW r \in db'[proc'[q].dir].now.rows, r.sid = proc'[q].sid, r.who = q
           PROVE  r.ord < proc'[q].ord
      <3>1. Is(q, "insert")
            BY <1>2, <2>11 DEF Is
      <3>2. Connected(q)
            BY <3>1, ChatsAreConnected DEF Is, AtChat
      <3>3. Connected(q)'
            BY <1>2, <3>2 DEF Connected, Chatting, Is
      <3>4. r \in Now(proc[q].dir).rows
            BY <2>9, <2>11, <3>3 DEF Now
      <3> QED BY <1>2, <2>11, <3>1, <3>4 DEF DbInv, Ahead
    <2>12. Ahead'
          BY <2>11 DEF Ahead, Now
    <2> QED BY <2>8, <2>10, <2>12 DEF DbInv
  <1>4. CASE unit # {"main"}
    <2>1. \A q \in Procs : proc'[q].dir = proc[q].dir
          BY <1>2, <1>4
    <2>2. \/ UNCHANGED db
          \/ /\ \A q \in Procs : proc[q].dir # live
             /\ db' = [db EXCEPT ![live].now = db[live].main]
          BY <1>4 DEF RemovePart
    <2>3. /\ Unpacking' => Unpacking
          /\ \A q \in Procs : Connected(q)' => Connected(q) /\ proc'[q].dir = proc[q].dir
          /\ \A q \in Procs : Is(q, "insert")' =>
                 /\ Is(q, "insert") /\ proc'[q].dir = proc[q].dir
                 /\ proc'[q].sid = proc[q].sid /\ proc'[q].ord = proc[q].ord
          BY <1>2, <2>1 DEF Unpacking, Connected, Chatting, Is
    <2>4. CASE UNCHANGED db
          BY <1>1, <2>3, <2>4, NothingStored
    <2>5. CASE /\ \A q \in Procs : proc[q].dir # live
               /\ db' = [db EXCEPT ![live].now = db[live].main]
      <3>1. db \in [0..MaxDirs -> [main : Stored, now : Stored]]
            BY DEF DbInv, DbSound
      <3>2. db' = [db EXCEPT ![live] = [main |-> db[live].main, now |-> db[live].main]]
        <4>1. db[live] \in [main : Stored, now : Stored]
              BY <3>1, LiveIs
        <4>2. [db[live] EXCEPT !.now = db[live].main] = [main |-> db[live].main, now |-> db[live].main]
              BY <4>1
        <4> QED BY <2>5, <4>2
      <3>3. Sound(db[live].main)
            BY LiveIs DEF DbInv, DbSound
      <3>4. DbSound' /\ \A e \in (0..MaxDirs) \ {live} : db'[e] = db[e]
            BY <1>1, <3>2, <3>3, LiveIs, DatabaseReplaced DEF DbInv
      <3>5. ASSUME NEW q \in Procs PROVE db'[proc[q].dir] = db[proc[q].dir]
        <4>1. proc[q].dir \in 0..MaxDirs
              BY DEF ProcTypes, Frame
        <4> QED BY <2>5, <3>4, <4>1
      <3>6. ASSUME NEW q \in Procs, Connected(q)'
            PROVE  /\ Connected(q) /\ proc'[q].dir = proc[q].dir
                   /\ proc[q].dir \in 0..live /\ (Unpacking => proc[q].dir # live)
                   /\ db'[proc'[q].dir].now # Corrupt
            BY <2>3, <3>5, <3>6 DEF DbInv, Connections, Now
      <3>7. Connections'
            BY <1>1, <2>3, <3>6 DEF Connections, Now
      <3>8. \A q \in Procs : Is(q, "insert")' =>
              \A r \in db'[proc[q].dir].now.rows : r \in Now(proc[q].dir).rows \/ r.who # q
            BY <3>5 DEF Now
      <3>9. Ahead'
            BY <2>3, <3>8, AheadStays DEF DbInv
      <3> QED BY <3>4, <3>7, <3>9 DEF DbInv
    <2> QED BY <2>2, <2>4, <2>5
  <1> QED BY <1>3, <1>4

LEMMA MaintenanceDb ==
    ASSUME DbInv, ProcTypes, FileTypes, ArchiveTypes, AtArchive, NEW p \in Procs, Maintenance(p)
    PROVE  DbInv'
  <1>1. CASE Backup(p)
    <2>1. /\ archive'.held = <<>> /\ DOMAIN archive'.held = {}
          /\ UNCHANGED <<live, db>> /\ Goes(p, "copy")
          BY <1>1 DEF Backup, disk
    <2>2. /\ proc'[p].at = "copy" /\ proc'[p].sid = proc[p].sid /\ proc'[p].dir = proc[p].dir
          /\ \A q \in Procs \ {p} : proc'[q] = proc[q]
          BY <2>1 DEF Goes, ProcTypes, Frame
    <2>3. DbSound'
          BY <2>1 DEF DbInv, DbSound, Sound, Stored, Proper
    <2>4. \A q \in Procs : Connected(q)' => Connected(q) /\ proc'[q].dir = proc[q].dir
          BY <2>2 DEF Connected, Chatting, Is
    <2>5. Unpacking' => Unpacking
          BY <2>2 DEF Unpacking, Is
    <2>6. Connections'
          BY <2>1, <2>4, <2>5, ConnectionsStay DEF DbInv, Now
    <2>7. ASSUME NEW q \in Procs, Is(q, "insert")'
          PROVE  /\ Is(q, "insert") /\ proc'[q].dir = proc[q].dir
                 /\ proc'[q].sid = proc[q].sid /\ proc'[q].ord = proc[q].ord
                 /\ \A r \in db'[proc[q].dir].now.rows : r \in Now(proc[q].dir).rows \/ r.who # q
          BY <2>1, <2>2, <2>7 DEF Is, Now
    <2>8. Ahead'
          BY <2>7, AheadStays DEF DbInv
    <2> QED BY <2>3, <2>6, <2>8 DEF DbInv
  <1>2. CASE BackupEnds(p) \/ ImportEnds(p) \/ Uninstall(p) \/ UninstallEnds(p)
    <2>1. /\ proc'[p].at \in {"idle", "remove"} /\ proc'[p].sid = proc[p].sid /\ proc'[p].dir = proc[p].dir
          /\ \A q \in Procs \ {p} : proc'[q] = proc[q]
          BY <1>2 DEF BackupEnds, ImportEnds, Uninstall, UninstallEnds, Goes, ProcTypes, Frame
    <2>2. UNCHANGED <<live, db>> /\ archive'.held = archive.held
          BY <1>2 DEF BackupEnds, ImportEnds, Uninstall, UninstallEnds, disk, ArchiveTypes
    <2>3. DbSound'
          BY <2>2 DEF DbInv, DbSound, Sound, Stored, Proper
    <2>4. \A q \in Procs : Connected(q)' => Connected(q) /\ proc'[q].dir = proc[q].dir
          BY <2>1 DEF Connected, Chatting, Is
    <2>5. Unpacking' => Unpacking
          BY <2>1 DEF Unpacking, Is
    <2>6. Connections'
          BY <2>2, <2>4, <2>5, ConnectionsStay DEF DbInv, Now
    <2>7. ASSUME NEW q \in Procs, Is(q, "insert")'
          PROVE  /\ Is(q, "insert") /\ proc'[q].dir = proc[q].dir
                 /\ proc'[q].sid = proc[q].sid /\ proc'[q].ord = proc[q].ord
                 /\ \A r \in db'[proc[q].dir].now.rows : r \in Now(proc[q].dir).rows \/ r.who # q
          BY <2>1, <2>2, <2>7 DEF Is, Now
    <2>8. Ahead'
          BY <2>7, AheadStays DEF DbInv
    <2> QED BY <2>3, <2>6, <2>8 DEF DbInv
  <1> QED BY <1>1, <1>2, CopyPartDb, ImportDb, UnpackDb, RemovePartDb DEF Maintenance

LEMMA AroundDb ==
    ASSUME DbInv, ProcTypes, FileTypes, Around
    PROVE  /\ DbInv'
           /\ \/ UNCHANGED <<active, untouched>> /\ \A e \in 0..MaxDirs : db'[e].now = db[e].now
              \/ active' = {} /\ untouched' = {}
  <1>0. /\ proc' = proc
        /\ Unpacking' => Unpacking
        /\ \A q \in Procs : Connected(q)' => Connected(q) /\ proc'[q].dir = proc[q].dir
        /\ \A q \in Procs : Is(q, "insert")' =>
                 /\ Is(q, "insert") /\ proc'[q].dir = proc[q].dir
                 /\ proc'[q].sid = proc[q].sid /\ proc'[q].ord = proc[q].ord
        BY AroundThem DEF Unpacking, Connected, Chatting, Is
  <1>1. ASSUME NEW x \in Items, Expire(x) \/ InstallSkill(x)
        PROVE  DbInv' /\ UNCHANGED <<active, untouched, db>>
    <2>1. UNCHANGED <<live, db, archive, active, untouched>>
          BY <1>1 DEF Expire, InstallSkill, SkillRests, disk, homeHistory
    <2> QED BY <1>0, <2>1, NothingStored
  <1>2. ASSUME NEW d \in 1..MaxDirs, Checkpoint(d)
        PROVE  DbInv' /\ UNCHANGED <<active, untouched>> /\ \A e \in 0..MaxDirs : db'[e].now = db[e].now
    <2>1. /\ UNCHANGED <<live, archive, active, untouched>>
          /\ db' = [db EXCEPT ![d].main = db[d].now]
          BY <1>2 DEF Checkpoint, Now
    <2>2. d \in 0..MaxDirs /\ db \in [0..MaxDirs -> [main : Stored, now : Stored]]
          BY HomeAssumption DEF DbInv, DbSound
    <2>3. db' = [db EXCEPT ![d] = [main |-> db[d].now, now |-> db[d].now]]
      <3>1. db[d] \in [main : Stored, now : Stored]
            BY <2>2
      <3>2. [db[d] EXCEPT !.main = db[d].now] = [main |-> db[d].now, now |-> db[d].now]
            BY <3>1
      <3> QED BY <2>1, <3>2
    <2>4. Sound(db[d].now)
          BY <2>2 DEF DbInv, DbSound
    <2>5. /\ DbSound' /\ db'[d] = [main |-> db[d].now, now |-> db[d].now]
          /\ \A e \in (0..MaxDirs) \ {d} : db'[e] = db[e]
          BY <2>1, <2>2, <2>3, <2>4, DatabaseReplaced DEF DbInv
    <2>6. \A e \in 0..MaxDirs : db'[e].now = db[e].now
          BY <2>5
    <2>7. Connections'
          BY <1>0, <2>1, <2>6, ConnectionsStay DEF DbInv, Now
    <2>8. \A q \in Procs : Is(q, "insert")' =>
              \A r \in db'[proc[q].dir].now.rows : r \in Now(proc[q].dir).rows \/ r.who # q
      <3>1. \A q \in Procs : proc[q].dir \in 0..MaxDirs
            BY DEF ProcTypes, Frame
      <3> QED BY <2>6, <3>1 DEF Now
    <2>9. Ahead'
          BY <1>0, <2>8, AheadStays DEF DbInv
    <2> QED BY <2>1, <2>5, <2>6, <2>7, <2>9 DEF DbInv
  <1>3. CASE Age
    <2> DEFINE D == [Now(live) EXCEPT !.updated = [s \in DOMAIN @ |-> "old"]]
    <2>1. /\ Commit(live, D) /\ UNCHANGED <<live, archive>> /\ Now(live) # Corrupt
          /\ active' = {} /\ untouched' = {}
          BY <1>3 DEF Age
    <2>2. Now(live) \in Databases /\ Proper(Now(live))
          BY <2>1, LiveIs DEF DbInv, DbSound, Sound, Now
    <2>3. D \in Databases /\ Proper(D) /\ D.rows = Now(live).rows
          BY <2>2, SessionsAged
    <2> HIDE DEF D
    <2>4. DbInv'
          BY <1>0, <2>1, <2>3, LiveIs, CommitKeeps
    <2> QED BY <2>1, <2>4
  <1> QED BY <1>1, <1>2, <1>3 DEF Around

(***************************************************************************)
(* Sessions used since the cutoff, and who prunes them.                    *)
(***************************************************************************)
ActiveInv ==
    /\ active \cup untouched \subseteq Sessions
    /\ Unpacking \/ Now(live) = Corrupt => active = {}
    /\ \A s \in active :
          s \in DOMAIN Now(live).updated => Now(live).updated[s] = "fresh" \/ s \in Midway
    /\ \A q \in Procs : Is(q, "prune") /\ proc[q].dir = live =>
          proc[q].del \cap active \subseteq proc[q].add

LEMMA MidwayIs ==
    \A s : s \in Midway <=> s \in untouched \/ \E q \in Procs : Between(q) /\ proc[q].sid = s
  BY DEF Midway

(* What is midway stays so while the processes between a message and the   *)
(* touch of its session go on with it.                                     *)
LEMMA MidwayStays ==
    ASSUME untouched \subseteq untouched',
           \A q \in Procs : Between(q) =>
              proc[q].sid \in untouched' \/ (Between(q)' /\ proc'[q].sid = proc[q].sid)
    PROVE  Midway \subseteq Midway'
  <1>1. \A s : s \in Midway' <=> s \in untouched' \/ \E q \in Procs : Between(q)' /\ proc'[q].sid = s
        BY DEF Midway
  <1> QED BY <1>1, MidwayIs

(* The live database and who prunes it stay as they are.                   *)
LEMMA ActiveStays ==
    ASSUME ActiveInv, UNCHANGED <<live, active>>, untouched' \subseteq Sessions,
           Unpacking' => Unpacking,
           db'[live].now = Corrupt => db[live].now = Corrupt,
           \A s \in DOMAIN db'[live].now.updated :
              /\ s \in DOMAIN db[live].now.updated
              /\ db'[live].now.updated[s] \in {db[live].now.updated[s], "fresh"},
           Midway \subseteq Midway',
           \A q \in Procs : Is(q, "prune")' => AsBefore(q) /\ proc[q].add \subseteq proc'[q].add
    PROVE  ActiveInv'
  <1>1. \A s \in active : s \in DOMAIN db'[live].now.updated =>
            db'[live].now.updated[s] = "fresh" \/ s \in Midway'
        BY DEF ActiveInv, Now
  <1>2. \A q \in Procs : Is(q, "prune")' /\ proc'[q].dir = live =>
          proc'[q].del \cap active \subseteq proc'[q].add
        BY DEF ActiveInv, AsBefore, Is
  <1>3. Unpacking' \/ db'[live].now = Corrupt => active = {}
        BY DEF ActiveInv, Now
  <1>4. active \cup untouched' \subseteq Sessions
        BY DEF ActiveInv
  <1> QED BY <1>1, <1>2, <1>3, <1>4 DEF ActiveInv, Now

LEMMA NobodyActive ==
    ASSUME active' = {}, untouched' \subseteq Sessions
    PROVE  ActiveInv'
  BY DEF ActiveInv

LEMMA AwayActive ==
    ASSUME DbInv, ActiveInv, ProcTypes, FileTypes, Carriers, NEW p \in Procs,
           Yaml(p) \/ Memory(p) \/ Library(p) \/ Dies(p)
    PROVE  ActiveInv'
  <1>1. /\ UNCHANGED <<live, db, active>>
        /\ \A q \in Procs \ {p} : proc'[q] = proc[q]
        /\ \/ UNCHANGED untouched /\ ~Between(p)
           \/ untouched' = IF Between(p) THEN untouched \cup {proc[p].sid} ELSE untouched
    <2>1. CASE Yaml(p)
      <3>1. proc[p].at \in {"idle", "chat", "browser", "save"}
        <4>1. proc[p].at = "browser" => proc[p].add \subseteq Items
              BY DEF Carriers, Carried
        <4>2. Edits(p) => proc[p].at \in {"idle", "chat", "browser"}
              BY DEF Edits
        <4>3. Save(p) => proc[p].at = "save"
              BY DEF Save, Is
        <4>4. \A x \in Items : RememberAlways(p, x) \/ McpOauth(p, x) => proc[p].at \in {"idle", "chat"}
              BY DEF RememberAlways, McpOauth, Command, InChat, Is
        <4> QED BY <2>1, <4>1, <4>2, <4>3, <4>4, YamlEdits
      <3>2. ~Between(p)
            BY <3>1 DEF Between
      <3> QED BY <2>1, <3>2, YamlStep
    <2>2. CASE Memory(p)
      <3>1. ~Between(p)
            BY <2>2, MemoryStep DEF Between
      <3> QED BY <2>2, <3>1, MemoryStep
    <2>3. CASE Library(p)
      <3>1. ~Between(p)
            BY <2>3, LibraryStep DEF Between
      <3> QED BY <2>3, <3>1, LibraryStep DEF disk, homeHistory
    <2>4. CASE Dies(p)
      <3>1. untouched' = IF Between(p) THEN untouched \cup {proc[p].sid} ELSE untouched
            BY <2>4 DEF Dies
      <3> QED BY <2>4, <3>1, DeathStep
    <2> QED BY <2>1, <2>2, <2>3, <2>4
  <1>2. proc'[p].at \notin Busy \cup {"prune", "insert"}
        BY AwayDb
  <1>3. Unpacking' => Unpacking
        BY <1>1, <1>2 DEF Unpacking, Is, Busy
  <1>4. \A q \in Procs : Is(q, "prune")' => AsBefore(q) /\ proc[q].add \subseteq proc'[q].add
        BY <1>1, <1>2 DEF Is, AsBefore
  <1>5. Midway \subseteq Midway'
    <2>1. \A q \in Procs \ {p} : Between(q) => Between(q)' /\ proc'[q].sid = proc[q].sid
          BY <1>1 DEF Between
    <2>2. Between(p) => proc[p].sid \in untouched'
          BY <1>1
    <2>3. untouched \subseteq untouched'
          BY <1>1
    <2> QED BY <2>1, <2>2, <2>3, MidwayStays
  <1>6. untouched' \subseteq Sessions
    <2>1. Between(p) => proc[p].sid \in Sessions
          BY ChatsAreConnected DEF Between, AtChat
    <2> QED BY <1>1, <2>1 DEF ActiveInv
  <1> QED BY <1>1, <1>3, <1>4, <1>5, <1>6, ActiveStays

LEMMA OpenChatActive ==
    ASSUME DbInv, ActiveInv, ProcTypes, FileTypes, NEW p \in Procs, NEW s \in Sessions, OpenChat(p, s)
    PROVE  ActiveInv'
  <1>1. UNCHANGED <<live, active, untouched>> /\ proc[p].at = "idle"
        BY DEF OpenChat, Command, Is
  <1>2. proc'[p].at = "chat" /\ \A q \in Procs \ {p} : proc'[q] = proc[q]
    <2>1. /\ proc'[p] = [Resting EXCEPT !.at = "chat", !.dir = live, !.sid = s,
                                        !.always = Approvals, !.skills = Loaded]
          /\ \A q \in Procs \ {p} : proc'[q] = proc[q]
          BY OpenChatTypes, Zenon
    <2> QED BY <2>1 DEF Resting
  <1>3. /\ ~Unpacking' /\ db'[live].now # Corrupt
        /\ \A k \in DOMAIN Now(live).updated : Now(live)'.updated[k] = Now(live).updated[k]
        /\ \A k \in DOMAIN Now(live)'.updated \ DOMAIN Now(live).updated :
                  Now(live)'.updated[k] = "fresh"
        BY OpenChatDb
  <1>4. Midway \subseteq Midway'
    <2>1. \A q \in Procs : Between(q) => Between(q)' /\ proc'[q].sid = proc[q].sid
          BY <1>1, <1>2 DEF Between
    <2> QED BY <1>1, <2>1, MidwayStays
  <1>5. \A k \in active : k \in DOMAIN db'[live].now.updated =>
            db'[live].now.updated[k] = "fresh" \/ k \in Midway'
    <2> SUFFICES ASSUME NEW k \in active, k \in DOMAIN Now(live)'.updated
                 PROVE  Now(live)'.updated[k] = "fresh" \/ k \in Midway'
        BY <1>1 DEF Now
    <2>1. CASE k \in DOMAIN Now(live).updated
          BY <1>3, <1>4, <2>1 DEF ActiveInv
    <2>2. CASE k \notin DOMAIN Now(live).updated
          BY <1>3, <2>2
    <2> QED BY <2>1, <2>2
  <1>6. \A q \in Procs : Is(q, "prune")' /\ proc'[q].dir = live =>
          proc'[q].del \cap active \subseteq proc'[q].add
        BY <1>2 DEF ActiveInv, Is
  <1> QED BY <1>1, <1>3, <1>5, <1>6 DEF ActiveInv, Now

LEMMA InsertRowActive ==
    ASSUME DbInv, ActiveInv, ProcTypes, FileTypes, NEW p \in Procs, InsertRow(p)
    PROVE  ActiveInv'
  <1> DEFINE d == proc[p].dir
             s == proc[p].sid
  <1>1. UNCHANGED <<live, untouched>> /\ proc[p].at = "insert"
        BY DEF InsertRow, Is
  <1>2. /\ proc'[p].at \in {"chat", "find"} /\ proc'[p].sid = s /\ proc'[p].dir = d
        /\ \A q \in Procs \ {p} :
              \/ proc'[q] = proc[q]
              \/ /\ Is(q, "prune") /\ proc[q].dir = d
                 /\ proc'[q] = [proc[q] EXCEPT !.add = @ \cup {s}]
        BY InsertRowTypes DEF DbInv
  <1>3. \A q \in Procs \ {p} : AsBefore(q) /\ proc[q].add \subseteq proc'[q].add
    <2> SUFFICES ASSUME NEW q \in Procs \ {p}
                 PROVE  AsBefore(q) /\ proc[q].add \subseteq proc'[q].add
        OBVIOUS
    <2>1. proc[q] \in Frame
          BY DEF ProcTypes
    <2>2. CASE proc'[q] = proc[q]
          BY <2>2 DEF AsBefore
    <2>3. CASE Is(q, "prune") /\ proc'[q] = [proc[q] EXCEPT !.add = @ \cup {s}]
          BY <2>1, <2>3 DEF AsBefore, Frame, Is
    <2> QED BY <1>2, <2>2, <2>3
  <1>4. Connected(p) /\ s \in Sessions
        BY <1>1, ChatsAreConnected DEF AtChat
  <1>5. Unpacking' => Unpacking
        BY <1>2, <1>3 DEF Unpacking, Is, AsBefore
  <1>6. Midway \subseteq Midway'
    <2>1. \A q \in Procs : Between(q) => Between(q)' /\ proc'[q].sid = proc[q].sid
          BY <1>1, <1>3 DEF Between, AsBefore
    <2> QED BY <1>1, <2>1, MidwayStays
  <1>7. \A q \in Procs : Is(q, "prune")' => AsBefore(q) /\ proc[q].add \subseteq proc'[q].add
        BY <1>2, <1>3 DEF Is
  <1>8. /\ \A e \in 0..MaxDirs : db'[e].now = Corrupt => db[e].now = Corrupt
        /\ \/ UNCHANGED <<db, active, steady>> /\ proc'[p].at = "chat"
           \/ /\ \A e \in 0..MaxDirs : db'[e].now.updated = db[e].now.updated
              /\ active' = IF proc[p].dir = live THEN active \cup {proc[p].sid} ELSE active
              /\ proc'[p].at = "find" /\ ~steady'
        BY InsertRowDb
  <1>9. CASE active' = active
    <2>1. db'[live].now.updated = db[live].now.updated
          BY <1>8, LiveIs
    <2>2. db'[live].now = Corrupt => db[live].now = Corrupt
          BY <1>8, LiveIs
    <2>3. untouched' \subseteq Sessions
          BY <1>1 DEF ActiveInv
    <2> QED BY <1>1, <1>5, <1>6, <1>7, <1>9, <2>1, <2>2, <2>3, ActiveStays
  <1>10. CASE active' # active
    <2>1. /\ d = live /\ active' = active \cup {s} /\ proc'[p].at = "find"
          /\ db'[live].now.updated = db[live].now.updated
          BY <1>8, <1>10, LiveIs
    <2>2. ~Unpacking /\ db[live].now # Corrupt
          BY <1>4, <2>1 DEF DbInv, Connections, Now
    <2>3. db'[live].now # Corrupt
          BY <1>8, <2>2, LiveIs
    <2>4. s \in Midway'
      <3>1. Between(p)'
            BY <1>1, <1>2, <2>1 DEF Between
      <3> QED BY <1>2, <3>1 DEF Midway
    <2>5. \A k \in active' : k \in DOMAIN db'[live].now.updated =>
            db'[live].now.updated[k] = "fresh" \/ k \in Midway'
          BY <1>6, <2>1, <2>4 DEF ActiveInv, Now
    <2>6. ASSUME NEW q \in Procs, Is(q, "prune")', proc'[q].dir = live
          PROVE  proc'[q].del \cap active' \subseteq proc'[q].add
      <3>1. q # p
            BY <1>2, <2>6 DEF Is
      <3>2. Is(q, "prune") /\ proc[q].dir = live /\ proc'[q].del = proc[q].del
            /\ proc[q].add \subseteq proc'[q].add
            BY <1>7, <2>6 DEF AsBefore, Is
      <3>3. proc[q].del \cap active \subseteq proc[q].add
            BY <3>2 DEF ActiveInv
      <3>4. s \in proc'[q].add
        <4>1. /\ proc' = [r \in Procs |->
                     IF r = p THEN [proc[p] EXCEPT !.at = "find", !.said = @ + 1, !.ord = Now(d).next]
                     ELSE IF Is(r, "prune") /\ proc[r].dir = d
                          THEN [proc[r] EXCEPT !.add = @ \cup {s}] ELSE proc[r]]
          <5>1. s \in DOMAIN Now(d).updated
            <6>1. CASE s \notin DOMAIN Now(d).updated
              <7>1. UNCHANGED active
                    BY <6>1 DEF InsertRow
              <7> QED BY <1>10, <7>1
            <6> QED BY <6>1
          <5> QED BY <5>1 DEF InsertRow
        <4>2. proc'[q] = [proc[q] EXCEPT !.add = @ \cup {s}]
              BY <2>1, <3>1, <3>2, <4>1
        <4>3. proc[q] \in Frame
              BY DEF ProcTypes
        <4> QED BY <4>2, <4>3 DEF Frame
      <3> QED BY <2>1, <3>2, <3>3, <3>4
    <2>7. active' \cup untouched' \subseteq Sessions
          BY <1>1, <1>4, <2>1 DEF ActiveInv
    <2>8. ~Unpacking'
          BY <1>5, <2>2
    <2> QED BY <1>1, <2>3, <2>5, <2>6, <2>7, <2>8 DEF ActiveInv, Now
  <1> QED BY <1>9, <1>10

LEMMA DatabaseActive ==
    ASSUME DbInv, ActiveInv, ProcTypes, FileTypes, NEW p \in Procs, Database(p)
    PROVE  ActiveInv'
  <1>0. DbSound /\ Connections /\ Sids
        BY DEF DbInv, ActiveInv, Sids
  <1>1. CASE CloseChat(p) \/ SelectOrd(p)
    <2>1. /\ UNCHANGED <<live, db, active, untouched>> /\ proc[p].at = "chat"
          BY <1>1 DEF CloseChat, SelectOrd, disk, homeHistory, InChat, Is
    <2>2. proc'[p].at \in {"insert", "idle"} /\ \A q \in Procs \ {p} : proc'[q] = proc[q]
      <3>1. CASE CloseChat(p)
        <4>1. proc'[p] = Resting /\ \A q \in Procs \ {p} : proc'[q] = proc[q]
              BY <3>1, Leaving DEF CloseChat
        <4> QED BY <4>1 DEF Resting
      <3>2. CASE SelectOrd(p)
        <4>1. /\ proc'[p] = [proc[p] EXCEPT !.at = "insert", !.ord = NextOrd(proc[p].dir, proc[p].sid)]
              /\ \A q \in Procs \ {p} : proc'[q] = proc[q]
              BY <1>0, <3>2, SelectOrdTypes, Zenon
        <4>2. proc[p] \in Frame
              BY DEF ProcTypes
        <4> QED BY <4>1, <4>2 DEF Frame
      <3> QED BY <1>1, <3>1, <3>2
    <2>3. \A q \in Procs : Between(q) => Between(q)' /\ proc'[q].sid = proc[q].sid
          BY <2>1, <2>2 DEF Between
    <2>4. Midway \subseteq Midway'
          BY <2>1, <2>3, MidwayStays
    <2>5. Unpacking' => Unpacking
          BY <2>2 DEF Unpacking, Is
    <2>6. \A q \in Procs : Is(q, "prune")' => AsBefore(q) /\ proc[q].add \subseteq proc'[q].add
          BY <2>2 DEF Is, AsBefore
    <2>7. untouched' \subseteq Sessions
          BY <2>1 DEF ActiveInv
    <2> QED BY <2>1, <2>4, <2>5, <2>6, <2>7, ActiveStays
  <1>2. CASE InsertFound(p)
    <2>1. UNCHANGED <<live, active, untouched>> /\ proc[p].at = "find"
          BY <1>2 DEF InsertFound, Is
    <2>2. /\ \A e \in 0..MaxDirs : db'[e].now = Corrupt => db[e].now = Corrupt
          /\ \A e \in 0..MaxDirs : db'[e].now.updated = db[e].now.updated
          /\ proc'[p].at = "touch" /\ proc'[p].sid = proc[p].sid /\ proc'[p].dir = proc[p].dir
          /\ \A q \in Procs \ {p} : proc'[q] = proc[q]
          BY <1>2, InsertFoundDb
    <2>3. \A q \in Procs : Between(q) => Between(q)' /\ proc'[q].sid = proc[q].sid
          BY <2>1, <2>2 DEF Between
    <2>4. Midway \subseteq Midway'
          BY <2>1, <2>3, MidwayStays
    <2>5. Unpacking' => Unpacking
          BY <2>2 DEF Unpacking, Is
    <2>6. \A q \in Procs : Is(q, "prune")' => AsBefore(q) /\ proc[q].add \subseteq proc'[q].add
          BY <2>2 DEF Is, AsBefore
    <2>7. untouched' \subseteq Sessions
          BY <2>1 DEF ActiveInv
    <2>8. /\ db'[live].now = Corrupt => db[live].now = Corrupt
          /\ db'[live].now.updated = db[live].now.updated
          BY <2>2, LiveIs
    <2> QED BY <2>1, <2>4, <2>5, <2>6, <2>7, <2>8, ActiveStays
  <1>3. CASE TouchSession(p)
    <2>1. /\ UNCHANGED <<live, active>> /\ proc[p].at = "touch"
          /\ untouched' = IF Between(p) THEN untouched \ {proc[p].sid} ELSE untouched
          BY <1>3 DEF TouchSession, Is
    <2>2. /\ \A e \in 0..MaxDirs : db'[e].now = Corrupt => db[e].now = Corrupt
          /\ \A e \in 0..MaxDirs : \A s \in DOMAIN db'[e].now.updated :
                 /\ s \in DOMAIN db[e].now.updated
                 /\ \/ db'[e].now.updated[s] = db[e].now.updated[s]
                    \/ db'[e].now.updated[s] = "fresh"
          /\ LET d == proc[p].dir
                 s == proc[p].sid
             IN  s \in DOMAIN db'[d].now.updated => db'[d].now.updated[s] = "fresh"
          /\ proc'[p].at = "chat"
          /\ \A q \in Procs \ {p} : proc'[q] = proc[q]
          BY <1>3, TouchSessionDb
    <2>3. \A s \in Midway : s \in Midway' \/ (Between(p) /\ s = proc[p].sid)
      <3>1. \A s : s \in Midway' <=> s \in untouched' \/ \E q \in Procs : Between(q)' /\ proc'[q].sid = s
            BY DEF Midway
      <3>2. \A q \in Procs \ {p} : Between(q) => Between(q)' /\ proc'[q].sid = proc[q].sid
            BY <2>1, <2>2 DEF Between
      <3> SUFFICES ASSUME NEW s \in Midway, s \notin Midway' PROVE Between(p) /\ s = proc[p].sid
          OBVIOUS
      <3>3. CASE s \in untouched
            BY <2>1, <3>1, <3>3
      <3>4. ASSUME NEW q \in Procs, Between(q), proc[q].sid = s PROVE Between(p) /\ s = proc[p].sid
            BY <3>1, <3>2, <3>4
      <3> QED BY <3>3, <3>4, MidwayIs
    <2>4. ASSUME NEW s \in active, s \in DOMAIN db'[live].now.updated
          PROVE  db'[live].now.updated[s] = "fresh" \/ s \in Midway'
      <3>1. /\ s \in DOMAIN db[live].now.updated
            /\ \/ db'[live].now.updated[s] = db[live].now.updated[s]
               \/ db'[live].now.updated[s] = "fresh"
            BY <2>2, <2>4, LiveIs
      <3>2. db[live].now.updated[s] = "fresh" \/ s \in Midway
            BY <3>1 DEF ActiveInv, Now
      <3>3. CASE Between(p) /\ s = proc[p].sid
            BY <2>2, <2>4, <3>3 DEF Between
      <3> QED BY <2>3, <3>1, <3>2, <3>3
    <2>5. Unpacking' => Unpacking
          BY <2>2 DEF Unpacking, Is
    <2>6. \A q \in Procs : Is(q, "prune")' /\ proc'[q].dir = live =>
              proc'[q].del \cap active \subseteq proc'[q].add
          BY <2>2 DEF Is, ActiveInv
    <2>7. active \cup untouched' \subseteq Sessions
          BY <2>1 DEF ActiveInv
    <2>8. Unpacking' \/ db'[live].now = Corrupt => active = {}
          BY <2>2, <2>5, LiveIs DEF ActiveInv, Now
    <2> QED BY <2>1, <2>4, <2>6, <2>7, <2>8 DEF ActiveInv, Now
  <1>4. CASE PruneLooks(p)
    <2> DEFINE stale == {s \in DOMAIN Now(live).updated : Now(live).updated[s] = "old"}
    <2>1. UNCHANGED <<live, db, active, untouched>> /\ proc[p].at = "idle"
          BY <1>4 DEF PruneLooks, disk, homeHistory, Command, Is
    <2>2. /\ proc'[p].at = "prune" /\ proc'[p].del = stale /\ proc'[p].add = Midway
          /\ \A q \in Procs \ {p} : proc'[q] = proc[q]
      <3>1. /\ proc'[p] = [proc[p] EXCEPT !.at = "prune", !.dir = live, !.del = stale, !.add = Midway]
            /\ \A q \in Procs \ {p} : proc'[q] = proc[q]
            BY <1>0, <1>4, PruneLooksTypes, Zenon
      <3>2. proc[p] \in Frame
            BY DEF ProcTypes
      <3> HIDE DEF stale
      <3> QED BY <3>1, <3>2 DEF Frame
    <2>3. stale \cap active \subseteq Midway
          BY DEF ActiveInv
    <2>4. \A q \in Procs : Is(q, "prune")' /\ proc'[q].dir = live =>
              proc'[q].del \cap active \subseteq proc'[q].add
          BY <2>2, <2>3 DEF Is, ActiveInv
    <2>5. Midway \subseteq Midway'
      <3>1. \A q \in Procs : Between(q) => Between(q)' /\ proc'[q].sid = proc[q].sid
            BY <2>1, <2>2 DEF Between
      <3> QED BY <2>1, <3>1, MidwayStays
    <2>6. \A s \in active : s \in DOMAIN db[live].now.updated =>
              db[live].now.updated[s] = "fresh" \/ s \in Midway'
          BY <2>5 DEF ActiveInv, Now
    <2>7. Unpacking' => Unpacking
          BY <2>2 DEF Unpacking, Is
    <2> HIDE DEF stale
    <2> QED BY <2>1, <2>4, <2>6, <2>7 DEF ActiveInv, Now
  <1>5. CASE PruneDeletes(p)
    <2>1. UNCHANGED <<live, active, untouched>> /\ proc[p].at = "prune"
          BY <1>5 DEF PruneDeletes, Is
    <2>2. /\ \A e \in 0..MaxDirs : db'[e].now = Corrupt => db[e].now = Corrupt
          /\ \A e \in 0..MaxDirs : \A s \in DOMAIN db'[e].now.updated :
                 /\ s \in DOMAIN db[e].now.updated
                 /\ db'[e].now.updated[s] = db[e].now.updated[s]
          /\ proc'[p] = Resting
          /\ \A q \in Procs \ {p} : proc'[q] = proc[q]
          BY <1>5, PruneDeletesDb
    <2>3. proc'[p].at = "idle"
          BY <2>2 DEF Resting
    <2>4. Midway \subseteq Midway'
      <3>1. \A q \in Procs : Between(q) => Between(q)' /\ proc'[q].sid = proc[q].sid
            BY <2>1, <2>2 DEF Between
      <3> QED BY <2>1, <3>1, MidwayStays
    <2>5. Unpacking' => Unpacking
          BY <2>2, <2>3 DEF Unpacking, Is
    <2>6. \A q \in Procs : Is(q, "prune")' => AsBefore(q) /\ proc[q].add \subseteq proc'[q].add
          BY <2>2, <2>3 DEF Is, AsBefore
    <2>7. untouched' \subseteq Sessions
          BY <2>1 DEF ActiveInv
    <2>8. /\ db'[live].now = Corrupt => db[live].now = Corrupt
          /\ \A s \in DOMAIN db'[live].now.updated :
              /\ s \in DOMAIN db[live].now.updated
              /\ db'[live].now.updated[s] \in {db[live].now.updated[s], "fresh"}
          BY <2>2, LiveIs
    <2> QED BY <2>1, <2>4, <2>5, <2>6, <2>7, <2>8, ActiveStays
  <1> QED BY <1>1, <1>2, <1>3, <1>4, <1>5, OpenChatActive, InsertRowActive DEF Database

LEMMA MaintenanceActive ==
    ASSUME DbInv, ActiveInv, ProcTypes, FileTypes, ArchiveTypes, AtArchive,
           NEW p \in Procs, Maintenance(p)
    PROVE  ActiveInv'
  <1>0. untouched \subseteq Sessions
        BY DEF ActiveInv
  <1>1. CASE Import(p) \/ Uninstall(p)
    <2>1. active' = {} /\ UNCHANGED untouched
          BY <1>1 DEF Import, Uninstall
    <2> QED BY <1>0, <2>1, NobodyActive
  <1>2. CASE \/ Backup(p) \/ BackupEnds(p) \/ ImportEnds(p) \/ UninstallEnds(p)
             \/ \E unit \in Units : CopyPart(p, unit)
    <2>1. UNCHANGED <<live, db, active, untouched>>
          BY <1>2 DEF Backup, BackupEnds, ImportEnds, UninstallEnds, CopyPart, disk, homeHistory
    <2>2. /\ proc'[p].at \in {"copy", "idle"}
          /\ proc[p].at \notin {"find", "touch"}
          /\ \A q \in Procs \ {p} : proc'[q] = proc[q]
          BY <1>2 DEF Backup, BackupEnds, ImportEnds, UninstallEnds, CopyPart, Goes, Command, Is,
                      ProcTypes, Frame
    <2>3. Midway \subseteq Midway'
      <3>1. \A q \in Procs : Between(q) => Between(q)' /\ proc'[q].sid = proc[q].sid
            BY <2>1, <2>2 DEF Between
      <3> QED BY <2>1, <3>1, MidwayStays
    <2>4. Unpacking' => Unpacking
          BY <2>2 DEF Unpacking, Is
    <2>5. \A q \in Procs : Is(q, "prune")' => AsBefore(q) /\ proc[q].add \subseteq proc'[q].add
          BY <2>2 DEF Is, AsBefore
    <2> QED BY <1>0, <2>1, <2>3, <2>4, <2>5, ActiveStays
  <1>3. ASSUME NEW unit \in Units, Unpack(p, unit) PROVE ActiveInv'
    <2>1. UNCHANGED <<active, untouched>> /\ Unpacking
          BY <1>3 DEF Unpack, homeHistory, Unpacking
    <2>2. active = {}
          BY <2>1 DEF ActiveInv
    <2> QED BY <1>0, <2>1, <2>2, NobodyActive
  <1>4. ASSUME NEW unit \in Units, RemovePart(p, unit) PROVE ActiveInv'
    <2>1. /\ UNCHANGED <<live, untouched>>
          /\ active' = IF db'[live] = db[live] THEN active ELSE {}
          BY <1>4 DEF RemovePart
    <2>2. CASE active' = {}
          BY <1>0, <2>1, <2>2, NobodyActive
    <2>3. CASE db'[live] = db[live] /\ active' = active
      <3>1. \A q \in Procs : /\ proc'[q].at = proc[q].at /\ proc'[q].sid = proc[q].sid
                             /\ proc'[q].add = proc[q].add
                             /\ q # p => proc'[q].del = proc[q].del
                             /\ Unlinks(unit, q) => proc'[q].dir = 0
                             /\ ~Unlinks(unit, q) => proc'[q].dir = proc[q].dir
            BY <1>4, RemovePartTypes
      <3>2. proc[p].at = "remove"
            BY <1>4 DEF RemovePart, Is
      <3>3. \A q \in Procs : Is(q, "prune")' /\ proc'[q].dir = live =>
                proc'[q].del \cap active \subseteq proc'[q].add
            BY <3>1, <3>2, LiveIs DEF ActiveInv, Is
      <3>4. Unpacking' => Unpacking
            BY <3>1 DEF Unpacking, Is
      <3>5. \A s \in active : s \in DOMAIN db[live].now.updated =>
                db[live].now.updated[s] = "fresh" \/ s \in Midway'
        <4>1. CASE unit = {"main"}
          <5>1. db' = [db EXCEPT ![0] = db[live], ![live] = NewDb]
                BY <1>4, <4>1 DEF RemovePart
          <5>2. db'[live] = NewDb
                BY <5>1, LiveIs DEF DbInv, DbSound
          <5>3. db[live].now.updated = <<>>
                BY <2>3, <5>2 DEF NewDb, Empty
          <5> QED BY <5>3
        <4>2. CASE unit # {"main"}
          <5>1. \A q \in Procs : Between(q) => Between(q)' /\ proc'[q].sid = proc[q].sid
                BY <2>1, <3>1, <4>2 DEF Between, Unlinks
          <5>2. Midway \subseteq Midway'
                BY <2>1, <5>1, MidwayStays
          <5> QED BY <5>2 DEF ActiveInv, Now
        <4> QED BY <4>1, <4>2
      <3> QED BY <1>0, <2>1, <2>3, <3>3, <3>4, <3>5 DEF ActiveInv, Now
    <2> QED BY <2>1, <2>2, <2>3
  <1> QED BY <1>1, <1>2, <1>3, <1>4 DEF Maintenance

LEMMA AroundActive ==
    ASSUME DbInv, ActiveInv, ProcTypes, FileTypes, Around
    PROVE  ActiveInv'
  <1>1. /\ \/ UNCHANGED <<active, untouched>> /\ \A e \in 0..MaxDirs : db'[e].now = db[e].now
           \/ active' = {} /\ untouched' = {}
        BY AroundDb
  <1>2. proc' = proc /\ UNCHANGED live
        BY AroundThem DEF Around, Expire, InstallSkill, Checkpoint, Age, SkillRests, disk
  <1>3. CASE UNCHANGED <<active, untouched>> /\ \A e \in 0..MaxDirs : db'[e].now = db[e].now
    <2>1. db'[live].now = db[live].now
          BY <1>3, LiveIs
    <2>2. Midway' = Midway /\ (Unpacking' <=> Unpacking)
          BY <1>2, <1>3 DEF Midway, Between, Unpacking, Is
    <2>3. \A q \in Procs : Is(q, "prune")' => AsBefore(q) /\ proc[q].add \subseteq proc'[q].add
          BY <1>2 DEF AsBefore
    <2>4. untouched' \subseteq Sessions
          BY <1>3 DEF ActiveInv
    <2> QED BY <1>2, <1>3, <2>1, <2>2, <2>3, <2>4, ActiveStays
  <1>4. CASE active' = {} /\ untouched' = {}
        BY <1>4, NobodyActive
  <1> QED BY <1>1, <1>3, <1>4

(***************************************************************************)
(* The invariant all others rest on.                                       *)
(***************************************************************************)
HomeTypes == ProcTypes /\ FileTypes /\ Carriers /\ ArchiveTypes /\ AtArchive
DirectoryInv == HomeTypes /\ DbInv /\ ActiveInv

LEMMA HomeInitInv == HomeInit => DirectoryInv
  <1> SUFFICES ASSUME HomeInit PROVE DirectoryInv
      OBVIOUS
  <1>1. ProcTypes /\ Carriers
        BY RestingFrame, RestingCarries DEF HomeInit, ProcTypes, Carriers
  <1>2. \A q \in Procs : proc[q].at = "idle" /\ proc[q].sid = 0
        BY DEF HomeInit, Resting
  <1>3. \A f \in Paths : {} \in Content(f)
        BY DEF Content
  <1>4. archive.held = <<>> /\ DOMAIN archive.held = {}
        BY DEF HomeInit
  <1>5. NewDir \in [Paths -> UNION {Content(f) : f \in Paths}] /\ \A f \in Paths : NewDir[f] = {}
        BY <1>3 DEF NewDir, Paths
  <1>6. FileTypes
    <2>1. live \in 1..MaxDirs
          BY HomeAssumption DEF HomeInit
    <2>2. /\ file \in [0..MaxDirs -> [Paths -> UNION {Content(f) : f \in Paths}]]
          /\ \A d \in 0..MaxDirs : \A f \in Paths : file[d][f] \in Content(f)
          BY <1>3, <1>5 DEF HomeInit
    <2>3. kept \in [Files -> SUBSET Thing] /\ \A f \in Files : kept[f] \in SUBSET EntriesOf(f)
          BY DEF HomeInit
    <2>4. expired \subseteq Items
          BY DEF HomeInit
    <2> QED BY <1>4, <2>1, <2>2, <2>3, <2>4 DEF FileTypes
  <1>7. ArchiveTypes /\ AtArchive
    <2>1. ArchiveTypes
          BY DEF HomeInit, ArchiveTypes
    <2> QED BY <1>2, <2>1 DEF AtArchive, Is
  <1>8. DbInv
    <2>1. db = [d \in 0..MaxDirs |-> NewDb]
          BY DEF HomeInit
    <2>2. NewDb \in [main : Stored, now : Stored] /\ Sound(NewDb.main) /\ Sound(NewDb.now)
          BY EmptyIsSound DEF NewDb, Stored
    <2>3. DbSound
          BY <1>4, <2>1, <2>2 DEF DbSound
    <2>4. \A q \in Procs : ~Connected(q) /\ ~Is(q, "insert")
          BY <1>2 DEF Connected, Chatting, Is
    <2> QED BY <2>3, <2>4 DEF DbInv, Connections, Ahead
  <1>9. ActiveInv
    <2>1. active = {} /\ untouched = {}
          BY DEF HomeInit
    <2> QED BY <2>1 DEF ActiveInv
  <1> QED BY <1>1, <1>6, <1>7, <1>8, <1>9 DEF DirectoryInv, HomeTypes

LEMMA HomeNextInv == DirectoryInv /\ [HomeNext]_homeVars => DirectoryInv'
  <1> SUFFICES ASSUME DirectoryInv, [HomeNext]_homeVars PROVE DirectoryInv'
      OBVIOUS
  <1>0. /\ ProcTypes /\ FileTypes /\ Carriers /\ ArchiveTypes /\ AtArchive
        /\ DbInv /\ ActiveInv /\ DbSound /\ Connections /\ Sids
        BY DEF DirectoryInv, HomeTypes, DbInv, ActiveInv, Sids
  <1>1. ASSUME NEW p \in Procs, Yaml(p) \/ Memory(p) \/ Library(p) \/ Dies(p) PROVE DirectoryInv'
    <2>0. proc[p].at = "browser" => proc[p].add \subseteq Items
          BY <1>0 DEF Carriers, Carried
    <2>1. proc[p].at = "index" => proc[p].add \cup proc[p].del \subseteq Items
          BY <1>0 DEF Carriers, Carried
    <2>2. ProcTypes'
          BY <1>0, <1>1, <2>0, <2>1, YamlTypes, MemoryTypes, LibraryTypes, DiesTypes
    <2>3. Carriers'
          BY <1>0, <1>1, YamlCarries, MemoryCarries, LibraryCarries, DeathCarries
    <2>4. FileTypes'
          BY <1>0, <1>1, YamlFiles, MemoryFiles, LibraryFiles, DeathFiles
    <2>5. DbInv' /\ ActiveInv' /\ proc'[p].at \notin Busy
          BY <1>0, <1>1, AwayDb, AwayActive
    <2>6. UNCHANGED archive /\ \A q \in Procs \ {p} : proc'[q] = proc[q]
          BY <1>0, <1>1, YamlStep, MemoryStep, LibraryStep, DeathStep
    <2>7. ArchiveTypes' /\ AtArchive'
      <3>1. \A q \in Procs \ {p} : proc'[q].at = proc[q].at /\ proc'[q].del = proc[q].del
            BY <2>6
      <3>2. proc'[p].at \notin {"copy", "unpack"}
            BY <2>5 DEF Busy
      <3> QED BY <1>0, <2>6, <3>1, <3>2, ArchiveStays
    <2> QED BY <2>2, <2>3, <2>4, <2>5, <2>7 DEF DirectoryInv, HomeTypes
  <1>2. ASSUME NEW p \in Procs, Database(p) PROVE DirectoryInv'
    <2>1. ProcTypes' /\ Carriers' /\ FileTypes'
          BY <1>0, <1>2, DatabaseTypes, DatabaseCarries, DatabaseFiles
    <2>2. DbInv' /\ ActiveInv'
          BY <1>0, <1>2, DatabaseDb, DatabaseActive
    <2>3. /\ UNCHANGED archive /\ proc'[p].at \notin Busy
          /\ \A q \in Procs \ {p} : AsBefore(q)
          BY <1>0, <1>2, DatabaseStep
    <2>4. ArchiveTypes' /\ AtArchive'
      <3>1. \A q \in Procs \ {p} : proc'[q].at = proc[q].at /\ proc'[q].del = proc[q].del
            BY <2>3 DEF AsBefore
      <3>2. proc'[p].at \notin {"copy", "unpack"}
            BY <2>3 DEF Busy
      <3> QED BY <1>0, <2>3, <3>1, <3>2, ArchiveStays
    <2> QED BY <2>1, <2>2, <2>4 DEF DirectoryInv, HomeTypes
  <1>3. ASSUME NEW p \in Procs, Maintenance(p) PROVE DirectoryInv'
    <2>1. ProcTypes' /\ Carriers' /\ FileTypes'
          BY <1>0, <1>3, MaintenanceTypes, MaintenanceCarries, MaintenanceFiles
    <2>2. ArchiveTypes' /\ AtArchive'
          BY <1>0, <1>3, MaintenanceArchive
    <2>3. DbInv' /\ ActiveInv'
          BY <1>0, <1>3, MaintenanceDb, MaintenanceActive
    <2> QED BY <2>1, <2>2, <2>3 DEF DirectoryInv, HomeTypes
  <1>4. CASE Around
    <2>1. proc' = proc /\ UNCHANGED archive
          BY <1>4, AroundThem DEF Around, Expire, InstallSkill, Checkpoint, Age, SkillRests
    <2>2. ProcTypes' /\ Carriers' /\ ArchiveTypes' /\ AtArchive'
          BY <1>0, <2>1 DEF ProcTypes, Carriers, ArchiveTypes, AtArchive, Is
    <2>3. FileTypes'
          BY <1>0, <1>4, AroundFiles
    <2>4. DbInv' /\ ActiveInv'
          BY <1>0, <1>4, AroundDb, AroundActive
    <2> QED BY <2>2, <2>3, <2>4 DEF DirectoryInv, HomeTypes
  <1>5. CASE UNCHANGED homeVars
    <2>1. UNCHANGED <<live, file, db, proc, archive, expired, kept, active, untouched>>
          BY <1>5 DEF homeVars, disk, homeHistory
    <2>2. ProcTypes' /\ Carriers' /\ ArchiveTypes' /\ AtArchive'
          BY <1>0, <2>1 DEF ProcTypes, Carriers, ArchiveTypes, AtArchive, Is
    <2>3. FileTypes'
          BY <1>0, <2>1, SameFiles
    <2>4. DbInv'
          BY <1>0, <2>1, NothingStored DEF Unpacking, Connected, Chatting, Is
    <2>5. ActiveInv'
          BY <1>0, <2>1 DEF ActiveInv, Midway, Between, Unpacking, Is, Now
    <2> QED BY <2>2, <2>3, <2>4, <2>5 DEF DirectoryInv, HomeTypes
  <1> QED BY <1>1, <1>2, <1>3, <1>4, <1>5 DEF HomeNext, Around

LEMMA HomeIsTyped == HomeSpec => []DirectoryInv
  BY HomeInitInv, HomeNextInv, PTL DEF HomeSpec

(* However two processes append to a session, each loads its own messages  *)
(* in the order it wrote them, and a session is pruned only if nothing was *)
(* said in it since the cutoff: but for what was said after prune looked,  *)
(* and for a death between a message and the touch of its session.         *)
THEOREM MessagesStayInPlace == HomeSpec => []MessagesKeepTheirPlace
  <1>1. DirectoryInv => MessagesKeepTheirPlace
    <2> SUFFICES ASSUME DirectoryInv PROVE MessagesKeepTheirPlace
        OBVIOUS
    <2>1. ASSUME NEW d \in 0..MaxDirs, Now(d) # Corrupt PROVE Proper(Now(d))
          BY <2>1 DEF DirectoryInv, DbInv, DbSound, Sound, Now
    <2>2. \A d \in 0..MaxDirs : Now(d) # Corrupt =>
            \A r, t \in Now(d).rows :
              /\ r.sid \in DOMAIN Now(d).updated
              /\ r.id < t.id /\ r.who = t.who /\ r.sid = t.sid => r.ord < t.ord
          BY <2>1 DEF Proper
    <2> QED BY <2>2 DEF MessagesKeepTheirPlace, DirectoryInv, ActiveInv
  <1> QED BY <1>1, HomeIsTyped, PTL

(***************************************************************************)
(* The YAML files: one process at a time has each file that is not         *)
(* spoiled, and its copy is what its command makes of the entries.         *)
(***************************************************************************)
Shared == Files \cup {"index"}
Replacing == \E p \in Procs : proc[p].at \in {"unpack", "remove"}
Exclusive ==
    \A f \in Shared : f \notin spoiled =>
        \A q, r \in Procs : Holds(q, f) /\ Holds(r, f) => q = r
Copied ==
    \A f \in Files : f \notin spoiled =>
        /\ file[live][f] = kept[f]
        /\ \A q \in Procs : Is(q, "save") /\ proc[q].file = f =>
              proc[q].copy = (kept[f] \ proc[q].del) \cup proc[q].add
Allowed(q) == IF Is(q, "save") /\ proc[q].file = "approvals" THEN proc[q].copy ELSE kept["approvals"]
AlwaysKnown == "approvals" \notin spoiled => \A q \in Procs : Chatting(q) => proc[q].always = Allowed(q)
Spoiling == Replacing => Shared \subseteq spoiled
KeptInv == Exclusive /\ Copied /\ AlwaysKnown /\ Spoiling

LEMMA KeptStays ==
    ASSUME KeptInv, NEW p \in Procs,
           \A q \in Procs \ {p} : AsBefore(q),
           \A f \in Shared : f \notin spoiled' =>
              f \notin spoiled /\ (Holds(p, f)' => Holds(p, f) \/ \A q \in Procs \ {p} : ~Holds(q, f)),
           \A f \in Files : f \notin spoiled' =>
              /\ file'[live'][f] = kept'[f]
              /\ kept'[f] = kept[f] \/ \A q \in Procs \ {p} : ~Holds(q, f)
              /\ Is(p, "save")' /\ proc'[p].file = f =>
                    proc'[p].copy = (kept'[f] \ proc'[p].del) \cup proc'[p].add,
           "approvals" \notin spoiled' /\ Chatting(p)' => proc'[p].always = Allowed(p)',
           Replacing' => Shared \subseteq spoiled'
    PROVE  KeptInv'
  <1>1. \A q \in Procs \ {p} : \A f \in Shared : Holds(q, f)' <=> Holds(q, f)
    <2> SUFFICES ASSUME NEW q \in Procs \ {p}, NEW f \in Shared PROVE Holds(q, f)' <=> Holds(q, f)
        OBVIOUS
    <2>1. proc'[q].at = proc[q].at /\ proc'[q].file = proc[q].file /\ proc'[q].sid = proc[q].sid
          BY DEF AsBefore
    <2> QED BY <2>1 DEF Holds, Is, Chatting
  <1>2. Exclusive'
    <2> SUFFICES ASSUME NEW f \in Shared, f \notin spoiled', NEW q \in Procs, NEW r \in Procs,
                        Holds(q, f)', Holds(r, f)', q # r
                 PROVE  FALSE
        BY DEF Exclusive
    <2>1. CASE q = p
          BY <1>1, <2>1 DEF KeptInv, Exclusive
    <2>2. CASE r = p
          BY <1>1, <2>2 DEF KeptInv, Exclusive
    <2>3. CASE q # p /\ r # p
          BY <1>1, <2>3 DEF KeptInv, Exclusive
    <2> QED BY <2>1, <2>2, <2>3
  <1>3. Copied'
    <2> SUFFICES ASSUME NEW f \in Files, f \notin spoiled', NEW q \in Procs, Is(q, "save")', proc'[q].file = f
                 PROVE  proc'[q].copy = (kept'[f] \ proc'[q].del) \cup proc'[q].add
        BY DEF Copied
    <2>1. CASE q = p
          BY <2>1
    <2>2. CASE q # p
      <3>1. AsBefore(q) /\ Is(q, "save") /\ ~Is(q, "prune") /\ proc[q].file = f
            BY <2>2 DEF AsBefore, Is
      <3>2. Holds(q, f)
            BY <3>1 DEF Holds
      <3>3. kept'[f] = kept[f] /\ f \notin spoiled
            BY <2>2, <3>2 DEF Shared
      <3>4. proc[q].copy = (kept[f] \ proc[q].del) \cup proc[q].add
            BY <3>1, <3>3 DEF KeptInv, Copied
      <3> QED BY <3>1, <3>3, <3>4 DEF AsBefore
    <2> QED BY <2>1, <2>2
  <1>4. AlwaysKnown'
    <2> SUFFICES ASSUME "approvals" \notin spoiled', NEW q \in Procs, Chatting(q)'
                 PROVE  proc'[q].always = Allowed(q)'
        BY DEF AlwaysKnown
    <2>1. CASE q = p
          BY <2>1
    <2>2. CASE q # p
      <3>1. AsBefore(q) /\ Chatting(q)
            BY <2>2 DEF AsBefore, Chatting
      <3>2. Holds(q, "approvals") /\ "approvals" \in Files
            BY <3>1 DEF Holds, Files
      <3>3. kept'["approvals"] = kept["approvals"] /\ "approvals" \notin spoiled
            BY <2>2, <3>2 DEF Shared
      <3>4. proc[q].always = Allowed(q)
            BY <3>1, <3>3 DEF KeptInv, AlwaysKnown
      <3>5. Allowed(q)' = Allowed(q)
            BY <3>1, <3>3 DEF Allowed, AsBefore, Is
      <3> QED BY <3>1, <3>4, <3>5 DEF AsBefore
    <2> QED BY <2>1, <2>2
  <1> QED BY <1>2, <1>3, <1>4 DEF KeptInv, Spoiling

(* A step that uses none of the files.                                     *)
LEMMA KeptQuiet ==
    ASSUME KeptInv, NEW p \in Procs, UNCHANGED <<live, kept, spoiled>>,
           \A f \in Files : file'[live][f] = file[live][f],
           \A q \in Procs \ {p} : AsBefore(q),
           proc'[p].at # "save",
           proc'[p].at \in {"index", "line"} => proc[p].at \in {"index", "line"},
           proc'[p].at \in {"unpack", "remove"} => proc'[p].at = proc[p].at,
           Chatting(p)' => Chatting(p) /\ proc'[p].always = proc[p].always /\ proc[p].at # "save"
    PROVE  KeptInv'
  <1>1. \A f \in Shared : Holds(p, f)' => Holds(p, f)
        BY DEF Holds, Is
  <1>2. \A f \in Files : f \notin spoiled => file'[live][f] = kept[f]
        BY DEF KeptInv, Copied
  <1>3. "approvals" \notin spoiled /\ Chatting(p)' => proc'[p].always = Allowed(p)'
        BY DEF KeptInv, AlwaysKnown, Allowed, Is
  <1>4. Replacing' => Replacing
        BY DEF Replacing, AsBefore
  <1>5. Replacing' => Shared \subseteq spoiled'
        BY <1>4 DEF KeptInv, Spoiling
  <1>6. ~Is(p, "save")'
        BY DEF Is
  <1> QED BY <1>1, <1>2, <1>3, <1>5, <1>6, KeptStays

(* Several processes at a file spoil it.                                   *)
LEMMA TouchedAlone ==
    ASSUME NEW p \in Procs, NEW f, spoiled' = Touched(p, f)
    PROVE  /\ spoiled \subseteq spoiled'
           /\ f \notin spoiled' => \A q \in Procs \ {p} : ~Holds(q, f)
           /\ \A g : g \notin spoiled' => g \notin spoiled
  BY DEF Touched

LEMMA KeptEntries ==
    ASSUME FileTypes, KeptInv, NEW f \in Files, f \notin spoiled
    PROVE  Entries(f) = kept[f]
  <1>1. file[live][f] = kept[f]
        BY DEF KeptInv, Copied
  <1>2. kept[f] # Unreadable
        BY NoContentAssumption DEF FileTypes
  <1> QED BY <1>1, <1>2 DEF Entries

LEMMA YamlKept ==
    ASSUME ProcTypes, FileTypes, Carriers, KeptInv, NEW p \in Procs, Yaml(p)
    PROVE  KeptInv'
  <1>0. proc[p].at = "browser" => proc[p].add \subseteq Items
        BY DEF Carriers, Carried
  <1>1. CASE Edits(p)
    <2>0. PICK f \in Files \ {"approvals"} :
              \E add, base \in SUBSET EntriesOf(f), del \in SUBSET Thing :
                 /\ proc[p].at \in {"idle", "chat", "browser"}
                 /\ (base \ del) \cup add = (Entries(f) \ del) \cup add
                 /\ Edit(p, f, base, add, del)
          BY <1>1 DEF Edits
    <2>1. PICK add \in SUBSET EntriesOf(f), base \in SUBSET EntriesOf(f), del \in SUBSET Thing :
                 /\ proc[p].at \in {"idle", "chat", "browser"}
                 /\ (base \ del) \cup add = (Entries(f) \ del) \cup add
                 /\ Edit(p, f, base, add, del)
          BY <2>0
    <2>2. /\ UNCHANGED <<live, file, kept>> /\ spoiled' = Touched(p, f)
          BY <2>1 DEF Edit, disk
    <2>3. /\ proc'[p].at = "save" /\ proc'[p].file = f
          /\ proc'[p].add = add /\ proc'[p].del = del /\ proc'[p].copy = (base \ del) \cup add
          /\ proc'[p].sid = proc[p].sid /\ proc'[p].always = proc[p].always
          /\ \A q \in Procs \ {p} : proc'[q] = proc[q]
          BY <2>1, EditTypes
    <2>4. /\ \A g : g \notin spoiled' => g \notin spoiled
          /\ f \notin spoiled' => \A q \in Procs \ {p} : ~Holds(q, f)
          BY <2>2, TouchedAlone
    <2>5. \A g \in Shared : Holds(p, g)' => g = f \/ Holds(p, g)
          BY <2>3 DEF Holds, Is, Chatting
    <2>6. f \notin spoiled' => proc'[p].copy = (kept[f] \ del) \cup add
          BY <2>1, <2>3, <2>4, KeptEntries
    <2>7. "approvals" \notin spoiled' /\ Chatting(p)' => proc'[p].always = Allowed(p)'
      <3>1. f # "approvals"
            OBVIOUS
      <3>2. Allowed(p)' = kept["approvals"]
            BY <2>2, <2>3, <3>1 DEF Allowed, Is
      <3>3. Allowed(p) = kept["approvals"]
            BY <2>1 DEF Allowed, Is
      <3> QED BY <2>3, <2>4, <3>2, <3>3 DEF KeptInv, AlwaysKnown, Chatting
    <2>8. Replacing' => Shared \subseteq spoiled'
      <3>1. Replacing' => Replacing
            BY <2>3 DEF Replacing
      <3> QED BY <2>4, <3>1 DEF KeptInv, Spoiling
    <2>9. \A q \in Procs \ {p} : AsBefore(q)
          BY <2>3 DEF AsBefore
    <2>10. \A g \in Files : g \notin spoiled' =>
              /\ file'[live'][g] = kept'[g]
              /\ kept'[g] = kept[g]
              /\ Is(p, "save")' /\ proc'[p].file = g =>
                    proc'[p].copy = (kept'[g] \ proc'[p].del) \cup proc'[p].add
          BY <2>2, <2>3, <2>4, <2>6 DEF KeptInv, Copied
    <2>11. \A g \in Shared : g \notin spoiled' =>
              g \notin spoiled /\ (Holds(p, g)' => Holds(p, g) \/ \A q \in Procs \ {p} : ~Holds(q, g))
          BY <2>4, <2>5
    <2> QED BY <2>7, <2>8, <2>9, <2>10, <2>11, KeptStays
  <1>2. CASE Save(p)
    <2> DEFINE f == proc[p].file
    <2>1. /\ Is(p, "save") /\ f \in Files /\ f \in Paths /\ proc[p].copy \subseteq EntriesOf(f)
          /\ (f = "approvals" => Chatting(p))
          BY <1>2 DEF Save, Is, Carriers, Carried, Paths, Chatting
    <2>2. /\ file' = [file EXCEPT ![live][f] = proc[p].copy]
          /\ kept' = [kept EXCEPT ![f] = (@ \ proc[p].del) \cup proc[p].add]
          /\ UNCHANGED <<live, spoiled>> /\ Goes(p, Rest(p))
          BY <1>2 DEF Save
    <2>3. /\ proc'[p].at = Rest(p) /\ proc'[p].sid = proc[p].sid /\ proc'[p].always = proc[p].always
          /\ Rest(p) \in {"chat", "idle"}
          /\ \A q \in Procs \ {p} : proc'[q] = proc[q]
          BY <2>2 DEF Goes, Rest, ProcTypes, Frame
    <2>4. Holds(p, f)
          BY <2>1 DEF Holds
    <2>5. f \notin spoiled => \A q \in Procs \ {p} : ~Holds(q, f)
          BY <2>1, <2>4 DEF KeptInv, Exclusive, Shared
    <2>6. file'[live][f] = proc[p].copy /\ \A g \in Files \ {f} : file'[live][g] = file[live][g]
      <3>1. proc[p].copy \in Content(f)
            BY <2>1, SetsAreContent
      <3> HIDE DEF f
      <3>2. /\ file'[live][f] = proc[p].copy
            /\ \A g \in Paths \ {f} : file'[live][g] = file[live][g]
            BY <2>1, <2>2, <3>1, FileWritten
      <3> QED BY <3>2 DEF Paths
    <2>7. /\ kept'[f] = (kept[f] \ proc[p].del) \cup proc[p].add
          /\ \A g \in Files \ {f} : kept'[g] = kept[g]
          BY <2>1, <2>2 DEF FileTypes
    <2>8. f \notin spoiled => proc[p].copy = (kept[f] \ proc[p].del) \cup proc[p].add
          BY <2>1 DEF KeptInv, Copied
    <2>9. "approvals" \notin spoiled' /\ Chatting(p)' => proc'[p].always = Allowed(p)'
      <3> SUFFICES ASSUME "approvals" \notin spoiled, Chatting(p)
                   PROVE  proc'[p].always = Allowed(p)'
          BY <2>2, <2>3 DEF Chatting
      <3>1. Allowed(p)' = kept'["approvals"]
            BY <2>3 DEF Allowed, Is
      <3>2. proc[p].always = Allowed(p)
            BY DEF KeptInv, AlwaysKnown
      <3>3. CASE f = "approvals"
            BY <2>1, <2>3, <2>7, <2>8, <3>1, <3>2, <3>3 DEF Allowed
      <3>4. CASE f # "approvals"
        <4>1. kept'["approvals"] = kept["approvals"]
              BY <2>7, <3>4 DEF Files
        <4>2. Allowed(p) = kept["approvals"]
              BY <3>4 DEF Allowed
        <4> QED BY <2>3, <3>1, <3>2, <4>1, <4>2
      <3> QED BY <3>3, <3>4
    <2>10. Replacing' => Shared \subseteq spoiled'
      <3>1. Replacing' => Replacing
            BY <2>3 DEF Replacing
      <3> QED BY <2>2, <3>1 DEF KeptInv, Spoiling
    <2>11. \A q \in Procs \ {p} : AsBefore(q)
          BY <2>3 DEF AsBefore
    <2>12. \A g \in Files : g \notin spoiled' =>
              /\ file'[live'][g] = kept'[g]
              /\ kept'[g] = kept[g] \/ \A q \in Procs \ {p} : ~Holds(q, g)
              /\ ~Is(p, "save")'
      <3>1. ~Is(p, "save")'
            BY <2>3 DEF Is
      <3> SUFFICES ASSUME NEW g \in Files, g \notin spoiled
                   PROVE  /\ file'[live][g] = kept'[g]
                          /\ kept'[g] = kept[g] \/ \A q \in Procs \ {p} : ~Holds(q, g)
          BY <2>2, <3>1
      <3>2. CASE g = f
            BY <2>5, <2>6, <2>7, <2>8, <3>2
      <3>3. CASE g # f
            BY <2>6, <2>7, <3>3 DEF KeptInv, Copied
      <3> QED BY <3>2, <3>3
    <2>13. \A g \in Shared : g \notin spoiled' => g \notin spoiled /\ (Holds(p, g)' => Holds(p, g))
          BY <2>2, <2>3 DEF Holds, Is, Chatting
    <2> HIDE DEF f
    <2> QED BY <2>9, <2>10, <2>11, <2>12, <2>13, KeptStays
  <1>3. ASSUME NEW x \in Items, RememberAlways(p, x) PROVE KeptInv'
    <2>1. /\ UNCHANGED <<live, file, kept>> /\ spoiled' = Touched(p, "approvals")
          BY <1>3 DEF RememberAlways, disk
    <2>2. /\ proc[p].at = "chat"
          /\ proc'[p].at = "save" /\ proc'[p].file = "approvals" /\ proc'[p].add = {x}
          /\ proc'[p].del = {} /\ proc'[p].sid = proc[p].sid
          /\ proc'[p].always = proc[p].always \cup {x} /\ proc'[p].copy = proc[p].always \cup {x}
          /\ \A q \in Procs \ {p} : proc'[q] = proc[q]
      <3>1. /\ proc[p].at = "chat"
            /\ proc'[p] = [proc[p] EXCEPT !.always = proc[p].always \cup {x}, !.at = "save",
                              !.copy = proc[p].always \cup {x}, !.file = "approvals",
                              !.add = {x}, !.del = {}]
            /\ \A q \in Procs \ {p} : proc'[q] = proc[q]
            BY <1>3, RememberTypes, Zenon
      <3>2. proc[p] \in Frame
            BY DEF ProcTypes
      <3> QED BY <3>1, <3>2 DEF Frame
    <2>3. Chatting(p)
          BY <2>2, ChatsAreConnected DEF AtChat, Chatting, ProcTypes, Placed
    <2>4. /\ \A g : g \notin spoiled' => g \notin spoiled
          /\ "approvals" \notin spoiled' => \A q \in Procs \ {p} : ~Holds(q, "approvals")
          BY <2>1, TouchedAlone
    <2>5. "approvals" \notin spoiled => proc[p].always = kept["approvals"]
          BY <2>2, <2>3 DEF KeptInv, AlwaysKnown, Allowed, Is
    <2>6. \A g \in Shared : Holds(p, g)' => g = "approvals" \/ Holds(p, g)
          BY <2>2 DEF Holds, Is, Chatting
    <2>7. Allowed(p)' = proc'[p].copy
          BY <2>2 DEF Allowed, Is
    <2>8. Replacing' => Shared \subseteq spoiled'
      <3>1. Replacing' => Replacing
            BY <2>2 DEF Replacing
      <3> QED BY <2>4, <3>1 DEF KeptInv, Spoiling
    <2>9. \A q \in Procs \ {p} : AsBefore(q)
          BY <2>2 DEF AsBefore
    <2>10. \A g \in Files : g \notin spoiled' =>
              /\ file'[live'][g] = kept'[g]
              /\ kept'[g] = kept[g]
              /\ Is(p, "save")' /\ proc'[p].file = g =>
                    proc'[p].copy = (kept'[g] \ proc'[p].del) \cup proc'[p].add
          BY <2>1, <2>2, <2>4, <2>5 DEF KeptInv, Copied
    <2>11. \A g \in Shared : g \notin spoiled' =>
              g \notin spoiled /\ (Holds(p, g)' => Holds(p, g) \/ \A q \in Procs \ {p} : ~Holds(q, g))
          BY <2>4, <2>6
    <2>12. "approvals" \notin spoiled' /\ Chatting(p)' => proc'[p].always = Allowed(p)'
          BY <2>2, <2>7
    <2> QED BY <2>8, <2>9, <2>10, <2>11, <2>12, KeptStays
  <1>4. ASSUME NEW x \in Items, McpOauth(p, x) PROVE KeptInv'
    <2>1. UNCHANGED <<live, file, kept, spoiled>> /\ proc[p].at = "idle"
          BY <1>4 DEF McpOauth, disk, homeHistory, Command, Is
    <2>2. /\ proc'[p].at = "browser" /\ proc'[p].sid = proc[p].sid /\ proc'[p].always = proc[p].always
          /\ \A q \in Procs \ {p} : proc'[q] = proc[q]
          BY <1>4 DEF McpOauth, ProcTypes, Frame
    <2> QED BY <2>1, <2>2, KeptQuiet DEF AsBefore, Chatting
  <1> QED BY <1>0, <1>1, <1>2, <1>3, <1>4, YamlEdits

LEMMA KeptSpoiled == Shared \subseteq spoiled' => KeptInv'
  BY DEF KeptInv, Exclusive, Copied, AlwaysKnown, Spoiling, Shared, Files

LEMMA KeptAsItIs == KeptInv /\ UNCHANGED <<live, file, kept, spoiled, proc>> => KeptInv'
  BY DEF KeptInv, Exclusive, Copied, AlwaysKnown, Spoiling, Shared, Replacing, Holds, Is, Chatting, Allowed

LEMMA MemoryKept ==
    ASSUME ProcTypes, FileTypes, KeptInv, NEW p \in Procs, Memory(p)
    PROVE  KeptInv'
  <1>0. /\ UNCHANGED <<live, kept>> /\ proc[p].at \in {"chat", "index", "line"}
        /\ proc'[p].at \in {"index", "line", "chat"}
        /\ proc'[p].sid = proc[p].sid /\ proc'[p].always = proc[p].always
        /\ \A q \in Procs \ {p} : proc'[q] = proc[q]
        BY MemoryStep
  <1>1. \A q \in Procs \ {p} : AsBefore(q)
        BY <1>0 DEF AsBefore
  <1>2. ASSUME NEW x \in Items, MemoryWrite(p, x) \/ MemoryDelete(p, x) PROVE KeptInv'
    <2>1. PICK bodies \in SUBSET EntriesOf("bodies") :
              Body(p, bodies, {x}, {}) \/ Body(p, bodies, {}, {x})
      <3>1. file[live]["bodies"] \subseteq Items
            BY EntriesOfTypes DEF FileTypes, Content, Paths, Files
      <3> QED BY <1>2, <3>1, EntriesOfTypes DEF MemoryWrite, MemoryDelete
    <2>2. file' = [file EXCEPT ![live]["bodies"] = bodies] /\ spoiled' = Touched(p, "index")
          BY <2>1 DEF Body
    <2>3. \A f \in Files : file'[live][f] = file[live][f]
      <3>1. bodies \in Content("bodies") /\ "bodies" \in Paths
            BY SetsAreContent DEF Paths
      <3>2. \A g \in Paths \ {"bodies"} : file'[live][g] = file[live][g]
            BY <2>2, <3>1, FileWritten
      <3> QED BY <3>2 DEF Paths, Files
    <2>4. /\ \A g : g \notin spoiled' => g \notin spoiled
          /\ "index" \notin spoiled' => \A q \in Procs \ {p} : ~Holds(q, "index")
          BY <2>2, TouchedAlone
    <2>5. \A g \in Shared : Holds(p, g)' => g = "index" \/ Holds(p, g)
          BY <1>0 DEF Holds, Is, Chatting
    <2>6. "approvals" \notin spoiled' /\ Chatting(p)' => proc'[p].always = Allowed(p)'
          BY <1>0, <2>4 DEF KeptInv, AlwaysKnown, Allowed, Is, Chatting
    <2>7. Replacing' => Shared \subseteq spoiled'
      <3>1. Replacing' => Replacing
            BY <1>0 DEF Replacing
      <3> QED BY <2>4, <3>1 DEF KeptInv, Spoiling
    <2>8. \A f \in Files : f \notin spoiled' =>
              file'[live'][f] = kept'[f] /\ kept'[f] = kept[f] /\ ~Is(p, "save")'
          BY <1>0, <2>3, <2>4 DEF KeptInv, Copied, Is
    <2>9. \A g \in Shared : g \notin spoiled' =>
              g \notin spoiled /\ (Holds(p, g)' => Holds(p, g) \/ \A q \in Procs \ {p} : ~Holds(q, g))
          BY <2>4, <2>5
    <2> QED BY <1>1, <2>6, <2>7, <2>8, <2>9, KeptStays
  <1>3. CASE ReadIndex(p) \/ WriteIndex(p)
    <2>1. UNCHANGED spoiled /\ proc[p].at \in {"index", "line"}
          BY <1>3 DEF ReadIndex, WriteIndex, Is
    <2>2. \A f \in Files : file'[live][f] = file[live][f]
      <3>1. CASE ReadIndex(p)
            BY <3>1 DEF ReadIndex, disk
      <3>2. CASE WriteIndex(p)
        <4>1. file' = [file EXCEPT ![live]["index"] = proc[p].copy]
              BY <3>2 DEF WriteIndex
        <4> QED BY <4>1 DEF FileTypes, Files
      <3> QED BY <1>3, <3>1, <3>2
    <2> QED BY <1>0, <1>1, <2>1, <2>2, KeptQuiet DEF Chatting
  <1> QED BY <1>2, <1>3 DEF Memory

LEMMA LibraryKept ==
    ASSUME ProcTypes, FileTypes, KeptInv, NEW p \in Procs, Library(p)
    PROVE  KeptInv'
  <1>1. /\ UNCHANGED <<disk, homeHistory>>
        /\ proc[p].at \in {"chat", "skill", "idle", "unlink"}
        /\ proc'[p].at \in {"skill", "chat", "unlink", "idle"}
        /\ (proc'[p].sid = proc[p].sid /\ proc'[p].always = proc[p].always) \/ proc'[p] = Resting
        /\ \A q \in Procs \ {p} : proc'[q] = proc[q]
        BY LibraryStep
  <1>2. UNCHANGED <<live, kept, spoiled, file>>
        BY <1>1 DEF disk, homeHistory
  <1>3. Chatting(p)' => Chatting(p) /\ proc'[p].always = proc[p].always /\ proc[p].at # "save"
        BY <1>1 DEF Chatting, Resting
  <1>4. \A q \in Procs \ {p} : AsBefore(q)
        BY <1>1 DEF AsBefore
  <1> QED BY <1>1, <1>2, <1>3, <1>4, KeptQuiet

LEMMA DatabaseMoves ==
    ASSUME ProcTypes, FileTypes, DbSound, Connections, Sids, NEW p \in Procs, Database(p),
           \A s \in Sessions : ~OpenChat(p, s)
    PROVE  /\ UNCHANGED spoiled
           /\ proc'[p].at \in {"idle", "chat", "insert", "find", "touch", "prune"}
           /\ proc'[p] = Resting \/ (proc'[p].sid = proc[p].sid /\ proc'[p].always = proc[p].always)
  <1>1. UNCHANGED spoiled
        BY DEF Database, CloseChat, SelectOrd, InsertRow, InsertFound, TouchSession,
               PruneLooks, PruneDeletes, homeHistory
  <1>2. proc[p] \in Frame
        BY DEF ProcTypes
  <1>3. CASE CloseChat(p) \/ PruneDeletes(p)
        BY <1>1, <1>3, Leaving DEF CloseChat, PruneDeletes, Resting
  <1>4. CASE SelectOrd(p) \/ PruneLooks(p)
    <2> DEFINE stale == {s \in DOMAIN Now(live).updated : Now(live).updated[s] = "old"}
    <2>1. \/ proc' = [proc EXCEPT ![p].at = "insert", ![p].ord = NextOrd(proc[p].dir, proc[p].sid)]
          \/ proc' = [proc EXCEPT ![p].at = "prune", ![p].dir = live, ![p].del = stale,
                                 ![p].add = Midway]
          BY <1>4 DEF SelectOrd, PruneLooks
    <2> HIDE DEF stale
    <2> QED BY <1>1, <1>2, <2>1 DEF ProcTypes, Frame
  <1>5. CASE InsertFound(p) \/ TouchSession(p)
        BY <1>1, <1>2, <1>5 DEF InsertFound, TouchSession, Goes, ProcTypes, Frame
  <1>6. CASE InsertRow(p)
        BY <1>1, <1>6, InsertRowTypes
  <1> QED BY <1>3, <1>4, <1>5, <1>6 DEF Database

LEMMA DatabaseKept ==
    ASSUME ProcTypes, FileTypes, DbSound, Connections, Sids, KeptInv, NEW p \in Procs, Database(p)
    PROVE  KeptInv'
  <1>0. /\ UNCHANGED <<live, file, kept>>
        /\ proc[p].at \in {"idle", "chat", "insert", "find", "touch", "prune"}
        /\ \A q \in Procs \ {p} : AsBefore(q)
        BY DatabaseStep
  <1>1. ASSUME NEW s \in Sessions, OpenChat(p, s) PROVE KeptInv'
    <2>1. /\ proc'[p] = [Resting EXCEPT !.at = "chat", !.dir = live, !.sid = s,
                                       !.always = Approvals, !.skills = Loaded]
          /\ spoiled' = Touched(p, "approvals")
          BY <1>1, OpenChatTypes DEF OpenChat
    <2>2. proc'[p].at = "chat" /\ proc'[p].always = Approvals
          BY <2>1 DEF Resting
    <2>3. /\ \A g : g \notin spoiled' => g \notin spoiled
          /\ "approvals" \notin spoiled' => \A q \in Procs \ {p} : ~Holds(q, "approvals")
          BY <2>1, TouchedAlone
    <2>4. \A g \in Shared : Holds(p, g)' => g = "approvals"
          BY <2>2 DEF Holds, Is, Chatting
    <2>5. "approvals" \notin spoiled' => proc'[p].always = Allowed(p)'
      <3> SUFFICES ASSUME "approvals" \notin spoiled' PROVE proc'[p].always = Allowed(p)'
          OBVIOUS
      <3>1. Approvals = kept["approvals"]
            BY <2>3, KeptEntries DEF Approvals, Files
      <3> QED BY <1>0, <2>2, <3>1 DEF Allowed, Is
    <2>6. Replacing' => Shared \subseteq spoiled'
      <3>1. Replacing' => Replacing
            BY <1>0, <2>2 DEF Replacing, AsBefore
      <3> QED BY <2>3, <3>1 DEF KeptInv, Spoiling
    <2>7. \A f \in Files : f \notin spoiled' =>
              file'[live'][f] = kept'[f] /\ kept'[f] = kept[f] /\ ~Is(p, "save")'
          BY <1>0, <2>2, <2>3 DEF KeptInv, Copied, Is
    <2>8. \A g \in Shared : g \notin spoiled' =>
              g \notin spoiled /\ (Holds(p, g)' => Holds(p, g) \/ \A q \in Procs \ {p} : ~Holds(q, g))
          BY <2>3, <2>4
    <2> QED BY <1>0, <2>5, <2>6, <2>7, <2>8, KeptStays
  <1>2. CASE \A s \in Sessions : ~OpenChat(p, s)
    <2>1. /\ UNCHANGED spoiled
          /\ proc'[p].at \in {"idle", "chat", "insert", "find", "touch", "prune"}
          /\ proc'[p] = Resting \/ (proc'[p].sid = proc[p].sid /\ proc'[p].always = proc[p].always)
          BY <1>2, DatabaseMoves
    <2>2. Chatting(p)' => Chatting(p) /\ proc'[p].always = proc[p].always /\ proc[p].at # "save"
          BY <1>0, <2>1 DEF Chatting, Resting
    <2> QED BY <1>0, <2>1, <2>2, KeptQuiet
  <1> QED BY <1>1, <1>2

LEMMA MaintenanceKept ==
    ASSUME ProcTypes, FileTypes, KeptInv, NEW p \in Procs, Maintenance(p)
    PROVE  KeptInv'
  <1>1. CASE Import(p) \/ Uninstall(p)
    <2>1. spoiled' = Shared
          BY <1>1 DEF Import, Uninstall, Shared
    <2> QED BY <2>1, KeptSpoiled
  <1>2. ASSUME NEW unit \in Units, Unpack(p, unit) \/ RemovePart(p, unit) PROVE KeptInv'
    <2>1. Replacing /\ UNCHANGED spoiled
          BY <1>2 DEF Unpack, RemovePart, Is, Replacing, homeHistory
    <2> QED BY <2>1, KeptSpoiled DEF KeptInv, Spoiling
  <1>3. ASSUME NEW unit \in Units, CopyPart(p, unit) PROVE KeptInv'
        BY <1>3, KeptAsItIs DEF CopyPart, disk, homeHistory
  <1>4. CASE Backup(p) \/ BackupEnds(p) \/ ImportEnds(p) \/ UninstallEnds(p)
    <2>1. /\ UNCHANGED <<live, file, kept, spoiled>>
          /\ Goes(p, "copy") \/ Goes(p, "idle")
          /\ proc[p].at \in Alone
          BY <1>4 DEF Backup, BackupEnds, ImportEnds, UninstallEnds, disk, homeHistory, Command, Is, Alone
    <2>2. /\ proc'[p].at \in {"copy", "idle"} /\ proc'[p].sid = proc[p].sid
          /\ \A q \in Procs \ {p} : proc'[q] = proc[q]
          BY <2>1 DEF Goes, ProcTypes, Frame
    <2>3. ~Chatting(p)'
          BY <2>1, <2>2 DEF ProcTypes, Placed, Chatting
    <2>4. \A q \in Procs \ {p} : AsBefore(q)
          BY <2>2 DEF AsBefore
    <2> QED BY <2>1, <2>2, <2>3, <2>4, KeptQuiet
  <1> QED BY <1>1, <1>2, <1>3, <1>4 DEF Maintenance

LEMMA DeathKept ==
    ASSUME ProcTypes, FileTypes, Carriers, KeptInv, NEW p \in Procs, Dies(p)
    PROVE  KeptInv'
  <1>0. /\ UNCHANGED <<live, kept>> /\ proc'[p] = Resting
        /\ \A q \in Procs \ {p} : proc'[q] = proc[q]
        BY DeathStep
  <1>1. proc'[p].at = "idle" /\ proc'[p].sid = 0
        BY <1>0 DEF Resting
  <1>2. \A q \in Procs \ {p} : AsBefore(q)
        BY <1>0 DEF AsBefore
  <1>3. CASE UNCHANGED <<file, spoiled, steady>>
        BY <1>0, <1>1, <1>2, <1>3, KeptQuiet DEF Chatting
  <1>4. ASSUME NEW f \in Shared, NEW left \in Content(f), Writes(f, left), Spoils(f) PROVE KeptInv'
    <2>1. f \in Paths /\ \A g : g \notin spoiled' => g # f /\ g \notin spoiled
          BY <1>4 DEF Shared, Paths, Spoils
    <2>2. \A g \in Paths \ {f} : file'[live][g] = file[live][g]
          BY <1>4, <2>1, FileWritten DEF Writes
    <2>3. \A g \in Files : g \notin spoiled' =>
              file'[live'][g] = kept'[g] /\ kept'[g] = kept[g] /\ ~Is(p, "save")'
          BY <1>0, <1>1, <2>1, <2>2 DEF KeptInv, Copied, Is, Paths
    <2>4. \A g \in Shared : ~Holds(p, g)'
          BY <1>1 DEF Holds, Is, Chatting
    <2>5. Replacing' => Shared \subseteq spoiled'
      <3>1. Replacing' => Replacing
            BY <1>0, <1>1 DEF Replacing
      <3> QED BY <2>1, <3>1 DEF KeptInv, Spoiling
    <2> QED BY <1>1, <1>2, <2>1, <2>3, <2>4, <2>5, KeptStays DEF Chatting
  <1>5. CASE Is(p, "save") /\ Spoils(proc[p].file)
             /\ (Writes(proc[p].file, {}) \/ Writes(proc[p].file, Unreadable))
    <2>1. proc[p].file \in Files
          BY <1>5 DEF Is, Carriers, Carried
    <2>2. {} \in Content(proc[p].file) /\ Unreadable \in Content(proc[p].file)
          BY <2>1 DEF Content
    <2> QED BY <1>4, <1>5, <2>1, <2>2 DEF Shared
  <1>6. CASE Is(p, "line") /\ Spoils("index") /\ Writes("index", {})
    <2>1. "index" \in Shared /\ {} \in Content("index")
          BY DEF Shared, Content
    <2> QED BY <1>4, <1>6, <2>1
  <1> QED BY <1>3, <1>5, <1>6, DeathCuts

LEMMA AroundKept == KeptInv /\ Around => KeptInv'
  <1> SUFFICES ASSUME KeptInv, Around PROVE KeptInv'
      OBVIOUS
  <1>1. proc' = proc
        BY AroundThem
  <1>2. UNCHANGED <<live, file, kept, spoiled>>
        BY DEF Around, Expire, InstallSkill, SkillRests, Checkpoint, Age, disk, homeHistory
  <1> QED BY <1>1, <1>2, KeptAsItIs

LEMMA HomeInitKept == HomeInit => KeptInv
  <1> SUFFICES ASSUME HomeInit PROVE KeptInv
      OBVIOUS
  <1>1. \A q \in Procs : proc[q].at = "idle" /\ proc[q].sid = 0
        BY DEF HomeInit, Resting
  <1>2. \A f \in Files : file[live][f] = kept[f]
    <2>1. live \in 0..MaxDirs
          BY HomeAssumption DEF HomeInit
    <2> QED BY <2>1 DEF HomeInit, NewDir
  <1> QED BY <1>1, <1>2 DEF KeptInv, Exclusive, Copied, AlwaysKnown, Spoiling, Replacing, Holds, Is, Chatting,
                          Allowed

LEMMA HomeNextKept == DirectoryInv /\ KeptInv /\ [HomeNext]_homeVars => KeptInv'
  <1> SUFFICES ASSUME DirectoryInv, KeptInv, [HomeNext]_homeVars PROVE KeptInv'
      OBVIOUS
  <1>0. /\ ProcTypes /\ FileTypes /\ Carriers /\ ArchiveTypes /\ DbSound /\ Connections /\ Sids
        BY DEF DirectoryInv, HomeTypes, DbInv, ActiveInv, Sids
  <1>1. ASSUME NEW p \in Procs, Yaml(p) \/ Memory(p) \/ Library(p) \/ Dies(p) PROVE KeptInv'
        BY <1>0, <1>1, YamlKept, MemoryKept, LibraryKept, DeathKept
  <1>2. ASSUME NEW p \in Procs, Database(p) \/ Maintenance(p) PROVE KeptInv'
        BY <1>0, <1>2, DatabaseKept, MaintenanceKept
  <1>3. CASE UNCHANGED homeVars
        BY <1>3, KeptAsItIs DEF homeVars, disk, homeHistory
  <1> QED BY <1>1, <1>2, <1>3, AroundKept DEF HomeNext, Around

LEMMA HomeIsKept == HomeSpec => [](DirectoryInv /\ KeptInv)
  <1>1. HomeInit => DirectoryInv /\ KeptInv
        BY HomeInitInv, HomeInitKept
  <1>2. DirectoryInv /\ KeptInv /\ [HomeNext]_homeVars => (DirectoryInv /\ KeptInv)'
        BY HomeNextInv, HomeNextKept
  <1> QED BY <1>1, <1>2, PTL DEF HomeSpec

(* Every file holds what its commands would have left one after the other, *)
(* a key past its time aside: unless two processes have used it at once, a *)
(* death has cut it off, or the directory has been replaced.               *)
THEOREM EntriesStayKept == HomeSpec => []EntriesAreKept
  <1>1. KeptInv => EntriesAreKept
        BY DEF KeptInv, Copied, EntriesAreKept
  <1> QED BY <1>1, HomeIsKept, PTL

(***************************************************************************)
(* The memory index: where one process at a time uses it, it differs from  *)
(* the bodies only in what that process writes or a death cut off.         *)
(***************************************************************************)
AtIndex(q) == proc[q].at \in {"index", "line"}
Bodies == file[live]["bodies"]
InHand(n) == \E q \in Procs : AtIndex(q) /\ n \in proc[q].add \cup proc[q].del
Matched(n) ==
    /\ n \in IndexText /\ n \notin Bodies => InHand(n) \/ <<n, "delete">> \in half
    /\ n \in Bodies /\ n \notin IndexText => InHand(n) \/ <<n, "write">> \in half
BodyFirst(q) == AtIndex(q) => proc[q].add \subseteq Bodies /\ proc[q].del \cap Bodies = {}
LineNext(q) ==
    Is(q, "line") => /\ proc[q].add = {} => proc[q].copy = IndexText \ proc[q].del
                     /\ proc[q].add # {} => proc[q].copy = IndexText \cup proc[q].add
IndexInv ==
    "index" \notin spoiled =>
        /\ \A n \in Items : Matched(n)
        /\ \A q \in Procs : BodyFirst(q) /\ LineNext(q)

LEMMA IndexSpoiled == "index" \in spoiled' => IndexInv'
  BY DEF IndexInv

(* A step of another kind.                                                 *)
LEMMA IndexStays ==
    ASSUME IndexInv, spoiled \subseteq spoiled', UNCHANGED half,
           IndexText' = IndexText, Bodies' = Bodies,
           \A q \in Procs : AtIndex(q) \/ AtIndex(q)' => AsBefore(q)
    PROVE  IndexInv'
  <1> SUFFICES ASSUME "index" \notin spoiled' PROVE IndexInv'
      BY DEF IndexInv
  <1>1. ASSUME NEW q \in Procs PROVE AtIndex(q)' <=> AtIndex(q)
        BY DEF AsBefore, AtIndex
  <1>2. ASSUME NEW q \in Procs, AtIndex(q)'
        PROVE  /\ AtIndex(q) /\ proc'[q].add = proc[q].add /\ proc'[q].del = proc[q].del
               /\ proc'[q].copy = proc[q].copy /\ proc'[q].at = proc[q].at
        BY <1>1, <1>2 DEF AsBefore, AtIndex, Is
  <1>3. \A n \in Items : InHand(n)' <=> InHand(n)
        BY <1>1, <1>2 DEF InHand
  <1>4. \A n \in Items : Matched(n)'
        BY <1>3 DEF IndexInv, Matched
  <1>5. ASSUME NEW q \in Procs PROVE BodyFirst(q)' /\ LineNext(q)'
    <2>1. BodyFirst(q)'
          BY <1>2 DEF IndexInv, BodyFirst
    <2>2. Is(q, "line")' => AtIndex(q)'
          BY DEF Is, AtIndex
    <2>3. LineNext(q)'
          BY <1>2, <2>2 DEF IndexInv, LineNext, Is
    <2> QED BY <2>1, <2>3
  <1> QED BY <1>4, <1>5 DEF IndexInv

(* The process at the index is done with it, or dies.                      *)
LEMMA IndexLeft ==
    ASSUME IndexInv, Exclusive, NEW p \in Procs, AtIndex(p), ~AtIndex(p)',
           "index" \notin spoiled' => "index" \notin spoiled,
           Bodies' = Bodies, Healed(p) \subseteq half',
           \A q \in Procs \ {p} : proc'[q] = proc[q],
           \A n \in Items : n \notin proc[p].add \cup proc[p].del =>
               (n \in IndexText' <=> n \in IndexText),
           "index" \notin spoiled' => \A n \in Items : n \in proc[p].add \cup proc[p].del => Matched(n)'
    PROVE  IndexInv'
  <1> SUFFICES ASSUME "index" \notin spoiled' PROVE IndexInv'
      BY DEF IndexInv
  <1>1. \A q \in Procs \ {p} : ~AtIndex(q)
        BY DEF Exclusive, Shared, Holds, AtIndex
  <1>2. \A q \in Procs : ~AtIndex(q)'
        BY <1>1 DEF AtIndex
  <1>3. ASSUME NEW n \in Items, n \notin proc[p].add \cup proc[p].del PROVE Matched(n)'
    <2>1. ~InHand(n)
          BY <1>1, <1>3 DEF InHand
    <2>2. Matched(n)
          BY DEF IndexInv
    <2>3. /\ <<n, "write">> \in half => <<n, "write">> \in half'
          /\ <<n, "delete">> \in half => <<n, "delete">> \in half'
          BY <1>3 DEF Healed
    <2> QED BY <1>3, <2>1, <2>2, <2>3 DEF Matched
  <1>4. \A n \in Items : Matched(n)'
        BY <1>3
  <1>5. \A q \in Procs : BodyFirst(q)' /\ LineNext(q)'
        BY <1>2 DEF BodyFirst, LineNext, AtIndex, Is
  <1> QED BY <1>4, <1>5 DEF IndexInv

LEMMA MemoryIndexed ==
    ASSUME ProcTypes, FileTypes, Carriers, KeptInv, IndexInv, NEW p \in Procs, Memory(p)
    PROVE  IndexInv'
  <1>0. /\ UNCHANGED live /\ proc[p].at \in {"chat", "index", "line"}
        /\ \A q \in Procs \ {p} : proc'[q] = proc[q]
        BY MemoryStep
  <1>a. Exclusive
        BY DEF KeptInv
  <1>1. ASSUME NEW bodies \in SUBSET Items, NEW add, NEW del, Body(p, bodies, add, del),
               proc[p].at = "chat", add \subseteq bodies, del \cap bodies = {},
               \A n \in Items : n \notin add \cup del => (n \in bodies <=> n \in Bodies)
        PROVE  IndexInv'
    <2> SUFFICES ASSUME "index" \notin spoiled' PROVE IndexInv'
        BY DEF IndexInv
    <2>1. /\ file' = [file EXCEPT ![live]["bodies"] = bodies] /\ spoiled' = Touched(p, "index")
          /\ UNCHANGED half
          /\ proc' = [proc EXCEPT ![p].at = "index", ![p].add = add, ![p].del = del]
          BY <1>1 DEF Body
    <2>2. "index" \notin spoiled /\ \A q \in Procs \ {p} : ~Holds(q, "index")
          BY <2>1, TouchedAlone
    <2>3. Bodies' = bodies /\ IndexText' = IndexText
      <3>1. bodies \in Content("bodies") /\ "bodies" \in Paths /\ "index" \in Paths
            BY SetsAreContent, EntriesOfTypes DEF Paths
      <3>2. /\ file'[live]["bodies"] = bodies
            /\ \A g \in Paths \ {"bodies"} : file'[live][g] = file[live][g]
            BY <2>1, <3>1, FileWritten
      <3> QED BY <1>0, <3>1, <3>2 DEF Bodies, IndexText
    <2>4. proc'[p].at = "index" /\ proc'[p].add = add /\ proc'[p].del = del
          BY <2>1 DEF ProcTypes, Frame
    <2>5. \A q \in Procs \ {p} : ~AtIndex(q) /\ ~AtIndex(q)'
          BY <1>0, <2>2 DEF Holds, AtIndex
    <2>6. \A n \in Items : ~InHand(n)
          BY <1>1, <2>5 DEF InHand, AtIndex
    <2>7. ASSUME NEW n \in Items PROVE Matched(n)'
      <3>1. CASE n \in add \cup del
            BY <2>4, <3>1 DEF Matched, InHand, AtIndex
      <3>2. CASE n \notin add \cup del
            BY <1>1, <2>1, <2>2, <2>3, <2>6, <3>2 DEF IndexInv, Matched
      <3> QED BY <3>1, <3>2
    <2>8. ASSUME NEW q \in Procs PROVE BodyFirst(q)' /\ LineNext(q)'
      <3>1. CASE q = p
            BY <1>1, <2>3, <2>4, <3>1 DEF BodyFirst, LineNext, Is
      <3>2. CASE q # p
            BY <2>5, <3>2 DEF BodyFirst, LineNext, Is, AtIndex
      <3> QED BY <3>1, <3>2
    <2> QED BY <2>7, <2>8 DEF IndexInv
  <1>b. Bodies \subseteq Items /\ IndexText \subseteq Items
        BY EntriesOfTypes DEF FileTypes, Content, Paths, Files, Bodies, IndexText
  <1>2. ASSUME NEW x \in Items, MemoryWrite(p, x) PROVE IndexInv'
    <2>1. Body(p, Bodies \cup {x}, {x}, {}) /\ proc[p].at = "chat"
          BY <1>2 DEF MemoryWrite, Bodies, InChat, Is
    <2> QED BY <1>1, <1>b, <2>1
  <1>3. ASSUME NEW x \in Items, MemoryDelete(p, x) PROVE IndexInv'
    <2>1. Body(p, Bodies \ {x}, {}, {x}) /\ proc[p].at = "chat"
          BY <1>3 DEF MemoryDelete, Bodies, InChat, Is
    <2> QED BY <1>1, <1>b, <2>1
  <1>4. CASE ReadIndex(p)
    <2> SUFFICES ASSUME "index" \notin spoiled' PROVE IndexInv'
        BY DEF IndexInv
    <2> DEFINE new == IF proc[p].add = {} THEN Stripped(IndexText, proc[p].del)
                                          ELSE Upserted(IndexText, proc[p].add)
               done == proc[p].add = {} /\ new = IndexText
    <2>1. /\ proc[p].at = "index" /\ AtIndex(p)
          /\ proc' = [proc EXCEPT ![p].copy = new, ![p].at = IF done THEN "chat" ELSE "line"]
          /\ half' = IF done THEN Healed(p) ELSE half
          /\ UNCHANGED <<file, spoiled>>
          BY <1>4 DEF ReadIndex, disk, Is, AtIndex
    <2>2. Bodies' = Bodies /\ IndexText' = IndexText
          BY <1>0, <2>1 DEF Bodies, IndexText
    <2>3. BodyFirst(p)
          BY <2>1 DEF IndexInv
    <2>4. \E n \in Items : \/ proc[p].add = {n} /\ proc[p].del = {}
                           \/ proc[p].add = {} /\ proc[p].del = {n}
          BY <2>1 DEF Carriers, Carried
    <2>5. CASE done
      <3>1. ~AtIndex(p)' /\ half' = Healed(p)
        <4>1. proc' = [proc EXCEPT ![p].copy = new, ![p].at = "chat"] /\ half' = Healed(p)
              BY <2>1, <2>5
        <4> HIDE DEF new
        <4> QED BY <4>1 DEF ProcTypes, Frame, AtIndex
      <3>2. \A n \in Items : n \in proc[p].add \cup proc[p].del => n \notin Bodies /\ n \notin IndexText
            BY <2>1, <2>3, <2>5 DEF BodyFirst, Stripped
      <3>3. \A n \in Items : n \in proc[p].add \cup proc[p].del => Matched(n)'
            BY <2>2, <3>2 DEF Matched
      <3> HIDE DEF done
      <3> QED BY <1>0, <1>a, <2>1, <2>2, <3>1, <3>3, IndexLeft
    <2>6. CASE ~done
      <3>1. /\ proc'[p].at = "line" /\ proc'[p].copy = new /\ half' = half
            /\ proc'[p].add = proc[p].add /\ proc'[p].del = proc[p].del
        <4>1. proc' = [proc EXCEPT ![p].copy = new, ![p].at = "line"] /\ half' = half
              BY <2>1, <2>6
        <4> HIDE DEF new
        <4> QED BY <4>1 DEF ProcTypes, Frame
      <3>2. AtIndex(p)' /\ \A q \in Procs : AtIndex(q)' <=> AtIndex(q)
            BY <1>0, <2>1, <3>1 DEF AtIndex
      <3>3. \A n \in Items : InHand(n)' <=> InHand(n)
            BY <1>0, <3>1, <3>2 DEF InHand
      <3>4. \A n \in Items : Matched(n)'
            BY <2>1, <2>2, <3>1, <3>3 DEF IndexInv, Matched
      <3>5. ASSUME NEW q \in Procs PROVE BodyFirst(q)' /\ LineNext(q)'
        <4>1. CASE q = p
          <5>1. BodyFirst(p)'
                BY <2>1, <2>2, <2>3, <3>1 DEF BodyFirst
          <5>2. LineNext(p)'
                BY <2>2, <3>1 DEF LineNext, Stripped, Upserted
          <5> QED BY <4>1, <5>1, <5>2
        <4>2. CASE q # p
              BY <1>0, <2>1, <2>2, <4>2 DEF IndexInv, BodyFirst, LineNext, Is, AtIndex
        <4> QED BY <4>1, <4>2
      <3> QED BY <3>4, <3>5 DEF IndexInv
    <2> HIDE DEF done
    <2> QED BY <2>5, <2>6
  <1>5. CASE WriteIndex(p)
    <2> SUFFICES ASSUME "index" \notin spoiled' PROVE IndexInv'
        BY DEF IndexInv
    <2>1. /\ proc[p].at = "line" /\ Is(p, "line") /\ AtIndex(p)
          /\ file' = [file EXCEPT ![live]["index"] = proc[p].copy]
          /\ Goes(p, "chat") /\ half' = Healed(p) /\ UNCHANGED spoiled
          BY <1>5 DEF WriteIndex, Is, AtIndex
    <2>2. proc[p].copy \subseteq Items
          BY <2>1 DEF Carriers, Carried
    <2>3. IndexText' = proc[p].copy /\ Bodies' = Bodies
      <3>1. proc[p].copy \in Content("index") /\ "bodies" \in Paths /\ "index" \in Paths
            BY <2>2, SetsAreContent, EntriesOfTypes DEF Paths
      <3>2. /\ file'[live]["index"] = proc[p].copy
            /\ \A g \in Paths \ {"index"} : file'[live][g] = file[live][g]
            BY <2>1, <3>1, FileWritten
      <3> QED BY <1>0, <3>1, <3>2 DEF Bodies, IndexText
    <2>4. BodyFirst(p) /\ LineNext(p)
          BY <2>1 DEF IndexInv
    <2>5. \E n \in Items : \/ proc[p].add = {n} /\ proc[p].del = {}
                           \/ proc[p].add = {} /\ proc[p].del = {n}
          BY <2>1 DEF Carriers, Carried
    <2>6. ~AtIndex(p)'
          BY <2>1 DEF Goes, ProcTypes, Frame, AtIndex
    <2>7. \A n \in Items : n \in proc[p].add \cup proc[p].del => Matched(n)'
          BY <2>1, <2>3, <2>4, <2>5 DEF Matched, BodyFirst, LineNext
    <2>8. \A n \in Items : n \notin proc[p].add \cup proc[p].del =>
               (n \in IndexText' <=> n \in IndexText)
          BY <2>1, <2>3, <2>4 DEF LineNext
    <2> QED BY <1>0, <1>a, <2>1, <2>3, <2>6, <2>7, <2>8, IndexLeft
  <1> QED BY <1>2, <1>3, <1>4, <1>5 DEF Memory

LEMMA YamlIndexed ==
    ASSUME ProcTypes, FileTypes, Carriers, IndexInv, NEW p \in Procs, Yaml(p)
    PROVE  IndexInv'
  <1>0. /\ UNCHANGED <<live, half>> /\ proc'[p].at \in {"save", "browser", "chat", "idle"}
        /\ \A q \in Procs \ {p} : proc'[q] = proc[q]
        BY YamlStep
  <1>1. spoiled \subseteq spoiled'
        BY DEF Yaml, RememberAlways, Share, FallbackAdd, FallbackRemove, McpAdd, McpAddHttp, McpRemove,
               McpOauth, McpToggle, Authorized, FallbackClear, CuratorPause, CuratorResume, Save,
               Edit, Touched, homeHistory
  <1>2. proc[p].at \in {"idle", "chat", "browser", "save"}
        BY DEF Yaml, RememberAlways, Share, FallbackAdd, FallbackRemove, McpAdd, McpAddHttp, McpRemove,
               McpOauth, McpToggle, Authorized, FallbackClear, CuratorPause, CuratorResume, Save,
               Command, InChat, Is
  <1>3. IndexText' = IndexText /\ Bodies' = Bodies
    <2>1. CASE Save(p)
      <3> DEFINE f == proc[p].file
      <3>1. f \in Files /\ f \in Paths \ {"index", "bodies"} /\ proc[p].copy \subseteq EntriesOf(f)
            BY <2>1 DEF Save, Is, Carriers, Carried, Paths, Files
      <3>2. file' = [file EXCEPT ![live][f] = proc[p].copy]
            BY <2>1 DEF Save
      <3>3. proc[p].copy \in Content(f)
            BY <3>1, SetsAreContent
      <3> HIDE DEF f
      <3>4. \A g \in Paths \ {f} : file'[live][g] = file[live][g]
            BY <3>1, <3>2, <3>3, FileWritten
      <3> QED BY <1>0, <3>1, <3>4 DEF IndexText, Bodies, Paths
    <2>2. CASE ~Save(p)
      <3>1. file' = file
            BY <2>2 DEF Yaml, RememberAlways, Share, FallbackAdd, FallbackRemove, McpAdd, McpAddHttp,
               McpRemove, McpOauth, McpToggle, Authorized, FallbackClear, CuratorPause, CuratorResume,
               Edit, disk
      <3> QED BY <1>0, <3>1 DEF IndexText, Bodies
    <2> QED BY <2>1, <2>2
  <1>4. \A q \in Procs : AtIndex(q) \/ AtIndex(q)' => AsBefore(q)
        BY <1>0, <1>2 DEF AtIndex, AsBefore
  <1> QED BY <1>0, <1>1, <1>3, <1>4, IndexStays

LEMMA LibraryIndexed ==
    ASSUME ProcTypes, FileTypes, IndexInv, NEW p \in Procs, Library(p)
    PROVE  IndexInv'
  <1>0. /\ UNCHANGED <<disk, homeHistory>>
        /\ proc[p].at \in {"chat", "skill", "idle", "unlink"}
        /\ proc'[p].at \in {"skill", "chat", "unlink", "idle"}
        /\ \A q \in Procs \ {p} : proc'[q] = proc[q]
        BY LibraryStep
  <1>1. UNCHANGED <<live, file, spoiled, half>>
        BY <1>0 DEF disk, homeHistory
  <1>2. \A q \in Procs : AtIndex(q) \/ AtIndex(q)' => AsBefore(q)
        BY <1>0 DEF AtIndex, AsBefore
  <1>3. IndexText' = IndexText /\ Bodies' = Bodies
        BY <1>1 DEF IndexText, Bodies
  <1> QED BY <1>1, <1>2, <1>3, IndexStays

LEMMA DatabaseIndexed ==
    ASSUME ProcTypes, FileTypes, DbSound, Connections, Sids, IndexInv, NEW p \in Procs, Database(p)
    PROVE  IndexInv'
  <1>0. /\ UNCHANGED <<live, file, half>>
        /\ proc[p].at \in {"idle", "chat", "insert", "find", "touch", "prune"}
        /\ \A q \in Procs \ {p} : AsBefore(q)
        BY DatabaseStep
  <1>1. spoiled \subseteq spoiled' /\ ~AtIndex(p)'
    <2>1. ASSUME NEW s \in Sessions, OpenChat(p, s) PROVE spoiled \subseteq spoiled' /\ ~AtIndex(p)'
      <3>1. spoiled' = Touched(p, "approvals")
            BY <2>1 DEF OpenChat
      <3>2. proc'[p] = [Resting EXCEPT !.at = "chat", !.dir = live, !.sid = s,
                                       !.always = Approvals, !.skills = Loaded]
            BY <2>1, OpenChatTypes
      <3> QED BY <3>1, <3>2, TouchedAlone DEF Resting, AtIndex
    <2>2. CASE \A s \in Sessions : ~OpenChat(p, s)
          BY <2>2, DatabaseMoves DEF AtIndex
    <2> QED BY <2>1, <2>2
  <1>2. \A q \in Procs : AtIndex(q) \/ AtIndex(q)' => AsBefore(q)
        BY <1>0, <1>1 DEF AtIndex
  <1>3. IndexText' = IndexText /\ Bodies' = Bodies
        BY <1>0 DEF IndexText, Bodies
  <1> QED BY <1>0, <1>1, <1>2, <1>3, IndexStays

LEMMA MaintenanceIndexed ==
    ASSUME ProcTypes, FileTypes, KeptInv, IndexInv, NEW p \in Procs, Maintenance(p)
    PROVE  IndexInv'
  <1>1. CASE Import(p) \/ Uninstall(p)
    <2>1. spoiled' = Shared
          BY <1>1 DEF Import, Uninstall, Shared
    <2> QED BY <2>1, IndexSpoiled DEF Shared
  <1>2. ASSUME NEW unit \in Units, Unpack(p, unit) \/ RemovePart(p, unit) PROVE IndexInv'
    <2>1. Replacing /\ UNCHANGED spoiled
          BY <1>2 DEF Unpack, RemovePart, Is, Replacing, homeHistory
    <2> QED BY <2>1, IndexSpoiled DEF KeptInv, Spoiling, Shared
  <1>3. ASSUME NEW unit \in Units, CopyPart(p, unit) PROVE IndexInv'
    <2>1. UNCHANGED <<live, file, spoiled, half, proc>>
          BY <1>3 DEF CopyPart, disk, homeHistory
    <2> QED BY <2>1, IndexStays DEF IndexText, Bodies, AsBefore
  <1>4. CASE Backup(p) \/ BackupEnds(p) \/ ImportEnds(p) \/ UninstallEnds(p)
    <2>1. /\ UNCHANGED <<live, file, half, spoiled>>
          /\ Goes(p, "copy") \/ Goes(p, "idle")
          /\ proc[p].at \in Alone
          BY <1>4 DEF Backup, BackupEnds, ImportEnds, UninstallEnds, disk, homeHistory, Command, Is, Alone
    <2>2. /\ proc'[p].at \in {"copy", "idle"}
          /\ \A q \in Procs \ {p} : proc'[q] = proc[q]
          BY <2>1 DEF Goes, ProcTypes, Frame
    <2>3. \A q \in Procs : AtIndex(q) \/ AtIndex(q)' => AsBefore(q)
          BY <2>1, <2>2 DEF AsBefore, AtIndex, Alone
    <2> QED BY <2>1, <2>3, IndexStays DEF IndexText, Bodies
  <1> QED BY <1>1, <1>2, <1>3, <1>4 DEF Maintenance

LEMMA DeathIndexed ==
    ASSUME ProcTypes, FileTypes, Carriers, KeptInv, IndexInv, NEW p \in Procs, Dies(p)
    PROVE  IndexInv'
  <1> SUFFICES ASSUME "index" \notin spoiled' PROVE IndexInv'
      BY DEF IndexInv
  <1>0. /\ UNCHANGED live /\ proc'[p] = Resting
        /\ \A q \in Procs \ {p} : proc'[q] = proc[q]
        BY DeathStep
  <1>1. ~AtIndex(p)' /\ Exclusive
        BY <1>0 DEF Resting, AtIndex, KeptInv
  <1>2. spoiled \subseteq spoiled' /\ IndexText' = IndexText /\ Bodies' = Bodies
    <2>1. CASE UNCHANGED <<file, spoiled, steady>>
          BY <1>0, <2>1 DEF IndexText, Bodies
    <2>2. CASE Is(p, "save") /\ Spoils(proc[p].file)
               /\ (Writes(proc[p].file, {}) \/ Writes(proc[p].file, Unreadable))
      <3> DEFINE f == proc[p].file
      <3>1. f \in Files /\ f \in Paths \ {"index", "bodies"}
            BY <2>2 DEF Is, Carriers, Carried, Paths, Files
      <3>2. PICK left \in Content(f) : Writes(f, left)
            BY <2>2, <3>1 DEF Content
      <3> HIDE DEF f
      <3>3. \A g \in Paths \ {f} : file'[live][g] = file[live][g]
            BY <3>1, <3>2, FileWritten DEF Writes
      <3>4. spoiled \subseteq spoiled'
            BY <2>2 DEF Spoils
      <3> QED BY <1>0, <3>1, <3>3, <3>4 DEF IndexText, Bodies, Paths
    <2>3. CASE Is(p, "line") /\ Spoils("index") /\ Writes("index", {})
          BY <2>3 DEF Spoils
    <2> QED BY <2>1, <2>2, <2>3, DeathCuts
  <1>3. CASE AtIndex(p)
    <2>1. half' = Healed(p) \cup (proc[p].add \X {"write"}) \cup (proc[p].del \X {"delete"})
          BY <1>3 DEF Dies, AtIndex
    <2>2. BodyFirst(p)
          BY <1>2 DEF IndexInv
    <2>3. \A n \in Items : n \in proc[p].add \cup proc[p].del => Matched(n)'
          BY <1>2, <1>3, <2>1, <2>2 DEF Matched, BodyFirst
    <2>4. Healed(p) \subseteq half'
          BY <2>1
    <2> QED BY <1>0, <1>1, <1>2, <1>3, <2>3, <2>4, IndexLeft
  <1>4. CASE ~AtIndex(p)
    <2>1. UNCHANGED half
          BY <1>4 DEF Dies, AtIndex
    <2>2. \A q \in Procs : AtIndex(q) \/ AtIndex(q)' => AsBefore(q)
          BY <1>0, <1>1, <1>4 DEF AsBefore, AtIndex
    <2> QED BY <1>2, <2>1, <2>2, IndexStays
  <1> QED BY <1>3, <1>4

LEMMA AroundIndexed == IndexInv /\ Around => IndexInv'
  <1> SUFFICES ASSUME IndexInv, Around PROVE IndexInv'
      OBVIOUS
  <1>1. proc' = proc
        BY AroundThem
  <1>2. UNCHANGED <<live, file, half, spoiled>>
        BY DEF Around, Expire, InstallSkill, SkillRests, Checkpoint, Age, disk, homeHistory
  <1> QED BY <1>1, <1>2, IndexStays DEF IndexText, Bodies, AsBefore

LEMMA HomeInitIndexed == HomeInit => IndexInv
  <1> SUFFICES ASSUME HomeInit PROVE IndexInv
      OBVIOUS
  <1>1. \A q \in Procs : proc[q].at = "idle"
        BY DEF HomeInit, Resting
  <1>2. IndexText = {} /\ Bodies = {}
    <2>1. live \in 0..MaxDirs
          BY HomeAssumption DEF HomeInit
    <2> QED BY <2>1 DEF HomeInit, NewDir, IndexText, Bodies
  <1> QED BY <1>1, <1>2 DEF IndexInv, Matched, BodyFirst, LineNext, AtIndex, Is

LEMMA HomeNextIndexed == DirectoryInv /\ KeptInv /\ IndexInv /\ [HomeNext]_homeVars => IndexInv'
  <1> SUFFICES ASSUME DirectoryInv, KeptInv, IndexInv, [HomeNext]_homeVars PROVE IndexInv'
      OBVIOUS
  <1>0. /\ ProcTypes /\ FileTypes /\ Carriers /\ ArchiveTypes /\ DbSound /\ Connections /\ Sids
        BY DEF DirectoryInv, HomeTypes, DbInv, ActiveInv, Sids
  <1>1. ASSUME NEW p \in Procs, Yaml(p) \/ Memory(p) \/ Library(p) \/ Dies(p) PROVE IndexInv'
        BY <1>0, <1>1, YamlIndexed, MemoryIndexed, LibraryIndexed, DeathIndexed
  <1>2. ASSUME NEW p \in Procs, Database(p) \/ Maintenance(p) PROVE IndexInv'
        BY <1>0, <1>2, DatabaseIndexed, MaintenanceIndexed
  <1>3. CASE UNCHANGED homeVars
    <2>1. UNCHANGED <<live, file, half, spoiled, proc>>
          BY <1>3 DEF homeVars, disk, homeHistory
    <2> QED BY <2>1, IndexStays DEF IndexText, Bodies, AsBefore
  <1> QED BY <1>1, <1>2, <1>3, AroundIndexed DEF HomeNext, Around

(* Where no two processes have used the index at once, a line of MEMORY.md *)
(* has a body unless a delete is under way or was cut off, and a body has  *)
(* a line unless a write is or was.                                        *)
THEOREM IndexStaysMatched == HomeSpec => []IndexMatchesBodies
  <1>1. HomeInit => DirectoryInv /\ KeptInv /\ IndexInv
        BY HomeInitInv, HomeInitKept, HomeInitIndexed
  <1>2. DirectoryInv /\ KeptInv /\ IndexInv /\ [HomeNext]_homeVars => (DirectoryInv /\ KeptInv /\ IndexInv)'
        BY HomeNextInv, HomeNextKept, HomeNextIndexed
  <1>3. IndexInv => IndexMatchesBodies
    <2> SUFFICES ASSUME IndexInv, "index" \notin spoiled, NEW n \in Items
                 PROVE  LET busy == \E p \in Procs : /\ proc[p].at \in {"index", "line"}
                                                     /\ n \in proc[p].add \cup proc[p].del
                            listed == n \in file[live]["index"]
                            stored == n \in file[live]["bodies"]
                        IN /\ listed /\ ~stored => busy \/ <<n, "delete">> \in half
                           /\ stored /\ ~listed => busy \/ <<n, "write">> \in half
        BY DEF IndexMatchesBodies
    <2>1. Matched(n)
          BY DEF IndexInv
    <2> QED BY <2>1 DEF Matched, InHand, AtIndex, Bodies, IndexText
  <1> QED BY <1>1, <1>2, <1>3, PTL DEF HomeSpec

(***************************************************************************)
(* Backup and import, while nobody writes: the archive holds what the      *)
(* directory did, and the directory what was unpacked of it.               *)
(***************************************************************************)
Copying == \E p \in Procs : Is(p, "copy")
CopiedSoFar ==
    /\ archive.was = [files |-> file[live], now |-> Now(live)]
    /\ \A f \in DOMAIN archive.held : archive.held[f] = Contents(f)
HeldWhole ==
    /\ DOMAIN archive.held = Parts
    /\ archive.was.files = [f \in Paths |-> archive.held[f]]
    /\ Together(archive.held["main"], archive.held["wal"]) = archive.was.now
UnpackedSoFar(q) ==
    /\ \A f \in Paths \ proc[q].del : file[live][f] = archive.held[f]
    /\ {"main", "wal"} \cap proc[q].del = {} => Now(live) = archive.was.now
ArchiveInv ==
    /\ Copying /\ steady => CopiedSoFar
    /\ archive.whole => HeldWhole
    /\ \A q \in Procs : Is(q, "unpack") /\ steady /\ archive.whole => UnpackedSoFar(q)

Written == steady' = FALSE
Unwritten == UNCHANGED <<live, file, db, steady>>

LEMMA ArchiveKept ==
    ASSUME ArchiveInv, UNCHANGED archive, Written \/ Unwritten,
           \A q \in Procs : Is(q, "copy")' => Is(q, "copy"),
           \A q \in Procs : Is(q, "unpack")' => Is(q, "unpack") /\ proc'[q].del = proc[q].del
    PROVE  ArchiveInv'
  <1>1. HeldWhole' <=> HeldWhole
        BY DEF HeldWhole
  <1>2. CASE Written
        BY <1>1, <1>2 DEF ArchiveInv, Written
  <1>3. CASE Unwritten
    <2>1. UNCHANGED <<live, file, db, archive>> /\ UNCHANGED steady
          BY <1>3 DEF Unwritten
    <2>2. CopiedSoFar' <=> CopiedSoFar
      <3>1. \A f : Contents(f)' = Contents(f)
            BY <2>1 DEF Contents, Now
      <3> QED BY <2>1, <3>1 DEF CopiedSoFar, Now
    <2>3. Copying' => Copying
          BY DEF Copying
    <2>4. \A q \in Procs : Is(q, "unpack")' /\ UnpackedSoFar(q) => UnpackedSoFar(q)'
          BY <2>1 DEF UnpackedSoFar, Now
    <2>5. (Copying /\ steady => CopiedSoFar)'
          BY <2>1, <2>2, <2>3 DEF ArchiveInv
    <2>6. (archive.whole => HeldWhole)'
          BY <2>1, <1>1 DEF ArchiveInv
    <2>7. ASSUME NEW q \in Procs, Is(q, "unpack")', steady', archive'.whole PROVE UnpackedSoFar(q)'
      <3>1. Is(q, "unpack") /\ steady /\ archive.whole
            BY <2>1, <2>7
      <3> QED BY <2>4, <2>7, <3>1 DEF ArchiveInv
    <2> QED BY <2>5, <2>6, <2>7 DEF ArchiveInv
  <1> QED BY <1>2, <1>3

LEMMA YamlWritten ==
    ASSUME NEW p \in Procs, Yaml(p)
    PROVE  Written \/ Unwritten
  <1>1. CASE Save(p)
        BY <1>1 DEF Save, Written
  <1>2. ASSUME NEW f, NEW base, NEW add, NEW del, Edit(p, f, base, add, del) PROVE Unwritten
        BY <1>2 DEF Edit, disk, Unwritten
  <1>3. ASSUME NEW x \in Items, RememberAlways(p, x) \/ McpOauth(p, x) PROVE Unwritten
        BY <1>3 DEF RememberAlways, McpOauth, disk, homeHistory, Unwritten
  <1>4. ASSUME NEW x \in Items,
               \/ Share(p, x) \/ FallbackAdd(p, x) \/ FallbackRemove(p, x) \/ McpAdd(p, x)
               \/ McpAddHttp(p, x) \/ McpRemove(p, x) \/ \E enabled \in BOOLEAN : McpToggle(p, x, enabled)
        PROVE  Unwritten
        BY <1>2, <1>4 DEF Share, FallbackAdd, FallbackRemove, McpAdd, McpAddHttp, McpRemove, McpToggle
  <1>5. CASE Authorized(p) \/ FallbackClear(p) \/ CuratorPause(p) \/ CuratorResume(p)
        BY <1>2, <1>5 DEF Authorized, FallbackClear, CuratorPause, CuratorResume
  <1> QED BY <1>1, <1>3, <1>4, <1>5 DEF Yaml

LEMMA MemoryWritten ==
    ASSUME NEW p \in Procs, Memory(p)
    PROVE  Written \/ Unwritten
  <1>1. CASE ReadIndex(p)
        BY <1>1 DEF ReadIndex, disk, Unwritten
  <1>2. CASE WriteIndex(p) \/ \E x \in Items : MemoryWrite(p, x) \/ MemoryDelete(p, x)
        BY <1>2 DEF WriteIndex, MemoryWrite, MemoryDelete, Body, Written
  <1> QED BY <1>1, <1>2 DEF Memory

LEMMA DatabaseWritten ==
    ASSUME NEW p \in Procs, Database(p)
    PROVE  Written \/ Unwritten
  <1>1. CASE \E s \in Sessions : OpenChat(p, s)
        BY <1>1 DEF OpenChat, Commit, Written, Unwritten
  <1>2. CASE CloseChat(p) \/ SelectOrd(p) \/ PruneLooks(p)
        BY <1>2 DEF CloseChat, SelectOrd, PruneLooks, disk, homeHistory, Unwritten
  <1>3. CASE InsertRow(p)
        BY <1>3 DEF InsertRow, Commit, Written, Unwritten
  <1>4. CASE InsertFound(p) \/ TouchSession(p) \/ PruneDeletes(p)
        BY <1>4 DEF InsertFound, TouchSession, PruneDeletes, Commit, Written, Unwritten
  <1> QED BY <1>1, <1>2, <1>3, <1>4 DEF Database

LEMMA AroundWritten == Around => (Written \/ Unwritten) /\ UNCHANGED archive
  <1>1. ASSUME NEW x \in Items, Expire(x) \/ InstallSkill(x) PROVE Unwritten /\ UNCHANGED archive
        BY <1>1 DEF Expire, InstallSkill, SkillRests, disk, homeHistory, Unwritten
  <1>2. ASSUME NEW d \in 1..MaxDirs, Checkpoint(d) PROVE Written /\ UNCHANGED archive
        BY <1>2 DEF Checkpoint, Written
  <1>3. Age => Written /\ UNCHANGED archive
        BY DEF Age, Commit, Written
  <1> QED BY <1>1, <1>2, <1>3 DEF Around

LEMMA ContentsOfFiles == \A f \in Paths : Contents(f) = file[live][f]
  BY DEF Contents, Paths, Files

LEMMA MaintenanceRestores ==
    ASSUME ProcTypes, FileTypes, ArchiveTypes, AtArchive, DbSound, ArchiveInv,
           NEW p \in Procs, Maintenance(p)
    PROVE  ArchiveInv'
  <1>0. proc[p] \in Frame
        BY DEF ProcTypes
  <1>a. archive = [held |-> archive.held, was |-> archive.was, whole |-> archive.whole]
        BY DEF ArchiveTypes
  <1>1. CASE Backup(p)
    <2>1. /\ archive' = [held |-> <<>>, was |-> [files |-> file[live], now |-> Now(live)],
                         whole |-> FALSE]
          /\ UNCHANGED <<live, file, db>>
          BY <1>1 DEF Backup, disk
    <2>2. CopiedSoFar'
      <3>1. archive'.was = [files |-> file[live], now |-> Now(live)] /\ DOMAIN archive'.held = {}
            BY <2>1
      <3>2. Now(live)' = Now(live)
            BY <2>1 DEF Now
      <3> QED BY <2>1, <3>1, <3>2 DEF CopiedSoFar
    <2>3. archive'.whole = FALSE
          BY <2>1
    <2> QED BY <2>2, <2>3 DEF ArchiveInv
  <1>2. ASSUME NEW unit \in Units, CopyPart(p, unit) PROVE ArchiveInv'
    <2> DEFINE more == [f \in DOMAIN archive.held \cup unit |->
                           IF f \in unit THEN Contents(f) ELSE archive.held[f]]
    <2>1. /\ archive' = [archive EXCEPT !.held = more] /\ unit \cap DOMAIN archive.held = {}
          /\ UNCHANGED <<live, file, db, proc>> /\ UNCHANGED steady
          /\ Is(p, "copy")
          BY <1>2 DEF CopyPart, disk, homeHistory
    <2>2. archive' = [held |-> more, was |-> archive.was, whole |-> archive.whole]
      <3> HIDE DEF more
      <3> QED BY <1>a, <2>1
    <2>3. ~archive'.whole
      <3>1. unit \subseteq Parts /\ unit # {}
            BY UnitsArePaths DEF Units, Files
      <3>2. ~archive.whole
            BY <2>1, <3>1 DEF ArchiveInv, HeldWhole
      <3> QED BY <2>2, <3>2
    <2>4. steady' => CopiedSoFar'
      <3> SUFFICES ASSUME steady PROVE CopiedSoFar'
          BY <2>1
      <3>1. CopiedSoFar
            BY <2>1 DEF ArchiveInv, Copying
      <3>2. \A f : Contents(f)' = Contents(f)
            BY <2>1 DEF Contents, Now
      <3>3. \A f \in DOMAIN more : more[f] = Contents(f)
            BY <3>1 DEF CopiedSoFar
      <3>4. archive'.held = more /\ archive'.was = archive.was
            BY <2>2
      <3> HIDE DEF more
      <3> QED BY <2>1, <3>1, <3>2, <3>3, <3>4 DEF CopiedSoFar, Now
    <2> QED BY <2>3, <2>4 DEF ArchiveInv
  <1>3. CASE BackupEnds(p)
    <2>1. /\ archive' = [held |-> archive.held, was |-> archive.was, whole |-> steady]
          /\ DOMAIN archive.held = Parts
          /\ UNCHANGED <<live, file, db>> /\ UNCHANGED steady /\ Is(p, "copy")
          BY <1>3, <1>a DEF BackupEnds, disk, homeHistory
    <2>2. archive'.held = archive.held /\ archive'.was = archive.was /\ archive'.whole = steady
          BY <2>1
    <2>3. steady => CopiedSoFar
          BY <2>1 DEF ArchiveInv, Copying
    <2>4. CopiedSoFar => CopiedSoFar'
      <3>1. \A f : Contents(f)' = Contents(f)
            BY <2>1 DEF Contents, Now
      <3> QED BY <2>1, <2>2, <3>1 DEF CopiedSoFar, Now
    <2>5. CopiedSoFar => HeldWhole'
      <3> SUFFICES ASSUME CopiedSoFar PROVE HeldWhole'
          OBVIOUS
      <3>1. \A f \in Paths : archive.held[f] = file[live][f]
            BY <2>1, ContentsOfFiles DEF CopiedSoFar, Paths, Parts
      <3>2. file[live] = [f \in Paths |-> file[live][f]]
            BY DEF FileTypes
      <3>3. archive.was.files = [f \in Paths |-> archive.held[f]]
            BY <3>1, <3>2 DEF CopiedSoFar
      <3>4. archive.held["main"] = Contents("main") /\ archive.held["wal"] = Contents("wal")
            BY <2>1 DEF CopiedSoFar, Parts
      <3>5. Together(archive.held["main"], archive.held["wal"]) = Now(live)
            BY <3>4 DEF Together, Contents
      <3>6. archive.was.now = Now(live)
            BY DEF CopiedSoFar
      <3> QED BY <2>1, <2>2, <3>3, <3>5, <3>6 DEF HeldWhole
    <2>6. \A q \in Procs : ~Is(q, "unpack")'
          BY <1>0, <1>3, <2>1 DEF BackupEnds, AtArchive, Is, Goes, ProcTypes, Frame
    <2> QED BY <2>1, <2>2, <2>3, <2>4, <2>5, <2>6 DEF ArchiveInv
  <1>4. CASE Import(p)
    <2>1. /\ proc'[p].del = DOMAIN archive.held /\ proc'[p].at = "unpack" /\ archive' = archive
          /\ \A q \in Procs \ {p} : proc'[q] = proc[q]
      <3>1. /\ proc'[p] = [proc[p] EXCEPT !.at = "unpack", !.del = DOMAIN archive.held]
            /\ \A q \in Procs \ {p} : proc'[q] = proc[q]
            BY <1>4, ImportTypes, Zenon
      <3>2. archive' = archive
            BY <1>4 DEF Import
      <3> QED BY <1>0, <3>1, <3>2 DEF Frame
    <2>2. \A q \in Procs : ~Is(q, "copy")' /\ (Is(q, "unpack")' => q = p)
          BY <1>4, <2>1 DEF Import, Undisturbed, Is
    <2>3. archive.whole => UnpackedSoFar(p)'
          BY <2>1 DEF ArchiveInv, HeldWhole, UnpackedSoFar, Paths, Parts
    <2>4. (archive.whole => HeldWhole)'
          BY <2>1 DEF ArchiveInv, HeldWhole
    <2> QED BY <2>1, <2>2, <2>3, <2>4 DEF ArchiveInv, Copying
  <1>5. ASSUME NEW unit \in Units, Unpack(p, unit) PROVE ArchiveInv'
    <2> DEFINE todo == proc[p].del \ unit
               there == DOMAIN archive.held \ todo
    <2>1. /\ Is(p, "unpack") /\ unit \subseteq proc[p].del /\ archive' = archive /\ live' = live
          /\ UNCHANGED steady
          /\ file' = [file EXCEPT ![live] =
                        [f \in DOMAIN file[live] |-> IF f \in unit THEN archive.held[f] ELSE file[live][f]]]
          /\ db' = IF unit \notin {{"main"}, {"wal"}} \/ "main" \notin there THEN db
                   ELSE [db EXCEPT ![live] =
                           [main |-> archive.held["main"],
                            now |-> IF "wal" \in there
                                    THEN Together(archive.held["main"], archive.held["wal"])
                                    ELSE archive.held["main"]]]
          BY <1>5 DEF Unpack, homeHistory
    <2>2. proc'[p].del = todo /\ proc'[p].at = "unpack" /\ \A q \in Procs \ {p} : proc'[q] = proc[q]
      <3>1. /\ proc'[p] = [proc[p] EXCEPT !.del = @ \ unit]
            /\ \A q \in Procs \ {p} : proc'[q] = proc[q]
            BY <1>5, UnpackTypes, Zenon
      <3> QED BY <1>0, <2>1, <3>1 DEF Frame, Is
    <2>3. \A q \in Procs : ~Is(q, "copy")' /\ (Is(q, "unpack")' => q = p)
          BY <2>1, <2>2 DEF AtArchive, Is
    <2>4. ASSUME steady, archive.whole PROVE UnpackedSoFar(p)'
      <3>1. UnpackedSoFar(p) /\ HeldWhole
            BY <2>1, <2>4 DEF ArchiveInv
      <3>2. \A f \in Paths : file'[live][f] = IF f \in unit THEN archive.held[f] ELSE file[live][f]
            BY <2>1 DEF FileTypes
      <3>3. \A f \in Paths \ todo : file'[live][f] = archive.held[f]
            BY <3>1, <3>2 DEF UnpackedSoFar
      <3>4. ASSUME {"main", "wal"} \cap todo = {} PROVE db'[live].now = archive.was.now
        <4>1. "main" \in there /\ "wal" \in there
              BY <3>1, <3>4 DEF HeldWhole, Parts
        <4>2. CASE unit \in {{"main"}, {"wal"}}
          <5>1. db' = [db EXCEPT ![live] =
                           [main |-> archive.held["main"],
                            now |-> Together(archive.held["main"], archive.held["wal"])]]
                BY <2>1, <4>1, <4>2
          <5>2. live \in DOMAIN db
                BY DEF FileTypes, DbSound
          <5> QED BY <3>1, <5>1, <5>2 DEF HeldWhole
        <4>3. CASE unit \notin {{"main"}, {"wal"}}
          <5>1. db' = db
                BY <2>1, <4>3
          <5>2. {"main", "wal"} \cap unit = {}
                BY <4>3 DEF Units, Files
          <5>3. {"main", "wal"} \cap proc[p].del = {}
                BY <3>4, <5>2
          <5> QED BY <3>1, <5>1, <5>3 DEF UnpackedSoFar, Now
        <4> QED BY <4>2, <4>3
      <3> QED BY <2>1, <2>2, <3>3, <3>4 DEF UnpackedSoFar, Now
    <2>5. (archive.whole => HeldWhole)'
          BY <2>1 DEF ArchiveInv, HeldWhole
    <2> HIDE DEF todo, there
    <2>6. ASSUME NEW q \in Procs, Is(q, "unpack")', steady', archive'.whole PROVE UnpackedSoFar(q)'
          BY <2>1, <2>3, <2>4, <2>6
    <2>7. ~Copying'
          BY <2>3 DEF Copying
    <2> QED BY <2>5, <2>6, <2>7 DEF ArchiveInv
  <1>6. ASSUME NEW unit \in Units, RemovePart(p, unit) PROVE ArchiveInv'
    <2>1. Written /\ UNCHANGED archive
          BY <1>6 DEF RemovePart, Written
    <2>2. HeldWhole' <=> HeldWhole
          BY <2>1 DEF HeldWhole
    <2> QED BY <2>1, <2>2 DEF ArchiveInv, Written
  <1>7. CASE ImportEnds(p) \/ Uninstall(p) \/ UninstallEnds(p)
    <2>1. /\ proc'[p].at \in {"remove", "idle"}
          /\ \A q \in Procs \ {p} : proc'[q] = proc[q]
          BY <1>7, <1>0 DEF ImportEnds, Uninstall, UninstallEnds, Goes, ProcTypes, Frame
    <2>2. UNCHANGED archive /\ Unwritten
          BY <1>7 DEF ImportEnds, Uninstall, UninstallEnds, Unwritten, disk, homeHistory
    <2> QED BY <2>1, <2>2, ArchiveKept DEF Is
  <1> QED BY <1>1, <1>2, <1>3, <1>4, <1>5, <1>6, <1>7 DEF Maintenance

LEMMA DeathWritten ==
    ASSUME NEW p \in Procs, Dies(p)
    PROVE  (Written \/ Unwritten) /\ UNCHANGED archive
  <1>1. UNCHANGED <<live, db, archive>>
        BY DEF Dies
  <1> QED BY <1>1, DeathCuts DEF Spoils, Written, Unwritten

LEMMA HomeNextArchived == DirectoryInv /\ ArchiveInv /\ [HomeNext]_homeVars => ArchiveInv'
  <1> SUFFICES ASSUME DirectoryInv, ArchiveInv, [HomeNext]_homeVars PROVE ArchiveInv'
      OBVIOUS
  <1>0. /\ ProcTypes /\ FileTypes /\ Carriers /\ ArchiveTypes /\ AtArchive
        /\ DbSound /\ Connections /\ Sids
        BY DEF DirectoryInv, HomeTypes, DbInv, ActiveInv, Sids
  <1>1. ASSUME NEW p \in Procs, Yaml(p) \/ Memory(p) \/ Library(p) \/ Dies(p) \/ Database(p)
        PROVE  ArchiveInv'
    <2>1. CASE Yaml(p)
          BY <1>0, <2>1, YamlStep, YamlWritten, ArchiveKept DEF Is
    <2>2. CASE Memory(p)
          BY <1>0, <2>2, MemoryStep, MemoryWritten, ArchiveKept DEF Is
    <2>3. CASE Library(p)
      <3>1. Unwritten /\ UNCHANGED archive
            BY <1>0, <2>3, LibraryStep DEF disk, homeHistory, Unwritten
      <3>2. /\ proc'[p].at \in {"skill", "chat", "unlink", "idle"}
            /\ \A q \in Procs \ {p} : proc'[q] = proc[q]
            BY <1>0, <2>3, LibraryStep
      <3> QED BY <3>1, <3>2, ArchiveKept DEF Is
    <2>4. CASE Dies(p)
      <3>1. proc'[p].at = "idle" /\ \A q \in Procs \ {p} : proc'[q] = proc[q]
            BY <1>0, <2>4, DeathStep DEF Resting
      <3> QED BY <2>4, <3>1, DeathWritten, ArchiveKept DEF Is
    <2>5. CASE Database(p)
      <3>1. /\ UNCHANGED archive /\ proc'[p].at \notin Busy
            /\ \A q \in Procs \ {p} : proc'[q].at = proc[q].at /\ proc'[q].del = proc[q].del
            BY <1>0, <2>5, DatabaseStep DEF AsBefore
      <3> QED BY <2>5, <3>1, DatabaseWritten, ArchiveKept DEF Is, Busy
    <2> QED BY <1>1, <2>1, <2>2, <2>3, <2>4, <2>5
  <1>2. ASSUME NEW p \in Procs, Maintenance(p) PROVE ArchiveInv'
        BY <1>0, <1>2, MaintenanceRestores
  <1>3. CASE Around
        BY <1>3, AroundThem, AroundWritten, ArchiveKept DEF Is
  <1>4. CASE UNCHANGED homeVars
    <2>1. Unwritten /\ UNCHANGED <<archive, proc>>
          BY <1>4 DEF homeVars, disk, homeHistory, Unwritten
    <2> QED BY <2>1, ArchiveKept DEF Is
  <1> QED BY <1>1, <1>2, <1>3, <1>4 DEF HomeNext, Around

(* What a backup took while nobody wrote, an import puts back while nobody *)
(* writes: every file, and all messages, those in the write-ahead log too. *)
THEOREM ArchivesRestore == HomeSpec => []ArchiveRestores
  <1>1. HomeInit => DirectoryInv /\ ArchiveInv
    <2> SUFFICES ASSUME HomeInit PROVE ArchiveInv
        BY HomeInitInv
    <2>1. /\ \A q \in Procs : proc[q].at = "idle"
          /\ archive.whole = FALSE
          BY DEF HomeInit, Resting
    <2> QED BY <2>1 DEF ArchiveInv, Copying, Is
  <1>2. DirectoryInv /\ ArchiveInv /\ [HomeNext]_homeVars => (DirectoryInv /\ ArchiveInv)'
        BY HomeNextInv, HomeNextArchived
  <1>3. DirectoryInv /\ ArchiveInv => ArchiveRestores
    <2> SUFFICES ASSUME DirectoryInv, ArchiveInv, NEW p \in Procs, Is(p, "unpack"), proc[p].del = {},
                        archive.whole, steady
                 PROVE  file[live] = archive.was.files /\ Now(live) = archive.was.now
        BY DEF ArchiveRestores
    <2>1. HeldWhole /\ UnpackedSoFar(p)
          BY DEF ArchiveInv
    <2>2. file[live] = [f \in Paths |-> file[live][f]]
          BY DEF DirectoryInv, HomeTypes, FileTypes
    <2> QED BY <2>1, <2>2 DEF HeldWhole, UnpackedSoFar
  <1> QED BY <1>1, <1>2, <1>3, PTL DEF HomeSpec

(***************************************************************************)
(* The skills: but for those being written and those that are unsure, a    *)
(* name has one file at most, written as a whole, and has it if it is the  *)
(* user's.                                                                 *)
(***************************************************************************)
States == {"none", "torn", "odd", "whole"}
InWriting(n) == \E q \in Procs : Is(q, "skill") /\ n \in proc[q].add
Settled(n) ==
    /\ skill[n].flat = "none" \/ skill[n].dir = "none"
    /\ skill[n].flat # "torn"
    /\ n \in mine <=> skill[n].flat \in {"odd", "whole"} \/ skill[n].dir = "whole"
SkillInv ==
    /\ skill \in [Items -> [Forms -> States]]
    /\ \A n \in Items : skill[n].dir \notin {"torn", "odd"}
    /\ \A n \in Items : n \notin unsure /\ ~InWriting(n) => Settled(n)

LEMMA FormsAre == \A r \in [Forms -> States] : r = [form \in Forms |-> r[form]]
                     /\ r.flat \in States /\ r.dir \in States
  BY DEF Forms, States

(* A step that writes no skill, unless it dies of it.                      *)
LEMMA SkillsStay ==
    ASSUME SkillInv, UNCHANGED <<skill, mine>>, unsure \subseteq unsure',
           \A q \in Procs : Is(q, "skill") =>
               (Is(q, "skill")' /\ proc'[q].add = proc[q].add) \/ proc[q].add \subseteq unsure'
    PROVE  SkillInv'
  <1>1. ASSUME NEW n \in Items, n \notin unsure', ~InWriting(n)' PROVE ~InWriting(n)
    <2> SUFFICES ASSUME NEW q \in Procs, Is(q, "skill"), n \in proc[q].add PROVE FALSE
        BY DEF InWriting
    <2> QED BY <1>1 DEF InWriting
  <1>2. ASSUME NEW n \in Items, n \notin unsure', ~InWriting(n)' PROVE Settled(n)'
    <2>1. Settled(n)
          BY <1>1, <1>2 DEF SkillInv
    <2> QED BY <2>1 DEF Settled
  <1> QED BY <1>2 DEF SkillInv

LEMMA LibrarySettles ==
    ASSUME ProcTypes, Carriers, SkillInv, NEW p \in Procs, Library(p)
    PROVE  SkillInv'
  <1>0. \A n \in Items : skill[n] \in [Forms -> States] /\ skill[n].flat \in States /\ skill[n].dir \in States
        BY FormsAre DEF SkillInv
  <1>1. ASSUME NEW n \in Items, SkillCreate(p, n) \/ SkillUpdate(p, n) PROVE SkillInv'
    <2>1. /\ skill' = [skill EXCEPT ![n].flat = "torn"]
          /\ proc' = [proc EXCEPT ![p].at = "skill", ![p].add = {n}]
          /\ UNCHANGED <<mine, unsure>> /\ proc[p].at = "chat"
          BY <1>1 DEF SkillCreate, SkillUpdate, SkillBegins, InChat, Is
    <2>2. /\ proc'[p].at = "skill" /\ proc'[p].add = {n}
          /\ \A q \in Procs \ {p} : proc'[q] = proc[q]
          BY <2>1 DEF ProcTypes, Frame
    <2>3. /\ skill' \in [Items -> [Forms -> States]]
          /\ skill'[n].dir = skill[n].dir
          /\ \A m \in Items \ {n} : skill'[m] = skill[m]
          BY <1>0, <2>1 DEF SkillInv, Forms, States
    <2>4. ASSUME NEW m \in Items, m \notin unsure', ~InWriting(m)' PROVE Settled(m)'
      <3>1. m # n
            BY <2>2, <2>4 DEF InWriting, Is
      <3>2. ~InWriting(m)
            BY <2>1, <2>2, <2>4 DEF InWriting, Is
      <3>3. Settled(m)
            BY <2>1, <2>4, <3>2 DEF SkillInv
      <3> QED BY <2>1, <2>3, <3>1, <3>3 DEF Settled
    <2>5. \A m \in Items : skill'[m].dir \notin {"torn", "odd"}
          BY <2>3 DEF SkillInv
    <2> QED BY <2>3, <2>4, <2>5 DEF SkillInv
  <1>2. ASSUME NEW n \in Items, SkillsDelete(p, n) PROVE SkillInv'
    <2>1. UNCHANGED <<skill, mine, unsure>> /\ proc[p].at = "idle"
          BY <1>2 DEF SkillsDelete, library, Command, Is
    <2>2. \A q \in Procs \ {p} : proc'[q] = proc[q]
          BY <1>2, LibraryStep DEF Library
    <2> QED BY <2>1, <2>2, SkillsStay DEF Is
  <1>3. CASE SkillWritten(p)
    <2>0. Is(p, "skill")
          BY <1>3 DEF SkillWritten
    <2>1. PICK n \in Items : proc[p].add = {n}
          BY <2>0 DEF Carriers, Carried, Is
    <2>a. PICK written \in {"odd", "whole"} :
             skill' = [m \in Items |-> IF m = n THEN [skill[m] EXCEPT !.flat = written] ELSE skill[m]]
          BY <1>3, <2>1 DEF SkillWritten
    <2>2. /\ Goes(p, "chat")
          /\ mine' = mine \cup {n}
          /\ unsure' = unsure \cup {m \in {n} : skill[m].dir # "none"}
          BY <1>3, <2>1 DEF SkillWritten
    <2>3. /\ proc'[p].at = "chat"
          /\ \A q \in Procs \ {p} : proc'[q] = proc[q]
          BY <2>2 DEF Goes, ProcTypes, Frame
    <2>4. /\ skill' \in [Items -> [Forms -> States]]
          /\ skill'[n].flat = written /\ skill'[n].dir = skill[n].dir
          /\ \A m \in Items \ {n} : skill'[m] = skill[m]
          BY <1>0, <2>a DEF SkillInv, Forms, States
    <2>5. ASSUME NEW m \in Items, m \notin unsure', ~InWriting(m)' PROVE Settled(m)'
      <3>1. CASE m = n
        <4>1. skill[n].dir = "none"
              BY <2>2, <2>5, <3>1
        <4> QED BY <2>2, <2>4, <3>1, <4>1 DEF Settled
      <3>2. CASE m # n
        <4>1. ~InWriting(m)
              BY <2>1, <2>3, <2>5, <3>2 DEF InWriting, Is
        <4>2. Settled(m)
              BY <2>2, <2>5, <4>1 DEF SkillInv
        <4> QED BY <2>2, <2>4, <3>2, <4>2 DEF Settled
      <3> QED BY <3>1, <3>2
    <2>6. \A m \in Items : skill'[m].dir \notin {"torn", "odd"}
          BY <2>4 DEF SkillInv
    <2> QED BY <2>4, <2>5, <2>6 DEF SkillInv
  <1>4. CASE Unlink(p)
    <2> DEFINE form == proc[p].form
    <2>1. /\ Is(p, "unlink") /\ form \in Forms
          /\ skill' = [n \in Items |-> IF n \in proc[p].del
                                THEN [skill[n] EXCEPT ![form] = "none"] ELSE skill[n]]
          /\ mine' = mine \ {n \in proc[p].del : skill[n][form] # "none"}
          /\ UNCHANGED unsure /\ proc' = [proc EXCEPT ![p] = Resting]
          BY <1>4 DEF Unlink, ProcTypes, Frame
    <2> HIDE DEF form
    <2>2. /\ skill' \in [Items -> [Forms -> States]]
          /\ \A n \in Items \ proc[p].del : skill'[n] = skill[n]
          /\ \A n \in Items \cap proc[p].del :
                 /\ skill'[n][form] = "none"
                 /\ \A other \in Forms : other # form => skill'[n][other] = skill[n][other]
          BY <1>0, <2>1 DEF SkillInv, States
    <2>3. \A m \in Items : InWriting(m)' <=> InWriting(m)
      <3>1. ~Is(p, "skill") /\ ~Is(p, "skill")' /\ \A q \in Procs \ {p} : proc'[q] = proc[q]
            BY <2>1 DEF Is, ProcTypes, Resting
      <3> QED BY <3>1 DEF InWriting, Is
    <2>4. ASSUME NEW m \in Items, m \notin unsure', ~InWriting(m)' PROVE Settled(m)'
      <3>1. Settled(m)
            BY <2>1, <2>3, <2>4 DEF SkillInv
      <3>2. CASE m \notin proc[p].del
            BY <2>1, <2>2, <3>1, <3>2 DEF Settled
      <3>3. CASE m \in proc[p].del /\ form = "flat"
        <4>1. skill'[m].flat = "none" /\ skill'[m].dir = skill[m].dir
              BY <2>2, <3>3 DEF Forms
        <4>2. m \in mine' <=> m \in mine /\ skill[m].flat = "none"
              BY <2>1, <3>3
        <4> QED BY <3>1, <4>1, <4>2 DEF Settled
      <3>4. CASE m \in proc[p].del /\ form = "dir"
        <4>1. skill'[m].dir = "none" /\ skill'[m].flat = skill[m].flat
              BY <2>2, <3>4 DEF Forms
        <4>2. m \in mine' <=> m \in mine /\ skill[m].dir = "none"
              BY <2>1, <3>4
        <4> QED BY <3>1, <4>1, <4>2 DEF Settled
      <3> QED BY <2>1, <3>2, <3>3, <3>4 DEF Forms
    <2>5. ASSUME NEW m \in Items PROVE skill'[m].dir \notin {"torn", "odd"}
      <3>1. skill'[m].dir = skill[m].dir \/ skill'[m].dir = "none"
            BY <2>1, <2>2 DEF Forms
      <3> QED BY <3>1 DEF SkillInv
    <2> QED BY <2>2, <2>4, <2>5 DEF SkillInv
  <1>5. CASE SkillWriteFails(p)
    <2>1. UNCHANGED <<skill, mine>> /\ unsure' = unsure \cup proc[p].add
          BY <1>5 DEF SkillWriteFails
    <2>2. \A q \in Procs \ {p} : proc'[q] = proc[q]
          BY <1>5 DEF SkillWriteFails, Goes, ProcTypes
    <2> QED BY <2>1, <2>2, SkillsStay DEF Is
  <1> QED BY <1>1, <1>2, <1>3, <1>4, <1>5 DEF Library

LEMMA InstallSettles ==
    ASSUME SkillInv, NEW n \in Items, InstallSkill(n)
    PROVE  SkillInv'
  <1>0. \A m \in Items : skill[m] \in [Forms -> States] /\ skill[m].flat \in States /\ skill[m].dir \in States
        BY FormsAre DEF SkillInv
  <1>1. /\ skill[n].dir = "none" /\ skill' = [skill EXCEPT ![n].dir = "whole"]
        /\ mine' = mine \cup {n} /\ UNCHANGED proc
        /\ unsure' = IF skill[n].flat = "none" THEN unsure ELSE unsure \cup {n}
        BY DEF InstallSkill
  <1>2. /\ skill' \in [Items -> [Forms -> States]]
        /\ skill'[n].dir = "whole" /\ skill'[n].flat = skill[n].flat
        /\ \A m \in Items \ {n} : skill'[m] = skill[m]
        BY <1>0, <1>1 DEF SkillInv, Forms, States
  <1>3. ASSUME NEW m \in Items, m \notin unsure', ~InWriting(m)' PROVE Settled(m)'
    <2>1. CASE m = n
          BY <1>1, <1>2, <1>3, <2>1 DEF Settled
    <2>2. CASE m # n
      <3>1. ~InWriting(m) /\ m \notin unsure
            BY <1>1, <1>3, <2>2 DEF InWriting, Is
      <3>2. Settled(m)
            BY <3>1 DEF SkillInv
      <3> QED BY <1>1, <1>2, <2>2, <3>2 DEF Settled
    <2> QED BY <2>1, <2>2
  <1>4. \A m \in Items : skill'[m].dir \notin {"torn", "odd"}
        BY <1>2 DEF SkillInv
  <1> QED BY <1>2, <1>3, <1>4 DEF SkillInv

LEMMA MaintenanceMoves ==
    ASSUME ProcTypes, ArchiveTypes, NEW p \in Procs, Maintenance(p)
    PROVE  /\ UNCHANGED library /\ proc[p].at \in Alone \ {"skill"}
           /\ \A q \in Procs : proc'[q].sid = proc[q].sid
           /\ \A q \in Procs \ {p} : proc'[q].at = proc[q].at /\ proc'[q].add = proc[q].add
  <1>0. proc[p] \in Frame
        BY DEF ProcTypes
  <1>1. UNCHANGED library
        BY DEF Maintenance, Backup, BackupEnds, CopyPart, Import, ImportEnds, Unpack, Uninstall, RemovePart,
               UninstallEnds, still
  <1>2. proc[p].at \in Alone \ {"skill"}
        BY DEF Maintenance, Backup, BackupEnds, CopyPart, Import, ImportEnds, Unpack, Uninstall, RemovePart,
               UninstallEnds, Command, Is, Alone
  <1>3. CASE Backup(p) \/ BackupEnds(p) \/ ImportEnds(p) \/ UninstallEnds(p)
    <2>1. Goes(p, "copy") \/ Goes(p, "idle")
          BY <1>3 DEF Backup, BackupEnds, ImportEnds, UninstallEnds
    <2> QED BY <1>0, <1>1, <1>2, <2>1 DEF Goes, ProcTypes, Frame
  <1>4. CASE Import(p) \/ Uninstall(p)
    <2>1. /\ \E del : proc'[p] = [proc[p] EXCEPT !.at = "unpack", !.del = del]
                      \/ proc'[p] = [proc[p] EXCEPT !.at = "remove", !.del = del]
          /\ \A q \in Procs \ {p} : proc'[q] = proc[q]
          BY <1>4, ImportTypes, UninstallTypes, Zenon
    <2>2. PICK del : \/ proc'[p] = [proc[p] EXCEPT !.at = "unpack", !.del = del]
                     \/ proc'[p] = [proc[p] EXCEPT !.at = "remove", !.del = del]
          BY <2>1
    <2>3. proc'[p].sid = proc[p].sid
          BY <1>0, <2>2 DEF Frame
    <2> QED BY <1>1, <1>2, <2>1, <2>3
  <1>5. ASSUME NEW unit \in Units, CopyPart(p, unit) PROVE proc' = proc
        BY <1>5 DEF CopyPart
  <1>6. ASSUME NEW unit \in Units, Unpack(p, unit)
        PROVE  /\ \A q \in Procs : proc'[q].sid = proc[q].sid
               /\ \A q \in Procs \ {p} : proc'[q].at = proc[q].at /\ proc'[q].add = proc[q].add
    <2>1. /\ proc'[p] = [proc[p] EXCEPT !.del = @ \ unit]
          /\ \A q \in Procs \ {p} : proc'[q] = proc[q]
          BY <1>6, UnpackTypes, Zenon
    <2> QED BY <1>0, <2>1 DEF Frame
  <1>7. ASSUME NEW unit \in Units, RemovePart(p, unit)
        PROVE  /\ \A q \in Procs : proc'[q].sid = proc[q].sid
               /\ \A q \in Procs \ {p} : proc'[q].at = proc[q].at /\ proc'[q].add = proc[q].add
        BY <1>7, RemovePartTypes
  <1> QED BY <1>1, <1>2, <1>3, <1>4, <1>5, <1>6, <1>7 DEF Maintenance

LEMMA HomeNextSettled == DirectoryInv /\ SkillInv /\ [HomeNext]_homeVars => SkillInv'
  <1> SUFFICES ASSUME DirectoryInv, SkillInv, [HomeNext]_homeVars PROVE SkillInv'
      OBVIOUS
  <1>0. /\ ProcTypes /\ FileTypes /\ Carriers /\ ArchiveTypes
        /\ DbSound /\ Connections /\ Sids
        BY DEF DirectoryInv, HomeTypes, DbInv, ActiveInv, Sids
  <1>1. ASSUME NEW p \in Procs, Yaml(p) PROVE SkillInv'
    <2>1. proc[p].at # "skill"
          BY <1>1 DEF Yaml, RememberAlways, Share, FallbackAdd, FallbackRemove, McpAdd, McpAddHttp, McpRemove,
               McpOauth, McpToggle, Authorized, FallbackClear, CuratorPause, CuratorResume, Save,
               Command, InChat, Is
    <2>2. UNCHANGED <<skill, mine, unsure>> /\ \A q \in Procs \ {p} : proc'[q] = proc[q]
          BY <1>0, <1>1, YamlStep DEF library
    <2> QED BY <2>1, <2>2, SkillsStay DEF Is
  <1>2. ASSUME NEW p \in Procs, Memory(p) PROVE SkillInv'
        BY <1>0, <1>2, MemoryStep, SkillsStay DEF Is, library
  <1>3. ASSUME NEW p \in Procs, Database(p) PROVE SkillInv'
        BY <1>0, <1>3, DatabaseStep, SkillsStay DEF Is, library, AsBefore
  <1>4. ASSUME NEW p \in Procs, Maintenance(p) PROVE SkillInv'
        BY <1>0, <1>4, MaintenanceMoves, SkillsStay DEF Is, library
  <1>5. ASSUME NEW p \in Procs, Dies(p) PROVE SkillInv'
    <2>1. UNCHANGED <<skill, mine>> /\ \A q \in Procs \ {p} : proc'[q] = proc[q]
          BY <1>0, <1>5, DeathStep DEF Dies
    <2>2. unsure \subseteq unsure' /\ (Is(p, "skill") => proc[p].add \subseteq unsure')
          BY <1>5 DEF Dies
    <2> QED BY <2>1, <2>2, SkillsStay DEF Is
  <1>6. ASSUME NEW n \in Items, Expire(n) PROVE SkillInv'
        BY <1>6, SkillsStay DEF Expire, still, library, Is
  <1>7. ASSUME Age \/ \E d \in 1..MaxDirs : Checkpoint(d) PROVE SkillInv'
        BY <1>7, SkillsStay DEF Age, Checkpoint, still, library, Is
  <1>8. CASE UNCHANGED homeVars
        BY <1>8, SkillsStay DEF homeVars, library, Is
  <1> QED BY <1>0, <1>1, <1>2, <1>3, <1>4, <1>5, <1>6, <1>7, <1>8, LibrarySettles, InstallSettles DEF HomeNext

(* Only the start of a chat gives a process its session.                   *)
LEMMA ChatsAreOpened ==
    ASSUME DirectoryInv, [HomeNext]_homeVars, NEW p \in Procs, proc[p].sid = 0, proc'[p].sid # 0
    PROVE  \E s \in Sessions : OpenChat(p, s)
  <1>0. /\ ProcTypes /\ FileTypes /\ Carriers /\ ArchiveTypes
        /\ DbSound /\ Connections /\ Sids
        BY DEF DirectoryInv, HomeTypes, DbInv, ActiveInv, Sids
  <1>1. ASSUME NEW q \in Procs, Yaml(q) \/ Memory(q) \/ Library(q) \/ Dies(q) PROVE FALSE
    <2>1. CASE Yaml(q)
          BY <1>0, <2>1, YamlStep
    <2>2. CASE Memory(q)
          BY <1>0, <2>2, MemoryStep
    <2>3. CASE Library(q)
          BY <1>0, <2>3, LibraryStep DEF Resting
    <2>4. CASE Dies(q)
          BY <1>0, <2>4, DeathStep DEF Resting
    <2> QED BY <1>1, <2>1, <2>2, <2>3, <2>4
  <1>2. ASSUME NEW q \in Procs, Maintenance(q) PROVE FALSE
        BY <1>0, <1>2, MaintenanceMoves
  <1>3. ASSUME NEW q \in Procs, Database(q), \A s \in Sessions : ~OpenChat(p, s) PROVE FALSE
    <2>1. q = p
          BY <1>0, <1>3, DatabaseStep DEF AsBefore
    <2>2. proc'[p] = Resting \/ proc'[p].sid = proc[p].sid
          BY <1>0, <1>3, <2>1, DatabaseMoves
    <2> QED BY <2>2 DEF Resting
  <1>4. ASSUME Around PROVE FALSE
        BY <1>4, AroundThem
  <1>5. CASE UNCHANGED homeVars
        BY <1>5 DEF homeVars
  <1> QED BY <1>1, <1>2, <1>3, <1>4, <1>5 DEF HomeNext, Around

LEMMA LoadedIs ==
    ASSUME SkillInv, NEW n \in Items, n \notin unsure, ~InWriting(n)
    PROVE  {o \in Loaded : o[1] = n} =
               IF n \in mine /\ skill[n].flat # "odd" THEN {<<n, "user">>}
               ELSE IF n \in Bundled THEN {<<n, "bundled">>} ELSE {}
  <1> DEFINE users == {m \in Items : \E form \in Candidates(m) : ParsesAsSkill(m, form)}
  <1>1. Loaded = (users \X {"user"}) \cup ((Bundled \ users) \X {"bundled"})
        BY DEF Loaded
  <1>2. n \in users <=> n \in mine /\ skill[n].flat # "odd"
    <2>1. Settled(n)
          BY DEF SkillInv
    <2>2. n \in users <=> skill[n].flat = "whole" \/ skill[n].dir = "whole"
          BY DEF Candidates, ParsesAsSkill, Forms
    <2>3. skill[n].dir \in {"none", "whole"}
          BY FormsAre DEF SkillInv, States
    <2> HIDE DEF users
    <2> QED BY <2>1, <2>2, <2>3 DEF Settled
  <1> HIDE DEF users
  <1>3. \A o : o \in Loaded /\ o[1] = n <=>
               \/ n \in users /\ o = <<n, "user">>
               \/ n \notin users /\ n \in Bundled /\ o = <<n, "bundled">>
        BY <1>1
  <1> QED BY <1>2, <1>3

(* A chat that is opened offers the user's skill of every name that has    *)
(* one, the bundled one of any other, and no skill that was deleted:       *)
(* unless one was just being written or removed, a write was cut off or    *)
(* failed, or the skill was stored as a file and as a directory. A file    *)
(* the loader passes over counts as none.                                  *)
THEOREM SkillsStayOffered == HomeSpec => SkillsAreOffered
  <1>1. HomeInit => DirectoryInv /\ SkillInv
    <2> SUFFICES ASSUME HomeInit PROVE SkillInv
        BY HomeInitInv
    <2>1. /\ skill = [n \in Items |-> [form \in Forms |-> "none"]] /\ mine = {}
          BY DEF HomeInit
    <2> QED BY <2>1 DEF SkillInv, Settled, Forms, States
  <1>2. DirectoryInv /\ SkillInv /\ [HomeNext]_homeVars => (DirectoryInv /\ SkillInv)'
        BY HomeNextInv, HomeNextSettled
  <1>3. DirectoryInv /\ SkillInv /\ [HomeNext]_homeVars =>
            [\A p \in Procs : proc[p].sid = 0 /\ proc'[p].sid # 0 =>
               \A n \in Items \ unsure :
                  LET busy == \E q \in Procs : (Is(q, "skill") /\ n \in proc[q].add)
                                               \/ (Is(q, "unlink") /\ n \in proc[q].del)
                      offered == {o \in proc'[p].skills : o[1] = n}
                      owed == IF n \in mine /\ skill[n].flat # "odd" THEN {<<n, "user">>}
                              ELSE IF n \in Bundled THEN {<<n, "bundled">>} ELSE {}
                  IN  ~busy => offered = owed]_homeVars
    <2> SUFFICES ASSUME DirectoryInv, SkillInv, [HomeNext]_homeVars, NEW p \in Procs,
                        proc[p].sid = 0, proc'[p].sid # 0, NEW n \in Items \ unsure,
                        ~\E q \in Procs : (Is(q, "skill") /\ n \in proc[q].add)
                                          \/ (Is(q, "unlink") /\ n \in proc[q].del)
                 PROVE  {o \in proc'[p].skills : o[1] = n} =
                           IF n \in mine /\ skill[n].flat # "odd" THEN {<<n, "user">>}
                           ELSE IF n \in Bundled THEN {<<n, "bundled">>} ELSE {}
        OBVIOUS
    <2>1. PICK s \in Sessions : OpenChat(p, s)
          BY ChatsAreOpened
    <2>2. proc'[p] = [Resting EXCEPT !.at = "chat", !.dir = live, !.sid = s,
                                     !.always = Approvals, !.skills = Loaded]
          BY <2>1, OpenChatTypes DEF DirectoryInv, HomeTypes
    <2>3. proc'[p].skills = Loaded
          BY <2>2 DEF Resting
    <2>4. ~InWriting(n)
          BY DEF InWriting
    <2> QED BY <2>3, <2>4, LoadedIs
  <1> QED BY <1>1, <1>2, <1>3, PTL DEF HomeSpec, SkillsAreOffered
=============================================================================
