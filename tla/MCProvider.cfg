\* Settings: two commands at once, two keys typed. Codex: three turns of two
\* conversations, two runs at once, two mishaps.
CONSTANTS
    None = None
    Custom = "custom"
    Unset = Unset
    Providers = {"openai", "zai", "glm", "codex", "typo"}
    GatewayVars = {"bot"}
    Chains <- MCChains
    Flags <- MCFlags
    t1 = t1
    t2 = t2
    Terminals = {t1, t2}
    NoFile = NoFile
    Torn = Torn
    Idle = Idle
    Surroundings <- MCSurroundings
    FirstFiles <- MCFirstFiles
    FirstEnvs <- MCFirstEnvs
    MaxCommands = 2
    MaxKeys = 2
    c1 = c1
    c2 = c2
    r1 = r1
    r2 = r2
    u1 = u1
    u2 = u2
    Conversations = {c1, c2}
    Runs = {r1, r2}
    Texts = {u1, u2}
    Nobody = Nobody
    Follow = Follow
    MaxAsks = 3
    MaxMishaps = 2
SYMMETRY MCSymmetry
SPECIFICATION ProviderSpec
INVARIANTS
    EnteredKeysAreUsed
    SettingsStayHome
    ThreadsAreConversations
    RepliesKnowTheConversation
CHECK_DEADLOCK FALSE
