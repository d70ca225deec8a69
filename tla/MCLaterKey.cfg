\* Two commands at once, two keys typed.
CONSTANTS
    None = None
    Custom = "custom"
    Unset = Unset
    Providers = {"openai", "zai", "glm", "codex", "typo"}
    GatewayVars = {"bot"}
    Chains <- MCChains
    Flags <- MCFlags
    t1 = t1
    t2 = t2
    Terminals = {t1, t2}
    NoFile = NoFile
    Torn = Torn
    Idle = Idle
    Surroundings <- MCSurroundings
    FirstFiles <- MCFirstFiles
    FirstEnvs <- MCFirstEnvs
    MaxCommands = 2
    MaxKeys = 2
SPECIFICATION Spec
INVARIANTS
    LaterKeyWins
CHECK_DEADLOCK FALSE
