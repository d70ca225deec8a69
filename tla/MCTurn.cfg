\* Loop: two round-trips of up to two calls, one chunk per stream, a channel of two.
\* Tools: an agent and a sub-agent, two tokens, three calls, one mishap.
CONSTANTS
    c1 = c1
    c2 = c2
    shell = shell
    ghost = ghost
    NoId = NoId
    Calls <- MCCalls
    CallLists <- MCCallLists
    Histories <- MCHistories
    Registered = {shell}
    MaxIterations = 2
    MaxChunks = 1
    Truncates = TRUE
    ChanCap = 2
    Main = Main
    s1 = s1
    Subs = {s1}
    Tokens = {"u", "v"}
    NoDescription = "none"
    Strings <- MCStrings
    Folded = {"v"}
    f = f
    Skill = Skill
    Remote = Remote
    Paths = {f, Skill, Remote}
    InitialFiles <- MCFiles
    Limit = 2
    MaxCalls = 3
    MaxCuts = 1
SPECIFICATION TurnSpec
INVARIANTS
    HistoryComplete
    RunsAreApproved
    ReportsAreTruthful
    RequestsAreFaithful
    ChangesAreKept
    NothingOutlivesItsCall
    MarkersAreHonest
PROPERTIES
    Terminates
    ImplementsProtocol
