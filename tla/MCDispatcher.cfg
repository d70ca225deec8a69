\* Three messages, at most two of them for the agent, two of them at work at a time, one failure or restart.
CONSTANTS
    c1 = c1
    shell = shell
    ann = ann
    eve = eve
    cli = cli
    k1 = k1
    NoId = NoId
    NoKey = NoKey
    NoSession = NoSession
    Calls <- MCCalls
    CallLists <- MCCallLists
    Histories <- MCHistories
    Users = {ann, eve}
    Permitted = {ann}
    Shared = {cli}
    Keys = {k1}
    InitialKeys <- MCInitialKeys
    Traffic <- MCTraffic
    AgentRuns <- MCAgentRuns
    MaxMessages = 3
    MaxChats = 2
    MaxLive = 2
    MaxMishaps = 1
SPECIFICATION Spec
INVARIANTS
    SessionsAreProper
    MemoryFollowsDisk
    OnlyOverlapOrBreakSpoils
    SilenceHasACause
PROPERTIES
    EveryTaskEnds
