\* Two user messages over two sessions, runs of up to three messages, one death.
CONSTANTS
    c1 = c1
    c2 = c2
    shell = shell
    NoId = NoId
    Calls <- MCCalls
    CallLists <- MCCallLists
    Histories <- MCHistories
    Sessions = {s1, s2}
    NoSession = NoSession
    MaxInputs = 2
    MaxReply = 3
    MaxSkills = 1
    MaxCrashes = 1
SPECIFICATION Spec
INVARIANTS
    DiskFollowsMemory
    OnlyCutsSpoil
PROPERTIES
    TurnsSettle
