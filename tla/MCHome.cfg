\* Two processes, two names of everything, one session and another.
CONSTANTS
    a = a
    b = b
    x = x
    y = y
    s1 = s1
    s2 = s2
    Procs = {a, b}
    Items = {x, y}
    Sessions = {s1, s2}
    Unreadable = Unreadable
    Corrupt = Corrupt
    Bundled = {x}
    Scenarios <- MCScenarios
    MaxOps = 5
    MaxAppends = 2
    MaxDirs = 2
SPECIFICATION HomeSpec
SYMMETRY Symmetric
INVARIANTS
    EntriesAreKept
    IndexMatchesBodies
    MessagesKeepTheirPlace
    ArchiveRestores
PROPERTIES
    SkillsAreOffered
CHECK_DEADLOCK FALSE
