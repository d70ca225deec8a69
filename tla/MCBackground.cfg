\* Request: one provider of each dialect, 3 attempts, two calls in two pieces.
\* Cron: three ticks; one edit, death of the daemon or correction of the clock.
CONSTANTS
    Dialect <- MCDialect
    MaxAttempts = 3
    Calls = {1, 2}
    Frags = 2
    Replies <- MCReplies
    often = often
    seldom = seldom
    Jobs = {often, seldom}
    Specs <- MCSpecs
    Files <- MCFiles
    QueueSize = 1
    Horizon = 3
    MaxChanges = 1
SPECIFICATION BackgroundSpec
INVARIANTS
    FallThroughIsEarned
    BodiesAreReadWhole
    ScheduleIsKept
PROPERTIES
    RequestEnds
    QueuedIsReported
