\* One provider of each dialect, 3 attempts, two calls in two pieces.
CONSTANTS
    Dialect <- MCDialect
    MaxAttempts = 3
    Calls = {1, 2}
    Frags = 2
    Replies <- MCReplies
SPECIFICATION Spec
INVARIANTS
    OnlyExhaustionFallsThrough
