\* Stdio: two concurrent calls, a pipe that one line fills, two requests of the
\* server. HTTP: two servers, an agent and a sub-agent, two calls, one fault.
CONSTANTS
    Callers = {c1, c2}
    Nobody = Nobody
    PipeCap = 2
    MaxPings = 2
    Agents = {main, sub}
    Loader = Loader
    Servers <- MCServers
    Tests <- MCTests
    MaxCalls = 2
    MaxFaults = 1
SPECIFICATION McpSpec
INVARIANTS
    AnswersAreOwn
    PendingIsExact
    OnlyDroppedCallersGarble
    CallsAreUnmixed
PROPERTIES
    CallsReturn
    EveryCallReturns
