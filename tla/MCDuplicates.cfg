\* Two servers, an agent and a sub-agent, two calls, one fault.
CONSTANTS
    Agents = {main, sub}
    Loader = Loader
    Servers <- MCServers
    Tests <- MCTests
    MaxCalls = 2
    MaxFaults = 1
SPECIFICATION HttpSpec
PROPERTIES
    DuplicatesAreRejected
CHECK_DEADLOCK FALSE
