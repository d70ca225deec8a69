\* One mishap, one service command.
CONSTANTS
    Messages <- MCMessages
    Traffic <- MCTraffic
    NoMessage = NoMessage
    Managers = {"launchd", "systemd"}
    Capacity = 1
    MaxMishaps = 1
    MaxOrders = 1
SPECIFICATION FairSpec
INVARIANTS
    TakenOverIsForwarded
    TwiceHasACause
PROPERTIES
    Settles
CHECK_DEADLOCK FALSE
