SPECIFICATION ReconnectSpec
CONSTANTS
    Sockets = {1, 2, 3, 4, 5, 6, 7, 8}
    MaxEvents = 5
INVARIANTS
    ReconnectTypeOK
    NeverAbandoned
    SecondSocketNeedsStaleClose
PROPERTIES
    OnlineAgain
CHECK_DEADLOCK FALSE
