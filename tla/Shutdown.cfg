SPECIFICATION FairSpec
CONSTANTS
    Sockets = 1
    Messages = 6
    Panicker <- JoinedThreads
    Configs <- SignalsOrPanics
INVARIANTS TypeOK ExitBeforeMessage MessageLeftForPrometheus
PROPERTIES SignalStops PanicExits
CHECK_DEADLOCK FALSE
