SPECIFICATION FairSpec
CONSTANTS
    Sockets = 1
    Messages = 6
    Panicker <- UnjoinedThreads
    Configs <- OnePanic
PROPERTY PanicExits
CHECK_DEADLOCK FALSE
