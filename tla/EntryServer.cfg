SPECIFICATION FairSpec
CONSTANTS
    Client = {reader, idler}
    Reader = {reader}
    reader = reader
    idler = idler
    BroadcastCap = 2
    StreamCap = 1
    MaxSent = 5
INVARIANTS TypeOK GapFree
PROPERTIES ReaderGetsAll TaskEndsAfterClient
CHECK_DEADLOCK FALSE
