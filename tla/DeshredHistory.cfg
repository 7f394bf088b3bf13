CONSTANTS
    MAX_DATA_SHREDS_PER_SLOT = 3
    SLOT_LOOKBACK = 1
    MAX_PROCESSING_AGE = 2
    Shred <- History
    Decodable <- HistoryDecodable
    BadRecovery <- HistoryBad
    MaxBatch = 2
    None = None
    Undecodable = Undecodable
SPECIFICATION Spec
INVARIANTS AtMostOnce SlotsBounded TrackerConsistent InOrderWithinCall
PROPERTIES ImplementsFeed FirstShredStays
