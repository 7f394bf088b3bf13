CONSTANTS
    MAX_DATA_SHREDS_PER_SLOT = 5
    SLOT_LOOKBACK = 1
    MAX_PROCESSING_AGE = 2
    Shred <- OneBlock
    Decodable <- OneBlockBatches
    BadRecovery <- NoShreds
    MaxBatch = 2
    None = None
    Undecodable = Undecodable
SPECIFICATION FairSpec
INVARIANTS TypeOK NoStrandedBatch
PROPERTY EnoughIsSent
