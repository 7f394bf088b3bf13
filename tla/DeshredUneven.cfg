CONSTANTS
    MAX_DATA_SHREDS_PER_SLOT = 2
    SLOT_LOOKBACK = 1
    MAX_PROCESSING_AGE = 2
    Shred <- UnevenBlock
    Decodable <- UnevenBlockBatches
    BadRecovery <- NoShreds
    MaxBatch = 1
    None = None
    Undecodable = Undecodable
SPECIFICATION Spec
INVARIANT NoStrandedBatch
