SPECIFICATION FairSpec
CONSTANTS
    t1 = t1 t2 = t2 t3 = t3 p1 = p1 d1 = d1 d2 = d2
    SendThread = {t1, t2}
    Payload = {p1}
    Hashes <- OnePayload
    Static = {d1}
    Endpoint = {d2}
    UseDiscovery = TRUE
    ReconstructCap = 1
    MaxBatch = 1
    MaxBatches = 3
    MaxFailures = 0
    MaxRounds = 0
PROPERTIES ForwardingNeverWaits DroppedDestinationLeaves
CHECK_DEADLOCK FALSE
