SPECIFICATION Spec
CONSTANTS
    t1 = t1 t2 = t2 t3 = t3 p1 = p1 d1 = d1 d2 = d2
    SendThread = {t1, t2, t3}
    Payload = {p1}
    Hashes <- OnePayload
    Static = {d1, d2}
    Endpoint = {}
    UseDiscovery = FALSE
    ReconstructCap = 1
    MaxBatch = 1
    MaxBatches = 3
    MaxFailures = 1
    MaxRounds = 2
SYMMETRY ThreadsAndDests
INVARIANTS TypeOK CountersConserved FirstCopySent BoundedDuplication
CHECK_DEADLOCK FALSE
