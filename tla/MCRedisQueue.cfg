SPECIFICATION FairSpec
CONSTANTS
    j1 = j1
    k1 = k1
    j2 = j2
    p1 = p1
    w1 = w1
    w2 = w2
    NoJob = NoJob
    Job <- JobsMC
    Payload <- PayloadMC
    Decodable <- DecodesMC
    Retries <- RetriesMC
    Proc <- ProcsMC
    Worker <- WorkersMC
    Host <- HostMC
    HasDeadLetter = TRUE
    MaxLimit = 1
INVARIANTS TypeOK OneHolder Exhausted
PROPERTIES ImplementsLedger Delivery LimitedRetryEnds
