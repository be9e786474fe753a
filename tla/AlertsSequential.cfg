SPECIFICATION FairSpec
CONSTANTS
    w1 = w1  w2 = w2  a1 = a1  a2 = a2
    ec2 = ec2  east = east  west = west
    NoTime = NoTime
    Worker = {w1}
    Arn = {a1, a2}
    Service = {ec2}
    Region = {east, west}
    ServiceOf <- TwoServiceOf
    RegionOf <- TwoRegionOf
    StartsOf <- TwoStartsOf
    HasCode = {a1, a2}
    Count = {1, 2}
    DigestWindow = 1
    CorrelationWindow = 2
    ScanRank <- BucketRank
    ScanPage = 10
    Faults = {"save", "scan", "publish"}
    MaxFaults = 1
    MaxTime = 3
    MaxBatch = 2
    MaxMessages = 10
INVARIANTS
    IncidentsHoldTheirEvents
    RepeatsAreSignificant
PROPERTIES
    CycleLeavesNothingOverdue
    KeepsPromise
