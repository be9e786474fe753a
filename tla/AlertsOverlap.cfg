SPECIFICATION Spec
CONSTANTS
    w1 = w1  w2 = w2  a1 = a1  a2 = a2
    ec2 = ec2  east = east  west = west
    NoTime = NoTime
    Worker = {w1, w2}
    Arn = {a1}
    Service = {ec2}
    Region = {east, west}
    ServiceOf <- OneServiceOf
    RegionOf <- OneRegionOf
    StartsOf <- OneStartsOf
    HasCode = {}
    Count = {1, 2}
    DigestWindow = 1
    CorrelationWindow = 2
    ScanRank <- BucketRank
    ScanPage = 10
    Faults = {"load", "save", "scan", "publish", "publish_raises", "mark", "crash"}
    MaxFaults = 1
    MaxTime = 2
    MaxBatch = 1
    MaxMessages = 2
SYMMETRY Workers
INVARIANTS
    TypeOK
    NoSilentAlert
    NoAlertBeforeWindow
