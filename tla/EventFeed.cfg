SPECIFICATION Spec
CONSTANTS
    Entry = {1, 2, 3}
    MAX_RESULTS = 2
    MAX_RETRIES = 3
    BASE_RETRY_DELAY_S = 1
    MaxFaults = 3
    MaxChanges = 1
    AccountMap = {1, 3}
    Attributes <- MCAttributes
CHECK_DEADLOCK FALSE
INVARIANTS
    TypeOK
    SleepIsBounded
    CriticalIsAlertable
PROPERTIES
    CompleteOrRaises
    CallsEnd
    ItemsTellTheAnswer
    PipelineEnds
