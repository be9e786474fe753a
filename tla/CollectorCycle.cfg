SPECIFICATION FairSpec
CONSTANTS
    w1 = w1  w2 = w2  o1 = o1  o2 = o2  a1 = a1  a2 = a2  s1 = s1  s2 = s2
    Never = Never
    Worker = {w1}
    Org = {o1, o2}
    Named = {o1, o2}
    WithRole = {o1, o2}
    Arn = {a1, a2}
    Start = {s1}
    Affects <- MCAffects
    MaxConcurrentOrgs = 1
    WindowDays = 1
    Faults = {"assume", "affected", "state", "dispatch", "crash"}
    MaxFaults = 1
    MaxVersion = 2
    MaxDay = 0
INVARIANTS
    HandedIsReal
    CollectedIsSplit
    StateRowsTellTheRun
PROPERTIES
    OpenEventsAreHanded
