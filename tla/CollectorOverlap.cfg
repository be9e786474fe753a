SPECIFICATION FairSpec
CONSTANTS
    w1 = w1  w2 = w2  o1 = o1  o2 = o2  a1 = a1  a2 = a2  s1 = s1  s2 = s2
    Never = Never
    Worker = {w1, w2}
    Org = {o1}
    Named = {o1}
    WithRole = {o1}
    Arn = {a1}
    Start = {s1, s2}
    Affects <- JustOne
    MaxConcurrentOrgs = 1
    \* The clock ticks once a window, so a window ends with the tick it began in.
    WindowDays = 0
    Faults = {"put", "state", "crash"}
    MaxFaults = 2
    MaxVersion = 2
    MaxDay = 1
INVARIANTS
    TypeOK
PROPERTIES
    TableConverges
