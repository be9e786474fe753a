SPECIFICATION FairSpec
CONSTANTS
    w1 = w1  w2 = w2  o1 = o1  o2 = o2  a1 = a1  a2 = a2  s1 = s1  s2 = s2
    Never = Never
    Worker = {w1}
    Org = {o1, o2}
    Named = {o2}
    WithRole = {o1, o2}
    Arn = {a1}
    Start = {s1}
    Affects <- OneAffects
    MaxConcurrentOrgs = 2
    WindowDays = 1
    Faults = {}
    MaxFaults = 0
    MaxVersion = 1
    MaxDay = 0
PROPERTIES
    OpenEventsAreHanded
