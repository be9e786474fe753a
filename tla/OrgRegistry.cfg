SPECIFICATION FairSpec
CONSTANTS
    o1 = o1  o2 = o2  p1 = p1  p2 = p2  c1 = c1  c2 = c2
    Org = {o1, o2}
    Operator = {p1, p2}
    Container = {c1, c2}
    Faults = {"get", "put", "overlap", "load"}
    MaxFaults = 1
    MaxEdits = 2
INVARIANTS
    TypeOK
PROPERTIES
    RegistryTakesEffect
    EditsKeepOthers
