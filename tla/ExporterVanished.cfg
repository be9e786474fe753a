SPECIFICATION Spec
CONSTANTS
    w1 = w1  w2 = w2  r1 = r1  r2 = r2  r3 = r3
    a1 = a1  a2 = a2  o1 = o1  o2 = o2
    Worker = {w1}
    Row = {r1, r2, r3}
    Arn = {a1, a2}
    Org = {o1, o2}
    ArnOf <- MCArnOf
    OrgOf <- MCOrgOf
    ScanOrder <- MCOrder
    MaxLog = 4
    Faults = {"vanish"}
    MaxFaults = 1
    MaxChanges = 2
PROPERTIES
    ResolvedIsReported
