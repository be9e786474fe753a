SPECIFICATION Spec
CONSTANTS
    a1 = a1  a2 = a2  o1 = o1  o2 = o2  x = x  y = y
    All = All
    Row = {1, 2, 3, 4}
    ArnOf <- MCArnOf
    OrgOf <- MCOrgOf
    CategoryOf <- MCCategoryOf
    Account = {x, y}
    Item <- MCItem
    Queries <- MCQueries
    PageSize = 2
    ScanPage = 3
    MaxChanges = 1
    MaxEdge = 2
INVARIANTS
    TypeOK
    WalkShowsEachRowOnce
    EntriesAddUp
    SummaryCountsEachRowOnce
PROPERTIES
    ListedEventsAreFound
    RequestsEnd
