CONSTANTS
    a = a
    b = b
    c1 = c1
    c2 = c2
    absent = absent
    x = x
    y = y
    Names = {a}
    Probes = {c1, c2}
    Labels = {x, y}
    Selectors <- OneSelector
    Absent = absent
    MaxUid = 2
    MaxNews = 1
    MaxActs = 4
    MaxTroubles = 1
SPECIFICATION FairSpec
CHECK_DEADLOCK FALSE
INVARIANTS
    TypeOK
    WorkersAreRecorded
    RestIsExact
PROPERTIES
    SelectedAreProbed
    DeletionCompletes
