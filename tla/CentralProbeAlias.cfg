CONSTANTS
    a = a
    b = b
    c1 = c1
    c2 = c2
    absent = absent
    x = x
    y = y
    Names = {a, b}
    Probes = {c1}
    Labels = {x, y}
    Selectors <- OneSelector
    Absent = absent
    MaxUid = 2
    MaxNews = 1
    MaxActs = 3
    MaxTroubles = 0
SPECIFICATION Spec
CHECK_DEADLOCK FALSE
INVARIANT RestProbesAll
