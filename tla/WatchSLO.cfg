CONSTANTS
    c1 = c1
    c2 = c2
    c3 = c3
    absent = absent
    k1 = k1
    k2 = k2
    Keys = {k1, k2}
    Configs = {c1, c2, c3}
    Key <- KeyOf
    Targets = {c1}
    Specs <- Written
    Absent = absent
    Trackers = {1, 2}
    MaxLog = 5
    MaxTroubles = 1
    MaxEvents = 1
    MaxPatches = 1
    MaxVersions = 3
SPECIFICATION Spec
CHECK_DEADLOCK FALSE
INVARIANTS
    TypeOK
    RestIsWatched
    GoneIsClean
    DelayOnce
