CONSTANTS
    good = good
    unknown = unknown
    refused = refused
    k1 = k1
    absent = absent
    none = none
    Keys = {k1}
    Specs = {good}
    Resolvable = {good}
    Listable = {good}
    OthersHold = FALSE
    Absent = absent
    NoJob = none
    MaxVersions = 4
    MaxFailures = 0
    MaxCrashes = 0
    MaxLeaks = 0
SPECIFICATION Spec
CHECK_DEADLOCK FALSE
INVARIANT CountedOnce
