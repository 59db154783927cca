CONSTANTS
    good = good
    unknown = unknown
    refused = refused
    k1 = k1
    absent = absent
    none = none
    Keys = {k1}
    Specs = {good, unknown, refused}
    Resolvable = {good, refused}
    Listable = {good}
    OthersHold = TRUE
    Absent = absent
    NoJob = none
    MaxVersions = 5
    MaxFailures = 1
    MaxCrashes = 1
    MaxLeaks = 1
SPECIFICATION FairSpec
CHECK_DEADLOCK FALSE
INVARIANTS
    TypeOK
    InformersAccounted
    TrackedIsHeld
PROPERTIES
    TrackerNeverGoesBack
    DeletionCompletes
    TrackerFollows
