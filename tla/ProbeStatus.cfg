CONSTANTS
    gone = gone
    none = none
    Gone = gone
    NoResult = none
    Capacity = 2
    MaxActs = 5
    MaxTroubles = 1
SPECIFICATION FairSpec
CHECK_DEADLOCK FALSE
INVARIANTS
    TypeOK
    RestFollowsProbe
PROPERTY WorkersAreHeard
