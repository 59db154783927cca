CONSTANTS
    gone = gone
    none = none
    Gone = gone
    NoResult = none
    Capacity = 2
    MaxActs = 4
    MaxTroubles = 0
SPECIFICATION Spec
CHECK_DEADLOCK FALSE
INVARIANT RestTakesOver
