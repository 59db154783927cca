CONSTANTS
    w1 = w1
    w2 = w2
    none = none
    Transitions <- SampleTransitions
    BeginState = "BeginState"
    DeletedState = "DeletedState"
    DeletedEvent = "DeletedEvent"
    Wildcard = "*"
    Keys = {"creationTimestamp", "ready"}
    Values = {"", "T", "True"}
    Blank = ""
    Objects <- SampleObjects
    NoObject = none
    Rules <- SampleRules
    Workers = {w1}
    UIDs = {"u1"}
    NameOf <- OneName
    NoName = ""
    Handler = "handler"
    TimerEvent = "timerEvent100s"
    HasTimer = TRUE
    PatchMayFail = TRUE
    MayStop = TRUE
    ChanCap = 1
    MaxRev = 3
    MaxStates = 2
SPECIFICATION Spec
CHECK_DEADLOCK FALSE
INVARIANTS
    TypeOK
    UndisturbedTracking
PROPERTIES
    MetricsAreACensus
    DeletedIsTerminal
