CONSTANTS
    w1 = w1
    w2 = w2
    none = none
    Transitions <- SampleTransitions
    BeginState = "BeginState"
    DeletedState = "DeletedState"
    DeletedEvent = "DeletedEvent"
    Wildcard = "*"
    Keys = {"creationTimestamp", "ready"}
    Values = {"", "T", "True"}
    Blank = ""
    Objects <- OneObject
    NoObject = none
    Rules <- SampleRules
    Workers = {w1}
    UIDs = {"u1"}
    NameOf <- OneName
    NoName = ""
    Handler = "handler"
    TimerEvent = "timerEvent100s"
    HasTimer = FALSE
    PatchMayFail = FALSE
    MayStop = FALSE
    ChanCap = 1
    MaxRev = 2
    MaxStates = 2
SPECIFICATION Spec
CHECK_DEADLOCK FALSE
INVARIANT LivePodsStayInAState
