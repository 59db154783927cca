CONSTANTS
    w1 = w1
    w2 = w2
    none = none
    Transitions <- SampleTransitions
    BeginState = "BeginState"
    DeletedState = "DeletedState"
    DeletedEvent = "DeletedEvent"
    Wildcard = "*"
    Keys = {"creationTimestamp", "ready"}
    Values = {"", "T", "True"}
    Blank = ""
    Objects <- OneObject
    NoObject = none
    Rules <- SampleRules
    Workers = {w1, w2}
    UIDs = {"u1", "u2"}
    NameOf <- SameName
    NoName = ""
    Handler = "handler"
    TimerEvent = "timerEvent100s"
    HasTimer = FALSE
    PatchMayFail = FALSE
    MayStop = FALSE
    ChanCap = 1
    MaxRev = 3
    MaxStates = 2
SYMMETRY WorkerSymmetry
SPECIFICATION Spec
CHECK_DEADLOCK FALSE
INVARIANT StateNumIsNumberOfPods
