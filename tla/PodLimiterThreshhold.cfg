CONSTANTS
    p1 = p1
    p2 = p2
    q1 = q1
    q2 = q2
    pending = pending
    running = running
    noPod = noPod
    Pods = {p1, p2}
    Shapes = {pending, running}
    NoPod = noPod
    Requests = {q1}
    RuleNames <- Names
    IndexOf <- JoinedNames
    RuleLists <- Limits
    ListMayFail = FALSE
    MaxNews = 1
SPECIFICATION Spec
CHECK_DEADLOCK FALSE
PROPERTY AloneWithinThreshhold
