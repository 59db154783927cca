CONSTANTS
    p1 = p1
    p2 = p2
    q1 = q1
    q2 = q2
    pending = pending
    running = running
    noPod = noPod
    Pods = {p1, p2}
    Shapes = {pending, running}
    NoPod = noPod
    Requests = {}
    RuleNames <- Names
    IndexOf <- JoinedNames
    RuleLists <- Odd
    ListMayFail = FALSE
    MaxNews = 2
SPECIFICATION FairSpec
CHECK_DEADLOCK FALSE
PROPERTY GaugeFollows
