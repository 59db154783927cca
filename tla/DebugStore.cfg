CONSTANTS
    pod = pod
    twin = twin
    machine = machine
    e1 = e1
    e2 = e2
    none = none
    Pods = {pod, twin}
    Nodes = {machine}
    Name <- SampleName
    NodeOf <- SampleNode
    Events = {e1, e2}
    None = none
    MaxUid = 2
    MaxActs = 4
    MaxFailures = 1
    MaxCrashes = 1
SPECIFICATION Spec
CHECK_DEADLOCK FALSE
INVARIANTS
    TypeOK
    PagesAreWhole
    RestIsStored
PROPERTIES
    EventsAreKept
