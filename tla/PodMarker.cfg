CONSTANTS
    p1 = p1
    p2 = p2
    m1 = m1
    gone = gone
    noSpec = noSpec
    absent = absent
    Pods = {p1, p2}
    Markers = {m1}
    Fields <- SomeFields
    Extracted <- Values
    Refused = {"long"}
    Specs <- SomeSpecs
    NodeValue = "zone"
    Absent = absent
    Bindings = {TRUE}
    Gone = gone
    NoSpec = noSpec
    MaxBorn = 2
    MaxNews = 1
    MaxActs = 3
    MaxTroubles = 1
SPECIFICATION FairSpec
CHECK_DEADLOCK FALSE
INVARIANTS
    TypeOK
    RestIsMarked
PROPERTIES
    OthersAreKept
    ComesToRest
