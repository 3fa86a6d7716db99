\* One request at a time, in the order of posting; calls raise.
SPECIFICATION Spec
CONSTANTS
    Events <- TwoEvents
    Plans <- TwoPlans
    Coverages = {"c"}
    EventOf <- ForEvent
    SecondaryOf <- Secondary
    PlanOf <- OneCoverage
    Workers = {w1}
    None = None
    OneByOne = TRUE
    Faults = {"error"}
    MaxPosts = 4
    MaxFaults = 1
INVARIANTS
    TypeOK
    EventComplete
    EventCurrent
CHECK_DEADLOCK FALSE
