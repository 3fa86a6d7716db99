\* Two requests at a time, those of a guid in the order of posting; locks expire.
SPECIFICATION Spec
CONSTANTS
    Events <- OneEvent
    Plans <- OnePlan
    Coverages = {"c"}
    EventOf <- ForOne
    SecondaryOf <- NoSecondary
    PlanOf <- OneCoverage
    Workers = {w1, w2}
    None = None
    OneByOne = FALSE
    Faults = {"expiry"}
    MaxPosts = 3
    MaxFaults = 0
INVARIANTS
    CoveragesFollowPlans
    PlanningsOpen
SYMMETRY WorkerSymmetry
CHECK_DEADLOCK FALSE
