\* One worker whose task may be lost, one run at a time that may raise or die,
\* a user who changes his times and may be disabled.
CONSTANTS
    Users <- OneUser
    Items = {1, 2}
    Matches <- Pair
    ItemOf <- PairItems
    UserOf <- PairUsers
    Notifiers = {n1}
    Runners = {r1}
    None = None
    Slots = 3
    Times <- PairTimes
    Choices <- LaterTime
    MayDisable = {"anna"}
    Faults = {"error", "crash", "lost"}
    MaxFaults = 1
SPECIFICATION Spec
INVARIANT OneEmailPerSlot
PROPERTY KeptUntilSent
CHECK_DEADLOCK FALSE
