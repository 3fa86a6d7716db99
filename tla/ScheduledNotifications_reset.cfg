\* One worker, one run at a time, and nothing goes wrong.
CONSTANTS
    Users <- TwoUsers
    Items = {1, 2}
    Matches <- Three
    ItemOf <- ThreeItems
    UserOf <- ThreeUsers
    Notifiers = {n1}
    Runners = {r1}
    None = None
    Slots = 3
    Times <- TwoTimes
    Choices <- NoChoice
    MayDisable = {}
    Faults = {}
    MaxFaults = 0
SPECIFICATION Spec
INVARIANT NothingLost
CHECK_DEADLOCK FALSE
