\* Two workers, two starts of the command, and nothing goes wrong.
CONSTANTS
    Users <- TwoUsers
    Items = {1, 2}
    Matches <- Three
    ItemOf <- ThreeItems
    UserOf <- ThreeUsers
    Notifiers = {n1, n2}
    Runners = {r1, r2}
    None = None
    Slots = 3
    Times <- TwoTimes
    Choices <- NoChoice
    MayDisable = {}
    Faults = {}
    MaxFaults = 0
SPECIFICATION Spec
INVARIANT TypeOK
INVARIANT EmailedOnce
INVARIANT OneRunAtATime
CHECK_DEADLOCK FALSE
