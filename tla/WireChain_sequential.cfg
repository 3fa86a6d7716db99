\* One push at a time, in any order, each guid twice; calls raise: 1 <- 2 <- 3 <- 4.
SPECIFICATION Spec
CONSTANTS
    Items = {1, 2, 3, 4}
    EvolvedFrom <- Chain
    Story <- OneStory
    Workers = {w1}
    NoWorker = NoWorker
    FixUpdates = TRUE
    FixLimit = 50
    Faults = {"error"}
    MaxPushes <- Twice
INVARIANTS
    TypeOK
    ChainComplete
    LastVersionFound
    NewestAnnounced
    RetryRepairsLinks
    NextversionSound
PROPERTY NeverResurfaces
CHECK_DEADLOCK FALSE
