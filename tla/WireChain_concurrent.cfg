\* Two requests at a time and nothing goes wrong.
SPECIFICATION Spec
CONSTANTS
    Items = {1, 2, 3}
    EvolvedFrom <- Chain
    Story <- OneStory
    Workers = {w1, w2}
    NoWorker = NoWorker
    FixUpdates = TRUE
    FixLimit = 50
    Faults = {}
    MaxPushes <- Once
INVARIANTS
    ChainComplete
CHECK_DEADLOCK FALSE
