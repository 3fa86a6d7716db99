\* Two requests at a time, a first version with two updates; calls raise,
\* processes die and locks expire.
SPECIFICATION Spec
CONSTANTS
    Items = {1, 2, 3}
    EvolvedFrom <- Fork
    Story <- OneStory
    Workers = {w1, w2}
    NoWorker = NoWorker
    FixUpdates = TRUE
    FixLimit = 50
    Faults = {"error", "crash", "expiry"}
    MaxPushes <- OneTwice
INVARIANTS
    StoryAlwaysVisible
    OneWriterPerItem
PROPERTIES
    FeedSpec
CHECK_DEADLOCK FALSE
