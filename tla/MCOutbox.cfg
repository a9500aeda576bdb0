\* Two rows, two workers, batches of two, two lost batches.
SPECIFICATION FairSpec
CONSTANTS
    w1 = w1
    w2 = w2
    Events <- MCEvents
    Workers = {w1, w2}
    MaxAttempts = 2
    BatchSize = 2
    MaxAborts = 2
INVARIANTS
    NoPhantomEvent
    NoEventLost
PROPERTIES
    NoRowRegresses
    DeliverySpec
    EventuallySettled
CHECK_DEADLOCK FALSE
