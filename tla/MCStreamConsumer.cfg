\* Two workers, two entries of three kinds, batches of two, one fault.
SPECIFICATION FairSpec
CONSTANTS
    w1 = w1
    w2 = w2
    NumMsgs = 2
    Kinds = {"healthy", "malformed", "breaking"}
    Workers = {w1, w2}
    Count = 2
    MaxDeliveryAttempts = 2
    Page = 4
    MaxFaults = 1
    DeliveryBound = 4
INVARIANTS
    NothingLost
    DeadLetterExhausted
PROPERTIES
    DeliverySpec
    EventuallySettled
CHECK_DEADLOCK FALSE
