\* A failed trigger, and then a crash or a failed call.
SPECIFICATION AllSpec
CONSTANTS
    Events = {e1, e2}
    Count = 2
    MaxAttempts = 2
    MaxDeliveryAttempts = 2
    Page = 4
    MaxFaults = 2
    DeliveryBound = 4
    Reports = {1, 2, 3}
    Tasks <- MCTasks
    Kind <- MCKind
    Targets <- MCTargets
    Twin <- MCTwin
    MaxTries = 3
    MaxPipelineFaults = 2
INVARIANTS
    NoEventLost
CHECK_DEADLOCK FALSE
