\* Dispatcher: two events of any kind, batches of two, two faults.
\* Pipeline: two reports clustered with each other, one fault; one in no cluster, two faults.
SPECIFICATION AllSpec
CONSTANTS
    Events = {e1, e2}
    Count = 2
    MaxAttempts = 2
    MaxDeliveryAttempts = 2
    Page = 4
    MaxFaults = 2
    DeliveryBound = 4
    Reports = {1, 2, 3}
    Tasks <- MCTasks
    Kind <- MCKind
    Targets <- MCTargets
    Twin <- MCTwin
    MaxTries = 3
    MaxPipelineFaults = 2
INVARIANTS
    OnlyRetryLoses
    NoForkedRetry
    DeadLetterJustified
    ReadyIsEarned
PROPERTIES
    EventuallySettled
    EventuallyEvaluated
CHECK_DEADLOCK FALSE
