\* Two new reports clustered with each other.
SPECIFICATION PipelineSpec
CONSTANTS
    inline1 = inline1
    inline2 = inline2
    trigger = trigger
    Reports = {1, 2}
    Tasks = {inline1, inline2}
    Kind <- MCKindOf
    Targets <- MCTargetsOf
    Twin <- MCTwins
    MaxTries = 3
    MaxPipelineFaults = 0
INVARIANTS
    NoDeadlock
CHECK_DEADLOCK FALSE
