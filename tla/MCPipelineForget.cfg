\* A trigger loads the report while its pipeline runs.
SPECIFICATION PipelineSpec
CONSTANTS
    inline1 = inline1
    inline2 = inline2
    trigger = trigger
    Reports = {1}
    Tasks = {inline1, trigger}
    Kind <- MCKindOf
    Targets <- MCTargetsOf
    Twin <- MCAlone
    MaxTries = 3
    MaxPipelineFaults = 0
PROPERTIES
    NoStageForgotten
CHECK_DEADLOCK FALSE
