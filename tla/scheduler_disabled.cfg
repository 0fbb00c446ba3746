\* Two tasks; ticks and run counters wrap at 5.
SPECIFICATION ExecutionSpec
CONSTANTS
    Span = 5
    TaskLimit = 2
    Descriptors <- MCDescriptors
    Cooldowns = {0, 1, 4}
    Ticks = {1, 2}
    Experiments <- MCExperiments
    NodeRoom = 2
    EdgeRoom = 1
    MaxExecutions = 2
PROPERTY
    DisabledStays
CHECK_DEADLOCK FALSE
