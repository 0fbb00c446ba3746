\* Three items, runs of one and of three cycles.  Two tasks; ticks and run
\* counters wrap at 5.  Two executions, after which the run stops: whether
\* another is begun is the user's choice.
SPECIFICATION LabSpec
CONSTANTS
    Capacity = 3
    Priorities = {0, 1}
    AttemptLimits = {0, 2}
    Policies <- MCPolicies
    CycleRequests = {1, 3}
    Span = 5
    TaskLimit = 2
    Descriptors <- MCDescriptors
    Cooldowns = {0, 1, 4}
    Ticks = {1, 2}
    Experiments <- MCExperiments
    NodeRoom = 2
    EdgeRoom = 1
    MaxExecutions = 2
INVARIANTS
    ResearchTypeOK
    NoItemLost
    ExecutionsBounded
    BudgetHeld
    SessionAgrees
    ScanFindsFirst
    SchedulerTypeOK
    OneHolder
    RunsCapped
    CooldownExact
    EdgesFollowRuns
    JournalTells
PROPERTIES
    ResultsAreFinal
    EveryItemEnds
CHECK_DEADLOCK FALSE
