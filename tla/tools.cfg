\* RunAll gives up after two rounds; three goals with at most two dependencies,
\* their ids in base 2, so that a line cut inside a number is met with single
\* digits.
SPECIFICATION ToolsSpec
CONSTANTS
    RunIds <- MCRunIds
    Proposals <- MCProposals
    MaxSteps = 3
    Guard = 2
    MaxSaves = 2
    Names <- MCNames
    Plans <- MCPlans
    Steps = {1, 2}
    Files <- MCFiles
    Unsafe <- MCUnsafe
    MaxNodes = 3
    MaxDeps = 2
    Radix = 2
    Parents = {0}
    Priorities = {1, 2}
    Titles <- MCTitles
    Dependencies <- MCDependencies
    Targets = {"READY", "DONE"}
    WritesMayFail = TRUE
INVARIANTS
    StagedWasApproved
    TasksInOrder
    ActiveIsOpen
    ReadyIsWhole
    GoalTypeOK
    GraphValid
    SomethingReady
    DoneAfterDependencies
    ReadyInOrder
