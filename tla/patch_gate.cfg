\* As tools.cfg, for the gate alone.
SPECIFICATION ToolsSpec
CONSTANTS
    RunIds <- MCRunIds
    Proposals <- MCProposals
    MaxSteps = 3
    Guard = 2
    MaxSaves = 2
    Names <- MCNames
    Plans <- MCPlans
    Steps = {1, 2}
    Files <- MCFiles
    Unsafe <- MCUnsafe
    MaxNodes = 1
    MaxDeps = 2
    Radix = 2
    Parents = {0}
    Priorities = {1, 2}
    Titles <- MCTitles
    Dependencies <- MCDependencies
    Targets = {"READY", "DONE"}
    WritesMayFail = FALSE
INVARIANT
    GateSeesRecords
