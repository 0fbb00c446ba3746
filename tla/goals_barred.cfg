\* Two goals and no failing writes.
SPECIFICATION GoalSpec
CONSTANTS
    MaxNodes = 2
    MaxDeps = 2
    Radix = 2
    Parents = {0}
    Priorities = {1, 2}
    Titles <- MCTitles
    Dependencies <- MCDependencies
    Targets = {"READY", "DONE"}
    WritesMayFail = FALSE
INVARIANTS
    CannotSkipDependency
