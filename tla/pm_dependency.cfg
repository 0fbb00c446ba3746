\* An install that requires one whose file copies may fail.
SPECIFICATION RSpec
CONSTANTS
    Packages = {"core", "ext"}
    Paths <- MCPaths
    Contents = {"old", "v1", "v2", "v3"}
    Backups <- MCPaths
    BackupOf <- MCBackupOf
    Manifests <- MCManifests
    InitialFiles <- MCInitialFiles
    TxBound = 1
    Faults = {"copy"}
    Absent = "absent"
    Partial = "partial"
    NoLog = NoLog
INVARIANT
    DependenciesInstalled
