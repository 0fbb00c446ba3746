\* The log, the commit and the rollback of an Apply may fail, and the process may die.
SPECIFICATION ASpec
CONSTANTS
    Packages = {"core"}
    Paths <- MCPaths
    Contents = {"old", "v1", "v2"}
    Backups <- MCPaths
    BackupOf <- MCBackupOf
    Manifests <- MCManifests
    InitialFiles <- MCInitialFiles
    TxBound = 1
    Faults = {"log", "archive", "restore", "crash"}
    Absent = "absent"
    Partial = "partial"
    NoLog = NoLog
INVARIANTS
    RollbackIsTold
