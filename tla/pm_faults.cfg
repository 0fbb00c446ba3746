\* Every operation of the forward path may fail, and the process may die.
SPECIFICATION Spec
CONSTANTS
    Packages = {"core"}
    Paths <- MCPaths
    Contents = {"old", "v1", "v2"}
    Backups <- MCPaths
    BackupOf <- MCBackupOf
    Manifests <- MCManifests
    InitialFiles <- MCInitialFiles
    TxBound = 1
    Faults = {"open", "mkdir", "backup", "journal", "copy", "commit",
              "archive", "index", "counter", "noop", "mark",
              "registry", "crash"}
    Absent = "absent"
    Partial = "partial"
    NoLog = NoLog
INVARIANTS
    TypeOK
    JournalCovers
    FailureRestores
PROPERTIES
    CallsReturn
