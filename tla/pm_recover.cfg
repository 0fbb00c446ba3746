\* Two packages that share a file, no failing file operation.
SPECIFICATION RSpec
CONSTANTS
    Packages = {"core", "ext"}
    Paths <- MCPaths
    Contents = {"old", "v1", "v2", "v3"}
    Backups <- MCPaths
    BackupOf <- MCBackupOf
    Manifests <- MCManifests
    InitialFiles <- MCInitialFiles
    TxBound = 2
    Faults = {}
    Absent = "absent"
    Partial = "partial"
    NoLog = NoLog
INVARIANTS
    AllOrNothing
    HistoryOrdered
PROPERTIES
    HistoryKept
    ImplementsAtomicStore
