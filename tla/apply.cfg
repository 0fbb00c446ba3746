\* Phases, Install's copies and the report may fail.
SPECIFICATION UpdateSpec
CONSTANTS
    Packages = {"core"}
    Paths <- MCPaths
    Contents = {"old", "v1", "v2"}
    Backups <- MCPaths
    BackupOf <- MCBackupOf
    Manifests <- MCManifests
    InitialFiles <- MCInitialFiles
    TxBound = 3
    Faults = {"log", "copy", "report"}
    Absent = "absent"
    Partial = "partial"
    NoLog = NoLog
    Times = {1, 2}
    PathRank <- MCPathRank
INVARIANTS
    ATypeOK
    FailedApplyRestores
    CertificateHolds
    NewestIsChosen
    ReplacementTested
PROPERTIES
    ApplyReturns
