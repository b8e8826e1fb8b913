SPECIFICATION Spec
CONSTANTS
    None = None
    NoManifest = NoManifest
    Procs <- MCProcs
    Ids <- MCIds
    Files <- MCFiles
    Shared <- MCShared
    Templates <- MCTemplates
    Configs <- LifecycleConfigs
INVARIANTS
    SealMatchesRecord
    HookAgrees
    OpenScopeWritable
PROPERTIES
    AllOrNothing
    CleanRecordCompletes
    ReconcileRepairs
CHECK_DEADLOCK FALSE
