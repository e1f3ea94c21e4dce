SPECIFICATION ProcSpec
CONSTANTS
    Call = {c1, c2}
    NoTask = NoTask
    Timed = TRUE
    MaxErrors = 1
    RunMayThrow = TRUE
    TaskControl = {"REMOVE", "THROW"}
    MaxEntries = 2
    LineSize = {1, 2}
    maxHtmlSize = 3
    Viewer = {v1}
    MaxLogs = 4
INVARIANTS
    ProcTypeOK
    NewestErrorsAreKept
    PageAccountsForAll
    MapsOutliveWorker
PROPERTIES
    ImplementsWorkerThread
    MisuseOnlyBeforeExitSignal
    ProcessEnds
