SPECIFICATION FairPipe
CONSTANTS
    NoFile = NoFile
    BootTask = BootTask
    Reqs = {r1, r2}
    WriterPauses = FALSE
    CdrPrompt = TRUE
    Files = {f1}
    WatchTasks = {w1}
    PollTasks = {p1}
    MaxSize = 2
    StableAttempts = 1
    MaxFaults = 2
INVARIANTS SteadyWriterStoredWhole RowImpliesStored UrlHasRow RowsAreRight
PROPERTIES FinishedIsStored FinishedIsListed
