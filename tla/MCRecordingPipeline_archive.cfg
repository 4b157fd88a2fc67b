SPECIFICATION FairPipe
CONSTANTS
    NoFile = NoFile
    BootTask = BootTask
    Reqs = {r1}
    WriterPauses = TRUE
    CdrPrompt = FALSE
    Files = {f1}
    WatchTasks = {w1}
    PollTasks = {p1}
    MaxSize = 2
    StableAttempts = 1
    MaxFaults = 1
INVARIANTS LogImpliesStored PipeInv
PROPERTIES ImplementsFairArchive
