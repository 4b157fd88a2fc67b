SPECIFICATION FairSpec
CONSTANTS
    NoFile = NoFile
    BootTask = BootTask
    WriterPauses = TRUE
    Files = {f1}
    WatchTasks = {w1}
    PollTasks = {p1}
    MaxSize = 2
    StableAttempts = 1
    MaxFaults = 0
PROPERTIES FinishedIsStoredWhole
