SPECIFICATION FairSpec
CONSTANTS
    Configs = 3
    Users = 4
    ConfigAttempts = 3
    UserAttempts = 5
    MaxFaults = 4
INVARIANT EndedMeansImported
PROPERTIES ImportEnds
