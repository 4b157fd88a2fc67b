SPECIFICATION PageSpec
CONSTANTS
    Names <- MCNames
    Wavs <- MCWavs
    HeaderBytes = 80
    MaxUploads = 3
    MaxFaults = 1
INVARIANTS DurationIsOfAStoredFile PartiesAsNotified
CHECK_DEADLOCK FALSE
