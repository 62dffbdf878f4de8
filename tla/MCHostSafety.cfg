\* Every interleaving of the owner's calls with the monitor thread.
SPECIFICATION FairSpec
CONSTANTS
    MinMemAvailable = 2
    MaxSwapGrowth = 1
    MaxStartingSwap = 1
    Absent = Absent
    Garbled = Garbled
    NoSample = NoSample
    Texts <- MCTexts
INVARIANTS AbortExact SilenceMeansSafe
PROPERTIES StopFreezesVerdict WatchdogLive
