SPECIFICATION FairSpec
CONSTANTS
    Worker = {w1, w2, w3}
    MaxPending = 2
    Timeout = {0, 1}
    MaxJobs = 4
    NoJob = NoJob
INVARIANTS WorkConserving NobodySleepsThroughStop TakenInOrderOnce
PROPERTIES EverythingSettles ImplementsJobQueue
