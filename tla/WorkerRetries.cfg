SPECIFICATION FairSpec
CONSTANTS
    NJobs = 1
    Podcasts <- FirstJob
    Runners = {r1, r2}
    NoRunner = NoRunner
    Ceiling = 1
    VideoPool = 1
    PodcastPool = 1
    MaxRetries = 2
    MaxFaults = 1
    MaxCalls = 1
INVARIANTS TypeOK IInv BudgetHolds
PROPERTIES HoldStopsQueue CancelledStays QueuedStarts EncodedSettles
