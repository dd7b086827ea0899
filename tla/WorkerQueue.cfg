SPECIFICATION Spec
CONSTANTS
    NJobs = 2
    Podcasts <- SecondJob
    Runners = {r1, r2}
    NoRunner = NoRunner
    Ceiling = 1
    VideoPool = 1
    PodcastPool = 1
    MaxRetries = 1
    MaxFaults = 2
    MaxCalls = 0
SYMMETRY RunnerSymmetry
CONSTRAINT NoStray
INVARIANTS SlotsRespected OneRunnerKept CancelStops EncodedOnce MarkerAgrees PublishedInv
PROPERTIES EndedStays ImplementsEngineWorker
