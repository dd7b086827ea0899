SPECIFICATION Spec
CONSTANTS
    NJobs = 1
    Podcasts <- NoJobs
    Runners = {r1, r2}
    NoRunner = NoRunner
    Ceiling = 1
    VideoPool = 1
    PodcastPool = 1
    MaxRetries = 1
    MaxFaults = 1
    MaxCalls = 0
SYMMETRY RunnerSymmetry
INVARIANTS OneRunner
