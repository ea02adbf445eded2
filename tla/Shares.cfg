SPECIFICATION FairSpec
CONSTANTS
    s1 = s1  s2 = s2  w1 = w1
    j1 = j1  j2 = j2  miss = miss  good = good  best = best
    Session = {s1, s2}
    Worker = {w1}
    WorkerOf <- OneWorker
    Share = {miss, good, best}
    Job = {j1, j2}
    JobOf <- Jobs
    Attempt <- Attempts
    Digest <- Digests
    ShareTarget <- ShareTargets
    BlockTarget <- BlockTargets
    Threads = 2
    PoolDifficulty = 10000
    Fresh = 10000
    VardiffMin = 10000
    VardiffMax = 20000
    Target = 300
    Elapsed = {1, 300, 600}
    NoOne = NoOne
    MaxSubmits = 3
    MaxFaults = 2
CHECK_DEADLOCK FALSE
INVARIANTS
    FalseOnlyByTwin
    DifficultyInBounds
PROPERTIES
    ImplementsVerifier
    EveryShareAnswered
