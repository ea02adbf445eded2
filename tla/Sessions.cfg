SPECIFICATION FairSpec
CONSTANTS
    s1 = s1
    s2 = s2
    Session = {s1, s2}
    Reader = {s1}
    Difficulty = {1, 2}
    Initial = 1
    HighWater = 1
    MaxEvents = 4
    MaxJobs = 2
    Nobody = Nobody
INVARIANTS
    AnswerBeforeWork
    ToldDifficulty
PROPERTIES
    ReadersGetNewest
    HandlersGoOn
    StopEnds
CHECK_DEADLOCK FALSE
