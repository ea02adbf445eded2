SPECIFICATION Spec
CONSTANTS
    s1 = s1  s2 = s2
    Session = {s1}
    Refresher = {"longpoll", "block"}
    Limit = 1
    MaxJobs = 4
    MaxQueue = 1
    MaxTip = 1
    MaxVar = 1
    MaxFaults = 0
CHECK_DEADLOCK FALSE
INVARIANTS
    BuildsMerkle
    ToldWhenQuiet
    KnownForBlock
PROPERTIES
    NewBlockPrunes
    DropsOldWork
