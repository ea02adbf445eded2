SPECIFICATION FairSpec
CONSTANTS
    s1 = s1  s2 = s2
    Session = {s1}
    Refresher = {"poller"}
    Limit = 1
    MaxJobs = 2
    MaxQueue = 1
    MaxTip = 0
    MaxVar = 0
    MaxFaults = 1
CHECK_DEADLOCK FALSE
PROPERTY
    IdleMinerGetsWork
