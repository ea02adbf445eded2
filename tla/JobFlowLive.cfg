SPECIFICATION FairSpec
CONSTANTS
    s1 = s1  s2 = s2
    Session = {s1}
    Refresher = {"poller", "block"}
    Limit = 1
    MaxJobs = 6
    MaxQueue = 2
    MaxTip = 1
    MaxVar = 0
    MaxFaults = 1
CHECK_DEADLOCK FALSE
PROPERTIES
    EventuallyUpToDate
