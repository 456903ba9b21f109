CONSTANTS
    DiskMounts = {d1}
    PoolMounts = {}
    MaxTime = 2
    MaxPolls = 2
    MaxRestarts = 1
    MaxFaults = 1
SPECIFICATION FairSpec
PROPERTIES
    CallsReturn
    EventuallyExecuted
