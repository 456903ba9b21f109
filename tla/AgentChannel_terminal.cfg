CONSTANTS
    DiskMounts = {d1}
    PoolMounts = {}
    MaxTime = 1
    MaxPolls = 2
    MaxRestarts = 0
    MaxFaults = 0
SPECIFICATION FairSpec
PROPERTY TerminalReported
