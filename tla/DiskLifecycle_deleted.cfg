CONSTANTS
    DiskMounts = {d1}
    PoolMounts = {}
    MaxChanges = 2
    MaxFailures = 0
    MaxRestarts = 0
SPECIFICATION FairSpec
PROPERTY DeletedUnmounted
CHECK_DEADLOCK FALSE
