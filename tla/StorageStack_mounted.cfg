CONSTANTS
    DataDisks = {d1}
    ParityDisks = {p1}
    MaxChanges = 1
    MaxFailures = 1
    MaxRestarts = 0
SPECIFICATION FairSpec
PROPERTY MountedActive
CHECK_DEADLOCK FALSE
