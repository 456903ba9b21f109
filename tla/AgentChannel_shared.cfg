CONSTANTS
    DiskMounts = {d1}
    PoolMounts = {p1}
    MaxTime = 2
    MaxPolls = 1
    MaxRestarts = 1
    MaxFaults = 0
SPECIFICATION Spec
INVARIANTS
    TypeOK
    StatusTruthful
    PerTargetOrder
    QuiescentHost
PROPERTY Contract
