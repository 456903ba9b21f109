CONSTANTS
    DiskMounts = {d1}
    PoolMounts = {}
    MaxChanges = 3
    MaxFailures = 1
    MaxRestarts = 1
SPECIFICATION FairSpec
INVARIANT TypeOK
PROPERTIES
    ProtectedUntilUnmount
    KeepsContract
    DeletionCompletes
    StatusConverges
CHECK_DEADLOCK FALSE
