CONSTANTS
    Disks = {d1}
    MaxChanges = 5
SPECIFICATION FairSpec
INVARIANTS
    TypeOK
    NoInventedFailure
PROPERTIES
    FailureClassified
    RecoveryCloses
CHECK_DEADLOCK FALSE
