CONSTANTS
    DataDisks = {d1, d2}
    ParityDisks = {}
    MaxChanges = 1
    MaxFailures = 1
    MaxRestarts = 1
SPECIFICATION FairSpec
INVARIANTS
    TypeOK
    NothingInvented
PROPERTIES
    UnionComplete
    FailureVisible
    GonePoolUnpublishes
CHECK_DEADLOCK FALSE
