CONSTANTS
    Disks = {d1, d2}
    Capacities = {0, 20, 40}
    Frees = {0, 10, 20}
    Thresholds = {0, 30}
    MaxChanges = 2
    MaxFailures = 1
    MaxRestarts = 1
SPECIFICATION FairSpec
INVARIANTS
    TypeOK
    BalancedKeepsBalance
PROPERTIES
    TerminalIsFinal
    DryRunNeverRuns
    JobSettles
CHECK_DEADLOCK FALSE
