CONSTANTS
    Devices = {d1}
    LongNamed = {}
    Mounts = {m1, m2}
    Raws = {0, 9}
    Wears = {0, 150}
    None = None
    MaxOps = 2
    MaxChanges = 2
SPECIFICATION FairSpec
INVARIANTS
    TypeOK
    NotMountedTwice
PROPERTIES
    HostOpsHonoured
    SettlesAsAsked
    ReportSettles
CHECK_DEADLOCK FALSE
