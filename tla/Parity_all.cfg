CONSTANTS
    None = None
    Arrays = {a1}
    Scheduled = {a1}
    Nodes = {n1, n2}
    Mounts = {m1, m2}
    ParityMounts = {}
    Contents = {c1}
    FirstNodes = {n1}
    FirstMounts = {m1}
    MaxChanges = 1
    MaxFailures = 1
    MaxRestarts = 1
SPECIFICATION FairSpec
INVARIANTS
    TypeOK
    UpdatedInOrder
PROPERTIES
    ReadyIsConfigured
    ReadySettles
    ParityReady
