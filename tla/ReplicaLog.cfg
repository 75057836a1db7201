SPECIFICATION Spec
CONSTANTS
    x = x  y = y  z = z  k = k  l = l  A = A
    Request = {x, y, z}
    Key = {k, l}
    KeyOf <- Keys
    None = None
    Domain = {A}
    home = A
    Asked <- OneEach
    MaxIndex = 3
    MaxFanouts = 1
    DiskMayFail = TRUE
    compactionThreshold = 1
    compactionRetain = 1
INVARIANTS ReplicaTypeOK AppliedIsCommitted LogMatchesALeader
PROPERTIES AppliedNeverGoesBack
