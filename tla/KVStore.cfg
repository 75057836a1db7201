SPECIFICATION Spec
CONSTANTS
    x = x  y = y  z = z  k = k  l = l  A = A
    Request = {x, y, z}
    Key = {k, l}
    KeyOf <- Keys
    None = None
    Domain = {A}
    Base = 2
    Width = 2
    MaxTerm = 2
    MaxIndex = 3
    compactionThreshold = 1
    compactionRetain = 1
INVARIANTS KVTypeOK MirrorsDisk
PROPERTIES ImplementsStore
