SPECIFICATION Spec
CONSTANTS
    Services = {s1, s2, s3, s4, s5}
    Names = {1, 2, 3}
    Harbor = 1
    HandleSize = 4
    DefaultSlotSize = 2
    IndexMask = 7
    None = None
SYMMETRY Interchangeable
INVARIANT StorageInv AssertionsHold
PROPERTY ImplementsRegistry
CHECK_DEADLOCK FALSE
