SPECIFICATION Spec
CONSTANTS
    o1 = o1
    o2 = o2
    Blocks = {o1, o2}
    SWAPSIZE = 4
    CACHESIZE = 2
    MaxVec = 2
    MaxIndex = 6
    MaxChanges = 3
    MaxDumps = 2
    MaxRestarts = 1
INVARIANTS DeviceSound Faithful Restorable
\* The bounds end every behaviour: with no block left nothing more may happen.
CHECK_DEADLOCK FALSE
SYMMETRY Symmetry
