CONSTANTS
    Libs = {l}
    Clonable = {c}
    Lightweight = {d}
    NoName = nn
    Index = {i1,i2,i3,i4}
    OBJ_NONE = none
    Bare = FALSE
    Abandon = FALSE
    MaxLayout = 3
SYMMETRY Entries
SPECIFICATION Spec
INVARIANTS Consistent References FreeRight LayoutsFit
CONSTANT MaxSteps = 3
