CONSTANTS
    Names = {x}
    NoName = nn
    OTABSZ = 3
    HTABSZ = 2
    MaxLevel = 2
    Renamed = FALSE
SPECIFICATION Spec
INVARIANTS PlanesSound Found
PROPERTY ImplementsAtomicObjects
