CONSTANTS
    Callouts = {a, b, c}
    COTABSZ = 4
    CYCBUF_SIZE = 4
    MSECS = 2
    MAXLAG = 1
    Delays = {0, 1, 2}
    Mdelays <- Halves
    Copying = FALSE
    ClockBack = TRUE
    MaxSec = 4
SPECIFICATION Spec
SYMMETRY Handles
INVARIANTS TypeOK Counted Found CycWindow TableSound WakesInTime
PROPERTIES InOrder ImplementsContract
