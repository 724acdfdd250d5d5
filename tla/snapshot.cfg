CONSTANTS
    Callouts = {a, b}
    COTABSZ = 3
    CYCBUF_SIZE = 3
    MSECS = 1
    MAXLAG = 1
    Delays = {0, 1, 2}
    Mdelays <- Whole
    Copying = FALSE
    ClockBack = FALSE
    MaxSec = 3
SPECIFICATION SSpec
SYMMETRY Handles
INVARIANT Found
PROPERTY Resumes
