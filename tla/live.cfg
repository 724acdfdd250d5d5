CONSTANTS
    Callouts = {a, b}
    COTABSZ = 3
    CYCBUF_SIZE = 2
    MSECS = 2
    MAXLAG = 1
    Delays = {0, 1, 2}
    Mdelays = {0, 1}
    Copying = TRUE
    ClockBack = FALSE
    MaxSec = 4
SPECIFICATION FairSpec
INVARIANT WakesOnTime
PROPERTY EventuallyRun
