CONSTANTS
    a = a
    b = b
    Objects = {a, b}
    MaxHandle = 2
    MaxLevel = 2
    Callouts <- FirstMore
    COTABSZ = 2
    CYCBUF_SIZE = 2
    MSECS = 1
    MAXLAG = 1
    Delays = {3, 4}
    Vals = {x}
SPECIFICATION ASpec
INVARIANT AtomicSound
PROPERTY ImplementsAtomic
