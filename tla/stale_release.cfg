CONSTANTS
    Objects = {a, b}
    Systems = {b}
    None = none
    MaxHandle = 2
    MaxCallouts = 3
    MaxReleases = 5
SPECIFICATION Spec
INVARIANT NoneWhileSuspended
CHECK_DEADLOCK FALSE
