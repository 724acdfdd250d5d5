CONSTANTS
    Objects = {a, b}
    Systems = {b}
    None = none
    MaxHandle = 2
    MaxCallouts = 3
    MaxReleases = 5
SPECIFICATION FairSpec
INVARIANTS ListSound Counted EnoughReleases
PROPERTY Released
CHECK_DEADLOCK FALSE
