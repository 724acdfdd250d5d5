CONSTANTS
    Objects = {a, b}
    Vars = {x}
    Lists <- OneList
    MaxArrays = 2
    MaxOps = 3
    MaxEntered = 2
    Fragment = FALSE
SPECIFICATION Spec
SYMMETRY ObjectSets
\* The bounds end every behaviour: all operations are used up, and no thread runs.
CHECK_DEADLOCK FALSE
INVARIANTS ArraysSound CountsRight Apart
PROPERTIES ValuesKept Undone
