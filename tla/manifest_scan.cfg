SPECIFICATION Spec
CONSTANTS
    parent = parent
    child = child
    p = p
    q = q
    Paths = {q}
    Contents = {x, y}
    Processes = {s1, s2}
    Worktrees = {parent, child}
    Under <- Nested
    Versions = {v1, v2}
    NoFile = NoFile
    None = None
    MaxWrites = 1
    MaxScans = 2
    MaxCrashes = 1
INVARIANT TypeOK
INVARIANT ScanIsRegular
INVARIANT RowsAreTruthful
INVARIANT RowsHaveUnits
SYMMETRY Symmetry
CHECK_DEADLOCK FALSE
