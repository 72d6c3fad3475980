SPECIFICATION Spec
CONSTANTS
    x = x
    y = y
    Paths = {p, q}
    Words = {x, y}
    Texts <- MCTexts
    NoText = NoText
    NoCache = NoCache
    MaxScans = 2
    MaxEdits = 3
    MaxDiskChanges = 1
    MaxCrashes = 1
INVARIANTS
    ScanInv
PROPERTY PostingsExact
PROPERTY ManifestExact
CHECK_DEADLOCK FALSE
