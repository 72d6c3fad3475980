SPECIFICATION Spec
CONSTANTS
    x = x
    y = y
    Paths = {p, q}
    Words = {x, y}
    Texts <- MCTexts
    NoText = NoText
    NoCache = NoCache
    MaxScans = 1
    MaxEdits = 2
    MaxDiskChanges = 0
    MaxCrashes = 0
INVARIANT OverlayWins
CHECK_DEADLOCK FALSE
