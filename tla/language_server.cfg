SPECIFICATION Spec
CONSTANTS
    Paths <- MCPaths
    DepPaths = {"d"}
    Texts <- MCTexts
    Parse <- MCParse
    Disks <- MCDisks
    DepTexts <- MCDepTexts
    Similar <- MCSimilar
    Lowercase <- MCLowercase
    Absent = Absent
    None = None
    Panic = Panic
    HeaderReach = 2
    MaxItems = 2
    MaxEdits = 2
    MaxScans = 1
INVARIANTS
    ServerInv
    RangesCoverTheName
    NearerComesFirst
    HoverShowsTheIndexedText
    GotoIsPerWord
CHECK_DEADLOCK FALSE
