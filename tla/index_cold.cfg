SPECIFICATION FairSpec
CONSTANTS
    a = a
    b = b
    NoFile = NoFile
    NoId = NoId
    NoThread = NoThread
    Paths = {p, q}
    EditedPaths = {p, q}
    ScannedPaths = {p, q}
    Names = {a, b}
    Contents <- MCContents
    Editors = {lsp}
    Removers = {}
    Scanners = {scanner}
    Askers = {lsp}
    WritesPerPath = 1
    MaxAsks = 1
INVARIANT IndexIsExact
PROPERTY OperationsFinish
CHECK_DEADLOCK FALSE
