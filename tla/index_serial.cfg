SPECIFICATION Spec
CONSTANTS
    a = a
    b = b
    NoFile = NoFile
    NoId = NoId
    NoThread = NoThread
    Paths = {p, q}
    EditedPaths = {p, q}
    ScannedPaths = {p, q}
    Names = {a, b}
    Contents <- MCContents
    Editors = {lsp}
    Removers = {lsp}
    Scanners = {lsp}
    Askers = {lsp}
    WritesPerPath = 2
    MaxAsks = 2
INVARIANTS
    TypeOK
    FuzzyComplete
PROPERTY PromiseKept
CHECK_DEADLOCK FALSE
