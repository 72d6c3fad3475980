SPECIFICATION Spec
CONSTANTS
    a = a
    b = b
    NoFile = NoFile
    NoId = NoId
    NoThread = NoThread
    Paths = {p, q}
    EditedPaths = {p}
    ScannedPaths = {p, q}
    Names = {a, b}
    Contents <- SmallContents
    Editors = {lsp}
    Removers = {}
    Scanners = {scanner}
    Askers = {lsp}
    WritesPerPath = 2
    MaxAsks = 1
INVARIANT FileIdTable
INVARIANT RefsInBounds
INVARIANT AnswersAreOfTheAskedName
PROPERTY FileIdsStable
CHECK_DEADLOCK FALSE
