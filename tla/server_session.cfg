SPECIFICATION SessionSpec
CONSTANTS
    lsp = lsp
    indexer = indexer
    Threads = {lsp, indexer}
    Packages = {p, q}
    Plan <- MCPlan
    Workers = {w1, w2}
    TotalFiles = 5
    ReportStep = 2
    MaxPanics = 1
INVARIANTS
    SessionInv
    EndMeansIndexed
PROPERTY IndexingEnds
CHECK_DEADLOCK FALSE
