SPECIFICATION Spec
CONSTANTS
    Names = {"a", "b"}
    Keys <- MCKeys
    Exprs <- MCExprs
    Paths <- MCPaths
    MaxStmts = 4
    Careful = FALSE
PROPERTY ByValue
CHECK_DEADLOCK FALSE
