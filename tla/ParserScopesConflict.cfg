SPECIFICATION HSpec
SYMMETRY Symmetry
CONSTANTS
    x = x
    f = f
    ft1 = ft1
    ft2 = ft2
    Names = {x, f}
    NoName = NoName
    FunctionTypes = {ft1, ft2}
    ObjectType = ObjectType
    NoEntry = NoEntry
    MaxCtx = 5
    MaxParams = 2
    MaxDecls = 5
    ForLoops = FALSE
    SyntaxErrors = FALSE
INVARIANTS
    ConflictReported
