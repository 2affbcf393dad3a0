SPECIFICATION Spec
CONSTANTS
    f = f
    g = g
    x = x
    Fns = {f}
    Names = {}
    NoFn = NoFn
    MaxStmts = 4
    MaxDepth = 4
INVARIANTS
    NothingWrittenAfterFailure
