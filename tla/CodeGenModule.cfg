SPECIFICATION Spec
SYMMETRY Symmetry
CONSTANTS
    f = f
    g = g
    x = x
    Fns = {f, g}
    Names = {x}
    NoFn = NoFn
    MaxStmts = 5
    MaxDepth = 5
INVARIANTS
    TypeOK
    ModuleComplete
    NamesResolve
