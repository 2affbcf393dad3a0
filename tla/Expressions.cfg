SPECIFICATION FairSpec
CONSTANTS
    x = x
    g = g
    Vars = {x}
    Globals = {g}
    NoVar = NoVar
    W = 3
    B = 2
    Literals = {2, 5}
    Chars <- SomeChars
    InitVals = {0, 5}
    MaxCost = 6
    CoreOps = {"!", "&&", "<", "++", "func"}
    MaxStmts = 1
INVARIANTS TypeOK AgreesWithC CrashExplained RejectionExplained
PROPERTIES LoweringEnds
CHECK_DEADLOCK FALSE
