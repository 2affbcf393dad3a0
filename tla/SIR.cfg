SPECIFICATION Spec
CONSTANTS
    Names <- MCNames
    Units <- MCUnits
    Trees <- MCTrees
    Inputs <- MCInputs
    FuncOrder <- MCFuncOrder
    CharValue = 9
    MaxTurns = 8
    MaxSteps = 120
INVARIANTS TypeOK BuilderAgrees LabelsResolve StopExplained
PROPERTIES OptimizerAgrees
CHECK_DEADLOCK FALSE
