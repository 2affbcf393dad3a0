SPECIFICATION Spec
CONSTANTS
    Macros = {m, k}
    Texts = {t}
    NoName = NoName
    MaxContexts = 5
    MaxStates = 6
    MaxText = 2
    m = m
    k = k
    t = t
SYMMETRY Symmetry
INVARIANTS
    TypeOK
    ReadsInnermost
    StatesFollowBuffers
    UnderflowExplained
    NothingLeftOver
PROPERTIES
    RegistrationSucceeds
    OnlyFirstMislocated
