SPECIFICATION Spec
CONSTANTS
    Macros = {m, k}
    Texts = {t}
    NoName = NoName
    MaxContexts = 3
    MaxStates = 4
    MaxText = 1
    m = m
    k = k
    t = t
PROPERTIES
    MacroIsReplaced
