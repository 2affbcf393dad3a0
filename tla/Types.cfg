SPECIFICATION Spec
CONSTANTS
    StructNames = {S}
    Unnamed = Unnamed
    ArraySizes = {2, 3}
    Tokens <- AllTokens
    MaxSpecs = 3
    Declared <- SomeLists
    MaxDerived = 3
    MaxParts = 1
INVARIANTS
    TypeOK
    SpecifiersAgree
    DeclaredMeaning
    OneObjectPerType
    NamesMatch
    StopExplained
CHECK_DEADLOCK FALSE
