SPECIFICATION ReachSpec
CONSTANTS
    Fns = {f}
    Names = {}
    NoFn = NoFn
    MaxStmts = 7
    MaxDepth = 6
INVARIANTS
    InsertPointFollowsSource
PROPERTIES
    RejectionHasReason
