SPECIFICATION Spec
CONSTANTS
    Arguments <- MCArguments
    MaxArgs = 4
INVARIANT CommandHonoured
CHECK_DEADLOCK FALSE
