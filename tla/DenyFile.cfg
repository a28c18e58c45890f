SPECIFICATION FilterSpec
CONSTANTS
    Patterns <- MCPatterns
    Names <- MCNames
    Trees <- MCTrees
    VSFTP_MATCHITERS_MAX = 3
INVARIANT DenyHolds
CHECK_DEADLOCK FALSE
