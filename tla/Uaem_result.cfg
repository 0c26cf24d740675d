SPECIFICATION UaemSpec
CONSTANTS
    Trees <- MCTrees
    LastYear = 1978
CHECK_DEADLOCK FALSE
INVARIANT EveryPartOrWarned
