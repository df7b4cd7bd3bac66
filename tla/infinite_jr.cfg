\* The process stops at the exit of -x.
SPECIFICATION Spec
CONSTANT ExitInfiniteLoop = TRUE
INVARIANT StopsOnlyInLoop
CHECK_DEADLOCK FALSE
