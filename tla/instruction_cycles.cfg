\* The process may stop: -x is on, and a JR to itself exits.
SPECIFICATION Spec
CONSTANT ExitInfiniteLoop = TRUE
INVARIANTS TypeOK 
CHECK_DEADLOCK FALSE
