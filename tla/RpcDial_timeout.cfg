SPECIFICATION DialFairSpec
CONSTANT Faults = TRUE
INVARIANT DialEndsWell
PROPERTY LateClientEnds
CHECK_DEADLOCK FALSE
