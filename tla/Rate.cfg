SPECIFICATION Spec
CONSTANTS
    Rates = {0, 1, 3}
    Workers = {w1}
    Priorities = {high, normal, low}
    MaxTime = 4
INVARIANTS AttemptsBounded RetriesBounded
PROPERTY NoOvertaking
\* The measurement ends at MaxTime.
CHECK_DEADLOCK FALSE
