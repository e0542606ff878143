SPECIFICATION FairSpec
CONSTANTS
    Requests = {r1, r2, r3}
    Handlers <- MCHandlers
    MaxConns = 2
    MaxFaults = 1
INVARIANT NotCutOff
PROPERTY ShutdownEnds
\* The process has ended.
CHECK_DEADLOCK FALSE
