SPECIFICATION FairSpec
CONSTANTS
    Ids = {n1, n2}
    Workers = {w1, w2}
    Partitions = {p1, p2}
    MaxRetries = 3
    BaseRetryDelay = 2
    Second = 2
    MaxFaults = 1
PROPERTIES BackoffAlmostKept DelaysGrow EveryRetryAttempted
