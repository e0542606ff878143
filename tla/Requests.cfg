SPECIFICATION Spec
CONSTANTS
    Ids = {n1, n2}
    Keys = {k1}
    NoKey = NoKey
    Batches = {b1}
    NoBatch = NoBatch
    T = "sms-high"
    MainTopics = {"sms-high"}
    TopicOf <- MCTopicOf
    Workers = {w1}
    MaxFaults = 1
    MaxRetries = 1
    ClientSchedules = {"none"}
    ClientCancels = {}
SYMMETRY Symmetry
INVARIANT AcceptedIsKept
PROPERTY ImplementsLife
\* All requests answered and all messages committed: nothing is left to do.
CHECK_DEADLOCK FALSE
