SPECIFICATION Spec
CONSTANTS
    Ids = {n1}
    Keys = {}
    NoKey = NoKey
    Batches = {}
    NoBatch = NoBatch
    T = "sms-high"
    MainTopics = {"sms-high"}
    TopicOf <- MCTopicOf
    Workers = {w1}
    MaxFaults = 1
    MaxRetries = 2
    ClientSchedules = {"none"}
    ClientCancels = {}
INVARIANT AtLeastOnce
\* All requests answered and all messages committed: nothing is left to do.
CHECK_DEADLOCK FALSE
