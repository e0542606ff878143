SPECIFICATION Spec
CONSTANTS
    Ids = {n1}
    Keys = {}
    NoKey = NoKey
    Batches = {}
    NoBatch = NoBatch
    T = "sms-high"
    MainTopics = {"sms-high"}
    TopicOf <- MCTopicOf
    Workers = {w1}
    MaxFaults = 0
    MaxRetries = 1
    ClientSchedules = {"future"}
    ClientCancels = {}
PROPERTY DeliveredIsLast
\* All requests answered and all messages committed: nothing is left to do.
CHECK_DEADLOCK FALSE
