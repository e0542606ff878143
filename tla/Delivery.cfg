SPECIFICATION Spec
CONSTANTS
    Ids = {n1}
    Keys = {}
    NoKey = NoKey
    Batches = {}
    NoBatch = NoBatch
    T = "sms-high"
    MainTopics = {"sms-high"}
    TopicOf <- MCTopicOf
    Workers = {w1, w2}
    MaxFaults = 1
    MaxRetries = 2
    ClientSchedules = {"none"}
    ClientCancels = {}
SYMMETRY Symmetry
INVARIANTS TypeOK NoSilentLoss DeadLetterEarned DeliveredIsSent SendsBounded
PROPERTY DeliveredIsFinal
\* All requests answered and all messages committed: nothing is left to do.
CHECK_DEADLOCK FALSE
