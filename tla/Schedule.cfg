SPECIFICATION FairSpec
CONSTANTS
    Ids = {n1}
    Keys = {}
    NoKey = NoKey
    Batches = {b1}
    NoBatch = NoBatch
    T = "sms-high"
    MainTopics = {"sms-high"}
    TopicOf <- MCTopicOf
    Workers = {w1}
    MaxFaults = 1
    MaxRetries = 1
    ClientSchedules = {"none", "future", "due"}
    ClientCancels = {n1}
INVARIANTS NeverEarly AcceptedIsKept
PROPERTIES EffectiveCancel AcceptedResolved BatchResolved ImplementsLife
\* All requests answered and all messages committed: nothing is left to do.
CHECK_DEADLOCK FALSE
