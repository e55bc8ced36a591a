CONSTANTS
    b1 = b1
    b2 = b2
    b3 = b3
    NoUri = NoUri
    Brokers <- MCBrokers
    Category = "sensor"
    Latencies = {10, 90}
    Bandwidths = {0}
    ConnCounts = {0}
    MAX_QUEUE_SIZE = 1
    MaxMsg = 2
    MaxFaults = 1
    SlowConnects = TRUE

SPECIFICATION Spec

CHECK_DEADLOCK FALSE

INVARIANTS
    SentInPublishOrder
