SPECIFICATION FairSpec
CONSTANTS
    HEARTBEAT_INTERVAL = 4
    HEARTBEAT_TIMEOUT = 12
    SOCKET_TIMEOUT = 10
    POLL = 1
    Latencies = {0, 1, 2, 3, 4, 5, 6, 7, 8, 9, 10}
    None = None
INVARIANTS TypeOK Accuracy DetectionBound
PROPERTY KeepsPromise
