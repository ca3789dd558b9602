CONSTANTS
    MaxSessions = 2
    NumHosts = 2
    ScanThreads = 2
    PoolSize = 2
    BodyNull = BodyNull
    StopNull = StopNull
SPECIFICATION FairSpec
INVARIANTS TypeOK OneLiveScan NullEvents
PROPERTIES NoNewWorkAfterStop ScanTerminates NullDelivered
