CONSTANTS
    MaxSessions = 2
    NumHosts = 1
    ScanThreads = 1
    Tiramisu = FALSE
    wlan = wlan
    eth = eth
    stray = stray
    Done = Done
    Wlan = wlan
    Addresses <- MCAddresses
    Neighbours <- MCNeighbours
    NoArp <- MCNoArp
    StaleEntries = {}
    PipeCapacity = 1
SPECIFICATION FairSpec
INVARIANTS OneLiveScan DoneMeansComplete
PROPERTIES NoNewWorkAfterStop ImplementsScanStream DoneDelivered
