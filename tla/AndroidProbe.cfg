CONSTANTS
    MaxSessions = 1
    NumHosts = 3
    ScanThreads = 2
    Tiramisu = TRUE
    wlan = wlan
    eth = eth
    stray = stray
    Done = Done
    Wlan = wlan
    Addresses <- MCAddresses
    Neighbours <- MCNeighbours
    NoArp <- MCNoArp
    StaleEntries = {}
    PipeCapacity = 3
SPECIFICATION FairSpec
INVARIANTS TypeOK DoneMeansComplete NoDuplicateHost
PROPERTY ScanTerminates
