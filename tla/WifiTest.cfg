CONSTANTS
    W = 8
    Leases <- MCLeases
    DhcpPrefixes <- MCDhcpPrefixes
    MaxStateChanges = 3
SPECIFICATION WSpec
INVARIANT TestMeansConnected
