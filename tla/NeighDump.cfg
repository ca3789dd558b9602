CONSTANTS
    d1 = d1
    d2 = d2
    host = host
    multicast = multicast
    Dumpers <- MCDumpers
    Table <- MCTable
    NoArp <- MCNoArp
    Times = {1, 2}
    PipeLines <- MCPipeLines
SPECIFICATION FairSpec
INVARIANTS SoloDumpComplete ExitExplained DescriptorsReturned
PROPERTY SoloDumpReturns
