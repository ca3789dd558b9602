CONSTANTS
    Dumpers = {1, 2}
    Addresses <- MCAddresses
    Global <- MCGlobal
    Macs <- MCMacs
    Tables <- MCTables
SPECIFICATION Spec
INVARIANTS ReportsWanted MixedHostExplained
