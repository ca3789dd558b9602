CONSTANTS
    t1 = t1
    t2 = t2
    t3 = t3
    Tasks = {t1, t2, t3}
    Address <- MCAddress
SPECIFICATION FairSpec
INVARIANTS TypeOK WrongNameExplained LeftoversExplained
PROPERTY EveryResolutionReturns
