CONSTANTS
    t1 = t1
    t2 = t2
    t3 = t3
    p1 = p1
    p2 = p2
    Tasks = {t1, t2, t3}
    Ports = {p1, p2}
    NoPort = NoPort
    Address <- MCAddress
SPECIFICATION FairSpec
INVARIANTS TypeOK WrongMdnsNameExplained WrongNetBIOSNameExplained OpenSocketExplained
PROPERTY EveryCallReturns
