CONSTANT W = 8
SPECIFICATION PlanSpec
INVARIANTS AndroidVisitsSubnet IosVisitsSubnet AndroidThrowsAtTheEdges
