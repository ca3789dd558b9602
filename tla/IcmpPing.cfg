CONSTANTS
    MaxReplies = 2
    me = me
    other = other
    Me = me
    Children = {me, other}
    MaxEvents = 1
SPECIFICATION PSpec
INVARIANTS SecondResumeExplained VerdictExplained
PROPERTIES AlwaysResumed EveryLookupReturns
