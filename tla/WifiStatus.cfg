CONSTANTS
    MaxStreams <- MCStreams
    MaxChanges <- MCChanges
SPECIFICATION Spec
INVARIANT MonitorFollowsHandler
PROPERTY StatusSettles
