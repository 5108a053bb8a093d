CONSTANTS
    n1 = n1
    n2 = n2
    c1 = c1
    c2 = c2
    w1 = w1
    w2 = w2
    Names <- MCNames
    Conns <- MCConns
    Workers <- MCWorkers
    MaxUid = 2
    MaxChannels = 2
    MaxMsgs = 2
    MaxTime = 0
    MaxRegs = 2
    HistoryLimit = 2
    AllowDbFailure = FALSE
    NoUser = NoUser
    NoHolder = NoHolder
    InitUsers <- MCBothUsers
    Beats <- MCBeats
    ChannelRequests <- MCDistinctPairs

SYMMETRY MCSymmetry

SPECIFICATION Spec

PROPERTY DirectChannelsSpec
