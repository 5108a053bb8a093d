CONSTANTS
    n1 = n1
    n2 = n2
    c1 = c1
    c2 = c2
    w1 = w1
    w2 = w2
    Names <- MCNames
    Conns <- MCConns1
    Workers <- MCWorkers
    MaxUid = 2
    MaxChannels = 2
    MaxMsgs = 2
    MaxTime = 1
    MaxRegs = 1
    HistoryLimit = 2
    AllowDbFailure = TRUE
    NoUser = NoUser
    NoHolder = NoHolder
    InitUsers <- MCInitUsers
    Beats <- MCBeats
    ChannelRequests <- MCAllPairs


SPECIFICATION FairSpec
INVARIANT OneChannelPerPair
INVARIANT DeliveryInStoreOrder
PROPERTY DbMutexReleased
