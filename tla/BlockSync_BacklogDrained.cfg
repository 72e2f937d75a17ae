CONSTANTS
    Peers = {p1}
    p1 = p1
    p2 = p2
    Chains <- MCTwoChains
    Bad = {}
    Start <- MCStart
    Window = 2
    ReplyLimit = 2
    MinPrefetch = 1
    MaxPerPeer = 2
    MaxInProgress = 2
    MaxPrefetch = 1
    RemoteStart <- MCRemoteBehind
    MaxEvents = 3
    MaxLosses = 0
SPECIFICATION FairSpec
CHECK_DEADLOCK FALSE
PROPERTY BacklogDrained
