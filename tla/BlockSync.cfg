CONSTANTS
    Peers = {p1, p2}
    p1 = p1
    p2 = p2
    Chains <- MCChains
    Bad = {93}
    Start <- MCStart
    Window = 2
    ReplyLimit = 2
    MinPrefetch = 1
    MaxPerPeer = 2
    MaxInProgress = 2
    MaxPrefetch = 1
    RemoteStart <- MCRemoteStart
    MaxEvents = 2
    MaxLosses = 1
SPECIFICATION FairSpec
INVARIANTS RequestedOnce HandedOverInOrder
CHECK_DEADLOCK FALSE
PROPERTIES StallEnds DisconnectJustified
