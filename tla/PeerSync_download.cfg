SPECIFICATION FairSpec
CONSTANTS
    Peer = {"r", "u"}
    Reliable = {"r"}
    Silent = {}
    Forgetful = {"u"}
    Header <- Letters
    Block <- Switching
    Invalid <- BadOnes
    PeerStarts <- StartApart
    UndoDepth = 2
    BatchIds = 2
    MinIds = 3
    MaxPerPeer = 1
    MaxHandled = 1
    MaxPrefetch = 1
    MaxConnects = 1
INVARIANTS RequestsSound ListsSound
PROPERTIES LonePeerIsFollowed
CHECK_DEADLOCK FALSE
