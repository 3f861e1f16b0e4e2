\* Two stations of this code, or one and a peer; two starts of the talker.
SPECIFICATION FairSpec
CONSTANTS
    n1 = n1
    n2 = n2
    n3 = n3
    p1 = p1
    None = None
    Node = {n1, n2, n3}
    Peer = {p1}
    Networks <- Pairs
    Pool <- ThreeAddresses
    Sources = 1
    PeerRange <- OneAddress
    Retransmits = 3
    MaxOrphans = 1
    MaxLosses = 1
    Talkers = {n3}
    MaxListeners = 2
    MaxTasks = 2
    MaxBoots = 1
INVARIANTS
    TimerOfState
    DefendsOnlyProbed
    ConnectedStreams
PROPERTIES
    SettlesApart
    FallsSilent
