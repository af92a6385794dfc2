SPECIFICATION Spec
CONSTANTS
    NULL = NULL
    host = host
    a = a
    b = b
    bcast = bcast
    p1 = p1
    p2 = p2
    wlan = wlan
    eth = eth
    Devices = {wlan}
    d1 = d1
    d2 = d2
    Packets <- TwoPackets
    Kinds <- TheKinds
    IfAddr = host
    Broadcasts = {bcast}
    ifname <- Named
    Daemons <- TwoDaemons
    Messages <- TheMessages
    MayFail = {TRUE, FALSE}
    EXPL_MAX_LEN = 2
    MaxLens = {1, 2}
    MTU = 100
    MIN_IP_ENCAP_SIZE = 8
    JIFFIES_MOD = 3
    MaxTicks = 1
    MaxMessages = 2
    MaxLoads = 1
SYMMETRY MCSymmetry
INVARIANTS
    
    CountersCoverTheLists
    HeldIsQueued
    
    
PROPERTIES
    
    BuffersInOrder
CHECK_DEADLOCK FALSE
