SPECIFICATION Spec
CONSTANTS
    host = host
    nbr = nbr
    remote = remote
    client = client
    p1 = p1
    p2 = p2
    p3 = p3
    NULL = NULL
    BROADCAST = BROADCAST
    Addr <- ThreeNodes
    PktId <- OnePacket
    Self = host
    SEQNO_MAX = 7
    RREQ_ID_MAX = 0
    HCNT_MAX = 255
    MAX_QUEUE_LENGTH = 2
    MAX_REPAIR_TTL = 10
    unidir_hack = FALSE
    local_repair = FALSE
    rreq_gratuitous = FALSE
    expanding_ring_search = TRUE
    optimized_hellos = FALSE
    receive_n_hellos = 0
    TTL_START = 2
    TTL_INCREMENT = 2
    TTL_THRESHOLD = 3
    NET_DIAMETER = 35
    LOCAL_ADD_TTL = 2
    RREQ_RETRIES = 1
    MAXTTL = 255
    WaitOnReboot = FALSE
    Received <- ZeroReceived
    Hellos <- BufferHellos
    Packets <- BufferPackets
    Lifetimes = {0, 1}
    MayRestart = FALSE
INVARIANTS
    NoImmortalEntry
