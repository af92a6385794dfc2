CONSTANTS
    NULL = NULL
    self = self
    bcast = bcast
    nbr = nbr
    far = far
    web = web
    p1 = p1
    p2 = p2
    Self = self
    AODV_BROADCAST = bcast
    Addr = {nbr, far}
    Inet = {web}
    Routes <- MCRoutes
    Data = {p1, p2}
    Control = {c1}
    MAX_QUEUE_LENGTH = 2
    MAX_QUEUE_TIME = 0
    MAX_REPAIR_TTL = 2
    qlim = 3
    InitTTL = 2
    Settings <- MCSettings
SPECIFICATION Spec
INVARIANTS
    TypeOK
    PacketsInOnePlace
    
PROPERTIES
    SentOnAValidRoute
    SearchEndsCleanly
    BuffersInOrder
    BufferDrains
