SPECIFICATION Spec
CONSTANTS
    Settings <- MCSettings
    CALLBACK_FUNCS = 5
    MAX_NR_INTERFACES = 10
    MaxFd = 22
    MaxLeaks = 2
    RATELIMIT = 3
    SECOND = 3
    MaxClock = 5
INVARIANTS
    TypeOK
    EachReadsItsOwn
    TimersNeverRunOut
    
    HandlesLive
    NoMoreThanLimit
    DroppedForOwnKind
PROPERTY
    SignalEnds
