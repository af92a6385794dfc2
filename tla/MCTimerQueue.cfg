SPECIFICATION FairSpec
CONSTANTS
    t1 = t1
    t2 = t2
    t3 = t3
    NULL = NULL
    Timer <- MCTimer
    Delays <- MCDelays
    MS = 2
    MaxClock = 4
    MaxSets = 3
INVARIANTS
    TypeOK
    UsedIffLinkedOnce
    OrderedToTheMillisecond
    NoOverdueTimerLeft
    NeverEarlyByAMillisecond
    
PROPERTY EveryTimerIsServed
