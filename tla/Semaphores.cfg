SPECIFICATION MCSpec
CONSTANTS
    t1 = t1
    t2 = t2
    sem = sem
    xPeriod = xPeriod
    xStop = xStop
    NoThread = NoThread
    NoSem = NoSem
    Rules = {}
    Codes = {}
    MaxDepth = 2
    MaxCount = 3
    StopsBetweenReads = TRUE
    Thread <- TwoThreads
    Started <- InOrder
    Sem <- OneSem
    TheSem = sem
    Timer <- TwoTimers
    Period = xPeriod
    StopTimer = xStop
INVARIANTS
    BytesKept
PROPERTIES
    TokensComing
    ReadsEnd
