SPECIFICATION ExFairSpec
CONSTANTS
    a1 = a1
    a2 = a2
    b1 = b1
    sEmpty = sEmpty
    sRead = sRead
    xStop = xStop
    NoThread = NoThread
    NoSem = NoSem
    Rules = {}
    Codes = {}
    MaxDepth = 1
    MaxCount = 2
    Thread <- ThreeThreads
    Started <- InOrder
    Receiver = b1
    Sem <- TwoSems
    SemEmpty = sEmpty
    SemRead = sRead
    MaxMsgs = 2
    Timer <- OneTimer
    StopTimer = xStop
    Limit = 0
INVARIANTS
    NoFault
    NoBug
    NoneWaitsInVain
    SendersNeverWait
PROPERTIES
    AllReceived
    StopEnds
