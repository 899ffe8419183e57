SPECIFICATION TestFairSpec
CONSTANTS
    b1 = b1
    c1 = c1
    c2 = c2
    sEmpty = sEmpty
    sRead = sRead
    xStop = xStop
    NoThread = NoThread
    NoSem = NoSem
    Rules = {}
    Codes = {}
    MaxDepth = 1
    MaxCount = 3
    Thread <- ThreeThreads
    Started <- InOrder
    Receiver = b1
    Children <- TwoChildren
    Rounds = 1
    StopEvery = 2
    Sem <- TwoSems
    SemEmpty = sEmpty
    SemRead = sRead
    MaxMsgs = 3
    Timer <- OneTimer
    StopTimer = xStop
    Limit <- Forever
INVARIANTS
    StopLosesOne
PROPERTIES
    SlotsCome
