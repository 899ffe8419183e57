SPECIFICATION Spec
CONSTANTS
    t1 = t1
    t2 = t2
    s1 = s1
    x1 = x1
    NoThread = NoThread
    NoSem = NoSem
    Thread <- TwoThreads
    Sem <- OneSem
    Timer <- OneTimer
    Rules <- ButLeftAlone
    Codes <- AllCodes
    MaxDepth = 2
    MaxCount = 2
INVARIANTS
    NoFault
