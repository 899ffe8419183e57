SPECIFICATION FairSpec
CONSTANTS
    t1 = t1
    t2 = t2
    s1 = s1
    x1 = x1
    NoThread = NoThread
    NoSem = NoSem
    Thread <- TwoThreads
    Sem <- OneSem
    Timer <- OneTimer
    Rules <- AllRules
    Codes <- OnlyTerminated
    MaxDepth = 2
    MaxCount = 1
PROPERTIES
    ImplementsScheduler
    ImplementsFairScheduler
