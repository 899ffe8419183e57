SPECIFICATION Spec
CONSTANTS
    t1 = t1
    t2 = t2
    s1 = s1
    x1 = x1
    NoThread = NoThread
    NoSem = NoSem
    Thread <- TwoThreads
    Sem <- OneSem
    Timer <- OneTimer
    Rules <- AllRules
    Codes <- AllCodes
    MaxDepth = 3
    MaxCount = 2
INVARIANTS
    TypeOK
    Placement
    WaitersBlocked
    NoLostWakeup
    NoReentrance
    CurrentIsExecuting
    NoFault
PROPERTIES
    IdleMeansBlocked
SYMMETRY ThreadSymmetry
