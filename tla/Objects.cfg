SPECIFICATION ObjSpec
CONSTANTS
    t1 = t1
    t2 = t2
    s1 = s1
    x1 = x1
    x2 = x2
    shot = shot
    NoThread = NoThread
    NoSem = NoSem
    Thread <- Threads
    Sem <- Sems
    Timer <- Timers
    OneShot <- OneShots
    Rules <- AllRules
    LifeRules <- AllLifeRules
    Codes <- NoCodes
    MaxDepth = 2
    MaxCount = 1
INVARIANTS
    NoDangling
    NoneLeaked
SYMMETRY ObjectSymmetry
