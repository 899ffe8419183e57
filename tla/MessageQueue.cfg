SPECIFICATION MQSpec
CONSTANTS
    t1 = t1
    t2 = t2
    t3 = t3
    sEmpty = sEmpty
    sRead = sRead
    m1 = m1
    m2 = m2
    NoSem = NoSem
    NoMsg = NoMsg
    Garbage = Garbage
    Thread <- ThreeThreads
    Sem <- TwoSems
    SemEmpty = sEmpty
    SemRead = sRead
    MaxMsgs = 2
    MaxCount = 1
    Msg <- TwoMessages
    Codes <- AnyCode
    Rules <- AllRules
INVARIANTS
    NoSlotLost
PROPERTIES
    ImplementsMailbox
SYMMETRY Symmetry
