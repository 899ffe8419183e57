SPECIFICATION FairSpec
CONSTANTS
    x1 = x1
    x2 = x2
    x3 = x3
    Off = Off
    Timer <- ThreeTimers
    Modulus = 4
    Delays <- AnyDelay
    Elapsed <- AnyDiff
    Rules <- AllRules
    MaxDepth = 2
INVARIANTS
    TypeOK
PROPERTIES
    ImplementsAlarm
    TickEnds
