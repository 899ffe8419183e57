SPECIFICATION Spec
CONSTANTS
    x1 = x1
    x2 = x2
    x3 = x3
    Off = Off
    Timer <- TwoTimers
    Modulus = 8
    Delays <- PositiveDelay
    Elapsed <- PositiveDiff
    Rules <- ButDestroyIdle
    MaxDepth = 1
PROPERTIES
    ImplementsAlarm
