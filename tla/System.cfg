SPECIFICATION SysFairSpec
CONSTANTS
    t1 = t1
    t2 = t2
    x1 = x1
    Off = Off
    Thread <- TwoThreads
    Timer <- AllTimers
    Modulus = 8
    Delays <- ShortOrLong
    Elapsed <- Words
    Rules <- AllRules
    MaxDepth = 1
    MaxWork = 2
INVARIANTS
    TimesAgree
    NothingMissed
PROPERTIES
    Punctual
    ThreadsGoOn
