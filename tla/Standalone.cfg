SPECIFICATION MCSpec
CONSTANTS
    h1 = h1
    h2 = h2
    e1 = e1
    e2 = e2
    e3 = e3
    a1 = a1
    b1 = b1
    b1a1 = b1a1
    x = x
    y = y
    None = None
    w = w
    r = r
    p = p
    a = a
    b = b
    Space = Space
    Newline = Newline
    Byte = {x, y}
    Size = 4
    MaxBatch = 2
    Modulus = 16
    Build = "wraps"
    Idx = {0}
    TestIdx = 0
    Timeouts = {0, 2, 7}
    TestTimeout = 5
    Offsets <- ThreeOffsets
    ListHead <- TwoHeads
    Elem <- ThreeElems
    Program <- Everything
INVARIANTS
    DueInTime
    TokensAreWords
PROPERTIES
    ImplementsRings
    SafeLoop
    ImplementsCoroutine
    DelaysEndInTime
    ImplementsFifo
    CommandsInTurn
