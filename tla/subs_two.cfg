SPECIFICATION Spec
CONSTANTS
    Conns = {c1, c2}
    Walkers = {w1}
    Subs = {s1}
    NoFd = NoFd
    NoSub = NoSub
    NoWalker = NoWalker
    InitSlots = 1
    GrowSlots = 1
    MaxSlots = 2
    MaxHeld = 2
SYMMETRY Symmetry
INVARIANTS TypeOK WellFormed UndefinedOnlyWhenFull
CHECK_DEADLOCK FALSE
