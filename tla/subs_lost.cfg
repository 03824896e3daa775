SPECIFICATION Spec
CONSTANTS
    Conns = {c1, c2}
    Walkers = {w1}
    Subs = {s1}
    NoFd = NoFd
    NoSub = NoSub
    NoWalker = NoWalker
    InitSlots = 3
    GrowSlots = 1
    MaxSlots = 3
    MaxHeld = 1
SYMMETRY Symmetry
INVARIANT HeldIsLive
CHECK_DEADLOCK FALSE
