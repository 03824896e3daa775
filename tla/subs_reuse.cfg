SPECIFICATION Spec
CONSTANTS
    Conns = {c1}
    Walkers = {w1, w2}
    Subs = {s1}
    NoFd = NoFd
    NoSub = NoSub
    NoWalker = NoWalker
    InitSlots = 3
    GrowSlots = 1
    MaxSlots = 3
    MaxHeld = 2
PROPERTY ServesOwnConnection
