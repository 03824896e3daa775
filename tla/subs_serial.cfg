SPECIFICATION FairSerialSpec
CONSTANTS
    Conns = {c1, c2}
    Walkers = {w1}
    Subs = {s1, s2}
    NoFd = NoFd
    NoSub = NoSub
    NoWalker = NoWalker
    InitSlots = 3
    GrowSlots = 1
    MaxSlots = 3
    MaxHeld = 2
INVARIANTS HeldIsLive LeavesNothing TableBounded MissesNothing
PROPERTIES ImplementsRegistry Departs Answered WalkerEnds
