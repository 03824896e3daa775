SPECIFICATION FairSpec
CONSTANTS
    Handlers = {h1, h2}
    Channels = {w1, w2}
    Cells = {c1, c2}
    MaxLost = 1
    None = None
INVARIANTS
    TypeOK
    DescLives
    SocketsAccounted
    UnloadsUnused
PROPERTIES
    Reclaimed
    ListensAgain
