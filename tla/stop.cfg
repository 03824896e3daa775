SPECIFICATION Spec
CONSTANTS
    Handlers = {h1}
    Channels = {w1}
    Cells = {c1}
    MaxLost = 1
    None = None
INVARIANT UnloadedAlone
