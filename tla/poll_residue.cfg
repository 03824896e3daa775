SPECIFICATION Spec
CONSTANTS
    NSubs = 1
    Subscriptions <- ShortChanged
    Addrs = {a}
    Pids = {"p"}
    NoPid = NoPid
    High = {0, 1}
    Low = {0, 1}
    TickMod = 4
    RemindAfter = 1
    MaxNet = 0
    None = None
INVARIANT NotifiedOfChanges
