SPECIFICATION FairSpec
CONSTANTS
    NSubs = 1
    Subscriptions <- Lasting
    Addrs = {a}
    Pids = {"p"}
    NoPid = NoPid
    High = {0, 1}
    Low = {0}
    TickMod = 2
    RemindAfter = 0
    MaxNet = 1
    None = None
PROPERTIES ClientLearns FreezeRestores StatusAnnounced
