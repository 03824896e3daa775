SPECIFICATION Spec
CONSTANTS
    NSubs = 1
    Subscriptions <- Everything
    Addrs = {a}
    Pids = {"p"}
    NoPid = NoPid
    High = {0, 1}
    Low = {0, 1}
    TickMod = 3
    RemindAfter = 1
    MaxNet = 0
    None = None
INVARIANTS TypeOK SilenceBounded ReminderRepeats ConditionsAsMeant
