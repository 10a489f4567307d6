SPECIFICATION FairSpec
CONSTANTS
    Jobs = {j1}
    Workers = {w1}
    Retriers = {r1}
    Dispatcher = Dispatcher
    None = None
    MaxAttempts = 2
    Cost = 2
    MaxCopies = 1
    Faults = {"crash", "connection", "transient", "permanent", "broker", "duplicate", "cancel", "claim"}
PROPERTY RunningEnds
CHECK_DEADLOCK FALSE
