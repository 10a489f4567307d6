SPECIFICATION Spec
CONSTANTS
    Jobs = {j1}
    Workers = {w1}
    Retriers = {r1}
    Dispatcher = Dispatcher
    None = None
    MaxAttempts = 2
    Cost = 2
    MaxCopies = 1
    Faults = {}
INVARIANT DispatchedIsInQueue
CHECK_DEADLOCK FALSE
