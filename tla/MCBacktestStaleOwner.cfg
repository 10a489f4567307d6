SPECIFICATION Spec
CONSTANTS
    Jobs = {j1}
    Workers = {w1, w2}
    Retriers = {r1}
    Dispatcher = Dispatcher
    None = None
    MaxAttempts = 2
    Cost = 2
    MaxCopies = 1
    Faults = {"connection", "duplicate", "permanent"}
SYMMETRY Symmetry
PROPERTY StaleOwnerNeverOverwrites
CHECK_DEADLOCK FALSE
