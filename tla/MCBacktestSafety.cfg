SPECIFICATION Spec
CONSTANTS
    Jobs = {j1}
    Workers = {w1, w2}
    Retriers = {}
    Dispatcher = Dispatcher
    None = None
    MaxAttempts = 2
    Cost = 2
    MaxCopies = 1
    Faults = {"crash", "connection", "transient", "duplicate", "cancel"}
SYMMETRY Symmetry
INVARIANT TypeOK
INVARIANT WaitsEnd
INVARIANT OneCurrentOwner
PROPERTY CancellationWins
PROPERTY StaleWritesOnlyRunning
PROPERTY JobServiceSpec
CHECK_DEADLOCK FALSE
