SPECIFICATION OrdersSpec
CONSTANTS
    Keys = {k1}
    Entries = {}
    Requests = {r1, r2}
    Gateways = {g1}
    None = None
    Faults = {"crash", "database", "broker", "stray", "expiry"}
    EntryKeys = {e1, e2}
    Callers = {c1, c2}
    Polls = {p1, p2}
    Agents = {a1}
    NoPoll = NoPoll
    MaxCommands = 2
SYMMETRY Symmetry
VIEW Moving
INVARIANT OrdersTypeOK
INVARIANT SentAtMostOnce
INVARIANT SuccessIsDurable
INVARIANT EntryExecutedOnce
INVARIANT EntryTellsTruth
PROPERTY ServiceSpec
CHECK_DEADLOCK FALSE
