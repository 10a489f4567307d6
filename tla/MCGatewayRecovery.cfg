SPECIFICATION FairSpec
CONSTANTS
    Keys = {k1}
    Entries = {k1}
    Requests = {r1}
    Gateways = {g1, g2}
    None = None
    Faults = {"crash", "redis", "database", "broker", "stray", "expiry", "deadline"}
CONSTRAINT Unsettled
PROPERTY RequestsAcked
CHECK_DEADLOCK FALSE
