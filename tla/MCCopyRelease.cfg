SPECIFICATION CopySpec
CONSTANTS
 Targets = {t1}
 CTraderKeyed = {}
 Runner = Runner
 Worker = Worker
 NoDispatcher = NoDispatcher
 MaxPasses = 2
INVARIANT ReservationProtects
CHECK_DEADLOCK FALSE
