SPECIFICATION ServicesSpec
SYMMETRY Symmetry
VIEW Moving
CONSTANTS
 Jobs = {j1}
 Funded = {f1}
 Runners = {r1, r2}
 Submitters = {q1}
 Admins = {a1}
 NoTx = NoTx
 Quota = 2
 Cost = 3
 Opening = 2
 Amount = 2
 MaxCycle = 2
 MaxClaims = 2
 MaxTopUps = 1
 Targets = {t1, t2}
 CTraderKeyed = {t2}
 Runner = Runner
 Worker = Worker
 NoDispatcher = NoDispatcher
 MaxPasses = 2
 Providers = {"CTRADER", "TRADELOCKER", "MT5"}
 Handlers = {h1}
 InitialSize = 12
 MinSize = 3
 LotStep = 2
 Percent = 50
 NoPlan = NoPlan
 MaxCalls = 2
 Deliveries = {d1, d2}
 Senders = {w1, w2}
 MaxDeliveryAttempts = 3
 Kinds = {"CROSSING_UP", "ENTERING_ZONE"}
 Prices = {1, 2, 3, 4}
 Targets0 = {2, 3}
 ZoneWidth = 1
 ApproachDistance = 1
 RearmDistance = 1
 NoPrice = NoPrice
 MaxEdits = 2
 StreamWorkers = {s1, s2}
 Scheduler = Scheduler
 OnceCalls = {o1}
 NoRunner = NoRunner
 Sides = {"BUY"}
 MaxCandle = 2
 Feeds = {f1, f2}
 Configured = {f1}
 Ranges <- AskedRanges
 FirstClosed = 2
 Historians = {h1}
 FeedAdmins = {a1}
 Overlap = 0
 PageSpan = 1
 MaxPages = 2
 MaxFeedRuns = 2
 MaxFeedCalls = 2
 MaxFeedFailures = 1
 MaxTime = 3
 DailyFeeds = {f1, f2}
 DailyDispatchers = {x1, x2}
 MaxDispatches = 3

INVARIANT ServicesTypeOK
INVARIANT WalletMatchesLedger
INVARIANT NoOverdraft
INVARIANT JobChargedOnce
INVARIANT QuotaConserved
INVARIANT DueRefilledOnce
INVARIANT SentAgainOnlyIfReleased
INVARIANT SentIsBlocking
INVARIANT ExitedOnce
INVARIANT DoneIsExecuted
INVARIANT NotifiedOnce
INVARIANT DeliveryTellsTruth
INVARIANT FollowsPrices
INVARIANT OnePerArming
INVARIANT EntryPlacedOnce
INVARIANT PlacedIsRecorded
INVARIANT CursorWasEvaluated
INVARIANT FeedHasNoHole
INVARIANT OneSource
INVARIANT DailyRunIsSent
PROPERTY AckedIsSettled
CHECK_DEADLOCK FALSE
