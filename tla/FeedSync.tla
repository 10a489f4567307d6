------------------------------ MODULE FeedSync ------------------------------
(***************************************************************************)
(* Broker history of one instrument and timeframe: feeds (an account's     *)
(* symbol each), the runs that fetch their candles page by page and insert *)
(* those the backtests' table has not (daily_tasks.py, daily_sync.py,      *)
(* feed_publish.py), and the administrator's requests                      *)
(* (admin_market_data_sync.py).  A run keeps the configuration read when   *)
(* it was taken: the sessions do not expire their rows at a commit.        *)
(***************************************************************************)
EXTENDS Integers

CONSTANTS
    Feeds,
    Configured,    \* feeds with an initial_start
    Ranges,        \* ranges that a manual fetch asks for
    FirstClosed,   \* candles that are closed at the start
    Historians,    \* processes of the history worker
    FeedAdmins,    \* administrators' calls at one time
    Overlap,       \* candles before the newest that a run fetches again
    PageSpan,      \* candles of a page (two days; a page of a publication)
    MaxPages,      \* MARKET_DATA_SYNC_MAX_WINDOWS
    MaxFeedRuns,   \* bound: rows of market_data_sync_runs
    MaxFeedCalls,  \* bound: administrators' calls
    MaxFeedFailures,   \* bound: processes that die, exceptions
    MaxTime        \* bound: closed candles

ASSUME FeedAssumption ==
    /\ Configured \subseteq Feeds /\ Ranges \subseteq (1..MaxTime) \X (1..MaxTime)
    /\ Overlap \in Nat /\ PageSpan \in Nat \ {0} /\ MaxPages \in Nat \ {0}
    /\ PageSpan * MaxPages > Overlap + 1
    /\ MaxFeedRuns \in Nat /\ MaxFeedCalls \in Nat /\ MaxFeedFailures \in Nat /\ MaxTime \in Nat
    /\ FirstClosed \in 0..MaxTime

Times    == 1..MaxTime
FeedRuns == 1..MaxFeedRuns

VARIABLES
    closed,      \* candles of the timeframe that are closed
    config,      \* rows of market_data_sync_configs
    feedRun,     \* rows of market_data_sync_runs
    feedTasks,   \* runs with a message in the queue or at a worker
    historian,   \* what each worker has in hand
    feedAdmin,   \* what each call has in hand
    fetched,     \* market_data_feed_candles, by feed
    canonical,   \* market_data: the source a candle came from
    omitted,     \* history: candles an answer lacked or a range left out
    crossed,     \* history: a feed was approved beside candles of another source
    feedCalls,   \* the number of administrators' calls, for its bound
    feedFailures \* the number of failures, for its bound

feedRows     == <<config, feedRun>>
feedEvents   == <<feedCalls, feedFailures>>
feedCandles  == <<fetched, canonical, omitted>>
feedSyncVars == <<closed, feedRows, feedTasks, historian, feedAdmin, feedCandles,
                  crossed, feedEvents>>

FeedConfigs == [enabled : BOOLEAN, archived : BOOLEAN, primary : BOOLEAN, approved : BOOLEAN,
                busy : BOOLEAN]      \* busy: last_status is QUEUED or RUNNING
NoFeedRun   == [status |-> "none"]
FeedRunRows ==
    [feed : Feeds, kind : {"daily", "now", "range", "publish"},
     status : {"QUEUED", "RUNNING", "ENDED", "DISABLED"},
     from : 0..MaxTime, to : 0..MaxTime]   \* 0: no range requested
Resting  == [at |-> "idle"]
NoSource == "none"
Legacy   == "legacy"

FeedTypeOK ==
    /\ closed \in 0..MaxTime
    /\ config \in [Feeds -> FeedConfigs]
    /\ feedRun \in [FeedRuns -> FeedRunRows \cup {NoFeedRun}]
    /\ feedTasks \subseteq FeedRuns
    /\ historian \in [Historians ->
           {Resting} \cup [at : {"claiming"}, run : FeedRuns, runs : BOOLEAN, publishes : BOOLEAN]
           \cup [at : {"begun"}, run : FeedRuns, publishes : BOOLEAN]
           \cup [at : {"syncing"}, run : FeedRuns, publishes : BOOLEAN, cursor : 1..(MaxTime + 1),
                 expected : 0..MaxTime, pages : 0..MaxPages]
           \cup [at : {"publishing"}, run : FeedRuns, cursor : 0..MaxTime]]
    /\ feedAdmin \in [FeedAdmins ->
           {Resting} \cup [at : {"admitted"}, feed : Feeds]
           \cup [at : {"posting"}, run : FeedRuns, prior : BOOLEAN]
           \cup [at : {"choosing"}, feed : Feeds, empty : BOOLEAN]]
    /\ fetched \in [Feeds -> SUBSET Times] /\ omitted \in [Feeds -> SUBSET Times]
    /\ canonical \in [Times -> Feeds \cup {NoSource, Legacy}]
    /\ crossed \in BOOLEAN /\ feedCalls \in 0..MaxFeedCalls
    /\ feedFailures \in 0..MaxFeedFailures

FeedInit ==
    /\ closed = FirstClosed
    /\ config = [f \in Feeds |-> [enabled |-> TRUE, archived |-> FALSE, primary |-> FALSE,
                                  approved |-> FALSE, busy |-> FALSE]]
    /\ feedRun = [i \in FeedRuns |-> NoFeedRun] /\ feedTasks = {}
    /\ historian = [h \in Historians |-> Resting]
    /\ feedAdmin = [a \in FeedAdmins |-> Resting]
    /\ fetched = [f \in Feeds |-> {}] /\ omitted = [f \in Feeds |-> {}]
    /\ \/ canonical = [t \in Times |-> NoSource]
       \/ canonical = [t \in Times |-> IF t = 1 THEN Legacy ELSE NoSource]
    /\ crossed = FALSE /\ feedCalls = 0 /\ feedFailures = 0

CloseCandle ==
    /\ closed < MaxTime /\ closed' = closed + 1
    /\ UNCHANGED <<feedRows, feedTasks, historian, feedAdmin, feedCandles, crossed, feedEvents>>

\* The next row of the table.
NewRun(i, f, kind, from, to) ==
    /\ feedRun[i] = NoFeedRun /\ \A j \in FeedRuns : j < i => feedRun[j] # NoFeedRun
    /\ feedRun' = [feedRun EXCEPT ![i] =
            [feed |-> f, kind |-> kind, status |-> "QUEUED", from |-> from, to |-> to]]

-----------------------------------------------------------------------------
(* The daily dispatch, in full in DailyDispatch: every day a feed that was    *)
(* enabled when it was read is given a row, whatever became of the feed since *)
(* and whether the run of an earlier day goes on or not.  The task is posted  *)
(* later, after a crash again, while the row is QUEUED (a task posted after   *)
(* that is dropped without effect).                                           *)

CommitDaily(f, i) ==
    /\ NewRun(i, f, "daily", 0, 0)
    /\ UNCHANGED <<closed, config, feedTasks, historian, feedAdmin, feedCandles, crossed, feedEvents>>

PostDaily(i) ==
    /\ feedRun[i] # NoFeedRun /\ feedRun[i].kind = "daily"
    /\ feedRun[i].status = "QUEUED" /\ i \notin feedTasks
    /\ feedTasks' = feedTasks \cup {i}
    /\ UNCHANGED <<closed, feedRows, historian, feedAdmin, feedCandles, crossed, feedEvents>>

-----------------------------------------------------------------------------
(* Requests *)

Hand(a, what) == feedAdmin' = [feedAdmin EXCEPT ![a] = what]
Called == feedCalls < MaxFeedCalls /\ feedCalls' = feedCalls + 1 /\ UNCHANGED feedFailures
Fails  == feedFailures < MaxFeedFailures /\ feedFailures' = feedFailures + 1 /\ UNCHANGED feedCalls

\* run-now and manual-fetch refuse a feed that has a run in progress; they look
\* without a lock ...
Admit(a, f) ==
    /\ Called /\ feedAdmin[a] = Resting /\ ~config[f].busy
    /\ Hand(a, [at |-> "admitted", feed |-> f])
    /\ UNCHANGED <<closed, feedRows, feedTasks, historian, feedCandles, crossed>>

\* ... and commit the row before its task is posted.  A run of a feed without
\* any candle or start is given a range.
Request(a, i) ==
    /\ feedAdmin[a].at = "admitted"
    /\ LET f == feedAdmin[a].feed IN
        /\ \/ NewRun(i, f, "now", 0, 0) /\ (fetched[f] # {} \/ f \in Configured)
           \/ \E range \in Ranges : NewRun(i, f, "range", range[1], range[2])
        /\ config' = [config EXCEPT ![f].busy = TRUE]
    /\ Hand(a, [at |-> "posting", run |-> i, prior |-> TRUE])
    /\ UNCHANGED <<closed, feedTasks, historian, feedCandles, crossed, feedEvents>>

\* A source beside the feed's: a candle of the backtests, or a run under way
\* that publishes for another feed.
OtherSource(f) ==
    \/ \E t \in Times : canonical[t] \notin {NoSource, f}
    \/ \E h \in Historians :
        /\ historian[h].at # "idle" /\ feedRun[historian[h].run].feed # f
        /\ historian[h].at = "publishing" \/ historian[h].publishes

\* publish-missing approves the feed: the source is adopted.
ConfirmPublication(a, f, i) ==
    /\ Called /\ feedAdmin[a] = Resting
    /\ config[f].primary /\ ~config[f].archived /\ fetched[f] # {}
    /\ NewRun(i, f, "publish", 0, 0)
    /\ config' = [config EXCEPT ![f].approved = TRUE]
    /\ crossed' = (crossed \/ OtherSource(f))
    /\ Hand(a, [at |-> "posting", run |-> i, prior |-> config[f].approved])
    /\ UNCHANGED <<closed, feedTasks, historian, feedCandles>>

Post(a) ==
    /\ feedAdmin[a].at = "posting"
    /\ feedTasks' = feedTasks \cup {feedAdmin[a].run} /\ Hand(a, Resting)
    /\ UNCHANGED <<closed, feedRows, historian, feedCandles, crossed, feedEvents>>

\* An exception of apply_async; the task may have arrived all the same ...
PostArrives(a) ==
    /\ Fails /\ feedAdmin[a].at = "posting" /\ feedAdmin[a].run \notin feedTasks
    /\ feedRun[feedAdmin[a].run].status = "QUEUED" /\ feedTasks' = feedTasks \cup {feedAdmin[a].run}
    /\ UNCHANGED <<closed, feedRows, historian, feedAdmin, feedCandles, crossed>>

Claiming(i) == \E h \in Historians : historian[h].at = "claiming" /\ historian[h].run = i

\* ... and the run is called FAILED whatever it has come to.
PostFails(a) ==
    /\ feedAdmin[a].at = "posting" /\ ~Claiming(feedAdmin[a].run)
    /\ LET i == feedAdmin[a].run
           f == feedRun[i].feed
       IN  /\ feedRun' = [feedRun EXCEPT ![i].status = "ENDED"]
           /\ config' = [config EXCEPT
                  ![f].busy = IF feedRun[i].kind = "publish" THEN @ ELSE FALSE,
                  ![f].approved = @ /\ feedAdmin[a].prior]
    /\ Hand(a, Resting)
    /\ UNCHANGED <<closed, feedTasks, historian, feedCandles, crossed, feedEvents>>

\* The API process dies: a row that was not posted stays QUEUED.
CallDies(a) ==
    /\ Fails /\ feedAdmin[a] # Resting /\ Hand(a, Resting)
    /\ UNCHANGED <<closed, feedRows, feedTasks, historian, feedCandles, crossed>>

\* PATCH and DELETE of a configuration.  (Kept constant: the broker's symbol and
\* initial_start, which a PATCH changes only while the feed has no candle.)
Enable(f) ==
    /\ Called /\ config' = [config EXCEPT ![f].enabled = ~@]
    /\ UNCHANGED <<closed, feedRun, feedTasks, historian, feedAdmin, feedCandles, crossed>>

Active == {"QUEUED", "RUNNING"}

\* The row is locked, so that no run can be added meanwhile (foreign key).
Archive(f) ==
    /\ Called /\ ~config[f].archived
    /\ \A i \in FeedRuns : feedRun[i] # NoFeedRun /\ feedRun[i].feed = f => feedRun[i].status \notin Active
    /\ config' = [config EXCEPT ![f] = [enabled |-> FALSE, archived |-> TRUE, primary |-> FALSE,
                                        approved |-> FALSE, busy |-> @.busy]]
    /\ UNCHANGED <<closed, feedRun, feedTasks, historian, feedAdmin, feedCandles, crossed>>

\* Creating an archived configuration again.
Revive(f) ==
    /\ Called /\ config[f].archived
    /\ config' = [config EXCEPT ![f] = [enabled |-> FALSE, archived |-> FALSE, primary |-> FALSE,
                                        approved |-> FALSE, busy |-> @.busy]]
    /\ UNCHANGED <<closed, feedRun, feedTasks, historian, feedAdmin, feedCandles, crossed>>

\* choose_primary counts what the backtests have ...
ChooseReads(a, f) ==
    /\ Called /\ feedAdmin[a] = Resting
    /\ Hand(a, [at |-> "choosing", feed |-> f,
                empty |-> \A t \in Times : canonical[t] = NoSource])
    /\ UNCHANGED <<closed, feedRows, feedTasks, historian, feedCandles, crossed>>

\* Faulty variant: the primary feed is approved whatever the backtests have.
BadApproves(empty) == TRUE

Approves(empty) == empty

\* ... and approves the feed at once when that is nothing.  A run that is
\* publishing another feed goes on.
ChooseCommits(a) ==
    /\ feedAdmin[a].at = "choosing"
    /\ LET f == feedAdmin[a].feed
           empty == feedAdmin[a].empty
       IN  /\ config' = [g \in Feeds |->
                  [config[g] EXCEPT !.primary = g = f, !.approved = g = f /\ Approves(empty)]]
           /\ crossed' = (crossed \/ (empty /\ OtherSource(f)))
    /\ Hand(a, Resting)
    /\ UNCHANGED <<closed, feedRun, feedTasks, historian, feedCandles, feedEvents>>

-----------------------------------------------------------------------------
(* Runs *)

Takes(h, what) == historian' = [historian EXCEPT ![h] = what]
RunOf(h)  == feedRun[historian[h].run]
FeedOf(h) == RunOf(h).feed

\* A task of a run that was taken before, or is being claimed (SKIP LOCKED).
DropTask(h, i) ==
    /\ historian[h] = Resting /\ i \in feedTasks
    /\ feedRun[i].status # "QUEUED" \/ Claiming(i)
    /\ feedTasks' = feedTasks \ {i}
    /\ UNCHANGED <<closed, feedRows, historian, feedAdmin, feedCandles, crossed, feedEvents>>

MayRun(i, c) ==
    /\ ~c.archived
    /\ feedRun[i].kind = "daily" => c.enabled
    /\ feedRun[i].kind = "publish" => c.primary /\ c.approved

MayPublish(c) == c.primary /\ c.approved /\ ~c.archived

\* The run's row is locked and the configuration read.
TakeRun(h, i) ==
    /\ historian[h] = Resting /\ i \in feedTasks
    /\ feedRun[i].status = "QUEUED" /\ ~Claiming(i)
    /\ LET c == config[feedRun[i].feed] IN
           Takes(h, [at |-> "claiming", run |-> i, runs |-> MayRun(i, c), publishes |-> MayPublish(c)])
    /\ UNCHANGED <<closed, feedRows, feedTasks, feedAdmin, feedCandles, crossed, feedEvents>>

SetRun(i, s) == feedRun' = [feedRun EXCEPT ![i].status = s]

ClaimRun(h) ==
    /\ historian[h].at = "claiming" /\ historian[h].runs
    /\ SetRun(historian[h].run, "RUNNING")
    /\ config' = [config EXCEPT ![FeedOf(h)].busy = TRUE]
    /\ Takes(h, IF RunOf(h).kind = "publish"
                THEN [at |-> "publishing", run |-> historian[h].run, cursor |-> 0]
                ELSE [at |-> "begun", run |-> historian[h].run, publishes |-> historian[h].publishes])
    /\ UNCHANGED <<closed, feedTasks, feedAdmin, feedCandles, crossed, feedEvents>>

\* The task returns: its message is acknowledged.
Returns(h) == Takes(h, Resting) /\ feedTasks' = feedTasks \ {historian[h].run}

\* DISABLED; last_status stays as the request left it.
RefuseRun(h) ==
    /\ historian[h].at = "claiming" /\ ~historian[h].runs
    /\ SetRun(historian[h].run, "DISABLED") /\ Returns(h)
    /\ UNCHANGED <<closed, config, feedAdmin, feedCandles, crossed, feedEvents>>

EndsRun(h) ==
    /\ SetRun(historian[h].run, "ENDED") /\ Returns(h)
    /\ config' = [config EXCEPT ![FeedOf(h)].busy = FALSE]

NewestOf(f) == {t \in fetched[f] : \A u \in fetched[f] : u <= t}

\* Faulty variant: a run fetches the last closed candle only.
BadResume(f) == {closed}

\* A run starts again a little before the newest candle (a start before the
\* first candle is not told apart), a first one at initial_start.
Resume(f) ==
    IF fetched[f] = {} THEN {1} ELSE {IF t > Overlap THEN t - Overlap ELSE 1 : t \in NewestOf(f)}

Lesser(x, y) == IF x < y THEN x ELSE y

\* A requested range leaves out the candles before it.
BeginSync(h) ==
    /\ historian[h].at = "begun"
    /\ LET f == FeedOf(h)
           ranged == RunOf(h).from # 0
       IN  /\ ranged \/ fetched[f] # {} \/ f \in Configured
           /\ \E first \in IF ranged THEN {RunOf(h).from} ELSE Resume(f) :
                Takes(h, [at |-> "syncing", run |-> historian[h].run, cursor |-> first, pages |-> 0,
                          publishes |-> historian[h].publishes,
                          expected |-> IF ranged THEN Lesser(closed, RunOf(h).to) ELSE closed])
           /\ omitted' = [omitted EXCEPT ![f] = @ \cup ((1..(RunOf(h).from - 1)) \ fetched[f])]
    /\ UNCHANGED <<closed, feedRows, feedTasks, feedAdmin, fetched, canonical, crossed, feedEvents>>

\* NEEDS_INITIAL_IMPORT.
NothingToSync(h) ==
    /\ historian[h].at = "begun"
    /\ RunOf(h).from = 0 /\ fetched[FeedOf(h)] = {} /\ FeedOf(h) \notin Configured
    /\ EndsRun(h)
    /\ UNCHANGED <<closed, feedAdmin, feedCandles, crossed, feedEvents>>

\* Candles of the feed that the backtests have not are inserted; others stay.
Published(f, times) ==
    [t \in Times |-> IF t \in times /\ canonical[t] = NoSource THEN f ELSE canonical[t]]

MorePages(h) == historian[h].cursor <= historian[h].expected /\ historian[h].pages < MaxPages

\* A page is fetched, saved, published and committed.
SyncPage(h) ==
    /\ historian[h].at = "syncing" /\ MorePages(h)
    /\ LET f == FeedOf(h)
           last == Lesser(historian[h].cursor + PageSpan - 1, historian[h].expected)
           asked == (historian[h].cursor)..last
       IN  /\ \E answer \in SUBSET asked :
                /\ fetched' = [fetched EXCEPT ![f] = @ \cup answer]
                /\ omitted' = [omitted EXCEPT ![f] = @ \cup (asked \ (fetched[f] \cup answer))]
                /\ canonical' = IF historian[h].publishes THEN Published(f, answer) ELSE canonical
           /\ historian' = [historian EXCEPT ![h].cursor = last + 1, ![h].pages = @ + 1]
    /\ UNCHANGED <<closed, feedRows, feedTasks, feedAdmin, crossed, feedEvents>>

FinishSync(h) ==
    /\ historian[h].at = "syncing" /\ ~MorePages(h) /\ EndsRun(h)
    /\ UNCHANGED <<closed, feedAdmin, feedCandles, crossed, feedEvents>>

\* publish_all_missing: the next page of the saved candles, in their order.
NextSaved(h) ==
    LET left == {t \in fetched[FeedOf(h)] : t > historian[h].cursor}
    IN  {t \in left : \A u \in left : u < t => t < u + PageSpan}

PublishPage(h) ==
    /\ historian[h].at = "publishing" /\ NextSaved(h) # {}
    /\ canonical' = Published(FeedOf(h), NextSaved(h))
    /\ \E t \in NextSaved(h) : /\ \A u \in NextSaved(h) : u <= t
                               /\ historian' = [historian EXCEPT ![h].cursor = t]
    /\ UNCHANGED <<closed, feedRows, feedTasks, feedAdmin, fetched, omitted, crossed, feedEvents>>

FinishPublication(h) ==
    /\ historian[h].at = "publishing" /\ NextSaved(h) = {} /\ EndsRun(h)
    /\ UNCHANGED <<closed, feedAdmin, feedCandles, crossed, feedEvents>>

\* The broker or the database raises: rolled back and recorded.
FailRun(h) ==
    /\ Fails /\ historian[h].at \in {"begun", "syncing", "publishing"} /\ EndsRun(h)
    /\ UNCHANGED <<closed, feedAdmin, feedCandles, crossed>>

\* It raises before or in the handler: the row stays, the task is acknowledged.
TaskRaises(h) ==
    /\ Fails /\ historian[h] # Resting /\ Returns(h)
    /\ UNCHANGED <<closed, feedRows, feedAdmin, feedCandles, crossed>>

\* The process dies and the task is delivered again.
HistorianDies(h) ==
    /\ Fails /\ historian[h] # Resting /\ Takes(h, Resting)
    /\ feedTasks' = feedTasks \cup {historian[h].run}
    /\ UNCHANGED <<closed, feedRows, feedAdmin, feedCandles, crossed>>

FeedNext ==
    \/ CloseCandle
    \/ \E i \in FeedRuns : PostDaily(i) \/ \E f \in Feeds : CommitDaily(f, i)
    \/ \E f \in Feeds : Enable(f) \/ Archive(f) \/ Revive(f)
    \/ \E a \in FeedAdmins :
        \/ \E f \in Feeds : \/ Admit(a, f) \/ ChooseReads(a, f)
                            \/ \E i \in FeedRuns : ConfirmPublication(a, f, i)
        \/ \E i \in FeedRuns : Request(a, i)
        \/ Post(a) \/ PostArrives(a) \/ PostFails(a) \/ CallDies(a) \/ ChooseCommits(a)
    \/ \E h \in Historians :
        \/ \E i \in FeedRuns : TakeRun(h, i) \/ DropTask(h, i)
        \/ ClaimRun(h) \/ RefuseRun(h) \/ BeginSync(h) \/ NothingToSync(h) \/ SyncPage(h)
        \/ FinishSync(h) \/ PublishPage(h) \/ FinishPublication(h)
        \/ FailRun(h) \/ TaskRaises(h) \/ HistorianDies(h)

FeedSpec == FeedInit /\ [][FeedNext]_feedSyncVars

-----------------------------------------------------------------------------
(* Properties *)

\* A run never leaves a candle behind it that no answer lacked: whatever fails,
\* dies, stops at its last page or runs beside it, the next run, which starts
\* at the newest saved candle, finds everything before it.
FeedHasNoHole ==
    \A f \in Feeds : \A t \in fetched[f] : 1..t \subseteq fetched[f] \cup omitted[f]

\* The candles the backtests read come from one source, however the primary
\* feed is changed, deleted and created again under its runs, unless a feed was
\* approved when another source was there or on its way.
OneSource ==
    ~crossed => \A t, u \in Times : canonical[t] # NoSource /\ canonical[u] # NoSource
                                    => canonical[t] = canonical[u]
=============================================================================
