-------------------------- MODULE FeedSync_proofs --------------------------
(***************************************************************************)
(* Proofs about FeedSync and DailyDispatch, for any feeds, workers, calls, *)
(* runs, dispatches and candles.  Each part of the state is typed by a     *)
(* lemma of its own (RowsStep .. CountsStep), which has a step for the     *)
(* actions that write it; a run's row never changes its feed (RunsGrow).   *)
(*                                                                         *)
(* No holes: what lies before the cursor of a run was fetched or given up  *)
(* (Behind), so that whatever it saves next has no hole before it.         *)
(* One source: the origins of the candles, the feeds of the runs that      *)
(* publish and the approved feed are one (IsSource).  A run may publish    *)
(* only when its feed is approved, and a run in hand counts for a source   *)
(* whatever became of its feed's flags.                                    *)
(***************************************************************************)
EXTENDS FeedSync, DailyDispatch, TLAPS

-----------------------------------------------------------------------------
(* What is in hand *)

Claims  == [at : {"claiming"}, run : FeedRuns, runs : BOOLEAN, publishes : BOOLEAN]
Begins  == [at : {"begun"}, run : FeedRuns, publishes : BOOLEAN]
Syncs   == [at : {"syncing"}, run : FeedRuns, publishes : BOOLEAN, cursor : 1..(MaxTime + 1),
            expected : 0..MaxTime, pages : 0..MaxPages]
Publications == [at : {"publishing"}, run : FeedRuns, cursor : 0..MaxTime]

Admitted == [at : {"admitted"}, feed : Feeds]
Posting  == [at : {"posting"}, run : FeedRuns, prior : BOOLEAN]
Choosing == [at : {"choosing"}, feed : Feeds, empty : BOOLEAN]

\* Whoever has a run in hand has one whose row is there.
RunsExist ==
    /\ \A i \in feedTasks : feedRun[i] # NoFeedRun
    /\ \A h \in Historians : historian[h] # Resting => feedRun[historian[h].run] # NoFeedRun
    /\ \A a \in FeedAdmins : feedAdmin[a].at = "posting" => feedRun[feedAdmin[a].run] # NoFeedRun

FeedBase == FeedTypeOK /\ RunsExist

\* What a worker has in hand, by the place where it is.
LEMMA HistorianType ==
    ASSUME FeedBase, NEW h \in Historians
    PROVE  /\ historian[h] \in {Resting} \cup Claims \cup Begins \cup Syncs \cup Publications
           /\ historian[h].at = "idle" <=> historian[h] = Resting
           /\ historian[h].at = "claiming" => historian[h] \in Claims
           /\ historian[h].at = "begun" => historian[h] \in Begins
           /\ historian[h].at = "syncing" => historian[h] \in Syncs
           /\ historian[h].at = "publishing" => historian[h] \in Publications
<1>1. historian[h] \in {Resting} \cup Claims \cup Begins \cup Syncs \cup Publications
  BY DEF FeedBase, FeedTypeOK, Claims, Begins, Syncs, Publications
<1> QED BY <1>1 DEF Resting, Claims, Begins, Syncs, Publications

LEMMA HistorianRun ==
    ASSUME FeedBase, NEW h \in Historians, historian[h] # Resting
    PROVE  /\ historian[h].run \in FeedRuns
           /\ feedRun[historian[h].run] \in FeedRunRows
           /\ FeedOf(h) \in Feeds
<1>1. historian[h].run \in FeedRuns
  BY HistorianType DEF Claims, Begins, Syncs, Publications
<1>2. feedRun[historian[h].run] \in FeedRunRows
  BY <1>1 DEF FeedBase, RunsExist, FeedTypeOK
<1> QED BY <1>1, <1>2 DEF FeedOf, RunOf, FeedRunRows

LEMMA AdminType ==
    ASSUME FeedBase, NEW a \in FeedAdmins
    PROVE  /\ feedAdmin[a].at = "admitted" => feedAdmin[a] \in Admitted
           /\ feedAdmin[a].at = "posting" => feedAdmin[a] \in Posting
           /\ feedAdmin[a].at = "choosing" => feedAdmin[a] \in Choosing
<1>1. feedAdmin[a] \in {Resting} \cup Admitted \cup Posting \cup Choosing
  BY DEF FeedBase, FeedTypeOK, Admitted, Posting, Choosing
<1> QED BY <1>1 DEF Resting, Admitted, Posting, Choosing

LEMMA FeedInitBase == FeedInit => FeedBase
<1> SUFFICES ASSUME FeedInit PROVE FeedBase
  OBVIOUS
<1>1. canonical \in [Times -> Feeds \cup {NoSource, Legacy}]
  BY DEF FeedInit
<1>2. config \in [Feeds -> FeedConfigs]
  BY DEF FeedInit, FeedConfigs
<1>3. /\ feedRun \in [FeedRuns -> {NoFeedRun}] /\ historian \in [Historians -> {Resting}]
      /\ feedAdmin \in [FeedAdmins -> {Resting}] /\ feedTasks = {}
      /\ fetched \in [Feeds -> SUBSET Times] /\ omitted \in [Feeds -> SUBSET Times]
  BY DEF FeedInit
<1>4. /\ closed \in 0..MaxTime
      /\ feedCalls \in 0..MaxFeedCalls /\ feedFailures \in 0..MaxFeedFailures
  BY FeedAssumption DEF FeedInit
<1>5. crossed \in BOOLEAN
  BY DEF FeedInit
<1>6. FeedTypeOK
  BY <1>1, <1>2, <1>3, <1>4, <1>5 DEF FeedTypeOK
<1>7. RunsExist
  BY <1>3 DEF RunsExist, Resting
<1> QED BY <1>6, <1>7 DEF FeedBase

\* Rows are added and change their status; they never change their feed or kind.
RunsGrow ==
    \A j \in FeedRuns : feedRun[j] # NoFeedRun =>
        /\ feedRun'[j] # NoFeedRun
        /\ feedRun'[j].feed = feedRun[j].feed /\ feedRun'[j].kind = feedRun[j].kind

RowsType == feedRun \in [FeedRuns -> FeedRunRows \cup {NoFeedRun}]

LEMMA NewRunRow ==
    ASSUME FeedBase, NEW i \in FeedRuns, NEW f \in Feeds,
           NEW kind \in {"daily", "now", "range", "publish"},
           NEW from \in 0..MaxTime, NEW to \in 0..MaxTime, NewRun(i, f, kind, from, to)
    PROVE  /\ RowsType' /\ RunsGrow /\ feedRun'[i] # NoFeedRun
           /\ \A j \in FeedRuns \ {i} : feedRun'[j] = feedRun[j]
<1> DEFINE row == [feed |-> f, kind |-> kind, status |-> "QUEUED", from |-> from, to |-> to]
<1>1. row \in FeedRunRows /\ row # NoFeedRun
  BY DEF FeedRunRows, NoFeedRun
<1>2. feedRun[i] = NoFeedRun /\ feedRun' = [feedRun EXCEPT ![i] = row]
  BY DEF NewRun
<1> HIDE DEF row
<1>3. RowsType
  BY DEF FeedBase, FeedTypeOK, RowsType
<1>4. \A j \in FeedRuns : feedRun'[j] = IF j = i THEN row ELSE feedRun[j]
  BY <1>2, <1>3 DEF RowsType
<1> QED BY <1>1, <1>2, <1>3, <1>4 DEF RowsType, RunsGrow

LEMMA SetRunRow ==
    ASSUME FeedBase, NEW i \in FeedRuns, feedRun[i] # NoFeedRun,
           NEW s \in {"QUEUED", "RUNNING", "ENDED", "DISABLED"}, SetRun(i, s)
    PROVE  RowsType' /\ RunsGrow
<1> DEFINE row == [feedRun[i] EXCEPT !.status = s]
<1>1. RowsType
  BY DEF FeedBase, FeedTypeOK, RowsType
<1>2. feedRun[i] \in FeedRunRows
  BY <1>1 DEF RowsType
<1>3. /\ row \in FeedRunRows /\ row.feed = feedRun[i].feed /\ row.kind = feedRun[i].kind
      /\ row.status = s
  BY <1>2 DEF FeedRunRows
<1>4. row # NoFeedRun
  BY <1>3 DEF NoFeedRun
<1>5. feedRun' = [feedRun EXCEPT ![i] = row]
  BY DEF SetRun
<1> HIDE DEF row
<1>6. \A j \in FeedRuns : feedRun'[j] = IF j = i THEN row ELSE feedRun[j]
  BY <1>5, <1>1 DEF RowsType
<1> QED BY <1>1, <1>3, <1>4, <1>5, <1>6 DEF RowsType, RunsGrow

LEMMA NewRunGrows ==
    ASSUME FeedBase, NEW i \in FeedRuns, NEW f, NEW kind, NEW from, NEW to,
           NewRun(i, f, kind, from, to)
    PROVE  feedRun'[i] # NoFeedRun
BY DEF NewRun, NoFeedRun, FeedBase, FeedTypeOK

\* What a step that keeps the rows of runs has to show.
LEMMA RunsStay == ASSUME UNCHANGED feedRun PROVE RunsGrow /\ (FeedBase => RowsType')
BY DEF RunsGrow, RowsType, FeedBase, FeedTypeOK

\* A worker's hands after a step of it.
LEMMA TakesType ==
    ASSUME FeedBase, RunsGrow, NEW h \in Historians,
           NEW what \in {Resting} \cup Claims \cup Begins \cup Syncs \cup Publications,
           Takes(h, what),
           what # Resting => feedRun[what.run] # NoFeedRun
    PROVE  /\ historian' \in [Historians ->
                  {Resting} \cup Claims \cup Begins \cup Syncs \cup Publications]
           /\ \A g \in Historians :
                  historian'[g] # Resting => feedRun'[historian'[g].run] # NoFeedRun
<1>1. historian \in [Historians -> {Resting} \cup Claims \cup Begins \cup Syncs \cup Publications]
  BY DEF FeedBase, FeedTypeOK, Claims, Begins, Syncs, Publications
<1>2. \A g \in Historians : historian'[g] = IF g = h THEN what ELSE historian[g]
  BY <1>1 DEF Takes
<1>3. historian' \in [Historians -> {Resting} \cup Claims \cup Begins \cup Syncs \cup Publications]
  BY <1>1 DEF Takes
<1>4. ASSUME NEW g \in Historians, historian'[g] # Resting
      PROVE  feedRun'[historian'[g].run] # NoFeedRun
  <2>1. historian'[g].run \in FeedRuns
    BY <1>3, <1>4 DEF Claims, Begins, Syncs, Publications
  <2>2. feedRun[historian'[g].run] # NoFeedRun
    BY <1>2, <1>4 DEF FeedBase, RunsExist
  <2> QED BY <2>1, <2>2 DEF RunsGrow
<1> QED BY <1>3, <1>4

\* An administrator's hands after a step of it.
LEMMA HandType ==
    ASSUME FeedBase, RunsGrow, NEW a \in FeedAdmins,
           NEW what \in {Resting} \cup Admitted \cup Posting \cup Choosing,
           Hand(a, what),
           what.at = "posting" => feedRun'[what.run] # NoFeedRun
    PROVE  /\ feedAdmin' \in [FeedAdmins -> {Resting} \cup Admitted \cup Posting \cup Choosing]
           /\ \A b \in FeedAdmins :
                  feedAdmin'[b].at = "posting" => feedRun'[feedAdmin'[b].run] # NoFeedRun
<1>1. feedAdmin \in [FeedAdmins -> {Resting} \cup Admitted \cup Posting \cup Choosing]
  BY DEF FeedBase, FeedTypeOK, Admitted, Posting, Choosing
<1>2. \A b \in FeedAdmins : feedAdmin'[b] = IF b = a THEN what ELSE feedAdmin[b]
  BY <1>1 DEF Hand
<1>3. feedAdmin' \in [FeedAdmins -> {Resting} \cup Admitted \cup Posting \cup Choosing]
  BY <1>1 DEF Hand
<1>4. ASSUME NEW b \in FeedAdmins, feedAdmin'[b].at = "posting", b # a
      PROVE  feedRun'[feedAdmin'[b].run] # NoFeedRun
  <2>1. feedAdmin[b].run \in FeedRuns /\ feedRun[feedAdmin[b].run] # NoFeedRun
    BY <1>2, <1>4, AdminType DEF FeedBase, RunsExist, Posting
  <2> QED BY <1>2, <1>4, <2>1 DEF RunsGrow
<1> QED BY <1>2, <1>3, <1>4

-----------------------------------------------------------------------------
(* Types *)

ConfigType == config \in [Feeds -> FeedConfigs]
HandsType ==
    /\ historian \in [Historians -> {Resting} \cup Claims \cup Begins \cup Syncs \cup Publications]
    /\ \A h \in Historians : historian[h] # Resting => feedRun[historian[h].run] # NoFeedRun
AdminsType ==
    /\ feedAdmin \in [FeedAdmins -> {Resting} \cup Admitted \cup Posting \cup Choosing]
    /\ \A a \in FeedAdmins : feedAdmin[a].at = "posting" => feedRun[feedAdmin[a].run] # NoFeedRun
TasksType == feedTasks \subseteq FeedRuns /\ \A i \in feedTasks : feedRun[i] # NoFeedRun
CandlesType ==
    /\ fetched \in [Feeds -> SUBSET Times] /\ omitted \in [Feeds -> SUBSET Times]
    /\ canonical \in [Times -> Feeds \cup {NoSource, Legacy}]
CountsType ==
    /\ closed \in 0..MaxTime
    /\ feedCalls \in 0..MaxFeedCalls /\ feedFailures \in 0..MaxFeedFailures

LEMMA BaseParts ==
    FeedBase <=> /\ RowsType /\ ConfigType /\ HandsType /\ AdminsType /\ TasksType
                 /\ CandlesType /\ CountsType /\ crossed \in BOOLEAN
BY DEF FeedBase, FeedTypeOK, RunsExist, RowsType, ConfigType, HandsType, AdminsType, TasksType,
       CandlesType, CountsType, Claims, Begins, Syncs, Publications, Admitted, Posting, Choosing

\* A worker's step that ends its run, or its claim.
Ending(h) ==
    \/ NothingToSync(h) \/ FinishSync(h) \/ FinishPublication(h) \/ FailRun(h)

LEMMA EndingStep ==
    ASSUME FeedBase, NEW h \in Historians, Ending(h)
    PROVE  /\ historian[h] # Resting /\ EndsRun(h)
           /\ UNCHANGED <<closed, feedAdmin, feedCandles, crossed, feedCalls>>
BY DEF Ending, NothingToSync, FinishSync, FinishPublication, FailRun, Fails, feedEvents, Resting

LEMMA RowsStep ==
    ASSUME FeedBase, [FeedNext]_feedSyncVars
    PROVE  RowsType' /\ RunsGrow
<1>1. ASSUME NEW i \in FeedRuns, NEW f \in Feeds, CommitDaily(f, i) PROVE RowsType' /\ RunsGrow
  BY <1>1, NewRunRow, FeedAssumption DEF CommitDaily
<1>2. ASSUME NEW a \in FeedAdmins, NEW i \in FeedRuns, Request(a, i) PROVE RowsType' /\ RunsGrow
  <2>1. feedAdmin[a].feed \in Feeds
    BY <1>2, AdminType DEF Request, Admitted
  <2>2. CASE NewRun(i, feedAdmin[a].feed, "now", 0, 0)
    BY <2>1, <2>2, NewRunRow, FeedAssumption
  <2>3. ASSUME NEW range \in Ranges, NewRun(i, feedAdmin[a].feed, "range", range[1], range[2])
        PROVE  RowsType' /\ RunsGrow
    <3>1. range[1] \in 0..MaxTime /\ range[2] \in 0..MaxTime
      BY FeedAssumption
    <3> QED BY <2>1, <2>3, <3>1, NewRunRow
  <2> QED BY <1>2, <2>2, <2>3 DEF Request
<1>3. ASSUME NEW a \in FeedAdmins, NEW f \in Feeds, NEW i \in FeedRuns, ConfirmPublication(a, f, i)
      PROVE  RowsType' /\ RunsGrow
  BY <1>3, NewRunRow, FeedAssumption DEF ConfirmPublication
<1>4. ASSUME NEW a \in FeedAdmins, PostFails(a) PROVE RowsType' /\ RunsGrow
  <2>1. feedAdmin[a].run \in FeedRuns /\ feedRun[feedAdmin[a].run] # NoFeedRun
    BY <1>4, AdminType DEF PostFails, FeedBase, RunsExist, Posting
  <2>2. SetRun(feedAdmin[a].run, "ENDED")
    BY <1>4 DEF PostFails, SetRun
  <2> QED BY <2>1, <2>2, SetRunRow
<1>5. ASSUME NEW h \in Historians, ClaimRun(h) \/ RefuseRun(h) \/ Ending(h)
      PROVE  RowsType' /\ RunsGrow
  <2>1. historian[h] # Resting
    BY <1>5, EndingStep DEF ClaimRun, RefuseRun, Resting
  <2>2. historian[h].run \in FeedRuns /\ feedRun[historian[h].run] # NoFeedRun
    BY <2>1, HistorianRun DEF FeedBase, RunsExist
  <2>3. \E s \in {"RUNNING", "ENDED", "DISABLED"} : SetRun(historian[h].run, s)
    BY <1>5, EndingStep DEF ClaimRun, RefuseRun, EndsRun
  <2> QED BY <2>2, <2>3, SetRunRow
<1>6. CASE UNCHANGED feedRun
  BY <1>6, RunsStay
<1>7. ASSUME FeedNext,
             \A i \in FeedRuns, f \in Feeds : ~CommitDaily(f, i),
             \A a \in FeedAdmins, i \in FeedRuns : ~Request(a, i),
             \A a \in FeedAdmins, f \in Feeds, i \in FeedRuns : ~ConfirmPublication(a, f, i),
             \A a \in FeedAdmins : ~PostFails(a),
             \A h \in Historians : ~(ClaimRun(h) \/ RefuseRun(h) \/ Ending(h))
      PROVE  UNCHANGED feedRun
  BY <1>7 DEF FeedNext, CloseCandle, PostDaily, Enable, Archive, Revive, Admit, ChooseReads, Post,
     PostArrives, CallDies, ChooseCommits, TakeRun, DropTask, BeginSync, SyncPage, PublishPage,
     TaskRaises, HistorianDies, Ending, feedRows
<1>8. CASE UNCHANGED feedSyncVars
  BY <1>6, <1>8 DEF feedSyncVars, feedRows
<1> QED BY <1>1, <1>2, <1>3, <1>4, <1>5, <1>6, <1>7, <1>8

\* The last candle of the page a run fetches.
LastOf(h) == Lesser(historian[h].cursor + PageSpan - 1, historian[h].expected)

LEMMA ResumeRange ==
    ASSUME FeedBase, NEW f \in Feeds
    PROVE  Resume(f) \subseteq 1..(MaxTime + 1)
<1>1. fetched[f] \subseteq Times
  BY BaseParts DEF CandlesType
<1> QED BY <1>1, FeedAssumption DEF Resume, NewestOf, Times

LEMMA PageRange ==
    ASSUME FeedBase, NEW h \in Historians, historian[h] \in Syncs, MorePages(h)
    PROVE  /\ LastOf(h) \in Times /\ historian[h].cursor <= LastOf(h)
           /\ LastOf(h) <= historian[h].expected
<1>1. /\ historian[h].cursor \in 1..(MaxTime + 1) /\ historian[h].expected \in 0..MaxTime
      /\ historian[h].cursor <= historian[h].expected
  BY DEF Syncs, MorePages
<1> QED BY <1>1, FeedAssumption DEF LastOf, Lesser, Times

LEMMA SavedInTimes ==
    ASSUME FeedBase, NEW h \in Historians, historian[h] # Resting
    PROVE  NextSaved(h) \subseteq fetched[FeedOf(h)] /\ NextSaved(h) \subseteq Times
BY HistorianRun, BaseParts DEF NextSaved, CandlesType

LEMMA HandsStep ==
    ASSUME FeedBase, [FeedNext]_feedSyncVars
    PROVE  HandsType'
<1>1. RunsGrow
  BY RowsStep
<1>2. ASSUME NEW h \in Historians,
             NEW what \in {Resting} \cup Claims \cup Begins \cup Syncs \cup Publications,
             Takes(h, what), what # Resting => feedRun[what.run] # NoFeedRun
      PROVE  HandsType'
  BY <1>1, <1>2, TakesType DEF HandsType
<1>3. CASE UNCHANGED historian
  <2>1. historian \in [Historians -> {Resting} \cup Claims \cup Begins \cup Syncs \cup Publications]
    BY BaseParts DEF HandsType
  <2>2. \A h \in Historians : historian[h] # Resting => historian[h].run \in FeedRuns
    BY HistorianRun
  <2> QED BY <1>1, <1>3, <2>1, <2>2, BaseParts DEF HandsType, RunsGrow
<1>4. ASSUME NEW h \in Historians,
             RefuseRun(h) \/ Ending(h) \/ TaskRaises(h) \/ HistorianDies(h)
      PROVE  HandsType'
  BY <1>2, <1>4, EndingStep DEF RefuseRun, TaskRaises, HistorianDies, EndsRun, Returns
<1>5. ASSUME NEW h \in Historians, NEW i \in FeedRuns, TakeRun(h, i) PROVE HandsType'
  <2> DEFINE c == config[feedRun[i].feed]
             what == [at |-> "claiming", run |-> i, runs |-> MayRun(i, c), publishes |-> MayPublish(c)]
  <2>1. MayRun(i, c) \in BOOLEAN /\ MayPublish(c) \in BOOLEAN
    BY DEF MayRun, MayPublish
  <2>2. what \in Claims
    BY <2>1 DEF Claims
  <2>3. Takes(h, what) /\ feedRun[i] # NoFeedRun
    BY <1>5 DEF TakeRun, NoFeedRun
  <2>4. what.run = i
    OBVIOUS
  <2> HIDE DEF what
  <2> QED BY <1>2, <2>2, <2>3, <2>4
<1>6. ASSUME NEW h \in Historians, ClaimRun(h) PROVE HandsType'
  <2> DEFINE run == historian[h].run
  <2>1. /\ historian[h] \in Claims /\ run \in FeedRuns /\ feedRun[run] # NoFeedRun
    BY <1>6, HistorianType, HistorianRun DEF ClaimRun, FeedBase, RunsExist, Resting
  <2>2. /\ [at |-> "publishing", run |-> run, cursor |-> 0] \in Publications
        /\ [at |-> "begun", run |-> run, publishes |-> historian[h].publishes] \in Begins
    BY <2>1, FeedAssumption DEF Claims, Publications, Begins
  <2>3. CASE Takes(h, [at |-> "publishing", run |-> run, cursor |-> 0])
    BY <1>2, <2>1, <2>2, <2>3
  <2>4. CASE Takes(h, [at |-> "begun", run |-> run, publishes |-> historian[h].publishes])
    BY <1>2, <2>1, <2>2, <2>4
  <2> QED BY <1>6, <2>3, <2>4 DEF ClaimRun
<1>7. ASSUME NEW h \in Historians, BeginSync(h) PROVE HandsType'
  <2> DEFINE f == FeedOf(h)
             run == historian[h].run
             ranged == RunOf(h).from # 0
             last == IF ranged THEN Lesser(closed, RunOf(h).to) ELSE closed
             what(first) == [at |-> "syncing", run |-> run, cursor |-> first, pages |-> 0,
                             publishes |-> historian[h].publishes, expected |-> last]
  <2>1. /\ historian[h] \in Begins /\ run \in FeedRuns /\ feedRun[run] # NoFeedRun
        /\ RunOf(h) \in FeedRunRows /\ f \in Feeds
    BY <1>7, HistorianType, HistorianRun DEF BeginSync, FeedBase, RunsExist, Resting, RunOf
  <2>2. PICK first \in IF ranged THEN {RunOf(h).from} ELSE Resume(f) : Takes(h, what(first))
    BY <1>7 DEF BeginSync
  <2>3. first \in 1..(MaxTime + 1)
    <3>1. CASE ranged
      BY <2>1, <2>2, <3>1, FeedAssumption DEF FeedRunRows
    <3>2. CASE ~ranged
      BY <2>1, <2>2, <3>2, ResumeRange
    <3> QED BY <3>1, <3>2
  <2>4. last \in 0..MaxTime
    BY <2>1, BaseParts, FeedAssumption DEF CountsType, FeedRunRows, Lesser
  <2>5. 0 \in 0..MaxPages
    BY FeedAssumption
  <2>6. what(first) \in Syncs
    BY <2>1, <2>3, <2>4, <2>5 DEF Syncs, Begins
  <2> QED BY <1>2, <2>1, <2>2, <2>6
<1>8. ASSUME NEW h \in Historians, SyncPage(h) PROVE HandsType'
  <2>1. historian[h] \in Syncs /\ feedRun[historian[h].run] # NoFeedRun
    BY <1>8, HistorianType DEF SyncPage, FeedBase, RunsExist, Resting
  <2>2. LastOf(h) + 1 \in 1..(MaxTime + 1)
    BY <1>8, <2>1, PageRange, FeedAssumption DEF SyncPage, Times
  <2>3. historian[h].pages + 1 \in 0..MaxPages
    BY <1>8, <2>1, FeedAssumption DEF SyncPage, MorePages, Syncs
  <2> DEFINE what == [historian[h] EXCEPT !.cursor = LastOf(h) + 1, !.pages = @ + 1]
  <2>4. what \in Syncs /\ what.run = historian[h].run
    BY <2>1, <2>2, <2>3 DEF Syncs
  <2>5. Takes(h, what)
    BY <1>8 DEF SyncPage, Takes, LastOf
  <2> HIDE DEF what
  <2> QED BY <1>2, <2>1, <2>4, <2>5
<1>9. ASSUME NEW h \in Historians, PublishPage(h) PROVE HandsType'
  <2>1. historian[h] \in Publications /\ feedRun[historian[h].run] # NoFeedRun
    BY <1>9, HistorianType DEF PublishPage, FeedBase, RunsExist, Resting
  <2>2. PICK t \in NextSaved(h) : historian' = [historian EXCEPT ![h].cursor = t]
    BY <1>9 DEF PublishPage
  <2>3. t \in Times
    BY <1>9, <2>2, SavedInTimes DEF PublishPage, Resting
  <2> DEFINE what == [historian[h] EXCEPT !.cursor = t]
  <2>4. what \in Publications /\ what.run = historian[h].run
    BY <2>1, <2>3, FeedAssumption DEF Publications, Times
  <2>5. Takes(h, what)
    BY <2>2 DEF Takes
  <2> HIDE DEF what
  <2> QED BY <1>2, <2>1, <2>4, <2>5
<1>10. ASSUME FeedNext,
             \A h \in Historians : ~(RefuseRun(h) \/ Ending(h) \/ TaskRaises(h) \/ HistorianDies(h)),
             \A h \in Historians, i \in FeedRuns : ~TakeRun(h, i),
             \A h \in Historians : ~(ClaimRun(h) \/ BeginSync(h) \/ SyncPage(h) \/ PublishPage(h))
      PROVE  UNCHANGED historian
  BY <1>10 DEF FeedNext, CloseCandle, CommitDaily, PostDaily, Enable, Archive, Revive, Admit,
     ChooseReads, ConfirmPublication, Request, Post, PostArrives, PostFails, CallDies, ChooseCommits,
     DropTask, Ending
<1>11. CASE UNCHANGED feedSyncVars
  BY <1>3, <1>11 DEF feedSyncVars
<1> QED BY <1>3, <1>4, <1>5, <1>6, <1>7, <1>8, <1>9, <1>10, <1>11

LEMMA AdminsStep ==
    ASSUME FeedBase, [FeedNext]_feedSyncVars
    PROVE  AdminsType'
<1>1. RunsGrow
  BY RowsStep
<1>2. ASSUME NEW a \in FeedAdmins, NEW what \in {Resting} \cup Admitted \cup Posting \cup Choosing,
             Hand(a, what), what.at = "posting" => feedRun'[what.run] # NoFeedRun
      PROVE  AdminsType'
  BY <1>1, <1>2, HandType DEF AdminsType
<1>3. CASE UNCHANGED feedAdmin
  <2>1. \A a \in FeedAdmins : feedAdmin[a].at = "posting" => feedAdmin[a].run \in FeedRuns
    BY AdminType DEF Posting
  <2> QED BY <1>1, <1>3, <2>1, BaseParts DEF AdminsType, RunsGrow
<1>4. ASSUME NEW a \in FeedAdmins, Post(a) \/ PostFails(a) \/ CallDies(a) \/ ChooseCommits(a)
      PROVE  AdminsType'
  BY <1>2, <1>4 DEF Post, PostFails, CallDies, ChooseCommits, Resting
<1>5. ASSUME NEW a \in FeedAdmins, NEW f \in Feeds, Admit(a, f) PROVE AdminsType'
  <2>1. [at |-> "admitted", feed |-> f] \in Admitted
    BY DEF Admitted
  <2> QED BY <1>2, <1>5, <2>1 DEF Admit
<1>6. ASSUME NEW a \in FeedAdmins, NEW f \in Feeds, ChooseReads(a, f) PROVE AdminsType'
  <2> DEFINE empty == \A t \in Times : canonical[t] = NoSource
  <2>1. empty \in BOOLEAN
    OBVIOUS
  <2>2. [at |-> "choosing", feed |-> f, empty |-> empty] \in Choosing
    BY <2>1 DEF Choosing
  <2> QED BY <1>2, <1>6, <2>2 DEF ChooseReads
<1>7. ASSUME NEW a \in FeedAdmins, NEW i \in FeedRuns, Request(a, i) PROVE AdminsType'
  <2>1. [at |-> "posting", run |-> i, prior |-> TRUE] \in Posting
    BY DEF Posting
  <2>2. feedRun'[i] # NoFeedRun
    BY <1>7, NewRunGrows DEF Request
  <2> QED BY <1>2, <1>7, <2>1, <2>2 DEF Request
<1>8. ASSUME NEW a \in FeedAdmins, NEW f \in Feeds, NEW i \in FeedRuns, ConfirmPublication(a, f, i)
      PROVE  AdminsType'
  <2>1. config[f].approved \in BOOLEAN
    BY BaseParts DEF ConfigType, FeedConfigs
  <2>2. [at |-> "posting", run |-> i, prior |-> config[f].approved] \in Posting
    BY <2>1 DEF Posting
  <2>3. feedRun'[i] # NoFeedRun
    BY <1>8, NewRunGrows DEF ConfirmPublication
  <2> QED BY <1>2, <1>8, <2>2, <2>3 DEF ConfirmPublication
<1>9. ASSUME FeedNext,
             \A a \in FeedAdmins : ~(Post(a) \/ PostFails(a) \/ CallDies(a) \/ ChooseCommits(a)),
             \A a \in FeedAdmins, f \in Feeds : ~(Admit(a, f) \/ ChooseReads(a, f)),
             \A a \in FeedAdmins, i \in FeedRuns : ~Request(a, i),
             \A a \in FeedAdmins, f \in Feeds, i \in FeedRuns : ~ConfirmPublication(a, f, i)
      PROVE  UNCHANGED feedAdmin
  BY <1>9 DEF FeedNext, CloseCandle, CommitDaily, PostDaily, Enable, Archive, Revive, PostArrives,
     TakeRun, DropTask, ClaimRun, RefuseRun, BeginSync, NothingToSync, SyncPage, FinishSync,
     PublishPage, FinishPublication, FailRun, TaskRaises, HistorianDies
<1>10. CASE UNCHANGED feedSyncVars
  BY <1>3, <1>10 DEF feedSyncVars
<1> QED BY <1>3, <1>4, <1>5, <1>6, <1>7, <1>8, <1>9, <1>10 DEF FeedNext

LEMMA TasksStep ==
    ASSUME FeedBase, [FeedNext]_feedSyncVars
    PROVE  TasksType'
<1>1. RunsGrow /\ TasksType
  BY RowsStep, BaseParts
<1>2. ASSUME NEW new \in FeedRuns, feedRun[new] # NoFeedRun, feedTasks' = feedTasks \cup {new}
      PROVE  TasksType'
  BY <1>1, <1>2 DEF TasksType, RunsGrow
<1>3. CASE feedTasks' \subseteq feedTasks
  BY <1>1, <1>3 DEF TasksType, RunsGrow
<1>4. ASSUME NEW i \in FeedRuns, PostDaily(i) PROVE TasksType'
  BY <1>2, <1>4 DEF PostDaily
<1>5. ASSUME NEW a \in FeedAdmins, Post(a) \/ PostArrives(a) PROVE TasksType'
  <2>1. feedAdmin[a].run \in FeedRuns /\ feedRun[feedAdmin[a].run] # NoFeedRun
    BY <1>5, AdminType DEF Post, PostArrives, FeedBase, RunsExist, Posting
  <2> QED BY <1>2, <1>5, <2>1 DEF Post, PostArrives
<1>6. ASSUME NEW h \in Historians, HistorianDies(h) PROVE TasksType'
  BY <1>2, <1>6, HistorianRun DEF HistorianDies, FeedBase, RunsExist
<1>7. ASSUME FeedNext,
             \A i \in FeedRuns : ~PostDaily(i),
             \A a \in FeedAdmins : ~(Post(a) \/ PostArrives(a)),
             \A h \in Historians : ~HistorianDies(h)
      PROVE  feedTasks' \subseteq feedTasks
  BY <1>7 DEF FeedNext, CloseCandle, CommitDaily, Enable, Archive, Revive, Admit, ChooseReads,
     ConfirmPublication, Request, PostFails, CallDies, ChooseCommits, TakeRun, DropTask, ClaimRun,
     RefuseRun, BeginSync, NothingToSync, SyncPage, FinishSync, PublishPage, FinishPublication,
     FailRun, TaskRaises, EndsRun, Returns
<1>8. CASE UNCHANGED feedSyncVars
  BY <1>3, <1>8 DEF feedSyncVars
<1> QED BY <1>3, <1>4, <1>5, <1>6, <1>7, <1>8

LEMMA ConfigStep ==
    ASSUME FeedBase, [FeedNext]_feedSyncVars
    PROVE  ConfigType'
<1>1. ConfigType
  BY BaseParts
<1>2. ASSUME NEW f \in Feeds, Enable(f) \/ Archive(f) \/ Revive(f) PROVE ConfigType'
  <2>1. config[f] \in FeedConfigs
    BY <1>1 DEF ConfigType
  <2>2. CASE Enable(f)
    <3>1. (~config[f].enabled) \in BOOLEAN
      OBVIOUS
    <3>2. [config[f] EXCEPT !.enabled = ~@] \in FeedConfigs
      BY <2>1, <3>1, Zenon DEF FeedConfigs
    <3> QED BY <1>1, <2>2, <3>2 DEF Enable, ConfigType
  <2>3. CASE Archive(f) \/ Revive(f)
    <3>1. \A e, v \in BOOLEAN : [enabled |-> e, archived |-> v, primary |-> e, approved |-> e,
                               busy |-> config[f].busy] \in FeedConfigs
      BY <2>1 DEF FeedConfigs
    <3> QED BY <1>1, <2>3, <3>1 DEF Archive, Revive, ConfigType
  <2> QED BY <1>2, <2>2, <2>3
<1>3. ASSUME NEW a \in FeedAdmins, NEW i \in FeedRuns, Request(a, i) PROVE ConfigType'
  BY <1>1, <1>3 DEF Request, ConfigType, FeedConfigs
<1>4. ASSUME NEW a \in FeedAdmins, NEW f \in Feeds, NEW i \in FeedRuns, ConfirmPublication(a, f, i)
      PROVE  ConfigType'
  BY <1>1, <1>4 DEF ConfirmPublication, ConfigType, FeedConfigs
<1>5. ASSUME NEW a \in FeedAdmins, PostFails(a) PROVE ConfigType'
  <2> DEFINE i == feedAdmin[a].run
             f == feedRun[i].feed
             b == IF feedRun[i].kind = "publish" THEN config[f].busy ELSE FALSE
             v == config[f].approved /\ feedAdmin[a].prior
  <2>1. f \in Feeds
    BY <1>5, AdminType DEF PostFails, FeedBase, FeedTypeOK, RunsExist, Posting, FeedRunRows
  <2>2. config[f] \in FeedConfigs
    BY <1>1, <2>1 DEF ConfigType
  <2>3. b \in BOOLEAN /\ v \in BOOLEAN
    BY <2>2 DEF FeedConfigs
  <2>4. config' = [config EXCEPT ![f] = [config[f] EXCEPT !.busy = b, !.approved = v]]
    BY <1>5 DEF PostFails
  <2> HIDE DEF f, b, v
  <2>5. [config[f] EXCEPT !.busy = b, !.approved = v] \in FeedConfigs
    BY <2>2, <2>3 DEF FeedConfigs
  <2> QED BY <1>1, <2>1, <2>4, <2>5 DEF ConfigType
<1>6. ASSUME NEW a \in FeedAdmins, ChooseCommits(a) PROVE ConfigType'
  <2> DEFINE f == feedAdmin[a].feed
             empty == feedAdmin[a].empty
             row(g) == [config[g] EXCEPT !.primary = g = f, !.approved = g = f /\ Approves(empty)]
  <2>1. ASSUME NEW g \in Feeds PROVE row(g) \in FeedConfigs
    <3>1. config[g] \in FeedConfigs
      BY <1>1 DEF ConfigType
    <3>2. (g = f) \in BOOLEAN /\ (g = f /\ Approves(empty)) \in BOOLEAN
      OBVIOUS
    <3>3. \A p, v \in BOOLEAN : [config[g] EXCEPT !.primary = p, !.approved = v] \in FeedConfigs
      BY <3>1 DEF FeedConfigs
    <3> QED BY <3>2, <3>3
  <2>2. config' = [g \in Feeds |-> row(g)]
    BY <1>6 DEF ChooseCommits
  <2> HIDE DEF row
  <2> QED BY <2>1, <2>2 DEF ConfigType
<1>7. ASSUME NEW h \in Historians, ClaimRun(h) \/ Ending(h) PROVE ConfigType'
  <2> DEFINE f == FeedOf(h)
  <2>1. PICK b \in BOOLEAN : config' = [config EXCEPT ![f] = [config[f] EXCEPT !.busy = b]]
    BY <1>7, EndingStep DEF ClaimRun, EndsRun
  <2>2. f \in Feeds
    BY <1>7, EndingStep, HistorianRun DEF ClaimRun, Resting
  <2>3. [config[f] EXCEPT !.busy = b] \in FeedConfigs
    BY <1>1, <2>2 DEF ConfigType, FeedConfigs
  <2> HIDE DEF f
  <2> QED BY <1>1, <2>1, <2>2, <2>3 DEF ConfigType
<1>8. ASSUME FeedNext,
             \A f \in Feeds : ~(Enable(f) \/ Archive(f) \/ Revive(f)),
             \A a \in FeedAdmins, i \in FeedRuns : ~Request(a, i),
             \A a \in FeedAdmins, f \in Feeds, i \in FeedRuns : ~ConfirmPublication(a, f, i),
             \A a \in FeedAdmins : ~(PostFails(a) \/ ChooseCommits(a)),
             \A h \in Historians : ~(ClaimRun(h) \/ Ending(h))
      PROVE  UNCHANGED config
  BY <1>8 DEF FeedNext, CloseCandle, CommitDaily, PostDaily, Admit, ChooseReads, Post, PostArrives,
     CallDies, TakeRun, DropTask, RefuseRun, BeginSync, SyncPage, PublishPage, TaskRaises,
     HistorianDies, Ending, feedRows
<1>9. CASE UNCHANGED config
  BY <1>1, <1>9 DEF ConfigType
<1>10. CASE UNCHANGED feedSyncVars
  BY <1>9, <1>10 DEF feedSyncVars, feedRows
<1> QED BY <1>2, <1>3, <1>4, <1>5, <1>6, <1>7, <1>8, <1>9, <1>10

\* A page is fetched after the cursor, which it moves behind its last candle.
LEMMA SyncPageStep ==
    ASSUME FeedBase, NEW h \in Historians, SyncPage(h)
    PROVE  \E answer \in SUBSET ((historian[h].cursor)..LastOf(h)) :
              /\ (historian[h].cursor)..LastOf(h) \subseteq Times
              /\ fetched' = [fetched EXCEPT ![FeedOf(h)] = @ \cup answer]
              /\ omitted' = [omitted EXCEPT ![FeedOf(h)] =
                     @ \cup (((historian[h].cursor)..LastOf(h)) \ (fetched[FeedOf(h)] \cup answer))]
              /\ canonical' = IF historian[h].publishes THEN Published(FeedOf(h), answer)
                              ELSE canonical
<1>1. historian[h] \in Syncs
  BY HistorianType DEF SyncPage
<1>2. (historian[h].cursor)..LastOf(h) \subseteq Times
  BY <1>1, PageRange, FeedAssumption DEF SyncPage, Syncs, Times
<1> QED BY <1>2 DEF SyncPage, LastOf

LEMMA CandlesStep ==
    ASSUME FeedBase, [FeedNext]_feedSyncVars
    PROVE  CandlesType'
<1>1. CandlesType
  BY BaseParts
<1>2. \A f \in Feeds : \A times : Published(f, times) \in [Times -> Feeds \cup {NoSource, Legacy}]
  BY <1>1 DEF CandlesType, Published
<1>3. ASSUME NEW h \in Historians, BeginSync(h) PROVE CandlesType'
  <2>1. historian[h] # Resting
    BY <1>3 DEF BeginSync, Resting
  <2>2. RunOf(h).from \in 0..MaxTime /\ FeedOf(h) \in Feeds
    BY <2>1, HistorianRun DEF RunOf, FeedRunRows
  <2>3. 1..(RunOf(h).from - 1) \subseteq Times
    BY <2>2, FeedAssumption DEF Times
  <2> QED BY <1>1, <1>3, <2>2, <2>3 DEF BeginSync, CandlesType
<1>4. ASSUME NEW h \in Historians, SyncPage(h) PROVE CandlesType'
  <2>1. FeedOf(h) \in Feeds
    BY <1>4, HistorianRun DEF SyncPage, Resting
  <2> DEFINE asked == (historian[h].cursor)..LastOf(h)
             f == FeedOf(h)
  <2>2. PICK answer \in SUBSET asked :
           /\ asked \subseteq Times
           /\ fetched' = [fetched EXCEPT ![f] = @ \cup answer]
           /\ omitted' = [omitted EXCEPT ![f] = @ \cup (asked \ (fetched[f] \cup answer))]
           /\ canonical' = IF historian[h].publishes THEN Published(f, answer) ELSE canonical
    BY <1>4, SyncPageStep
  <2>3. canonical' \in [Times -> Feeds \cup {NoSource, Legacy}]
    BY <1>1, <1>2, <2>1, <2>2 DEF CandlesType
  <2> HIDE DEF asked, f
  <2>4. fetched' \in [Feeds -> SUBSET Times] /\ omitted' \in [Feeds -> SUBSET Times]
    BY <1>1, <2>2 DEF CandlesType
  <2> QED BY <2>3, <2>4 DEF CandlesType
<1>5. ASSUME NEW h \in Historians, PublishPage(h) PROVE CandlesType'
  <2>1. FeedOf(h) \in Feeds
    BY <1>5, HistorianRun DEF PublishPage, Resting
  <2> QED BY <1>1, <1>2, <1>5, <2>1 DEF PublishPage, CandlesType
<1>6. ASSUME FeedNext, \A h \in Historians : ~(BeginSync(h) \/ SyncPage(h) \/ PublishPage(h))
      PROVE  UNCHANGED feedCandles
  BY <1>6, EndingStep DEF FeedNext, CloseCandle, CommitDaily, PostDaily, Enable, Archive, Revive,
     Admit, ChooseReads, ConfirmPublication, Request, Post, PostArrives, PostFails, CallDies,
     ChooseCommits, TakeRun, DropTask, ClaimRun, RefuseRun, NothingToSync, FinishSync,
     FinishPublication, FailRun, TaskRaises, HistorianDies, feedCandles
<1>7. CASE UNCHANGED feedCandles
  BY <1>1, <1>7 DEF feedCandles, CandlesType
<1>8. CASE UNCHANGED feedSyncVars
  BY <1>7, <1>8 DEF feedSyncVars
<1> QED BY <1>3, <1>4, <1>5, <1>6, <1>7, <1>8

LEMMA CountsStep ==
    ASSUME FeedBase, [FeedNext]_feedSyncVars
    PROVE  CountsType'
<1>1. CountsType
  BY BaseParts
<1>2. Called \/ Fails \/ UNCHANGED feedEvents
  <2>1. CASE FeedNext
    BY <2>1 DEF FeedNext, CloseCandle, CommitDaily, PostDaily, Enable, Archive, Revive, Admit, ChooseReads,
     ConfirmPublication, Request, Post, PostArrives, PostFails, CallDies, ChooseCommits, TakeRun,
     DropTask, ClaimRun, RefuseRun, BeginSync, NothingToSync, SyncPage, FinishSync, PublishPage,
     FinishPublication, FailRun, TaskRaises, HistorianDies
  <2>2. CASE UNCHANGED feedSyncVars
    BY <2>2 DEF feedSyncVars
  <2> QED BY <2>1, <2>2
<1>3. closed' = closed \/ CloseCandle
  <2>1. CASE FeedNext
    BY <2>1 DEF FeedNext, CommitDaily, PostDaily, Enable, Archive, Revive, Admit, ChooseReads,
     ConfirmPublication, Request, Post, PostArrives, PostFails, CallDies, ChooseCommits, TakeRun,
     DropTask, ClaimRun, RefuseRun, BeginSync, NothingToSync, SyncPage, FinishSync, PublishPage,
     FinishPublication, FailRun, TaskRaises, HistorianDies
  <2>2. CASE UNCHANGED feedSyncVars
    BY <2>2 DEF feedSyncVars
  <2> QED BY <2>1, <2>2
<1>4. feedCalls' \in 0..MaxFeedCalls /\ feedFailures' \in 0..MaxFeedFailures
  BY <1>1, <1>2, FeedAssumption DEF CountsType, Called, Fails, feedEvents
<1>5. closed' \in 0..MaxTime
  BY <1>1, <1>3, FeedAssumption DEF CountsType, CloseCandle
<1> QED BY <1>4, <1>5 DEF CountsType

LEMMA FeedNextBase == FeedBase /\ [FeedNext]_feedSyncVars => FeedBase'
<1> SUFFICES ASSUME FeedBase, [FeedNext]_feedSyncVars PROVE FeedBase'
  OBVIOUS
<1>1. (crossed \in BOOLEAN)'
  <2>1. crossed \in BOOLEAN
    BY BaseParts
  <2>2. ASSUME NEW a \in FeedAdmins, NEW f \in Feeds, NEW i \in FeedRuns, ConfirmPublication(a, f, i)
        PROVE  crossed' \in BOOLEAN
    BY <2>2 DEF ConfirmPublication
  <2>3. ASSUME NEW a \in FeedAdmins, ChooseCommits(a) PROVE crossed' \in BOOLEAN
    BY <2>3 DEF ChooseCommits
  <2>4. ASSUME FeedNext, \A a \in FeedAdmins, f \in Feeds, i \in FeedRuns : ~ConfirmPublication(a, f, i),
               \A a \in FeedAdmins : ~ChooseCommits(a)
        PROVE  crossed' = crossed
    BY <2>4 DEF FeedNext, CloseCandle, CommitDaily, PostDaily, Enable, Archive, Revive, Admit, ChooseReads,
       Request, Post, PostArrives, PostFails, CallDies, TakeRun,
       DropTask, ClaimRun, RefuseRun, BeginSync, NothingToSync, SyncPage, FinishSync, PublishPage,
       FinishPublication, FailRun, TaskRaises, HistorianDies
  <2>5. CASE UNCHANGED feedSyncVars
    BY <2>1, <2>5 DEF feedSyncVars
  <2> QED BY <2>1, <2>2, <2>3, <2>4, <2>5
<1>2. /\ RowsType' /\ ConfigType' /\ HandsType' /\ AdminsType' /\ TasksType'
      /\ CandlesType' /\ CountsType'
  BY RowsStep, ConfigStep, HandsStep, AdminsStep, TasksStep, CandlesStep, CountsStep
<1> QED BY <1>1, <1>2, BaseParts, PTL

\* A worker's run keeps its feed.
LEMMA FeedStays ==
    ASSUME FeedBase, [FeedNext]_feedSyncVars, NEW h \in Historians, historian[h] # Resting
    PROVE  feedRun'[historian[h].run].feed = FeedOf(h)
BY HistorianRun, RowsStep DEF RunsGrow, FeedOf, RunOf, FeedBase, RunsExist

-----------------------------------------------------------------------------
(* No holes *)

Covered(f, last) == 1..last \subseteq fetched[f] \cup omitted[f]

\* What lies before a run's next page was fetched, or given up.
Behind ==
    \A h \in Historians :
        historian[h].at = "syncing" => Covered(FeedOf(h), historian[h].cursor - 1)

HoleInv == FeedBase /\ FeedHasNoHole /\ Behind

LEMMA CandlesGrow ==
    ASSUME FeedBase, [FeedNext]_feedSyncVars
    PROVE  \A f \in Feeds : fetched[f] \subseteq fetched'[f]
                         /\ fetched[f] \cup omitted[f] \subseteq fetched'[f] \cup omitted'[f]
<1>1. CandlesType
  BY BaseParts
<1>2. CASE UNCHANGED <<fetched, omitted>>
  BY <1>2
<1>3. ASSUME NEW h \in Historians, BeginSync(h)
      PROVE  \A f \in Feeds : fetched[f] \subseteq fetched'[f]
                         /\ fetched[f] \cup omitted[f] \subseteq fetched'[f] \cup omitted'[f]
  BY <1>1, <1>3 DEF BeginSync, CandlesType
<1>4. ASSUME NEW h \in Historians, SyncPage(h)
      PROVE  \A f \in Feeds : fetched[f] \subseteq fetched'[f]
                         /\ fetched[f] \cup omitted[f] \subseteq fetched'[f] \cup omitted'[f]
  BY <1>1, <1>4 DEF SyncPage, CandlesType
<1>5. ASSUME FeedNext, \A h \in Historians : ~(BeginSync(h) \/ SyncPage(h))
      PROVE  UNCHANGED <<fetched, omitted>>
  BY <1>5, EndingStep DEF FeedNext, CloseCandle, CommitDaily, PostDaily, Enable, Archive, Revive,
     Admit, ChooseReads, ConfirmPublication, Request, Post, PostArrives, PostFails, CallDies,
     ChooseCommits, TakeRun, DropTask, ClaimRun, RefuseRun, NothingToSync, FinishSync, PublishPage,
     FinishPublication, FailRun, TaskRaises, HistorianDies, feedCandles
<1>6. CASE UNCHANGED feedSyncVars
  BY <1>2, <1>6 DEF feedSyncVars, feedCandles
<1> QED BY <1>2, <1>3, <1>4, <1>5, <1>6

LEMMA CoveredStays ==
    ASSUME FeedBase, [FeedNext]_feedSyncVars, NEW f \in Feeds, NEW n \in Int, Covered(f, n)
    PROVE  Covered(f, n)'
BY CandlesGrow DEF Covered

\* A worker that stays in its run stays covered.
LEMMA BehindStays ==
    ASSUME HoleInv, [FeedNext]_feedSyncVars, NEW h \in Historians,
           historian[h].at = "syncing", historian'[h] = historian[h]
    PROVE  Covered(FeedOf(h), historian[h].cursor - 1)'
<1>1. FeedBase /\ historian[h] # Resting /\ historian[h] \in Syncs
  BY HistorianType DEF HoleInv, Resting
<1>2. FeedOf(h) \in Feeds /\ historian[h].cursor - 1 \in Int
  BY <1>1, HistorianRun, FeedAssumption DEF Syncs
<1>3. Covered(FeedOf(h), historian[h].cursor - 1)
  BY DEF HoleInv, Behind
<1>4. FeedOf(h)' = FeedOf(h)
  BY <1>1, FeedStays DEF FeedOf, RunOf
<1> DEFINE f == FeedOf(h)
           n == historian[h].cursor - 1
<1>5. 1..n \subseteq fetched'[f] \cup omitted'[f]
  BY <1>1, <1>2, <1>3, CandlesGrow DEF Covered
<1> QED BY <1>4, <1>5 DEF Covered

LEMMA BeginHole == ASSUME HoleInv, NEW h \in Historians, BeginSync(h) PROVE HoleInv'
<1>1. FeedBase /\ [FeedNext]_feedSyncVars /\ FeedBase' /\ historian[h] # Resting
  <2>1. FeedNext
    BY DEF FeedNext
  <2>2. historian[h] # Resting
    BY DEF BeginSync, Resting
  <2> QED BY <2>1, <2>2, FeedNextBase DEF HoleInv
<1> DEFINE f == FeedOf(h)
           from == RunOf(h).from
<1>2. f \in Feeds /\ from \in 0..MaxTime /\ fetched[f] \subseteq Times
  BY <1>1, HistorianRun, BaseParts DEF RunOf, FeedRunRows, CandlesType
<1>3. PICK first \in IF from # 0 THEN {from} ELSE Resume(f) :
         \E what \in Syncs : Takes(h, what) /\ what.cursor = first
  <2>1. \E first \in IF from # 0 THEN {from} ELSE Resume(f) :
           historian'[h].cursor = first /\ historian'[h].at = "syncing"
    BY <1>1, BaseParts DEF BeginSync, Takes, HandsType
  <2>2. historian'[h].at = "syncing" => historian'[h] \in Syncs
    <3>1. historian' \in [Historians -> {Resting} \cup Claims \cup Begins \cup Syncs \cup Publications]
      BY <1>1, HandsStep DEF HandsType
    <3> QED BY <3>1 DEF Resting, Claims, Begins, Syncs, Publications
  <2>3. historian' = [historian EXCEPT ![h] = historian'[h]]
    BY <1>1, BaseParts DEF BeginSync, Takes, HandsType
  <2> QED BY <2>1, <2>2, <2>3 DEF Takes
<1>4. 1..(first - 1) \subseteq fetched'[f] \cup omitted'[f]
  <2>1. /\ fetched' = fetched
        /\ omitted' = [omitted EXCEPT ![f] = @ \cup ((1..(from - 1)) \ fetched[f])]
    BY DEF BeginSync
  <2>2. CASE from # 0
    BY <1>1, <1>2, <1>3, <2>1, <2>2, BaseParts DEF CandlesType
  <2>3. CASE from = 0 /\ fetched[f] = {}
    BY <1>3, <2>3 DEF Resume
  <2>4. CASE from = 0 /\ fetched[f] # {}
    <3>1. PICK t \in NewestOf(f) : first = IF t > Overlap THEN t - Overlap ELSE 1
      BY <1>3, <2>4 DEF Resume
    <3>2. t \in fetched[f] /\ t \in Nat /\ first <= t /\ first \in Nat
      BY <1>2, <3>1, FeedAssumption DEF NewestOf, Times
    <3>3. 1..t \subseteq fetched[f] \cup omitted[f]
      BY <1>2, <3>2 DEF HoleInv, FeedHasNoHole
    <3> QED BY <1>1, <1>2, <3>2, <3>3, <2>1, BaseParts DEF CandlesType
  <2> QED BY <2>2, <2>3, <2>4
<1>5. FeedHasNoHole'
  BY <1>1, CandlesGrow DEF BeginSync, HoleInv, FeedHasNoHole
<1>6. ASSUME NEW g \in Historians, historian'[g].at = "syncing"
      PROVE  Covered(FeedOf(g), historian[g].cursor - 1)'
  <2>1. CASE g # h
    <3>1. historian'[g] = historian[g]
      BY <1>3, <2>1, <1>1, BaseParts DEF Takes, HandsType
    <3> QED BY <1>1, <1>6, <3>1, BehindStays
  <2>2. CASE g = h
    <3>1. FeedOf(h)' = f
      <4>1. historian'[h].run = historian[h].run /\ feedRun' = feedRun
        BY <1>1, BaseParts DEF BeginSync, Takes, HandsType, feedRows
      <4> QED BY <4>1 DEF FeedOf, RunOf
    <3>2. historian'[h].cursor = first
      BY <1>1, <1>3, BaseParts DEF Takes, HandsType
    <3> QED BY <1>4, <2>2, <3>1, <3>2 DEF Covered
  <2> QED BY <2>1, <2>2
<1> QED BY <1>1, <1>5, <1>6 DEF HoleInv, Behind

LEMMA SyncHole == ASSUME HoleInv, NEW h \in Historians, SyncPage(h) PROVE HoleInv'
<1>1. FeedBase /\ [FeedNext]_feedSyncVars /\ FeedBase' /\ historian[h] # Resting
  <2>1. FeedNext
    BY DEF FeedNext
  <2>2. historian[h] # Resting
    BY DEF SyncPage, Resting
  <2> QED BY <2>1, <2>2, FeedNextBase DEF HoleInv
<1> DEFINE f == FeedOf(h)
           cursor == historian[h].cursor
           last == LastOf(h)
<1>2. historian[h] \in Syncs /\ f \in Feeds
  BY <1>1, HistorianType, HistorianRun DEF SyncPage
<1>3. last \in Nat /\ cursor \in Nat /\ cursor <= last
  BY <1>1, <1>2, PageRange, FeedAssumption DEF SyncPage, Syncs, Times
<1>4. PICK answer \in SUBSET (cursor..last) :
         /\ fetched' = [fetched EXCEPT ![f] = @ \cup answer]
         /\ omitted' = [omitted EXCEPT ![f] = @ \cup ((cursor..last) \ (fetched[f] \cup answer))]
  BY <1>1, SyncPageStep
<1>5. 1..(cursor - 1) \subseteq fetched[f] \cup omitted[f]
  BY DEF HoleInv, Behind, Covered, SyncPage
<1> HIDE DEF f, cursor, last
<1>6. /\ fetched'[f] = fetched[f] \cup answer
      /\ omitted'[f] = omitted[f] \cup ((cursor..last) \ (fetched[f] \cup answer))
      /\ \A g \in Feeds \ {f} : fetched'[g] = fetched[g] /\ omitted'[g] = omitted[g]
  BY <1>1, <1>2, <1>4, BaseParts DEF CandlesType
<1>7. 1..last \subseteq fetched'[f] \cup omitted'[f]
  BY <1>3, <1>5, <1>6
<1>8. FeedHasNoHole'
  <2>1. ASSUME NEW g \in Feeds, NEW t \in fetched'[g]
        PROVE  1..t \subseteq fetched'[g] \cup omitted'[g]
    <3>1. CASE t \in fetched[g]
      BY <1>1, <3>1, CandlesGrow DEF HoleInv, FeedHasNoHole
    <3>2. CASE g = f /\ t \in answer
      BY <1>3, <1>4, <1>7, <3>2
    <3> QED BY <1>6, <2>1, <3>1, <3>2
  <2> QED BY <2>1 DEF FeedHasNoHole
<1>9. ASSUME NEW g \in Historians, historian'[g].at = "syncing"
      PROVE  Covered(FeedOf(g), historian[g].cursor - 1)'
  <2>1. CASE g # h
    <3>1. historian'[g] = historian[g]
      BY <2>1, <1>1, BaseParts DEF SyncPage, HandsType
    <3> QED BY <1>1, <1>9, <3>1, BehindStays
  <2>2. CASE g = h
    <3>1. historian'[h].run = historian[h].run /\ historian'[h].cursor = last + 1
      BY <1>1, <1>2, BaseParts DEF SyncPage, HandsType, Syncs, LastOf, last
    <3>2. FeedOf(h)' = f
      BY <3>1 DEF SyncPage, feedRows, FeedOf, RunOf, f
    <3> QED BY <1>3, <1>7, <2>2, <3>1, <3>2 DEF Covered
  <2> QED BY <2>1, <2>2
<1> QED BY <1>1, <1>8, <1>9 DEF HoleInv, Behind

LEMMA FeedNextHole == HoleInv /\ [FeedNext]_feedSyncVars => HoleInv'
<1> SUFFICES ASSUME HoleInv, [FeedNext]_feedSyncVars PROVE HoleInv'
  OBVIOUS
<1>1. FeedBase /\ FeedBase'
  BY FeedNextBase DEF HoleInv
<1>2. CASE \E h \in Historians : BeginSync(h) \/ SyncPage(h)
  BY <1>2, BeginHole, SyncHole
<1>3. CASE ~ \E h \in Historians : BeginSync(h) \/ SyncPage(h)
  <2>1. UNCHANGED fetched
    <3>1. CASE FeedNext
      BY <1>1, <1>3, <3>1, EndingStep DEF FeedNext, CloseCandle, CommitDaily, PostDaily, Enable, Archive, Revive,
       Admit, ChooseReads, ConfirmPublication, Request, Post, PostArrives, PostFails, CallDies,
       ChooseCommits, TakeRun, DropTask, ClaimRun, RefuseRun, NothingToSync, FinishSync, PublishPage,
       FinishPublication, FailRun, TaskRaises, HistorianDies, feedCandles
    <3>2. CASE UNCHANGED feedSyncVars
      BY <3>2 DEF feedSyncVars, feedCandles
    <3> QED BY <3>1, <3>2
  <2>2. FeedHasNoHole'
    BY <1>1, <2>1, CandlesGrow DEF HoleInv, FeedHasNoHole
  <2>3. ASSUME NEW h \in Historians, historian'[h].at = "syncing"
        PROVE  historian'[h] = historian[h]
    <3>1. ASSUME NEW g \in Historians, NEW what, Takes(g, what), what.at # "syncing"
          PROVE  historian'[h] = historian[h]
      BY <1>1, <2>3, <3>1, BaseParts DEF Takes, HandsType
    <3>2. ASSUME NEW g \in Historians, RefuseRun(g) \/ Ending(g) \/ TaskRaises(g) \/ HistorianDies(g)
          PROVE  historian'[h] = historian[h]
      BY <1>1, <3>1, <3>2, EndingStep DEF RefuseRun, TaskRaises, HistorianDies, EndsRun, Returns, Resting
    <3>3. ASSUME NEW g \in Historians, ClaimRun(g) \/ \E i \in FeedRuns : TakeRun(g, i)
          PROVE  historian'[h] = historian[h]
      BY <3>1, <3>3 DEF ClaimRun, TakeRun
    <3>4. ASSUME NEW g \in Historians, PublishPage(g) PROVE historian'[h] = historian[h]
      <4>1. historian[g] \in Publications
        BY <1>1, <3>4, HistorianType DEF PublishPage
      <4>2. PICK t : historian' = [historian EXCEPT ![g] = [historian[g] EXCEPT !.cursor = t]]
        BY <3>4 DEF PublishPage
      <4>3. [historian[g] EXCEPT !.cursor = t].at = "publishing"
        BY <4>1 DEF Publications
      <4> QED BY <3>1, <4>2, <4>3 DEF Takes
    <3>5. ASSUME FeedNext,
             \A g \in Historians : ~(RefuseRun(g) \/ Ending(g) \/ TaskRaises(g) \/ HistorianDies(g)),
             \A g \in Historians : ~(ClaimRun(g) \/ \E i \in FeedRuns : TakeRun(g, i)),
             \A g \in Historians : ~PublishPage(g)
          PROVE  UNCHANGED historian
      BY <1>3, <3>5 DEF FeedNext, CloseCandle, CommitDaily, PostDaily, Enable, Archive, Revive, Admit,
         ChooseReads, ConfirmPublication, Request, Post, PostArrives, PostFails, CallDies,
         ChooseCommits, DropTask, Ending
    <3>6. CASE UNCHANGED feedSyncVars
      BY <3>6 DEF feedSyncVars
    <3> QED BY <3>2, <3>3, <3>4, <3>5, <3>6
  <2>4. Behind'
    BY <2>3, BehindStays DEF Behind
  <2> QED BY <1>1, <2>2, <2>4 DEF HoleInv
<1> QED BY <1>2, <1>3

-----------------------------------------------------------------------------
(* One source *)

Publishes(h) ==
    historian[h].at = "publishing" \/ (historian[h].at # "idle" /\ historian[h].publishes)

\* Where the candles of the backtests come from, or may come from next.
IsSource(x) ==
    \/ x # NoSource /\ \E t \in Times : canonical[t] = x
    \/ \E h \in Historians : Publishes(h) /\ FeedOf(h) = x
    \/ x \in Feeds /\ config[x].approved

\* A primary feed at most, and only it is approved.
OnePrimary ==
    \A f \in Feeds :
        /\ config[f].approved => config[f].primary
        /\ \A g \in Feeds : config[f].primary /\ config[g].primary => f = g

\* A publication that was admitted is one of an approved feed.
Admission ==
    \A h \in Historians :
        historian[h].at = "claiming" /\ historian[h].runs /\ RunOf(h).kind = "publish"
        => historian[h].publishes

SourceInv ==
    /\ FeedBase /\ OnePrimary /\ Admission
    /\ ~crossed => \A x, y : IsSource(x) /\ IsSource(y) => x = y

LEMMA SourceInit == FeedInit => SourceInv
<1> SUFFICES ASSUME FeedInit PROVE SourceInv
  OBVIOUS
<1>1. FeedBase
  BY FeedInitBase
<1>2. \A f \in Feeds : ~config[f].approved /\ ~config[f].primary
  BY DEF FeedInit
<1>3. \A h \in Historians : historian[h].at = "idle"
  BY DEF FeedInit, Resting
<1>4. \A x : IsSource(x) => x = Legacy
  BY <1>2, <1>3 DEF IsSource, Publishes, FeedInit
<1> QED BY <1>1, <1>2, <1>3, <1>4 DEF SourceInv, OnePrimary, Admission

LEMMA HoleInit == FeedInit => HoleInv
<1> SUFFICES ASSUME FeedInit PROVE HoleInv
  OBVIOUS
<1>1. FeedBase
  BY FeedInitBase
<1>2. FeedHasNoHole /\ Behind
  BY DEF FeedInit, FeedHasNoHole, Behind, Resting
<1> QED BY <1>1, <1>2 DEF HoleInv

\* Steps that approve no feed.
Approving ==
    \E a \in FeedAdmins : \/ ChooseCommits(a)
                          \/ \E f \in Feeds, i \in FeedRuns : ConfirmPublication(a, f, i)

LEMMA ApprovalsShrink ==
    ASSUME FeedBase, [FeedNext]_feedSyncVars, ~Approving, NEW f \in Feeds
    PROVE  /\ config'[f].primary => config[f].primary
           /\ config'[f].approved => config[f].approved /\ (config[f].primary => config'[f].primary)
<1>1. ConfigType /\ config[f] \in FeedConfigs
  BY BaseParts DEF ConfigType
<1> DEFINE Goal == /\ config'[f].primary => config[f].primary
                   /\ config'[f].approved =>
                          config[f].approved /\ (config[f].primary => config'[f].primary)
<1>2. CASE UNCHANGED config
  BY <1>2
<1>3. ASSUME NEW g \in Feeds, Enable(g) \/ Archive(g) \/ Revive(g) PROVE Goal
  BY <1>1, <1>3 DEF Enable, Archive, Revive, ConfigType, FeedConfigs
<1>4. ASSUME NEW a \in FeedAdmins, NEW i \in FeedRuns, Request(a, i) PROVE Goal
  BY <1>1, <1>4 DEF Request, ConfigType, FeedConfigs
<1>5. ASSUME NEW a \in FeedAdmins, PostFails(a) PROVE Goal
  BY <1>1, <1>5 DEF PostFails, ConfigType, FeedConfigs
<1>6. ASSUME NEW h \in Historians, ClaimRun(h) \/ Ending(h) PROVE Goal
  BY <1>1, <1>6, EndingStep DEF ClaimRun, EndsRun, ConfigType, FeedConfigs
<1>7. ASSUME FeedNext,
             \A g \in Feeds : ~(Enable(g) \/ Archive(g) \/ Revive(g)),
             \A a \in FeedAdmins, i \in FeedRuns : ~Request(a, i),
             \A a \in FeedAdmins : ~PostFails(a),
             \A h \in Historians : ~(ClaimRun(h) \/ Ending(h))
      PROVE  UNCHANGED config
  BY <1>7 DEF FeedNext, Approving, CloseCandle, CommitDaily, PostDaily, Admit, ChooseReads, Post,
     PostArrives, CallDies, TakeRun, DropTask, RefuseRun, BeginSync, SyncPage, PublishPage, TaskRaises,
     HistorianDies, Ending, feedRows
<1>8. CASE UNCHANGED feedSyncVars
  BY <1>2, <1>8 DEF feedSyncVars, feedRows
<1> HIDE DEF Goal
<1>9. Goal
  BY <1>2, <1>3, <1>4, <1>5, <1>6, <1>7, <1>8 DEF Goal
<1> QED BY <1>9 DEF Goal

\* A worker that publishes did so before, or its feed is approved.
LEMMA PublishersShrink ==
    ASSUME SourceInv, [FeedNext]_feedSyncVars, NEW h \in Historians, Publishes(h)'
    PROVE  IsSource(FeedOf(h)') /\ (historian' = historian => Publishes(h) /\ FeedOf(h)' = FeedOf(h))
<1>1. FeedBase /\ FeedBase'
  BY FeedNextBase DEF SourceInv
<1>2. CASE historian'[h] = historian[h]
  <2>1. Publishes(h) /\ historian[h] # Resting
    BY <1>2 DEF Publishes, Resting
  <2>2. FeedOf(h)' = FeedOf(h)
    BY <1>1, <1>2, <2>1, FeedStays DEF FeedOf, RunOf
  <2> QED BY <2>1, <2>2 DEF IsSource
<1>3. ASSUME NEW g \in Historians, NEW what, Takes(g, what), historian'[h] # historian[h]
      PROVE  g = h /\ historian'[h] = what
  BY <1>1, <1>3, BaseParts DEF Takes, HandsType
<1>4. ASSUME NEW g \in Historians, RefuseRun(g) \/ Ending(g) \/ TaskRaises(g) \/ HistorianDies(g)
      PROVE  historian'[h] = historian[h]
  <2>1. Takes(g, Resting)
    BY <1>1, <1>4, EndingStep DEF RefuseRun, TaskRaises, HistorianDies, EndsRun, Returns
  <2>2. historian'[h] # Resting
    BY DEF Publishes, Resting
  <2> QED BY <1>3, <2>1, <2>2
<1>5. ASSUME NEW g \in Historians, NEW i \in FeedRuns, TakeRun(g, i), historian'[h] # historian[h]
      PROVE  IsSource(FeedOf(h)')
  <2> DEFINE f == feedRun[i].feed
             c == config[f]
  <2>1. historian'[h].run = i /\ historian'[h].publishes = MayPublish(c) /\ historian'[h].at = "claiming"
    BY <1>3, <1>5 DEF TakeRun
  <2>2. feedRun' = feedRun /\ f \in Feeds
    <3>1. feedRun[i] # NoFeedRun /\ feedRun' = feedRun
      BY <1>5 DEF TakeRun, NoFeedRun, feedRows
    <3> QED BY <1>1, <3>1, BaseParts DEF RowsType, FeedRunRows
  <2>3. MayPublish(c)
    BY <2>1 DEF Publishes
  <2> QED BY <2>1, <2>2, <2>3 DEF IsSource, MayPublish, FeedOf, RunOf
<1>6. ASSUME NEW g \in Historians, ClaimRun(g), historian'[h] # historian[h]
      PROVE  IsSource(FeedOf(h)')
  <2>1. g = h /\ historian[h].at = "claiming" /\ historian[h] # Resting
    BY <1>3, <1>6 DEF ClaimRun, Resting
  <2>2. historian'[h].run = historian[h].run
    BY <1>3, <1>6, <2>1 DEF ClaimRun
  <2>3. FeedOf(h)' = FeedOf(h)
    BY <1>1, <2>1, <2>2, FeedStays DEF FeedOf, RunOf
  <2>4. historian[h].publishes
    <3>1. CASE RunOf(h).kind = "publish"
      BY <1>6, <2>1, <3>1 DEF SourceInv, Admission, ClaimRun
    <3>2. CASE RunOf(h).kind # "publish"
      BY <1>3, <1>6, <2>1, <3>2 DEF ClaimRun, Publishes
    <3> QED BY <3>1, <3>2
  <2> QED BY <2>1, <2>3, <2>4 DEF IsSource, Publishes
<1>7. ASSUME NEW g \in Historians, BeginSync(g) \/ SyncPage(g) \/ PublishPage(g),
             historian'[h] # historian[h]
      PROVE  IsSource(FeedOf(h)')
  <2>1. g = h /\ historian[h] # Resting /\ historian'[h].run = historian[h].run
    BY <1>1, <1>7, BaseParts, HistorianType DEF BeginSync, SyncPage, PublishPage, Takes, HandsType,
       Syncs, Publications, Resting
  <2>2. FeedOf(h)' = FeedOf(h)
    BY <1>1, <2>1, FeedStays DEF FeedOf, RunOf
  <2>3. Publishes(h)
    <3>1. CASE BeginSync(g)
      BY <1>1, <2>1, <3>1, BaseParts DEF BeginSync, Takes, HandsType, Publishes
    <3>2. CASE SyncPage(g)
      BY <1>1, <2>1, <3>2, BaseParts, HistorianType DEF SyncPage, HandsType, Publishes, Syncs
    <3>3. CASE PublishPage(g)
      BY <2>1, <3>3 DEF PublishPage, Publishes
    <3> QED BY <1>7, <3>1, <3>2, <3>3
  <2> QED BY <2>2, <2>3 DEF IsSource
<1>8. ASSUME FeedNext,
             \A g \in Historians : ~(RefuseRun(g) \/ Ending(g) \/ TaskRaises(g) \/ HistorianDies(g)),
             \A g \in Historians : ~(ClaimRun(g) \/ \E i \in FeedRuns : TakeRun(g, i)),
             \A g \in Historians : ~(BeginSync(g) \/ SyncPage(g) \/ PublishPage(g))
      PROVE  UNCHANGED historian
  BY <1>8 DEF FeedNext, CloseCandle, CommitDaily, PostDaily, Enable, Archive, Revive, Admit,
     ChooseReads, ConfirmPublication, Request, Post, PostArrives, PostFails, CallDies, ChooseCommits,
     DropTask, Ending
<1>9. CASE UNCHANGED feedSyncVars
  BY <1>2, <1>9 DEF feedSyncVars
<1> QED BY <1>2, <1>4, <1>5, <1>6, <1>7, <1>8, <1>9

\* Candles come from feeds that publish.
LEMMA CandlesFromSources ==
    ASSUME SourceInv, [FeedNext]_feedSyncVars, NEW t \in Times, canonical'[t] # NoSource
    PROVE  IsSource(canonical'[t])
<1>1. FeedBase /\ CandlesType
  BY BaseParts DEF SourceInv
<1>2. CASE canonical'[t] = canonical[t]
  BY <1>2 DEF IsSource
<1>3. ASSUME NEW h \in Historians, SyncPage(h) PROVE IsSource(canonical'[t])
  <2>1. CASE historian[h].publishes
    <3>1. canonical'[t] \in {FeedOf(h), canonical[t]}
      BY <1>1, <1>3, <2>1, SyncPageStep DEF Published
    <3> QED BY <1>2, <1>3, <2>1, <3>1 DEF IsSource, Publishes, SyncPage
  <2>2. CASE ~historian[h].publishes
    BY <1>1, <1>2, <1>3, <2>2, SyncPageStep
  <2> QED BY <2>1, <2>2
<1>4. ASSUME NEW h \in Historians, PublishPage(h) PROVE IsSource(canonical'[t])
  <2>1. canonical'[t] \in {FeedOf(h), canonical[t]}
    BY <1>4 DEF PublishPage, Published
  <2> QED BY <1>2, <1>4, <2>1 DEF IsSource, Publishes, PublishPage
<1>5. ASSUME FeedNext, \A h \in Historians : ~(SyncPage(h) \/ PublishPage(h))
      PROVE  UNCHANGED canonical
  BY <1>1, <1>5, EndingStep DEF FeedNext, CloseCandle, CommitDaily, PostDaily, Enable, Archive, Revive,
     Admit, ChooseReads, ConfirmPublication, Request, Post, PostArrives, PostFails, CallDies,
     ChooseCommits, TakeRun, DropTask, ClaimRun, RefuseRun, BeginSync, NothingToSync, FinishSync,
     FinishPublication, FailRun, TaskRaises, HistorianDies, feedCandles
<1>6. CASE UNCHANGED feedSyncVars
  BY <1>2, <1>6 DEF feedSyncVars, feedCandles
<1> QED BY <1>2, <1>3, <1>4, <1>5, <1>6

\* A claim decides with the flags it reads.
LEMMA AdmissionStep ==
    ASSUME SourceInv, [FeedNext]_feedSyncVars
    PROVE  Admission'
<1>1. FeedBase /\ FeedBase' /\ RunsGrow
  BY FeedNextBase, RowsStep DEF SourceInv
<1> SUFFICES ASSUME NEW h \in Historians, historian'[h].at = "claiming", historian'[h].runs,
                    feedRun'[historian'[h].run].kind = "publish"
             PROVE  historian'[h].publishes
  BY DEF Admission, RunOf
<1>2. CASE historian'[h] = historian[h]
  <2>1. historian[h] # Resting
    BY <1>2 DEF Resting
  <2>2. RunOf(h).kind = "publish"
    BY <1>1, <1>2, <2>1, HistorianRun DEF RunOf, RunsGrow, FeedBase, RunsExist
  <2> QED BY <1>2, <2>2 DEF SourceInv, Admission
<1>3. ASSUME NEW g \in Historians, NEW what, Takes(g, what), what.at # "claiming"
      PROVE  historian'[h] = historian[h]
  BY <1>1, <1>3, BaseParts DEF Takes, HandsType
<1>4. ASSUME NEW g \in Historians, RefuseRun(g) \/ Ending(g) \/ TaskRaises(g) \/ HistorianDies(g)
      PROVE  historian'[h] = historian[h]
  <2>1. Takes(g, Resting)
    BY <1>1, <1>4, EndingStep DEF RefuseRun, TaskRaises, HistorianDies, EndsRun, Returns
  <2> QED BY <1>3, <2>1 DEF Resting
<1>5. ASSUME NEW g \in Historians, ClaimRun(g) \/ BeginSync(g) PROVE historian'[h] = historian[h]
  BY <1>3, <1>5 DEF ClaimRun, BeginSync
<1>6. ASSUME NEW g \in Historians, SyncPage(g) \/ PublishPage(g) PROVE historian'[h] = historian[h]
  BY <1>1, <1>6, BaseParts, HistorianType DEF SyncPage, PublishPage, HandsType, Syncs, Publications
<1>7. ASSUME NEW g \in Historians, NEW i \in FeedRuns, TakeRun(g, i), historian'[h] # historian[h]
      PROVE  historian'[h].publishes
  <2> DEFINE c == config[feedRun[i].feed]
  <2>1. /\ historian'[h].run = i /\ historian'[h].runs = MayRun(i, c)
        /\ historian'[h].publishes = MayPublish(c)
    BY <1>1, <1>7, BaseParts DEF TakeRun, Takes, HandsType
  <2>2. feedRun[i].kind = "publish"
    BY <1>7, <2>1 DEF TakeRun, feedRows
  <2> QED BY <2>1, <2>2 DEF MayRun, MayPublish
<1>8. ASSUME FeedNext,
             \A g \in Historians : ~(RefuseRun(g) \/ Ending(g) \/ TaskRaises(g) \/ HistorianDies(g)),
             \A g \in Historians : ~(ClaimRun(g) \/ BeginSync(g) \/ SyncPage(g) \/ PublishPage(g)),
             \A g \in Historians, i \in FeedRuns : ~TakeRun(g, i)
      PROVE  UNCHANGED historian
  BY <1>8 DEF FeedNext, CloseCandle, CommitDaily, PostDaily, Enable, Archive, Revive, Admit,
     ChooseReads, ConfirmPublication, Request, Post, PostArrives, PostFails, CallDies, ChooseCommits,
     DropTask, Ending
<1>9. CASE UNCHANGED feedSyncVars
  BY <1>2, <1>9 DEF feedSyncVars
<1> QED BY <1>2, <1>4, <1>5, <1>6, <1>7, <1>8, <1>9

\* A feed beside which there is no other source becomes the only one.
LEMMA OnlySource ==
    ASSUME SourceInv, [FeedNext]_feedSyncVars, NEW f \in Feeds, ~OtherSource(f),
           UNCHANGED <<canonical, historian>>,
           \A g \in Feeds : config'[g].approved => g = f
    PROVE  \A x : IsSource(x)' => x = f
<1>1. FeedBase /\ CandlesType
  BY BaseParts DEF SourceInv
<1>2. \A t \in Times : canonical[t] # NoSource => canonical[t] = f
  BY DEF OtherSource
<1>3. ASSUME NEW h \in Historians, Publishes(h)' PROVE FeedOf(h)' = f
  <2>1. Publishes(h) /\ FeedOf(h)' = FeedOf(h)
    BY <1>3, PublishersShrink
  <2> QED BY <2>1 DEF OtherSource, Publishes, FeedOf, RunOf
<1> QED BY <1>2, <1>3 DEF IsSource

LEMMA ConfirmSource ==
    ASSUME SourceInv, NEW a \in FeedAdmins, NEW f \in Feeds, NEW i \in FeedRuns,
           ConfirmPublication(a, f, i)
    PROVE  OnePrimary' /\ (~crossed' => \A x, y : IsSource(x)' /\ IsSource(y)' => x = y)
<1>1. [FeedNext]_feedSyncVars /\ ConfigType
  BY BaseParts DEF FeedNext, SourceInv
<1>2. /\ config' = [config EXCEPT ![f].approved = TRUE] /\ config[f].primary
      /\ UNCHANGED <<canonical, historian>> /\ crossed' = (crossed \/ OtherSource(f))
  BY DEF ConfirmPublication, feedCandles
<1>3. \A g \in Feeds : /\ config'[g].primary = config[g].primary
                       /\ g # f => config'[g] = config[g]
  BY <1>1, <1>2 DEF ConfigType, FeedConfigs
<1>4. OnePrimary'
  BY <1>2, <1>3 DEF SourceInv, OnePrimary
<1>5. \A g \in Feeds : config'[g].approved => g = f
  BY <1>2, <1>3 DEF SourceInv, OnePrimary
<1> QED BY <1>1, <1>2, <1>4, <1>5, OnlySource

LEMMA ChooseSource ==
    ASSUME SourceInv, NEW a \in FeedAdmins, ChooseCommits(a)
    PROVE  OnePrimary' /\ (~crossed' => \A x, y : IsSource(x)' /\ IsSource(y)' => x = y)
<1> DEFINE f == feedAdmin[a].feed
           empty == feedAdmin[a].empty
<1>1. [FeedNext]_feedSyncVars /\ ConfigType /\ FeedBase /\ f \in Feeds
  <2>1. [FeedNext]_feedSyncVars
    BY DEF FeedNext
  <2> QED BY <2>1, BaseParts, AdminType DEF SourceInv, ChooseCommits, Choosing
<1>2. /\ config' = [g \in Feeds |->
             [config[g] EXCEPT !.primary = g = f, !.approved = g = f /\ Approves(empty)]]
      /\ UNCHANGED <<canonical, historian>> /\ crossed' = (crossed \/ (empty /\ OtherSource(f)))
  BY DEF ChooseCommits, feedCandles
<1>3. ASSUME NEW g \in Feeds
      PROVE  /\ config'[g].primary <=> g = f
             /\ config'[g].approved <=> g = f /\ empty
  <2>1. config[g] \in FeedConfigs
    BY <1>1 DEF ConfigType
  <2>2. \A p, v : /\ [config[g] EXCEPT !.primary = p, !.approved = v].primary = p
                  /\ [config[g] EXCEPT !.primary = p, !.approved = v].approved = v
    BY <2>1 DEF FeedConfigs
  <2>3. config'[g] = [config[g] EXCEPT !.primary = g = f, !.approved = g = f /\ Approves(empty)]
    BY <1>2
  <2>4. /\ config'[g].primary = (g = f)
        /\ config'[g].approved = (g = f /\ Approves(empty))
    BY <2>2, <2>3
  <2> QED BY <2>4 DEF Approves
<1> HIDE DEF f, empty
<1>4. OnePrimary'
  BY <1>3 DEF OnePrimary
<1>5. ASSUME empty, ~crossed' PROVE \A x, y : IsSource(x)' /\ IsSource(y)' => x = y
  <2>1. ~OtherSource(f)
    BY <1>2, <1>5
  <2>2. \A g \in Feeds : config'[g].approved => g = f
    BY <1>3
  <2>3. \A x : IsSource(x)' => x = f
    BY <1>1, <1>2, <2>1, <2>2, OnlySource
  <2> QED BY <2>3
<1>6. ASSUME ~empty, ~crossed' PROVE \A x, y : IsSource(x)' /\ IsSource(y)' => x = y
  <2>1. \A x : IsSource(x)' => IsSource(x)
    <3>1. ASSUME NEW h \in Historians, Publishes(h)' PROVE Publishes(h) /\ FeedOf(h)' = FeedOf(h)
      BY <1>1, <1>2, <3>1, PublishersShrink
    <3> QED BY <1>2, <1>3, <1>6, <3>1 DEF IsSource
  <2>2. ~crossed
    BY <1>2, <1>6
  <2>3. \A x, y : IsSource(x) /\ IsSource(y) => x = y
    BY <2>2 DEF SourceInv
  <2> QED BY <2>1, <2>3
<1> QED BY <1>4, <1>5, <1>6

LEMMA FeedNextSource == SourceInv /\ [FeedNext]_feedSyncVars => SourceInv'
<1> SUFFICES ASSUME SourceInv, [FeedNext]_feedSyncVars PROVE SourceInv'
  OBVIOUS
<1>1. FeedBase' /\ Admission'
  BY FeedNextBase, AdmissionStep DEF SourceInv
<1>2. CASE Approving
  BY <1>1, <1>2, ConfirmSource, ChooseSource DEF Approving, SourceInv
<1>3. CASE ~Approving
  <2>1. OnePrimary'
    BY <1>3, ApprovalsShrink DEF SourceInv, OnePrimary
  <2>2. \A x : IsSource(x)' => IsSource(x)
    BY <1>3, ApprovalsShrink, PublishersShrink, CandlesFromSources DEF IsSource, SourceInv
  <2>3. crossed' = crossed
    <3>1. CASE FeedNext
      BY <1>3, <3>1 DEF Approving, FeedNext, CloseCandle, CommitDaily, PostDaily, Enable, Archive,
         Revive, Admit, ChooseReads, Request, Post, PostArrives, PostFails, CallDies, TakeRun,
         DropTask, ClaimRun, RefuseRun, BeginSync, NothingToSync, SyncPage, FinishSync, PublishPage,
         FinishPublication, FailRun, TaskRaises, HistorianDies
    <3>2. CASE UNCHANGED feedSyncVars
      BY <3>2 DEF feedSyncVars
    <3> QED BY <3>1, <3>2
  <2> QED BY <1>1, <2>1, <2>2, <2>3 DEF SourceInv
<1> QED BY <1>2, <1>3

-----------------------------------------------------------------------------
(* Theorems *)

\* The type invariant of the feeds, their runs and the administrators' calls.
THEOREM FeedTypeCorrect == FeedSpec => []FeedTypeOK
<1>1. FeedSpec => []FeedBase
  BY FeedInitBase, FeedNextBase, PTL DEF FeedSpec
<1> QED BY <1>1, PTL DEF FeedBase

\* Runs that stop at their last page, fail, die and are delivered again, whatever
\* their number and whoever asked for them, leave no hole behind a saved candle.
THEOREM FeedLeavesNoHole == FeedSpec => []FeedHasNoHole
<1>1. FeedSpec => []HoleInv
  BY HoleInit, FeedNextHole, PTL DEF FeedSpec
<1> QED BY <1>1, PTL DEF HoleInv

\* Unless a feed was approved beside another source, the candles of the
\* backtests have one.
THEOREM FeedOneSource == FeedSpec => []OneSource
<1>1. FeedSpec => []SourceInv
  BY SourceInit, FeedNextSource, PTL DEF FeedSpec
<1>2. SourceInv => OneSource
  BY DEF SourceInv, OneSource, IsSource
<1> QED BY <1>1, <1>2, PTL

-----------------------------------------------------------------------------
(* The daily dispatch *)

\* A feed whose row a dispatch has seen to was posted or is about to be.
DailySound ==
    /\ dailyTasks \subseteq handedOver /\ batch.read \subseteq handedOver
    /\ \A f \in DailyFeeds : dailyRun[f] = "taken" => f \in handedOver
    /\ \A d \in DailyDispatchers : dispatcher[d] # NotDispatching =>
           dispatcher[d].read \ dispatcher[d].left \subseteq dispatcher[d].runs \cup handedOver

DailyInv == DailyTypeOK /\ DailySound

LEMMA DispatcherType ==
    ASSUME DailyTypeOK, NEW d \in DailyDispatchers, dispatcher[d] # NotDispatching
    PROVE  dispatcher[d] \in [at : {"queueing"}, read : SUBSET DailyFeeds, left : SUBSET DailyFeeds,
                              runs : SUBSET DailyFeeds]
BY DEF DailyTypeOK

LEMMA DailyInitInv == DailyInit => DailyInv
BY DailyAssumption DEF DailyInit, DailyInv, DailyTypeOK, DailySound, NotDispatching

LEMMA DailyNextInv == DailyInv /\ [DailyNext]_dailyVars => DailyInv'
<1> SUFFICES ASSUME DailyInv, [DailyNext]_dailyVars PROVE DailyInv'
  OBVIOUS
<1> USE DEF DailyInv
<1>1. ASSUME NEW d \in DailyDispatchers, ReadFeeds(d) PROVE DailyInv'
  <2>1. DailyTypeOK'
    BY <1>1, DailyAssumption DEF DailyTypeOK, ReadFeeds, Has
  <2>2. DailySound'
    BY <1>1, DispatcherType DEF DailyTypeOK, DailySound, ReadFeeds, Has, NotDispatching
  <2> QED BY <2>1, <2>2
<1>2. ASSUME NEW d \in DailyDispatchers, MarkDispatched(d) PROVE DailyInv'
  <2>1. DailyTypeOK'
    BY <1>2, DispatcherType DEF DailyTypeOK, MarkDispatched, Has, NotDispatching
  <2>2. DailySound'
    BY <1>2, DispatcherType DEF DailyTypeOK, DailySound, MarkDispatched, Has, NotDispatching
  <2> QED BY <2>1, <2>2
<1>3. ASSUME NEW d \in DailyDispatchers, DispatchDies(d) PROVE DailyInv'
  BY <1>3 DEF DailyTypeOK, DailySound, DispatchDies, Has, NotDispatching
<1>4. ASSUME NEW d \in DailyDispatchers, NEW f \in DailyFeeds, EnqueueRun(d, f) PROVE DailyInv'
  <2>0. [dispatcher[d] EXCEPT !.left = @ \ {f}, !.runs = @ \cup ToPost(f)]
           \in [at : {"queueing"}, read : SUBSET DailyFeeds, left : SUBSET DailyFeeds,
               runs : SUBSET DailyFeeds]
    <3>1. dispatcher[d] \in [at : {"queueing"}, read : SUBSET DailyFeeds, left : SUBSET DailyFeeds,
                             runs : SUBSET DailyFeeds]
      BY <1>4, DispatcherType DEF EnqueueRun
    <3>2. ToPost(f) \in SUBSET DailyFeeds
      BY DEF ToPost
    <3> HIDE DEF DailyInv
    <3> QED BY <3>1, <3>2
  <2>1. DailyTypeOK'
    BY <1>4, <2>0 DEF DailyTypeOK, EnqueueRun
  <2>2. DailySound'
    BY <1>4, DispatcherType DEF DailyTypeOK, DailySound, EnqueueRun, ToPost, NotDispatching
  <2> QED BY <2>1, <2>2
<1>5. ASSUME NEW d \in DailyDispatchers, NEW f \in DailyFeeds, PostRun(d, f) PROVE DailyInv'
  <2>1. DailyTypeOK'
    BY <1>5, DispatcherType DEF DailyTypeOK, PostRun
  <2>2. DailySound'
    BY <1>5, DispatcherType DEF DailyTypeOK, DailySound, PostRun, NotDispatching
  <2> QED BY <2>1, <2>2
<1>6. ASSUME NEW f \in DailyFeeds, TakeTask(f) PROVE DailyInv'
  BY <1>6 DEF DailyTypeOK, DailySound, TakeTask
<1>7. ASSUME NEW f \in DailyFeeds, Reschedule(f) PROVE DailyInv'
  BY <1>7 DEF DailyTypeOK, DailySound, Reschedule
<1>8. CASE UNCHANGED dailyVars
  BY <1>8 DEF DailyTypeOK, DailySound, dailyVars
<1> QED BY <1>1, <1>2, <1>3, <1>4, <1>5, <1>6, <1>7, <1>8 DEF DailyNext

\* The type invariant of a day's dispatch.
THEOREM DailyTypeCorrect == DailySpec => []DailyTypeOK
<1>1. DailySpec => []DailyInv
  BY DailyInitInv, DailyNextInv, PTL DEF DailySpec
<1> QED BY <1>1, PTL DEF DailyInv

\* However many dispatches of a day die, are repeated or run beside each other,
\* those that mark it have every run they read posted.
THEOREM DailyRunsAreSent == DailySpec => []DailyRunIsSent
<1>1. DailySpec => []DailyInv
  BY DailyInitInv, DailyNextInv, PTL DEF DailySpec
<1>2. DailyInv => DailyRunIsSent
  BY DEF DailyInv, DailySound, DailyRunIsSent
<1> QED BY <1>1, <1>2, PTL
=============================================================================
