---------------------------- MODULE DailyDispatch ----------------------------
(***************************************************************************)
(* The dispatch of one day's history runs (dispatch_for_date and           *)
(* _enqueue_run, daily_tasks.py): by the task of the scheduled time, by    *)
(* that task delivered again, and by the scheduler when it starts and      *)
(* finds the day not marked.                                               *)
(***************************************************************************)
EXTENDS Naturals

CONSTANTS
    DailyFeeds,
    DailyDispatchers,   \* dispatches at one time
    MaxDispatches   \* bound: dispatches of the day

ASSUME DailyAssumption == MaxDispatches \in Nat

VARIABLES
    batch,        \* the day's row of market_data_sync_batches
    scheduled,    \* feeds that are enabled and not archived
    dailyRun,     \* the day's run of each feed, found by its run_key
    dailyTasks,   \* feeds whose run has a task in the queue
    dispatcher,   \* what each dispatch has in hand
    dispatches,   \* the number of dispatches, for its bound
    handedOver    \* history: feeds whose run's task was posted

dailyVars == <<batch, scheduled, dailyRun, dailyTasks, dispatcher, dispatches, handedOver>>

NotDispatching == [at |-> "idle"]

DailyTypeOK ==
    /\ batch \in [row : {"none", "open", "dispatched"}, read : SUBSET DailyFeeds]
    /\ scheduled \subseteq DailyFeeds /\ dailyTasks \subseteq DailyFeeds
    /\ dailyRun \in [DailyFeeds -> {"none", "QUEUED", "taken"}]
    /\ dispatcher \in [DailyDispatchers -> {NotDispatching}
           \cup [at : {"queueing"}, read : SUBSET DailyFeeds, left : SUBSET DailyFeeds,
                 runs : SUBSET DailyFeeds]]
    /\ dispatches \in 0..MaxDispatches /\ handedOver \subseteq DailyFeeds

DailyInit ==
    /\ batch = [row |-> "none", read |-> {}] /\ scheduled = DailyFeeds
    /\ dailyRun = [f \in DailyFeeds |-> "none"] /\ dailyTasks = {} /\ handedOver = {}
    /\ dispatcher = [d \in DailyDispatchers |-> NotDispatching] /\ dispatches = 0

Has(d, what) == dispatcher' = [dispatcher EXCEPT ![d] = what]

\* The day's row is inserted or found unmarked, the feeds are read, and the row
\* is committed.
ReadFeeds(d) ==
    /\ dispatches < MaxDispatches /\ dispatches' = dispatches + 1
    /\ dispatcher[d] = NotDispatching /\ batch.row # "dispatched"
    /\ batch' = [batch EXCEPT !.row = "open"]
    /\ Has(d, [at |-> "queueing", read |-> scheduled, left |-> scheduled, runs |-> {}])
    /\ UNCHANGED <<scheduled, dailyRun, dailyTasks, handedOver>>

\* Faulty variant: only the row that this dispatch inserted is posted.
BadToPost(f) == IF dailyRun[f] = "none" THEN {f} ELSE {}

\* A row is inserted, or is QUEUED since a dispatch that may not have posted it.
ToPost(f) == IF dailyRun[f] \in {"none", "QUEUED"} THEN {f} ELSE {}

\* The row is committed; run_key is unique.
EnqueueRun(d, f) ==
    /\ dispatcher[d] # NotDispatching /\ f \in dispatcher[d].left
    /\ dailyRun' = [dailyRun EXCEPT ![f] = IF @ = "none" THEN "QUEUED" ELSE @]
    /\ dispatcher' = [dispatcher EXCEPT ![d].left = @ \ {f}, ![d].runs = @ \cup ToPost(f)]
    /\ UNCHANGED <<batch, scheduled, dailyTasks, dispatches, handedOver>>

\* The tasks are posted when the rows of all feeds are committed ...
PostRun(d, f) ==
    /\ dispatcher[d] # NotDispatching /\ dispatcher[d].left = {} /\ f \in dispatcher[d].runs
    /\ dispatcher' = [dispatcher EXCEPT ![d].runs = @ \ {f}]
    /\ dailyTasks' = dailyTasks \cup {f} /\ handedOver' = handedOver \cup {f}
    /\ UNCHANGED <<batch, scheduled, dailyRun, dispatches>>

\* ... and the day is marked when all are posted.
MarkDispatched(d) ==
    /\ dispatcher[d] # NotDispatching /\ dispatcher[d].left = {} /\ dispatcher[d].runs = {}
    /\ batch' = [row |-> "dispatched", read |-> batch.read \cup dispatcher[d].read]
    /\ Has(d, NotDispatching)
    /\ UNCHANGED <<scheduled, dailyRun, dailyTasks, dispatches, handedOver>>

\* The process dies, or the queue or the database raises.
DispatchDies(d) ==
    /\ dispatcher[d] # NotDispatching /\ Has(d, NotDispatching)
    /\ UNCHANGED <<batch, scheduled, dailyRun, dailyTasks, dispatches, handedOver>>

\* A worker has the task: it takes the run, or fails before and leaves it.
TakeTask(f) ==
    /\ f \in dailyTasks /\ dailyTasks' = dailyTasks \ {f}
    /\ dailyRun' \in {dailyRun, [dailyRun EXCEPT ![f] = "taken"]}
    /\ UNCHANGED <<batch, scheduled, dispatcher, dispatches, handedOver>>

\* An administrator enables, disables or deletes the feed.
Reschedule(f) ==
    /\ scheduled' = IF f \in scheduled THEN scheduled \ {f} ELSE scheduled \cup {f}
    /\ UNCHANGED <<batch, dailyRun, dailyTasks, dispatcher, dispatches, handedOver>>

DailyNext ==
    \/ \E d \in DailyDispatchers :
        \/ ReadFeeds(d) \/ MarkDispatched(d) \/ DispatchDies(d)
        \/ \E f \in DailyFeeds : EnqueueRun(d, f) \/ PostRun(d, f)
    \/ \E f \in DailyFeeds : TakeTask(f) \/ Reschedule(f)

DailySpec == DailyInit /\ [][DailyNext]_dailyVars

\* A day is marked by a dispatch when the run of every feed it read was posted,
\* by itself or by a dispatch that died or runs beside it.
DailyRunIsSent == batch.row = "dispatched" => batch.read \subseteq handedOver
=============================================================================
