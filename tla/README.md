# A TLA+ verification project for AlgoAgentX

AlgoAgentX is an algorithmic trading platform: a FastAPI application with
Celery workers, Redis and PostgreSQL (`AlgoAgentXAPI`), a Next.js client
(`AlgoAgentXApp`) and a Windows agent for MetaTrader 5. It backtests
strategies for credits and runs them live against broker accounts. This
directory models the parts of the API where several processes share state and
may fail, checks them with TLC and proves their main properties with TLAPS.

Paths below are relative to `AlgoAgentXAPI/app` unless they start with
`AlgoAgentX` or `docs`.

## 1. Inventory

State is kept in PostgreSQL (rows, session and transaction advisory locks), in
Redis (streams, lists, keys with a time to live, the Celery broker) and in the
memory of long-lived workers. Almost every hard behaviour comes from a process
that reads one of these, awaits something, and then writes another.

| Component | State | Operations | What makes it hard | What makes it correct |
|---|---|---|---|---|
| Durable backtests: `services/backtest_jobs.py`, `backtest_dispatcher.py`, `backtest_control.py`, `backtest_celery.py`, `tasks.py` | `job_status`, `backtest_execution` (fence, attempts, owner, heartbeat, dispatch mark, cancel flag), advisory lock, Redis message | submit, claim, heartbeat, finalize, fail, recover, retry, cancel | lost lock connections, duplicate messages, crashes, stale owners, two lock orders | one current owner; charged and saved once; bounded attempts; nothing left RUNNING for ever |
| Credits: `services/credits/management.py`, `api/v1/credits.py`, `services/subscriptions/lifecycle.py` | `user_credits`, `credit_transactions`, included credits of a subscription | consume, debit, credit, adjust, cycle refill | the summary and the capacity are read before the wallet is locked; refills computed from unlocked reads | balance equals the ledger; never overdrawn; a job charged once; quota and refills add up |
| Job API: `services/job_service.py`, `api/v1/jobs.py` | `job_status` | retry, progress, list | retry races the worker and the late dispatch mark | a retry leads to a delivery |
| cTrader order gateway: `services/brokers/ctrader_order_gateway.py`, `services/live/live_event_bus.py`, `live_market_worker.py`, `services/brokers/ctrader_connection_manager.py` | order stream and consumer group, dedupe key, reply list, `LiveBrokerOrderIntent`, session send queue | submit order, submit close, process message, reserve, send, complete | redelivery, expiring keys, late sends, lost sessions, crashes between reserve, send and complete | an order is sent at most once; success is only reported when it is true and durable; requests are worked off |
| Live order placement: `services/live/execution_engine.py` | `LiveOrder` rows, copy accounts, an advisory lock per account | reserve entry, submit, release, recover, reconcile | two dispatchers, a lock that ends with the reservation's commit, reclaim of released rows | a copy is sent again only if it was not sent |
| Strategy running: `services/live/strategy_runner.py`, `auto_runner_service.py`, `live_strategy_worker.py`, `deployment_lock.py`, `runner_scheduler.py`, `retained_strategy_state.py` | deployment cursor, signals, advisory lock, candle stream, retained state | run on a closed candle, retain, resume | several runners; the lock ends with the first commit; messages delivered again | an entry per candle is sent once; no candle moves the cursor before the strategy has answered for it |
| Candle catch-up: `services/live/candle_catchup.py`, `candle_poll_schedule.py` | candle cursor | plan recovery, poll | gaps, session closures | the next stored candle, an order only for the newest |
| Reconciliation: `services/live/broker_sync_service.py`, `live_reconcile_worker.py`, `deployment_lock.py` | `LivePosition`, transaction advisory lock | sync positions, close, delete | a commit inside the section frees the lock | positions converge to the broker's |
| Partial exits: `services/live/live_partial_exit_service.py`, `live_position_manager_worker.py` | `LivePositionManagementState`, `LiveOrder` | create, trigger, send, reconcile, retry | a retry after an uncertain outcome | a position is reduced once |
| MT5 agent: `api/v1/mt5_agent.py`, `services/brokers/mt5_agent.py` | `MT5AgentCommand` rows | queue, poll, store result | two polls, a result that comes twice or never | a command is executed once |
| Alerts: `services/alerts/*`, `api/v1/alerts.py` | `PriceAlert`, `AlertEvent`, `NotificationDelivery`, a Redis key per alert | evaluate, edit, enable, deliver, retry, mark ambiguous | requests that read without a lock; crash after SENDING is committed; a send slower than its limit | an event for every crossing and no other; no duplicate notification |
| Subscriptions: `services/subscriptions/lifecycle.py`, `api/v1/subscriptions.py` | `user_subscriptions`, included credits | refill, grace, expire, webhook | every reader may refill | one refill per cycle |
| Payments: `api/v1/payments.py`, `billing.py`, `webhooks.py`, `services/payments/*`, `services/billing/coupon_service.py` | billing orders, webhook events, coupon redemptions | create, verify, webhook, refund | verify call and webhook race | one grant per paid order |
| Market data: `services/market_data/daily_tasks.py`, `daily_sync.py`, `feed_publish.py`, `api/v1/admin_market_data_sync.py` | daily batches, sync configurations and runs, each feed's candles, the backtests' candles | dispatch a day, sync, publish, run now, fetch a range, choose and confirm the primary feed, enable, archive | a dispatch that dies and is repeated beside another, a run that keeps the configuration it read, a task posted after its row | every row of a marked day was posted; a run leaves no hole behind the newest candle; the backtests read one source |
| Sequential calculations: `services/backtest_service.py`, `AlgoAgentXAPI/engine`, `services/trading/*`, `services/funded_backtest/*` | none across calls | simulate, size, price | decimal and float arithmetic | numeric |
| CRUD and I/O: users, authentication, strategies, screener, support, reports, notifications, web front end | single rows | create, read, update | nothing concurrent of their own | not modelled |

How they interact: the API commits a row and publishes an identifier (Celery
message or stream entry); a worker takes it, locks or claims, works, and
commits. The live path is a chain of such hand-overs: market worker → candle
stream → strategy worker → execution engine → order gateway → order stream →
market worker → broker session. The hazards list of `PROJECT.json` names each
of these gaps at its line.

## 2. Modules

| Module | Role |
|---|---|
| `BacktestJobs` | durable backtests: submit, queue, workers, dispatcher, retry, cancellation, and the rows and locks they share |
| `MCBacktestJobs` + five `.cfg` | instances for TLC |
| `JobService` | what durable execution promises about a queued backtest |
| `BacktestJobs_proofs` | inductive invariant, theorems, and the refinement of `JobService` |
| `OrderService` | what a way to a broker promises: an order is sent at most once, and a success is recorded once, after the send or by mistake |
| `CTraderGateway` | the detailed gateway: callers, stream, dedupe key, intent row, send queue, broker |
| `MCCTraderGateway` + one `.cfg` | the gateway's recovery, for TLC |
| `MCOrders` + one `.cfg` | the gateway and the MT5 commands, one or the other, for TLC |
| `CTraderGateway_proofs` | inductive invariant, theorems, and the refinement of `OrderService` |
| `PaymentService` | what the checkout promises about an order: granted once and for its money |
| `BillingPayments` | a Razorpay order between the browser's calls and the two webhook endpoints |
| `MCBillingPayments` + three `.cfg` | instances for TLC |
| `CreditLedger` | a user's wallet, ledger and included credits between debits, refills, top-ups and adjustments |
| `Credits_proofs` | invariants and theorems of `CreditLedger` and of `BillingPayments`, and the refinement of `PaymentService` |
| `CopyDispatch` + `MCCopyRelease.cfg` | copies of an entry between the strategy runner and the reconcile worker |
| `PartialExit` | the partial exit of one position, over `OrderService` for cTrader |
| `PartialExit_proofs` | its invariant, theorems, and that it uses the gateway as `OrderService` allows |
| `Mt5Commands` | entries of an MT5 account through command rows and the Windows agent |
| `EntryOrders_proofs` | invariants and theorems of `CopyDispatch` and of `Mt5Commands`, and the refinement of `OrderService` by the commands |
| `AlertDelivery` | the outbox of notifications |
| `PriceAlerts` | one price alert, its prices and its owner's requests |
| `Alerts_proofs` | invariants and theorems of both |
| `CandleRuns`, `CandleRuns_proofs` | the closed candles of one deployment between the market worker, the strategy workers, the scheduler and a user's call |
| `FeedSync` | the broker history of one instrument: feeds, their runs, the administrator's requests and the candles the backtests read |
| `DailyDispatch` | the dispatch of one day's runs, by the scheduled task, its redelivery and the scheduler |
| `FeedSync_proofs` | invariants and theorems of `FeedSync` and `DailyDispatch` |
| `MCServices` + one `.cfg` | eight modules side by side (all those above from `CreditLedger` on, but `Mt5Commands`), for TLC |

### BacktestJobs and JobService

A step of the model is a piece of code between two points where another
process can run: a commit, a lock wait, an `await` on another system.

* **Rows.** `status` is `job_status.status`; `fence`, `attempts`, `cancel`,
  `stage`, `owner`, `hb` (`heartbeat_at`) and `sent` (`dispatched_at`) are the
  columns of `backtest_execution`. Times are `null`, `fresh` or `old` (more than
  120 seconds ago, the only comparison the code makes), and `HeartbeatAges` and
  `DispatchAges` let time pass at any moment. `stage` keeps apart `queued`, the
  terminal values and everything else (`active`): the code tests only
  `stage <> 'completed'`. `ledger` is the net committed debit of a job,
  `results` the number of saved backtests.
* **Locks.** `advisory` is the session advisory lock; `rowE`, `rowJ` and
  `wallet` are row locks. `SELECT ... FOR UPDATE OF e` is two steps
  (`ClaimRead`, `ClaimLock`): under READ COMMITTED a statement that waits
  rereads the locked row but keeps its snapshot of the joined `job_status`
  row, so the claim and the dispatcher decide on a status that may be stale.
  `Save` locks `job_status` before `Guard` locks `backtest_execution`, all
  others in the opposite order; `DeadlockVictim` is PostgreSQL breaking the
  cycle (`Deadlocked`). `Blocks(q, p)` is the wait-for graph of all locks, also of
  the wallet: `WaitsEnd` says that a chain of waits in it has at most two links
  or is that one cycle, and that no lock outlives what its owner does with it
  (`LocksHaveOwners`). Results, charge, stage and status belong to one transaction, so `Commit`
  writes them together.
* **A worker** goes `claim → claimWait → claimLocked → started → running →
  summed → computing → guardWait → guarded → exit`, or through `failing` and
  `handling` when `execute` raises. `EarlyCommit` is the RUNNING commit of
  `_execute_backtest_sync`, `ReadLedger` and `Debit` are
  `consume_credits_for_backtest`, `Save` the results, `Guard` `finalize_guard`.
  The heartbeat task runs in parallel and is the only way a worker learns that
  its connection is gone or the job is cancelled.
* **The dispatcher** scans, takes advisory locks, rechecks, publishes and
  records, one action each. **Retry** reads without a lock and then locks.
* **Faults** (`Faults` chooses them): crash with or without redelivery
  (`reject_on_worker_lost`, hard time limit), lost lock connection, failing
  heartbeat, transient and permanent errors of `execute`, a commit whose answer
  is lost, a failing failure handler, failing publishes whose message may have
  arrived, duplicate delivery, aborted claims, user cancellation.

`JobService` has four actions. `Attempt` is a claim, `Finish` the commit of a
result with its charge, `Drop` the mark of a cancellation, and `Show` every
other move of the status. The mapping takes the committed rows as they are:
`state` is `status`, `tried` the attempts, `saved` the results, `paid` the net
debit, `dropped` the cancel flag. So it says in one place what crashes, duplicate
deliveries, retries and superseded workers may not do together: start more than
`MaxAttempts` attempts, save more results than attempts, leave a saved job
unpaid or paid twice, start or finish a cancelled one. It promises nothing about
the order of the other statuses, because the code does not (finding 1).
`OrphansAreFound` is the safety half of recovery: a job that is left running by
a dead worker has no lock on it and times that the dispatcher's scan finds once
they are old; nothing a failed claim, a retry or a lost connection leaves behind
hides it. `RunningEnds` adds that it is found.
`StaleWritesOnlyRunning` is the exact extent of finding 1: of all that a
superseded attempt may do after its successor was claimed, the status RUNNING is the
only thing it writes.

Abstractions: a job costs `Cost` for every attempt (the estimate is recomputed
but depends only on the job); a refused charge (402) is a permanent failure;
progress updates are fenced by owner and status in SQL and write neither
status nor fence, and are left out; cancellation is one statement, so that one
which waits for a row lock and then marks a job that ended meanwhile is not
distinguished from one that came too late; the legacy statuses `pending` and
`retry`, which no durable path writes, are left out. A notification follows the
final commit and writes no modelled state.

### CTraderGateway and OrderService

* **Caller** (`submit_market_order`, `submit_close_position`): looks at the
  dedupe key, publishes, waits for the reply. The two functions differ in what
  a timeout says (`PENDING` for an entry, `FAILED` for a close) and only
  entries have a deadline: `Entries` is the set of entry keys.
* **Consumer** (`_process_order_message`): `pc[g][r]` is the task of worker `g`
  for request `r`; every await is a step. `Reclaim` is `XAUTOCLAIM`: it takes a
  message from a slow worker as well as from a dead one, so two workers
  process one request. `dedupe` is the Redis key, `intent` the row of
  `LiveBrokerOrderIntent`.
* **Session**: `outbox` is the send queue, `SenderLoop` the task that drains
  it, also after the request that queued an order has timed out. The broker is
  external: it accepts, rejects, cancels or fills.
* **Answers**: `PLACED` also stands for `PARTIAL`; a task's wait ends with the
  fill, with an acknowledgement only, or unanswered.
* **Routing of events.** `Filled` and `Acknowledged` are the events of the order
  itself. `_route_message` has a fallback (700-710): an execution event without
  a `clientMsgId` that names no known order, such as a stop loss, a manual trade
  or the late fill of an order that timed out, goes to the account's only order that
  waits (`OnlyPending`), whether that one was written to the socket or not.
  `StrayEvent` is such an event, and the variable `mistaken` the orders
  that took one for their own.
* **Faults**: worker crash, Redis errors at every Redis call (also in the
  failure handler), database errors around the intent row, lost sessions and
  rejected orders, stray events, an expired entry deadline, expiry of the dedupe
  key at any time, also under a running task.

`SuccessIsDurable` says what an answer is worth: FILLED or PLACED is what the intent row
says, and what the row says the broker did, for this very order, unless the
order is in `mistaken`. Without the fallback `mistaken` would be empty.

`OrderService` has four actions: `Send` (at most once per key), `Mistake` (another
order's event is taken for this one's), `Record` (the acceptance, once, after
the send or a mistake) and `Answer` (a success only if it is the recorded one). The
refinement maps `sent` to the socket writes, `mistaken` to itself, `outcome` to the
completed intent row and `told` to the callers' answers.

Abstractions: the orders are those of one account, and a stray event comes from
outside of them or from a timed-out one, at any time; a request's identity is its idempotency key; volumes, prices and
symbols are data; the stream is unbounded, `MAXLEN` trimming is left out;
`request_account_snapshot` reads only. A caller that dies is one that stays
where it is.

### BillingPayments and PaymentService

* **Rows.** `status` is `payments.status` of an order, `grants` the committed
  credit transactions (top-up) or activations (subscription) it has caused,
  `logged` the deliveries recorded as PROCESSED or IGNORED in
  `billing_webhook_events`. The row there is found by the id of the Razorpay
  payment (an *attempt*), whatever the event and the endpoint: `Duplicate`.
* **Requests.** A request of the API takes any of the calls: `verify` and
  `failure` by the browser, or a delivery of an event to an endpoint. It goes
  `start → wait → locked → idle`: the look at the log, the wait for
  `SELECT ... FOR UPDATE` on the payments row, the decision and commit. A
  transaction holds the row from `Lock` to its end and commits once, so
  decision and commit are one action. `mark_payment_failure` has no lock:
  `FailureReads` and `FailureWrites` are separate, and the write waits for the
  row but not for a fresh status; SQLAlchemy writes no status when the session
  had read FAILED already. `Lost` is a request that dies before its commit, or
  whose answers from Razorpay (502) or the database (500) are errors.
* **Razorpay** is external: an order accepts one payment, a payment reported
  as failed may be captured late, events arrive in any order, and are repeated
  while no 2xx is seen (`due`). `Endpoints` and `Subscribed` are the account's
  webhook configuration; the repository does not fix it, so the safety run
  takes every endpoint and event.
* **A price that is not whole rupees** (`rounded`, possible for orders of
  `api/v1/billing.py`, which rounds `amount_inr`): the subscription webhook
  compares with the rounded amount and always refuses such a capture
  (`WebhookMismatch`); the top-up webhook and both verify calls compare with
  the exact amount.

`PaymentService` has four actions: Razorpay collects (`Collect`), the order is
granted and shown as paid (`Give`), and a later call shows a granted order as paid
again (`ShowPaid`) or an order as failed (`ShowFailed`), which a paid
subscription is never shown as. `money` are the orders with a captured payment or,
for a top-up, an authorized one, which `verify` takes; `shown` is `status`, `given`
is `grants`. What the four allow together is what a customer relies on when
calls and webhooks overtake each other, and no single request of the code decides it.

Abstractions: amounts, signatures and order ids agree (the refusals they cause
write FAILED like `VerifyRefused`); a payment id belongs to one order; two
orders share nothing, as the wallet row and the user's subscription are counted
per order. Coupons, billing documents and the mirrored `billing_orders` row are
part of the same commit and left out.

### CreditLedger

* **Rows.** `wallet` is `user_credits.balance`, `books` the signed sum of the
  wallet's `credit_transactions`, `sub` the user's active `user_subscriptions`
  row with what is left of the quota, the key of the last refill and when the
  next is due. Time is counted in billing cycles.
* **A run** is `Begin` (the estimate, with an unlocked look at the capacity)
  → `Flush` → `Summarise` → `DebitPlan` → `DebitWallet` → `Commit`. Every step
  is a statement that may wait for a row lock. Locks are held to the end of the
  transaction, so a debit takes the subscription's row for the whole of a
  backtest. `view` is the row as the transaction has written it; it reaches
  `sub` at the commit. A standard job (`Jobs`) commits under its fence and the
  ledger knows it by its id; a funded run (`Funded`) is charged with
  `job_id=None` and its task has no fence: a second delivery pays again, and
  `JobChargedOnce` says nothing of it.
* **A refill** is computed by whoever looks at a due row. `GET /subscriptions`
  locks first; `POST /backtests/run` and the estimate of a run do not, and the
  UPDATE of their sessions writes what they computed. `Due` compares the cycle's
  key, but on the row that was read: such a write over a row that another
  transaction has refilled is a *rewrite*. It grants the quota once more and
  hides what was taken in between, and when it brings back the row of an earlier
  cycle it makes the current one due again. `rewrites` counts them in the
  cycle in which they are written; `DueRefilledOnce` allows a cycle one grant
  and one more for each, `QuotaConserved` is about the credits between two grants.
  `get_latest_subscription(for_update=True)` returns fresh values: sessions
  keep objects by weak reference, the row has no relationships and the earlier
  object was local to its call.
* **Adjustment**: `AdjustRead` and `AdjustWrite` are a session that reads the
  wallet without a lock and writes a sum. What it overwrites is added to `lost`;
  without adjustments `WalletMatchesLedger` reads `wallet = books`.

`ChargeTakesCost` looks at the wallet and the plan together (`Credits`): the transaction
that enters a charge takes the cost of one run from the two rows, although it decided
how much of it each of them pays before it had the wallet's lock and with a row that it may
have to refill first; and apart from the administrator nothing else takes credits.

Not modelled: `restore_consumed_credits`, which runs after a rollback and finds
nothing to restore, and `refund_transaction`, which nothing calls.

### CopyDispatch

`task[d][t]` is `_dispatch_copy_account` of dispatcher `d` (the strategy runner
or the reconcile worker) for account `t`: `start → checked → reserved → sent`,
with `refused` and `failed` for an exception before the submission. `orders`
is the `LiveOrder` row of the copy, `copyLock` the advisory lock of the account.
The lock belongs to the transaction, and the commit of `_reserve_entry` ends
it (`Reserve` calls `Unlock`). `Cleanup` is the exception handler: it
releases the account's PENDING row, whoever reserved it (finding 6). A pass looks orders up by
`_client_order_id`, cTrader accounts have another key (`CTraderKeyed`): their
orders are not found, and such a target is planned in every pass and stopped by
the checks that follow. `released` remembers that a task which had reserved
nothing released a row; the two safety properties hold until then.

Abstractions: the checks before an entry (risk, sizing, guards, the funded and
safety gates) are one step that may refuse. The duplicate check, the
reservation and its commit run under the account's lock and are one step. One
signal; EXIT copies have no reservation and are left out.

### PartialExit

One position. `volume` is what the broker has, `position`, `manage` and `order`
are the rows, `handler` a quote handler of the position manager. The three
providers differ where the code does: cTrader's close goes through
`OrderService` (which `CTraderGateway` implements, with the same key for every
retry), TradeLocker's is a request without a key, MT5's a command row in the
handler's transaction, executed by the agent and reported to `Mt5Result`, which
takes no deployment lock. A session writes the columns that differ from what it
loaded (`Written`), so a stale object overwrites only what it changed; a row
loaded before the lock is not reloaded after it (SQLAlchemy's identity map),
which makes the handler's second look at the status vacuous. With one position
manager, as deployed (`docker-compose.yml:205-230`), that does no harm; the
instance has one handler. With two, `ExitedOnce` fails for TradeLocker and MT5: the
second waits for the lock with a row it loaded as PENDING, and asks again. cTrader is safe with
any number, as the gateway sends a key once.

`doubts` names the ways a close may fall out of the records: `lost`, a
transaction that had asked TradeLocker and was rolled back; `resumed`, an
uncertain TradeLocker close that the scan turned from MANUAL_REVIEW to
FAILED_RETRYABLE because the runner's stop or target was not reported
(`finalize_from_broker_truth`, 141-148); `blinked`, an MT5 terminal that
answered with an empty position list. `ExitedOnce` says there is no fourth.

A cTrader close may be called done by another order's event (`GatewayMistake`), and an
MT5 terminal may execute a close in part and have it reported as refused
(`TerminalTakesPart`, the filling is immediate-or-cancel), or take it, have it
reported as done and execute or drop it later (`AgentReportsPlaced`). None of these
leads to a second close or to a false DONE: DONE waits for the
position's own size, and a retry takes the refreshed one.

Assumed: broker sending is enabled, nobody closes a part of the position by
hand. Sizes are multiples of the smallest unit; the `while` loop of the split
never runs (`CloseSize` already leaves `MinSize`).

### Mt5Commands

The caller's transaction (`PlaceOrder`, then `CommitEntry` with the unique
index on `client_order_id`) adds the command and the order together. A poll is
`PollSelect` and `PollCommit`: rows are read without a lock and marked SENT
afterwards. The agent is one loop: poll, execute, post the result, next
command. Its HTTP client repeats a GET while the first request still runs, and
a request it has given up may be served later, so results and polls overlap.
`Execute` is `place_order` of the agent up to its result: `Retcodes` are the
answers `order_send` can give, `Executions` what the terminal did with each of them, and
`Accepted` what the agent makes of them, DONE and PLACED being its successes
(`mt5_client.py:836-838`). So an order that the terminal executed in part
(DONE_PARTIAL, as the filling is immediate-or-cancel) is reported as a failure, and
one that it only took (PLACED) as a success; `TerminalDecides` executes or drops that
one later. `EntryTellsTruth` names these two and the missing answer as the only ways
in which a stored FILLED or ERROR is not what happened.
`EntryExecutedOnce` rests on one agent with the account's token: the endpoint
does not prevent a second one, and two agents polling at once do execute a
command twice. The instance has one.

`EntryServiceSpec` says that the queue sends and records like the cTrader gateway:
it implements `OrderService` with `order_send` as the sending and FILLED as the
recorded acceptance, which for a PLACED order is the terminal's word and no execution
yet. Nothing is mistaken, as a result carries its command's id. The answers are
left out (no requests), since PLACED means here that a command was stored, which
promises less.
`EntryIsFinal`: a stored result never becomes another one.

### AlertDelivery and PriceAlerts

`AlertDelivery`: rows and workers; `sender` is a worker's place in
`process_due_deliveries`. The claim is committed as SENDING before the request;
a worker that finds a SENDING row older than the limit calls it AMBIGUOUS, also
while the request still runs, and the late answer overwrites that. The ids of
a pass are read first, so a second worker may cut a backoff short. A 5xx is
taken as a refusal, as in the code. The status copied to `AlertEvent` is written
in the same transactions. `DeliveryServiceSpec`: the outbox is an `OrderService`
too, with a message's arrival as the sending and SENT as the recorded acceptance.
`DeliveryIsFinal`: SENT and FAILED never change again, whereas AMBIGUOUS may still become
either.

`PriceAlerts`: the evaluator locks the row for a whole quote, so an evaluation is
one step; the owner's requests read without a lock and write the columns they
changed (`EditRead`, `EditCommit`). `seen` is the last price the evaluator was
shown since the baseline was set, the reference for `FollowsPrices`. `slips`
names the two races: a crossing that met a left Redis key, and a request that
cleared a baseline it had read as empty while a price was being evaluated
(nothing changed, so nothing is written, and the old price stays).

### CandleRuns

One deployment. `engineRun[p]` is one call of `run_strategy_for_deployment` by a
strategy worker, the scheduler or the endpoint `run-strategy-once`, with what it
has loaded: its candle, the cursor of its copy of the row (`base`), the answer
of the strategy and whether the catch-up asked for no order (`quiet`). It goes
`taken → loaded → open → answered → placing → ready → sent → marking → closing`;
`refreshing` is the refresh of candles that only a user's call makes.

* **Candles.** `FeedCandle` and `PublishCandle` are the market worker: it commits
  the candle and publishes afterwards, by the cursor it read. `messages` are the
  candles whose stream event is not acknowledged; `TakeMessage` is a read as well
  as the reclaim of a message another worker still has in hand. `RefreshCandle`
  stores a candle without an event (scheduler, call, TradeLocker worker).
* **The lock** is `pg_try_advisory_xact_lock`: it ends with the first commit,
  which is the refresh of a call, the commit before an order that goes out in
  the run itself (`Prepare`) or that of the primary's result (`CommitPrimary`).
  What keeps two runs apart after that is the row lock of the deployment's UPDATE
  (`RowIsFree`) and the unique index on the signals.
* **Routes.** `GATEWAY` is cTrader: a key made from the candle, sent once whoever
  repeats it (`OrderService`). `DIRECT` is an order the run sends itself after
  it has committed: TradeLocker's reservation, or the broker
  synchronisation that precedes the order of Upstox and MT5. What happens to an
  MT5 entry afterwards is `Mt5Commands`.
* **The cursor.** `Marked` is `_mark_candle_processed`, which compares with the
  cursor the run has loaded. The scheduler afterwards writes its candle over
  whatever cursor its own copy of the row has (`CloseRun`,
  `auto_runner_service.py:554`). So the cursor can go back, and a later message or
  scan evaluates a candle a second time: that this never sends a second entry
  is `EntryPlacedOnce`.

* **The owner.** `Deactivate` is stop, pause or the auto runner's switch, `Activate` the way
  back (`live_deployments.py:2059-2084`, 2382-2444); both happen at any time and
  leave the cursor. A worker looks at the deployment once, when it takes the
  message. One that read it as stopped, or whose run was refused for it, acknowledges the
  candle without an evaluation, also when the deployment runs again by then:
  the answer `stopped` in `engineRun` is that reason, and `AckedIsSettled` excuses an
  acknowledgement by what the worker read and never by what the deployment is now.

Abstractions: the strategy's answer is any at every evaluation, as bars are
corrected and parameters edited in between; the retained instance of a strategy
shows only where it fails (`GiveUp`). EXIT signals, paper mode, the trace, the
trimming of the stream and cTrader adapters without the gateway are left out, and
so is the warm-up queue. The endpoint `auto-runner/run-now` (`live_deployments.py:2087-2091`,
`run_deployment_if_due` with `force=True`) is left out: it is a second run of the
scheduler's kind beside the scheduler's own, which also starts with the auto runner
off and passes over the times and the sequential catch-up. An exception before the commit and the death of a process
are the same step (`AbortRun`).

### FeedSync and DailyDispatch

`DailyDispatch` is `dispatch_for_date`: the day's row and the feeds it read are
committed (`ReadFeeds`), a row is committed for each (`EnqueueRun`, found again by
its unique `run_key`), the tasks are posted afterwards (`PostRun`) and the day
is marked (`MarkDispatched`). A dispatch may die anywhere, be delivered again, and
run beside the scheduler's own (`_recover_undelivered_batches`, when it starts).

`FeedSync` takes the rows of all kinds from there, with a row for a feed on every day, also while
the run of an earlier day goes on: `CommitDaily` and `PostDaily` are
what a dispatch may do to a feed at any time, and `Admit`, `Request`, `ConfirmPublication`
and `Post` the requests, with the gaps between the look, the row and the task.

* **A run** goes `claiming → begun → syncing` or `claiming → publishing` in the hands of
  a worker, a page at a time, each saved, published and committed before the next
  (`SyncPage`). What it may do was read with the claim and is kept to its
  end: sessions are made with `expire_on_commit=False` (`db/session.py:35`).
* **Candles** are numbers. `fetched` is the feed's own table, `canonical` the
  backtests'. An answer may lack any candle it was asked for; `omitted`
  remembers these and the ones before a requested range, since nobody asks for them again
  and a hole there is no fault of the run.
* **Faults**: an exception that is recorded (`FailRun`), one that is not
  (`TaskRaises`), a worker that dies and whose task comes back (`HistorianDies`),
  an API process that dies (`CallDies`), a post that raises although the message arrived
  (`PostArrives`, then `PostFails`).

`crossed` marks the two ways in which an administrator's approval lets a second
source in: confirming a publication over candles of another feed, which the
endpoint announces, and `choose_primary` counting an empty table into which a
running publication writes before the commit.

Two things that the administrator may correct while a feed has no candle are constant: the
broker's symbol (`admin_market_data_sync.py:292-307`) and `initial_start` (310-313), so
that a feed without a start never gets one. What the exceptions hide is named with them:
`omitted` also holds the candles before a range that starts after the next
candle, which no later daily run asks for, and `crossed` the approval of a feed on a count
that a running publication has made stale. `FeedHasNoHole` and `OneSource` say nothing of these.

Left out: dry runs, imports by hand (`upsert_service.py`) and the `UNSUPPORTED` answer of a
broker without history. A task that the daily dispatch posts after its run was taken would be
dropped (`DropTask`) and is not posted here.

### MCServices and MCOrders

The eight modules share no state. `part` chooses at the start which of them moves,
and the others stay in their initial states: one run, its states the sum of the
eight. Names of variables and constants differ for this reason. `ServicesTypeOK` is the
type invariant of the part that moves. The view
`Moving` identifies a state by the part that moves, which loses nothing: the others have
one start and stay there. `MCOrders` does the same with `CTraderGateway` and
`Mt5Commands`.

## 3. Runs

| Run | Configuration | Checks | Result |
|---|---|---|---|
| `backtest_safety` | 1 job, 2 workers, dispatcher; crash, connection, transient, duplicate, cancel | `TypeOK`, `WaitsEnd`, `OneCurrentOwner`, `CancellationWins`, `StaleWritesOnlyRunning`, `JobServiceSpec` | hold, 1.7 million states |
| `backtest_recovery` | 1 job, 1 worker, dispatcher, 1 retry request; all faults; fair | `RunningEnds` | holds, 127 thousand states |
| `stale_owner` | 2 workers; connection, duplicate, permanent | `StaleOwnerNeverOverwrites` | violated (finding 1) |
| `dispatch_race` | 1 worker, the dispatcher, no faults | `DispatchedIsInQueue` | violated (finding 2) |
| `transient_retry` | 1 worker, transient errors | `TransientRetryIsDeliverable` | violated (finding 3) |
| `order_safety`, gateway | 1 close, 2 calls, 1 worker; crash, database, broker, stray, expiry | `SentAtMostOnce`, `SuccessIsDurable`, `ServiceSpec` | hold |
| `order_safety`, MT5 | 2 keys, 2 callers, 2 polls, 1 agent, 2 commands; every return code | `EntryExecutedOnce`, `EntryTellsTruth` | hold |
| `order_safety`, both | | `OrdersTypeOK` | holds; 3.1 million states in all |
| `gateway_recovery` | 1 entry, 1 call, 2 workers; all faults; fair | `RequestsAcked` | holds, 463 thousand states |
| `billing_safety` | 1 top-up, 1 subscription, 2 payments each, 2 requests; all events to both endpoints | `TypeOK`, `GrantedOnce`, `GrantWasPaid`, `LoggedIsGranted`, `PaymentServiceSpec` | hold, 604 thousand states |
| `webhook_duplicate` | 1 top-up, top-up endpoint only, all events | `DuplicateWasGranted` | violated (finding 4) |
| `subscription_webhook` | 1 subscription, its endpoint only, captures only; no lost request; fair | `SubscriptionIsActivated` | violated (finding 5) |
| `services`, credits | 1 job, 1 funded run, 2 runners, a submit request, an administrator, a top-up, 3 cycles; at most 2 transactions at a time | `WalletMatchesLedger`, `NoOverdraft`, `JobChargedOnce`, `QuotaConserved`, `DueRefilledOnce` | hold |
| `services`, copies | 2 targets, one with a cTrader key, 2 passes | `SentAgainOnlyIfReleased`, `SentIsBlocking` | hold |
| `services`, exit | each provider, 1 handler, 2 closes | `ExitedOnce`, `DoneIsExecuted` | hold |
| `services`, delivery | 2 rows, 2 workers, 3 attempts | `NotifiedOnce`, `DeliveryTellsTruth` | hold |
| `services`, alert | 2 of the four kinds, prices 1..4, 2 requests | `FollowsPrices`, `OnePerArming` | hold |
| `services`, candles | 2 candles, 2 strategy workers, the scheduler, 1 user's call, at most 2 runs at a time; both routes | `EntryPlacedOnce`, `PlacedIsRecorded`, `CursorWasEvaluated`, `AckedIsSettled` | hold |
| `services`, feeds | 2 feeds, 1 worker, 1 administrator; 3 candles, 2 runs, 2 calls, 1 failure | `FeedHasNoHole`, `OneSource` | hold |
| `services`, daily | 2 feeds, 2 dispatchers, 3 dispatches | `DailyRunIsSent` | holds; 2.7 million states in all |
| `services`, all parts | | `ServicesTypeOK` | holds |
| `copy_release` | 1 TradeLocker target, 2 passes | `ReservationProtects` | violated (finding 6) |

**Bounds.** One job is enough for what is checked: jobs share only the wallet
lock and the dispatcher's scan order, and the theorems cover any number. Two
workers are what fencing needs: a live owner and a stale one; a third claim is
excluded by `MaxAttempts = 2`, which still lets an attempt be superseded, be
retried and hit the limit. `Cost = 2` keeps partial debits apart from none and
all. `MaxCopies = 1` bounds the copies that wait, not those in workers' hands:
with two workers three deliveries of one job can coexist. `attempts` and `fence`
are bounded by `MaxAttempts` through the code's own guard, so no state
constraint is needed. In the gateway one key is one order; two requests for it
race in one worker, or one request in two workers by reclaiming. A second key
would share nothing but the session's queue and the fallback of the event
routing, for which the other order's event is what counts and not its task.
Redis errors are left to `gateway_recovery` and the theorems; `broker`
and `stray` are what makes the recorded results differ. `gateway_recovery` has every
fault and the constraint `Unsettled`: the search ends where the message is acknowledged,
which it then stays, or the caller is answered, which no worker looks at; what it cuts
off settles nothing about `RequestsAcked`. In billing two requests are what a race over one row needs, and no
counter is bounded: a grant beyond the first would show as `grants = 2`. Two
payments for an order are one that fails and one that takes the money, in either
order; the theorems cover any number. The constraint `OneOrder` keeps to behaviours
in which one of the two orders is paid or asked for: orders share nothing but the
request slots, and each property speaks of one order at a time. `billing_safety` adds
the action constraint `Unheard` (Razorpay sees no answer and may repeat every
event for ever): `due` is read only where a delivery starts, so every behaviour
of the other variables is kept, and the states are fewer. Symmetry over interchangeable workers and requests is used in
safety runs only.

In `services`, a run costs 3 where the quota and the wallet hold 2 each, so that
every debit is split and two runs cannot both be paid; an adjustment or a top-up
of 2 decides which. Two transactions at a time (`FewTxs`) are a race over a row; with
four the same instance had 2.3 million states of its own and the properties held as
well. `MaxClaims = 2` is one execution for each runner: a job
executed twice, a job beside a funded run, a funded run delivered twice.
`MaxCycle = 2` has two refills, which every reader races for, and lets a row
computed in one cycle be written in the next. Two passes and a
runner are three tasks per copy, the least for a release and a second
submission. `MaxCalls = 2` admits the second close that `ExitedOnce` is about,
and 12 units with a minimum of 3 and a step of 2 reach both ends of the split
(a close rounded up to the runner's minimum, a remainder too small to split).
Three delivery attempts cover first, middle and last. The prices 1..4 have
the approach strip and the rearm distance below target 3, and a price on the far side of
target 2; the alert starts with target 3 and an edit leads to the other; `CROSSING_DOWN` and `LEAVING_ZONE` mirror the two kinds of the
instance and were checked with it once; the bound on requests is 2, since one is
open at a time and a race is between one of them and the evaluator.

For the candles, two of them are what a cursor needs to go back or to pass one by:
the first candle's run against the second's. Two runs at a time (`FewRuns`)
are a race; a third would meet the same row and index. The four runners are the
ways to start one. One side is enough, since entries of the two sides of a candle share
only the row, which the runs of one side already contend for. The theorems need none of
these bounds.

For the feeds, one worker is what the deployment has (`docker-compose.yml:491`,
`--concurrency=1`), and two runs are the one that stops or dies and the one that
resumes, or the old feed's and the new one's. `Overlap` is 0 where the code has 2
candles: a smaller one is harsher on `FeedHasNoHole`. Pages of one candle and
two pages to a run let three candles outlast a run's last page. Two calls
are a request and an approval, or two approvals; the second feed has no
`initial_start`, and the backtests' table is empty at the start or has a candle of another origin. The requested range 2..3 leaves the first candle out. One
failure is enough for every place where it strikes, and three dispatches are one that
dies, its replay and the scheduler's beside it.

**Deadlock.** `CHECK_DEADLOCK FALSE` everywhere: jobs end and requests are
answered, after which nothing need happen.

**Fairness.** Celery workers and the dispatcher loop are restarted by their
supervisors and take steps (weak fairness of `WorkerStep`, `DispatcherStep`);
time passes. Strong fairness stands for chances that come again and again: a
worker takes the message when it is there, the dispatcher gets the advisory
lock when it is free, and a worker does not every single time consume the
dispatcher's message before the dispatcher has released its own lock (it would
drop it as already owned; the window is one statement long and the dispatcher
comes back every 30 seconds). Faults have no fairness, and `RunningEnds` and
`RequestsAcked` say what happens if they stop at some time; heartbeats are not
assumed to succeed. In the gateway every wait has a timeout, so weak fairness of each task
step, delivery and reclaim is what the consumer loop provides. `LiveSpec` of billing
says that no request is lost, the API finishes what it started and Razorpay's
retries reach it: assumptions in favour of the code, for a run that shows a
violation all the same.

## 4. Findings

1. **A stale owner can overwrite a newer state.** `api/v1/backtests.py:2637`
   writes `running` and commits without the fence; the comment at 2914-2915
   promises the opposite. A finished job can be shown as running again; the
   dispatcher then recovers it, and while attempts remain its backtest runs
   and is saved once more. The charge stays single (`ChargedOnce`), and nothing but
   the status is overwritten (`StaleWritesOnlyRunning`).
2. **A recorded dispatch without a message.** The submit endpoint writes
   `dispatched_at` after publishing (3069-3074), whatever has happened to the message since.
   No failure is needed: the dispatcher's scan finds the committed row, still without a
   dispatch, and holds the job's advisory lock; the endpoint publishes; a worker takes the
   message, cannot get the lock and drops the message as already owned; the endpoint writes
   the dispatch; the dispatcher looks at the row again and leaves it. The job stays queued
   and nobody sends it. `docs/backtest-repair/README.md:10-11` assumes the recorded
   task is in the queue.
3. **A transient failure is not retried.** The handler sets `queued` with
   `dispatched_at=now()` (`backtest_jobs.py:189-194`) and the message is
   acknowledged; the dispatcher looks for NULL only.

4. **A capture can be dropped as a duplicate.** `payments.py:922` keys the
   webhook log by the payment's id. `payment.authorized`, recorded as IGNORED,
   makes the capture of the same payment "already processed", and so does the
   subscription endpoint, which records every top-up's event as IGNORED. The
   credits then depend on the browser's verify call. The docstring of
   `_find_processed_webhook_event` (320-323) speaks of redeliveries.
   `LoggedIsGranted` is what remains true: a capture which the top-up endpoint
   itself logged was paid out. With `Subscribed` reduced to
   captures, the property of the run holds on the same instance: an account that
   calls the top-up endpoint only, for captures only, avoids the defect.
5. **The subscription webhook never activates.** `subscriptions.py:1208` uses
   `checkout_metadata`, a name the function does not set. Every capture ends in
   a `NameError` before the commit; only the browser's verify call activates.

6. **A copy can be sent twice.** `execution_engine.py:1949-1969` releases the
   account's PENDING reservation after any exception of the task before its own
   submission, and does not ask whose reservation it is. A pass of the reconcile worker
   that was planned before the runner's reservation finds it "unresolved"
   (1906-1913), raises, and releases it; the runner submits; the next pass may
   reclaim the row and submit again. The docstring at 1731-1732 promises the
   opposite. The MT5 command key and the cTrader gateway stop the second order, TradeLocker
   has no key. `SentAgainOnlyIfReleased` shows that nothing else leads to a second order.

Observed in billing, and harmless for what is checked: a customer who closes the
checkout while the webhook commits can turn a PAID top-up back to FAILED
(`FailureWrites`). The ledger guard `_has_credit_grant_for_payment` keeps a
later verify or webhook from granting again, which is what `GrantedOnce` shows.

Observed in the other modules, where no text of the repository speaks against
it: a refill computed from an unlocked read erases the debit committed before
it is written (`rewrites`); an adjustment loses concurrent changes of the wallet
(`lost`); a funded run is charged for every delivery; the three doubts of
`PartialExit`, against the remark at `services/brokers/tradelocker.py:666-668`
that a partial close must never be retried blindly; a late MT5 result turns a
DONE partial exit back to AWAITING_RECONCILE; a lost poll response leaves its
commands SENT for ever; an edit or re-arm that loaded the row before an event
committed leaves what it did not change as the event left it (a completed alert
stays completed), and an enable that crosses a delete revives the alert.

Observed in `CandleRuns`, likewise: the cursor can go back to an older candle
(see above), and is then moved forward by the next run; a candle that is
evaluated again after its bars were corrected may send the opposite entry as well, as the
index has the side in its key; a DIRECT run that dies between
its commit and its order never sends it, because the rerun finds the signal and
passes it over; a cTrader entry is recorded only with the end of its run; a message
whose candle lies behind the cursor is acknowledged without an evaluation, as is one that a worker
took while the deployment was stopped, although it runs again; and a run
held for its history (`HOLD_STRATEGY_HISTORY`, `HOLD_INCREMENTAL_RECOVERY`) is
acknowledged, so that a cTrader deployment evaluates again only with the next
candle's event.

Observed in `FeedSync` and `DailyDispatch`, likewise: a run goes on publishing after another
feed was made primary, although `feed_publish.py:105-107` asks for an approved feed
(the flag it tests is the one read with the claim); a run that dies after its claim stays
RUNNING for ever, which refuses `run-now` and the archiving of its feed, as does a
row left QUEUED by a request that died before the task was posted; `PostFails` calls a run
FAILED that is already RUNNING; a refused run leaves `last_status` QUEUED; a window
that was answered empty is passed over, and a later run may report UP_TO_DATE over it;
a feed that is disabled between a dead dispatch and its replay keeps a QUEUED row
that is not posted when the day is marked, and so does a feed that only the other of two
dispatchers read. `DailyRunIsSent` therefore speaks of the feeds read by those that marked the day.

Observed in the order modules: the fallback of `_route_message`
(`services/brokers/ctrader_connection_manager.py:700-710`) goes beyond the module's own words,
"all request responses are routed by ``clientMsgId``" (3-5), and lets another
order's fill be recorded as this one's, also of an order that is never sent; the MT5 agent has a
partly executed entry stored as ERROR and a merely PLACED one as FILLED.

Observed while modelling the gateway, stated nowhere in the repository and so
not claimed as findings: FAILED, PENDING and SKIPPED are also said of orders
the broker has (a late send from the queue, a database error after the fill),
which is why `OrderService` attaches no meaning to them; a close whose reply
is late is reported FAILED where an entry is PENDING; an order that once
reserved its intent row is never sent again, also when the send did not happen,
so the retries of a failed cTrader partial close
(`services/live/live_partial_exit_service.py:208-211`) are answered PENDING.

## 5. Proofs

All theorems hold for every value of the constants under the stated
assumptions: `BacktestAssumption` (positive limits, process names distinct),
`GatewayAssumption` and `NoneAssumption` (`None` is no key and no answer),
`BillingAssumption` (top-ups and subscriptions are disjoint, a payment belongs
to an order, `None` is no request), and `CreditAssumption`, `CopyAssumption`,
`Mt5Assumption`, `DeliveryAssumption`, `AlertAssumption`, `PartialAssumption`,
`CandleAssumption`, `FeedAssumption` and `DailyAssumption` (sets of processes are
disjoint, sizes, prices and limits are numbers in their ranges, there is a key, the placeholders are
no process and no price). Two theorems' hypotheses describe the deployment and not the code:
the theorems about `Mt5Commands` assume `OneAgent`, `PartialExitsOnce` assumes
`OneManager` (one position manager); section 2 says what happens without.

**BacktestJobs_proofs.** None of the properties is inductive. The invariant has
four layers. `TypeInv`: types, and who works on a job has one in hand.
`FenceInv`: whoever is between `FOR UPDATE` and commit holds the row; a claim's
token was given out by the job's fence; tokens of two executing workers
differ; a guarded worker's token is the current fence, because every claim
needs the row lock it holds. `PayInv`: for the current claim, `ledger + pend =
Cost`, although the ledger was read before any lock: only a guarded worker
moves the ledger, and it is the current one. `CancelInv`: a guarded worker's
job is not cancelled, since cancelling waits for the row. One lemma per layer
and process (worker, dispatcher, user), one step per action. From `Invariance`
follow `TypeCorrect`, `Fencing`, `Charging`, `Paying`, `Bounded` (attempts
stay below their limit, whose guard is one line and which no run repeats) and
`Cancelling` (an action property).

Two more results rest on it. `Superseded`: a worker whose token is not the job's
fence any more changes nothing but the status, and that only to RUNNING
(`StaleMoves`, `OnlyRunning`). Claims move the fence only under a row lock the old owner does
not hold, a guarded worker is current (`FenceInv`), and the failure handler's UPDATE names
the token; one lemma shows that the other processes leave a worker alone.
`JobsImplement` is the refinement of `JobService`. It needs `Submitted` as well: a job
that somebody has in hand was inserted, so no step of a worker, of the dispatcher or of
a retry makes a job appear. Claims map to `Attempt`, `Commit` to `Finish`, where `PayInv`
makes the debit and what was paid before add up to `Cost` and `CancelInv` excludes a cancelled
job, and every other step maps to `Show`, `Drop` or a stutter.

The locks have a layer of their own, `LockInv`. `LocksHaveOwners`: every lock's owner is
at a step that holds it, on that job, with its connection up. `Debited`: a worker with
an uncommitted debit holds the wallet. `Beating`: a job that runs has a heartbeat
time. Of the other layers it needs the types and that whoever decides on a job holds its
row (`HoldsRow`); one lemma per process (`WorkerLocks`, `DispatcherLocks`, `UserLocks`). `BlockerHolds` says where a process stands that
somebody waits for, `BlockerWaits` what it can then wait for itself: whoever holds
the wallet or a job's `backtest_execution` row waits for nothing but, in finalization
with `job_status` in hand, that row, and who holds that row may wait for
`job_status`. Two applications give `LocksEnd`, and with it `Releasing`
(`WaitsEnd`). `Recovering` (`OrphansAreFound`) needs `Beating` for the NULL that the
scan's comparison would not find.

**CTraderGateway_proofs.** `SendInv`: only the task that inserted the intent
row is armed to send, at most one is, before it enqueues the order is nowhere,
and an order waits in at most one queue and is not sent while it waits, so the
late send is the first. `ResultInv`: a task about to record a success saw it
at the broker or took a stray event, and a success on its way to a caller is the recorded one.
`TypeCorrect`, `Sending` and `Answering` follow, and `Implements`: every step
is a `Send`, `Mistake`, `Record` or `Answer` of `OrderService`, or changes none of its
variables.

**Credits_proofs**, payments. `Locked`: a request that decides under the row lock
read the status the row has. `Granting`: PAID orders have exactly one grant, and
a subscription's grant implies PAID; a top-up may lose its PAID to the unlocked
failure call but not its grant, which is why the ledger guard is needed. `Heard`:
Razorpay reports a capture only after it. `Outcome` reduces the fourteen actions
that end a request to three effects (nothing, pay, fail), and the invariant is
proved for these. `TypeCorrect`, `GrantingOnce`, `PayingGrants`, `GrantingPaid`
and `LoggingGrants` follow, and `BillingImplementsService`: Razorpay's steps collect or
stutter (`MovesCollect`), a request that pays is a `Give` when the order had no
grant and a `ShowPaid` when it had (`PaysOnce`), one that fails a `ShowFailed`, and it is
the row's lock (`Locked`) together with `Granting` that excludes a paid subscription there.

**Credits_proofs**, wallet and quota. The two row locks give each half of the ledger one
owner. `WalletHeld`: the holder of the wallet has read the balance the row still
has, and it is enough. `QuotaHeld`: the row in the hands of the subscription's
holder and what it takes make up the quota, and a row computed without the lock
is a whole one. `Charging`: a worker whose fence is current owes the whole cost of
a job without result, although the ledger was read before any lock. `RefillCounts`:
a cycle for which the row is due, or for which a transaction holds a
refill, was not granted but by rewrites (`Owed`). `GrantCounts` and `GrantInv` treat
the five places that write a whole quota alike. Seen here first: with
two cycles in the instance the counts held in a form that is false with three (a
row of the cycle before written over the grant), which is why `rewrites` is
counted where the row is written and why the instance has three.
`CreditChargeTakesCost` needs one more fact, `Owing`: a worker which may commit owes the
whole cost, for a funded run because its ledger is never consulted, and has both
rows in hand by then. With `WalletHeld`, `QuotaHeld` and `Amounts` what leaves the two
rows is the cost (`CommitCharges`); all other steps keep them or fill up the quota (`NoLess`).

**EntryOrders_proofs**, copies. The advisory lock ends with the reservation, so it is
the order row that protects an account: a reservation starts from `Reclaimable`
and nothing but a release leads back there. `Sound`: until somebody else's release at
most one dispatcher has the account's order in hand, and a posted order's row is
not reclaimable.

**EntryOrders_proofs**, MT5 commands. A command is awaited while its row is PENDING or while it is
before the agent (in the response it waits for, or in the rest of its batch). `Fresh`:
an awaited command is untried. Executing ends the waiting, since no response is
prepared for a busy agent, no row becomes PENDING again and no second command has
the key. An execution belongs to a submission or to an order that is still working
(`Executing`), and what was reported follows from the return codes (`Succeeded`, `Failed`,
`Reported`, `Truthful`). `OneAgent` is needed: two agents would each be handed the rows. For
`Mt5ResultIsFinal` and `Mt5ImplementsService` the invariant says in addition (`Unstored`)
that a report which is still on its way belongs to an order without a result: the agent
posts it once for each attempt, and there is one. Its `order_send` then maps to `Send`, storing a FILLED result
to `Record`, everything else to a stutter.

**Alerts_proofs**, deliveries. `HeldAlone`: a row in a worker's hands is SENDING or
AMBIGUOUS and in no other's, because only a waiting row is taken and nothing
leads from AMBIGUOUS back to one, but by its holder's own answer. `Heard`: what the
worker knows is what happened. The same two give `DeliverySettles`, as no
settled row is in anybody's hands, and `DeliveryImplementsService`: `Dispatch` maps to
`Send`, the first because the row is held alone, and a `Finish` with SENT to `Record`.

**Alerts_proofs**, prices. The race of `PriceAlerts` is between a request that has read the row and
the evaluations before it writes. `OpenEdit`: what an open request writes are
the values of its operation and no other column. `Baseline`: the row's last price is
the last one evaluated, unless a race left an old one there, and then the reference has none.
So a crossing without event, or an event without crossing, has its race in `slips`.
`ArmingLeft`: an alert that triggers once and can fire has an arming it has not
used, since only `enable` and `edit` write ACTIVE or ARMED. `AlertTypeCorrect`,
`AlertFollows` and `AlertOnce` follow, for any prices, targets and distances: among
them that an approach warning and an event are never due of the same price.

**PartialExit_proofs.** The first part holds for any number of handlers. `Locking`: who asks a
broker holds the deployment's lock. `CTraderOnce`: a close that is in flight or executed was sent by
the gateway, which sends no second one. From it follow `PartialTypeCorrect`,
`PartialDoneExecuted` (DONE is written only after the broker, the fill or the agent's report said so),
`CTraderExitsOnce`, which needs no doubt excepted, and `PartialUsesGateway`: each step is one of
`OrderService` or leaves its variables, so what `Implements` proves of the gateway
may be used here. The second part assumes `OneManager`. `TradeLockerOnce`: while nothing is in `doubts`, a close that is
in flight or executed leaves no state from which another is asked; either its
order row blocks it, or the one handler has the answer in hand and has not
committed it, or the state waits for a decision. `Mt5Once` says the same of the
queued command. `PartialExitsOnce` is their conjunction.

**CandleRuns_proofs.** `EntryPlacedOnce` and `PlacedIsRecorded` say nothing of
where a run stands, so `OrderInv` adds it. `Exclusive`: one run at a time has an
uncommitted signal, since each waits for the deployment's row before its first
write. `Executes`: a run that is placing has a signal which is not committed,
one that is ready has committed it and its entry is unsent. `OneReady`: no second
run is ready with the same entry, because the second would have had to insert a
signal that is there. `CursorInv` carries the answer along: whoever marks a candle
has evaluated it (`Follows`), and a worker about to acknowledge has a reason
(`Settled`): the candle or a later one was evaluated, the worker read
the deployment as stopped, or the run was held. `EntryPlacedOnce`, `PlacedIsRecorded`, `CursorWasEvaluated`,
`CandleTypeOK` and the action property `AckedIsSettled` follow.

**FeedSync_proofs.** `FeedHasNoHole` speaks of saved candles only; `Behind` adds that
all before a run's cursor was fetched or given up, so that a page saved there leaves
no hole, and whoever resumes at the newest candle has the same behind it. `OneSource` needs a
wider notion: `IsSource` also counts the feeds whose runs are about to publish, with
the flags they read long ago, and the approved feed. With at most one such source
(`SourceInv`), a claim adds none, since it publishes only for an approved feed
(`Admission` for confirmed publications, `OnePrimary` for the approval itself), and an approval
adds one only together with `crossed`. For the dispatch, `DailySound`: a row a dispatch
has seen to was posted or is in its list to post, because a row leaves QUEUED only by
a task that was. `FeedTypeOK`, `FeedHasNoHole`, `OneSource`, `DailyTypeOK` and
`DailyRunIsSent` follow.

**Proved and in no run**: `ChargedOnce`, `PaidIffSaved` and `AttemptsBounded`, which
`JobServiceSpec` implies in the runs, `PaidIsGranted`, which `PaymentServiceSpec` implies,
and `OrphansAreFound`, `ChargeTakesCost`, `EntryIsFinal`, `EntryServiceSpec`, `DeliveryIsFinal`,
`DeliveryServiceSpec` and the cTrader half of `ExitedOnce`. TLC found no violation of these on the
instances of the runs either.

**Only model-checked**: `ServicesTypeOK` and `OrdersTypeOK` as a whole, which compose the modules' type
invariants for TLC, each with a theorem of its own; and the liveness properties `RunningEnds`
and `RequestsAcked` (fairness and ENABLED are beyond the prover).

Run `tlapm` on each of the eight `_proofs` modules; each takes a few minutes at most.

## 6. Plan

Modelled first were the places where money or orders are at stake and the code
claims exactly-once behaviour, then the outboxes and caches around them. Next,
in this order:

1. Manual imports into the candles of the backtests
   (`services/market_data/upsert_service.py`), beside `FeedSync`.
2. `CandleRuns`, extended by the warm-up queue, whose key is set before its task
   is sent (`services/live/history_warmup_queue.py:27`), by the trimming of the
   candle stream (`live_event_bus.py:92`) and by the session calendar of
   `candle_catchup.py`.
3. `BillingPayments`, extended by coupon redemption and by the user's
   subscription rows of `CreditLedger`: two activations that each find no row
   (`api/v1/subscriptions.py:387`), and the order in which a top-up locks payment
   and wallet (`api/v1/payments.py:775`).
4. EXIT copies and manual approvals of `execution_engine.py`; the gateway
   snapshots of `broker_sync_service.py`.
5. `CopyDispatch` over `OrderService` for cTrader targets, and `CandleRuns` over
   `CopyDispatch`.

## 7. Not modelled, and why

The simulation engine, the strategies and the risk, stop and profit
calculations are numeric functions of price series with no shared state; they
are most of the repository's lines. Broker adapters translate protocols; the
answers they can give are part of the modules that call them. CRUD endpoints,
rendering, authentication and the front end keep single rows. Redis and
PostgreSQL are modelled only by the guarantees the code relies on (row and
advisory locks, READ COMMITTED, `SET NX`, consumer groups); their own failures
appear as errors of the calls, never as lost committed data. What a model leaves
out of its own component is said in its section above.
