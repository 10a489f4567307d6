---------------------------- MODULE CreditLedger ----------------------------
(***************************************************************************)
(* A user's credits: the wallet row and its ledger, the included credits   *)
(* of the subscription row with their refill per billing cycle, and the    *)
(* transactions that meet there.  These are backtest and funded runs, which *)
(* debit at their start and commit with their results; submit requests,    *)
(* which may commit a refill they computed from an unlocked read; locked   *)
(* readers, renewals, top-ups; and the administrator's adjustment.         *)
(*                                                                         *)
(* A row lock is held to the end of its transaction, so what a transaction *)
(* wrote is kept in its own view and reaches the row when it commits.      *)
(***************************************************************************)
EXTENDS Integers, FiniteSets

CONSTANTS
    Jobs,          \* standard backtests: the ledger knows them by job_id
    Funded,        \* funded backtest runs: charged with job_id = None
    Runners,       \* worker processes that execute runs
    Submitters,    \* calls of POST /backtests/run
    Admins,        \* calls of the administrator's credit adjustment
    NoTx,          \* no transaction, no run
    Quota,         \* included_credits_total
    Cost,          \* credits of one run
    Opening,       \* opening balance of the wallet
    Amount,        \* credits of one top-up or adjustment
    MaxCycle,      \* bound: last billing cycle
    MaxClaims,     \* bound: executions of runs
    MaxTopUps      \* bound: top-ups

CreditRuns == Jobs \cup Funded
CreditTxs  == Runners \cup Submitters \cup Admins

ASSUME CreditAssumption ==
    /\ Quota \in Nat \ {0} /\ Cost \in Nat \ {0}
    /\ Opening \in Nat /\ Amount \in Nat \ {0}
    /\ MaxCycle \in Nat /\ MaxClaims \in Nat /\ MaxTopUps \in Nat
    /\ Jobs \cap Funded = {}
    /\ NoTx \notin CreditRuns \cup CreditTxs
    /\ Runners \cap Submitters = {} /\ Runners \cap Admins = {}
    /\ Submitters \cap Admins = {}

VARIABLES
    wallet,      \* user_credits.balance
    books,       \* signed sum of the wallet's credit_transactions
    sub,         \* the active row of user_subscriptions
    cycle,       \* billing cycles since start_at
    charged,     \* net debits in the ledger, per run
    saved,       \* results of a run are committed
    claimant,    \* the worker whose fence is current, per run
    claims,      \* executions so far
    topUps,      \* top-ups so far
    subLock, walletLock,
    \* of a transaction: where it is, its run, the subscription row it computed
    \* or wrote, the wallet it read, what it still has to take and from where,
    \* and how its subscription row came to be refilled
    step, run, view, row, need, fromPlan, fromWallet, grant,
    \* history: included credits committed runs took since the last grant;
    \* per cycle, its grants to a due row and the rows computed earlier that
    \* were written in it; wallet changes an adjustment overwrote
    spent, refills, rewrites, lost

creditRows    == <<wallet, books, sub, charged, saved>>
creditLocks   == <<subLock, walletLock>>
creditHistory == <<spent, refills, rewrites, lost>>
creditRuns    == <<claimant, claims>>
creditTx      == <<step, run, view, row, need, fromPlan, fromWallet, grant>>
creditVars == <<creditRows, cycle, topUps, creditLocks, creditHistory, creditRuns, creditTx>>

NullKey == -1      \* last_refill_cycle_key IS NULL
SubRows == [left: Nat, key: Nat \cup {NullKey}, next: Nat]
Steps   == {"idle", "flush", "sum", "plan", "wallet", "compute", "write", "done"}

CreditTypeOK ==
    /\ wallet \in Int /\ books \in Int /\ sub \in SubRows
    /\ cycle \in 0..MaxCycle /\ topUps \in 0..MaxTopUps
    /\ charged \in [CreditRuns -> Nat] /\ saved \in [CreditRuns -> BOOLEAN]
    /\ claimant \in [CreditRuns -> Runners \cup {NoTx}]
    /\ claims \in 0..MaxClaims
    /\ subLock \in Runners \cup {NoTx} /\ walletLock \in Runners \cup {NoTx}
    /\ step \in [CreditTxs -> Steps]
    /\ run \in [Runners -> CreditRuns \cup {NoTx}]
    /\ view \in [Runners \cup Submitters -> SubRows]
    /\ row \in [Runners \cup Admins -> Int]
    /\ need \in [Runners -> Nat] /\ fromPlan \in [Runners -> Nat]
    /\ fromWallet \in [Runners -> Nat]
    /\ grant \in [Runners -> {"none", "refill", "rewrite"}]
    /\ spent \in Nat /\ lost \in Int
    /\ refills \in [0..MaxCycle -> Nat] /\ rewrites \in [0..MaxCycle -> Nat]

FreshRow == [left |-> Quota, key |-> NullKey, next |-> 1]

CreditInit ==
    /\ wallet = Opening /\ books = Opening /\ sub = FreshRow
    /\ cycle = 0 /\ topUps = 0
    /\ charged = [x \in CreditRuns |-> 0] /\ saved = [x \in CreditRuns |-> FALSE]
    /\ claimant = [x \in CreditRuns |-> NoTx] /\ claims = 0
    /\ subLock = NoTx /\ walletLock = NoTx
    /\ step = [p \in CreditTxs |-> "idle"] /\ run = [r \in Runners |-> NoTx]
    /\ view = [p \in Runners \cup Submitters |-> FreshRow]
    /\ row = [p \in Runners \cup Admins |-> 0]
    /\ need = [r \in Runners |-> 0] /\ fromPlan = [r \in Runners |-> 0]
    /\ fromWallet = [r \in Runners |-> 0] /\ grant = [r \in Runners |-> "none"]
    /\ spent = 0 /\ lost = 0
    /\ refills = [c \in 0..MaxCycle |-> 0] /\ rewrites = [c \in 0..MaxCycle |-> 0]

-----------------------------------------------------------------------------
(* The subscription row *)

\* ensure_user_subscription_cycle: a due row of another cycle is refilled.
Due(s) == cycle >= s.next /\ s.key # cycle
Refilled(s) ==
    IF Due(s) THEN [left |-> Quota, key |-> cycle, next |-> cycle + 1] ELSE s

\* Faulty variant: the row the transaction read before it took the lock.
BadRowFor(r) == view[r]

\* The row as a transaction sees it: its own write, or the committed one.
RowFor(r) == IF subLock = r THEN view[r] ELSE sub

\* Accounting of a committed grant: of a cycle to a due row, or over one granted
\* before.
Granted(how, key) ==
    /\ refills' = IF how = "refill" THEN [refills EXCEPT ![key] = @ + 1] ELSE refills
    /\ rewrites' = IF how = "rewrite" THEN [rewrites EXCEPT ![cycle] = @ + 1] ELSE rewrites

\* What writing a row computed from an unlocked read amounts to: nothing else
\* than a refill now, or the loss of what came in between.
FlushKind(s) == IF Due(sub) /\ s.key = cycle THEN "refill" ELSE "rewrite"

-----------------------------------------------------------------------------
(* A run: _execute_backtest_sync and _execute_funded_backtest_run *)

\* A transaction ends: its locks go, and with them what it had in hand.
Release(r) ==
    /\ step' = [step EXCEPT ![r] = "idle"]
    /\ run' = [run EXCEPT ![r] = NoTx]
    /\ view' = [view EXCEPT ![r] = FreshRow]
    /\ row' = [row EXCEPT ![r] = 0]
    /\ need' = [need EXCEPT ![r] = 0]
    /\ fromPlan' = [fromPlan EXCEPT ![r] = 0]
    /\ fromWallet' = [fromWallet EXCEPT ![r] = 0]
    /\ grant' = [grant EXCEPT ![r] = "none"]
    /\ subLock' = IF subLock = r THEN NoTx ELSE subLock
    /\ walletLock' = IF walletLock = r THEN NoTx ELSE walletLock

\* ... without effect: nothing was written.
Abandon(r) ==
    /\ Release(r)
    /\ UNCHANGED <<creditRows, cycle, topUps, creditHistory, creditRuns>>

\* A worker takes a run.  A standard job's claim moves its fence and is
\* refused once the job has ended; a funded task runs again for every delivery.
Claim(r, x) ==
    /\ step[r] = "idle" /\ claims < MaxClaims
    /\ x \in Jobs => ~saved[x]
    /\ claims' = claims + 1
    /\ claimant' = [claimant EXCEPT ![x] = r]

Affordable == Refilled(sub).left + wallet >= Cost

Begin(r, x) ==
    /\ Claim(r, x)
    /\ x \in Jobs => Affordable
    /\ run' = [run EXCEPT ![r] = x]
    \* the estimate reads capacity without a lock; a due refill is computed
    \* here and flushed by the session's next query
    /\ view' = [view EXCEPT ![r] = Refilled(sub)]
    /\ step' = [step EXCEPT ![r] = IF Due(sub) THEN "flush" ELSE "sum"]
    /\ UNCHANGED <<creditRows, cycle, topUps, creditLocks, creditHistory,
                   row, need, fromPlan, fromWallet, grant>>

\* The early check of a standard run: too few credits, answer 402.
RefuseEstimate(r, x) ==
    /\ Claim(r, x)
    /\ x \in Jobs /\ ~Affordable
    /\ UNCHANGED <<creditRows, cycle, topUps, creditLocks, creditHistory, creditTx>>

\* The UPDATE of the refill waits for the row lock and then writes what was
\* computed before.  A standard run commits it with the status RUNNING, a
\* funded one keeps its transaction, and the lock, to the end.
Flush(r) ==
    /\ step[r] = "flush" /\ subLock = NoTx
    /\ step' = [step EXCEPT ![r] = "sum"]
    /\ IF run[r] \in Jobs
       THEN /\ sub' = view[r] /\ spent' = 0
            /\ Granted(FlushKind(view[r]), view[r].key)
            /\ UNCHANGED <<subLock, grant>>
       ELSE /\ subLock' = r
            /\ grant' = [grant EXCEPT ![r] = FlushKind(view[r])]
            /\ UNCHANGED <<sub, spent, refills, rewrites>>
    /\ UNCHANGED <<wallet, books, charged, saved, cycle, topUps, walletLock, lost,
                   creditRuns, run, view, row, need, fromPlan, fromWallet>>

\* _get_backtest_job_transaction_summary: what the job has already paid.
Outstanding(x) == IF x \in Funded \/ charged[x] <= 0 THEN Cost
                  ELSE IF charged[x] >= Cost THEN 0 ELSE Cost - charged[x]

Summarise(r) ==
    /\ step[r] = "sum"
    /\ need' = [need EXCEPT ![r] = Outstanding(run[r])]
    /\ step' = [step EXCEPT ![r] = IF Outstanding(run[r]) = 0 THEN "compute" ELSE "plan"]
    /\ UNCHANGED <<creditRows, cycle, topUps, creditLocks, creditHistory, creditRuns,
                   run, view, row, fromPlan, fromWallet, grant>>

\* Faulty variant: the plan pays for everything.
BadFromIncluded(s, n) == n

\* Included credits pay first.
FromIncluded(s, n) == IF n <= s.left THEN n ELSE s.left

\* get_credit_capacity(for_update=True), and the included part of the debit.
DebitPlan(r) ==
    LET s    == Refilled(RowFor(r))
        take == FromIncluded(s, need[r])
    IN  /\ step[r] = "plan" /\ subLock \in {NoTx, r}
        /\ s.left + wallet >= need[r]
        /\ subLock' = r
        /\ view' = [view EXCEPT ![r] = [s EXCEPT !.left = @ - take]]
        /\ fromPlan' = [fromPlan EXCEPT ![r] = take]
        /\ fromWallet' = [fromWallet EXCEPT ![r] = need[r] - take]
        /\ grant' = [grant EXCEPT ![r] =
                        IF Due(RowFor(r)) /\ @ # "rewrite" THEN "refill" ELSE @]
        /\ step' = [step EXCEPT ![r] = "wallet"]
        /\ UNCHANGED <<creditRows, cycle, topUps, walletLock, creditHistory, creditRuns,
                       run, row, need>>

RefusePlan(r) ==
    /\ step[r] = "plan" /\ subLock \in {NoTx, r}
    /\ Refilled(RowFor(r)).left + wallet < need[r]
    /\ Abandon(r)

\* Faulty variant: the balance is not decided on again under the lock.
BadDebitWallet(r) ==
    /\ step[r] = "wallet" /\ walletLock = NoTx
    /\ walletLock' = r
    /\ row' = [row EXCEPT ![r] = wallet]
    /\ step' = [step EXCEPT ![r] = "compute"]
    /\ UNCHANGED <<creditRows, cycle, topUps, subLock, creditHistory, creditRuns,
                   run, view, need, fromPlan, fromWallet, grant>>

\* create_transaction / _create_non_wallet_ledger_entry: the wallet row is
\* locked and the balance decided on again.
DebitWallet(r) ==
    /\ step[r] = "wallet" /\ walletLock = NoTx
    /\ wallet >= fromWallet[r]
    /\ walletLock' = r
    /\ row' = [row EXCEPT ![r] = wallet]
    /\ step' = [step EXCEPT ![r] = "compute"]
    /\ UNCHANGED <<creditRows, cycle, topUps, subLock, creditHistory, creditRuns,
                   run, view, need, fromPlan, fromWallet, grant>>

RefuseWallet(r) ==
    /\ step[r] = "wallet" /\ walletLock = NoTx
    /\ wallet < fromWallet[r]
    /\ Abandon(r)

\* Faulty variant: a worker whose fence has moved on commits too.
BadMayCommit(r) == step[r] = "compute"

\* The final commit: results, debits and rows together, for a standard job
\* only under its current fence (guard_finalization).
MayCommit(r) == run[r] \in Jobs => claimant[run[r]] = r

Commit(r) ==
    /\ step[r] = "compute" /\ MayCommit(r)
    /\ saved' = [saved EXCEPT ![run[r]] = TRUE]
    /\ charged' = [charged EXCEPT ![run[r]] = @ + fromPlan[r] + fromWallet[r]]
    /\ IF subLock = r
       THEN /\ sub' = view[r]
            /\ spent' = (IF grant[r] = "none" THEN spent ELSE 0) + fromPlan[r]
            /\ Granted(grant[r], view[r].key)
       ELSE UNCHANGED <<sub, spent, refills, rewrites>>
    /\ IF walletLock = r
       THEN wallet' = row[r] - fromWallet[r] /\ books' = books - fromWallet[r]
       ELSE UNCHANGED <<wallet, books>>
    /\ Release(r)
    /\ UNCHANGED <<cycle, topUps, lost, creditRuns>>

Fenced(r) == step[r] = "compute" /\ ~MayCommit(r) /\ Abandon(r)

\* The engine raises, the task is stopped or the process dies: PostgreSQL
\* rolls the transaction back.
Fail(r) == step[r] # "idle" /\ Abandon(r)

-----------------------------------------------------------------------------
(* Requests *)

\* POST /backtests/run: its entitlements dependency reads the row without a
\* lock in the request's session and refills a due one there ...
SubmitRead(q) ==
    /\ step[q] = "idle" /\ Due(sub)
    /\ view' = [view EXCEPT ![q] = Refilled(sub)]
    /\ step' = [step EXCEPT ![q] = "flush"]
    /\ UNCHANGED <<creditRows, cycle, topUps, creditLocks, creditHistory, creditRuns,
                   run, row, need, fromPlan, fromWallet, grant>>

\* ... and the commit of the queued job carries the refill with it.
SubmitCommit(q) ==
    /\ step[q] = "flush" /\ subLock = NoTx
    /\ sub' = view[q] /\ spent' = 0
    /\ Granted(FlushKind(view[q]), view[q].key)
    /\ step' = [step EXCEPT ![q] = "done"]
    /\ view' = [view EXCEPT ![q] = FreshRow]
    /\ UNCHANGED <<wallet, books, charged, saved, cycle, topUps, creditLocks, lost, creditRuns,
                   run, row, need, fromPlan, fromWallet, grant>>

\* Faulty variant: the reader decides without the row lock.
BadReadSubscription ==
    /\ Due(sub)
    /\ sub' = Refilled(sub) /\ spent' = 0
    /\ Granted("refill", cycle)
    /\ UNCHANGED <<wallet, books, charged, saved, cycle, topUps, creditLocks, lost,
                   creditRuns, creditTx>>

\* GET /subscriptions: lock, refill if due, commit.
ReadSubscription ==
    /\ Due(sub) /\ subLock = NoTx
    /\ sub' = Refilled(sub) /\ spent' = 0
    /\ Granted("refill", cycle)
    /\ UNCHANGED <<wallet, books, charged, saved, cycle, topUps, creditLocks, lost,
                   creditRuns, creditTx>>

\* _activate_or_refill_subscription: a paid renewal grants a new quota.  The
\* row it writes depends on nothing it read but the plan.
Renew ==
    /\ subLock = NoTx
    /\ sub' = [left |-> Quota, key |-> NullKey, next |-> cycle + 1]
    /\ spent' = 0
    /\ UNCHANGED <<wallet, books, charged, saved, cycle, topUps, creditLocks, refills,
                   rewrites, lost, creditRuns, creditTx>>

\* Faulty variant: the top-up does not wait for the row lock.
BadTopUp ==
    /\ topUps < MaxTopUps
    /\ topUps' = topUps + 1
    /\ wallet' = wallet + Amount /\ books' = books + Amount
    /\ UNCHANGED <<sub, charged, saved, cycle, creditLocks, creditHistory, creditRuns, creditTx>>

\* A verified top-up locks the wallet row, adds, and commits.
TopUp ==
    /\ walletLock = NoTx /\ topUps < MaxTopUps
    /\ topUps' = topUps + 1
    /\ wallet' = wallet + Amount /\ books' = books + Amount
    /\ UNCHANGED <<sub, charged, saved, cycle, creditLocks, creditHistory, creditRuns, creditTx>>

\* The administrator's adjustment reads the wallet without a lock ...
AdjustRead(a) ==
    /\ step[a] = "idle"
    /\ row' = [row EXCEPT ![a] = wallet]
    /\ step' = [step EXCEPT ![a] = "write"]
    /\ UNCHANGED <<creditRows, cycle, topUps, creditLocks, creditHistory, creditRuns,
                   run, view, need, fromPlan, fromWallet, grant>>

\* ... and writes the sum: changes committed in between are lost.
AdjustWrite(a, d) ==
    /\ step[a] = "write" /\ walletLock = NoTx
    /\ row[a] + d >= 0
    /\ wallet' = row[a] + d /\ books' = books + d
    /\ lost' = lost + (wallet - row[a])
    /\ step' = [step EXCEPT ![a] = "done"]
    /\ UNCHANGED <<sub, charged, saved, cycle, topUps, creditLocks, spent, refills, rewrites,
                   creditRuns, run, view, row, need, fromPlan, fromWallet, grant>>

AdjustRefused(a) ==
    /\ step[a] = "write" /\ row[a] - Amount < 0
    /\ step' = [step EXCEPT ![a] = "done"]
    /\ UNCHANGED <<creditRows, cycle, topUps, creditLocks, creditHistory, creditRuns,
                   run, view, row, need, fromPlan, fromWallet, grant>>

NextCycle ==
    /\ cycle < MaxCycle
    /\ cycle' = cycle + 1
    /\ UNCHANGED <<creditRows, topUps, creditLocks, creditHistory, creditRuns, creditTx>>

RunStep(r) == \/ Flush(r) \/ Summarise(r) \/ DebitPlan(r) \/ RefusePlan(r)
              \/ DebitWallet(r) \/ RefuseWallet(r) \/ Commit(r) \/ Fenced(r)

CreditNext ==
    \/ \E r \in Runners : \/ \E x \in CreditRuns : Begin(r, x) \/ RefuseEstimate(r, x)
                          \/ RunStep(r) \/ Fail(r)
    \/ \E q \in Submitters : SubmitRead(q) \/ SubmitCommit(q)
    \/ \E a \in Admins : \/ AdjustRead(a) \/ AdjustRefused(a)
                          \/ \E d \in {Amount, -Amount} : AdjustWrite(a, d)
    \/ ReadSubscription \/ Renew \/ TopUp \/ NextCycle

CreditSpec == CreditInit /\ [][CreditNext]_creditVars

-----------------------------------------------------------------------------
(* Properties *)

\* The wallet row equals the sum of its ledger up to what adjustments
\* overwrote: debits, refused debits, rolled back runs and top-ups, in any
\* order, keep the two together.
WalletMatchesLedger == wallet + lost = books

\* The wallet is never overdrawn, although the capacity check of a run reads
\* it before the row is locked and an adjustment may shrink it in between.
NoOverdraft == wallet >= 0

\* A standard job is charged exactly when its result is saved, and once, with
\* two executions of it in progress and the ledger read before any lock.
JobChargedOnce == \A x \in Jobs : charged[x] = IF saved[x] THEN Cost ELSE 0

\* Between two grants, what is left of the quota and what committed runs took
\* from it make up the quota: no debit is lost and no failed run keeps one.
QuotaConserved == sub.left + spent = Quota

\* A cycle is granted to a due row at most once, whoever gets there first, and
\* again only when a row computed before was written over the grant: locked
\* readers and debits never refill twice among themselves, also in
\* transactions that are open when the cycle ends.
DueRefilledOnce == \A c \in 0..MaxCycle : refills[c] <= 1 + rewrites[c]

\* What the user can still spend, and the steps that spend it.
Credits    == wallet + sub.left
Charges(x) == charged'[x] # charged[x]
Adjusts    == \E a \in Admins : step[a] = "write" /\ step'[a] = "done"
Grants     == refills' # refills \/ rewrites' # rewrites

\* A charge takes the cost of one run, once, from what the user has: all of it
\* leaves the two rows in the transaction that enters it in the ledger, also
\* where the plan was made before a top-up, an adjustment or the end of the
\* cycle, and where the transaction brings a refill of its own.  Nothing else
\* takes credits but the administrator.
ChargeTakesCost ==
    [][/\ \A x \in CreditRuns : Charges(x) =>
              /\ charged' = [charged EXCEPT ![x] = @ + Cost]
              /\ Credits' = (IF Grants THEN wallet + Quota ELSE Credits) - Cost
       /\ Credits' < Credits => Adjusts \/ \E x \in CreditRuns : Charges(x)]_creditVars
=============================================================================
