---------------------------- MODULE CopyDispatch ----------------------------
(***************************************************************************)
(* Copies of one entry signal.  The strategy runner fans a filled primary  *)
(* order out to the copy accounts (execute_signal); passes of the          *)
(* reconcile worker recover what the runner did not do                     *)
(* (dispatch_confirmed_copy_orders).  Both run _dispatch_copy_account, one *)
(* task and one database session per account: an advisory lock that ends   *)
(* with the transaction, a reservation committed before the broker is      *)
(* called and, after a failure, the release of a reservation.              *)
(***************************************************************************)
EXTENDS Naturals

CONSTANTS
    Targets,       \* copy accounts of the deployment
    CTraderKeyed,  \* those whose orders have _ctrader_client_order_id as key
    Runner, Worker,   \* the strategy runner, the reconcile worker
    NoDispatcher,
    MaxPasses      \* bound: passes of the worker

Dispatchers == {Runner, Worker}

ASSUME CopyAssumption ==
    /\ CTraderKeyed \subseteq Targets
    /\ Runner # Worker /\ NoDispatcher \notin Dispatchers
    /\ MaxPasses \in Nat

VARIABLES
    primary,      \* the committed primary order
    outdated,     \* it is closed, superseded or older than the follow-up window
    orders,       \* the LiveOrder row of each target's copy
    copyLock,     \* the advisory lock of each account
    task,         \* where the dispatcher's task for the account is
    passes,       \* passes of the worker so far
    posted,       \* history: orders handed to the target's broker
    released      \* history: another dispatcher's reservation was released

copyVars == <<primary, outdated, orders, copyLock, task, passes, posted, released>>

\* A row: PENDING as reserved, with requires_reconciliation; UNKNOWN is PENDING
\* after an unknown outcome, without that mark; SKIPPED has the mark
\* safe_pre_submit_retry and DEAD has lost it.
OrderStates == {"none", "PENDING", "UNKNOWN", "SKIPPED", "DEAD", "PLACED", "FILLED", "ERROR"}
Unresolved  == {"PENDING", "UNKNOWN", "PLACED"}
Reclaimable == {"none", "SKIPPED"}

CopyTypeOK ==
    /\ primary \in {"none", "PLACED", "FILLED"} /\ outdated \in BOOLEAN
    /\ orders \in [Targets -> OrderStates]
    /\ copyLock \in [Targets -> Dispatchers \cup {NoDispatcher}]
    /\ task \in [Dispatchers -> [Targets ->
                    {"idle", "start", "checked", "reserved", "sent", "refused", "failed"}]]
    /\ passes \in 0..MaxPasses
    /\ posted \in [Targets -> Nat] /\ released \in [Targets -> BOOLEAN]

CopyInit ==
    /\ primary = "none" /\ outdated = FALSE
    /\ orders = [t \in Targets |-> "none"]
    /\ copyLock = [t \in Targets |-> NoDispatcher]
    /\ task = [d \in Dispatchers |-> [t \in Targets |-> "idle"]]
    /\ passes = 0
    /\ posted = [t \in Targets |-> 0] /\ released = [t \in Targets |-> FALSE]

-----------------------------------------------------------------------------
(* The primary order *)

Confirmed(status) == status = "FILLED"

\* The primary order is executed and committed with its copy intent; a
\* confirmed one is fanned out at once.
ExecutePrimary ==
    /\ primary = "none"
    /\ \E s \in {"PLACED", "FILLED"} :
        /\ primary' = s
        /\ task' = [task EXCEPT ![Runner] =
                        [t \in Targets |-> IF Confirmed(s) THEN "start" ELSE "idle"]]
    /\ UNCHANGED <<outdated, orders, copyLock, passes, posted, released>>

\* Reconciliation finds the fill of an acknowledged primary order.
ConfirmPrimary ==
    /\ primary = "PLACED" /\ primary' = "FILLED"
    /\ UNCHANGED <<outdated, orders, copyLock, task, passes, posted, released>>

\* The position closes, a later signal arrives or the window ends.
Outdate ==
    /\ primary # "none" /\ ~outdated /\ outdated' = TRUE
    /\ UNCHANGED <<primary, orders, copyLock, task, passes, posted, released>>

\* A pass plans a task for each target without an order, or with one that may
\* be reclaimed.  It looks a target's order up by _client_order_id: the order
\* of a cTrader account has another key and is not found.
Prior(t) == IF t \in CTraderKeyed THEN "none" ELSE orders[t]

PlanPass ==
    /\ Confirmed(primary) /\ ~outdated /\ passes < MaxPasses
    /\ \A t \in Targets : task[Worker][t] = "idle"
    /\ \E t \in Targets : Prior(t) \in Reclaimable
    /\ passes' = passes + 1
    /\ task' = [task EXCEPT ![Worker] =
                    [t \in Targets |-> IF Prior(t) \in Reclaimable THEN "start" ELSE "idle"]]
    /\ UNCHANGED <<primary, outdated, orders, copyLock, posted, released>>

-----------------------------------------------------------------------------
(* One account: _dispatch_copy_account *)

Goto(d, t, place) == task' = [task EXCEPT ![d][t] = place]
Unlock(d, t) == copyLock' = [copyLock EXCEPT ![t] = IF @ = d THEN NoDispatcher ELSE @]

\* The advisory lock is tried, never waited for, and an account with an
\* unresolved entry takes no other.
BeginCopy(d, t) ==
    /\ task[d][t] = "start"
    /\ copyLock[t] = NoDispatcher /\ orders[t] \notin Unresolved
    /\ copyLock' = [copyLock EXCEPT ![t] = d]
    /\ Goto(d, t, "checked")
    /\ UNCHANGED <<primary, outdated, orders, passes, posted, released>>

\* Lock busy, entry unresolved, account disconnected, deadline passed, symbol
\* unknown, a failing query: an exception before the order is submitted.
Raise(d, t) ==
    /\ \/ task[d][t] \in {"start", "checked"} /\ Goto(d, t, "refused")
       \/ task[d][t] = "reserved" /\ Goto(d, t, "failed")
    /\ Unlock(d, t)
    /\ UNCHANGED <<primary, outdated, orders, passes, posted, released>>

\* Positions and risk are checked under the lock; a rejection ends the task.
RejectCopy(d, t) ==
    /\ task[d][t] = "checked"
    /\ Unlock(d, t) /\ Goto(d, t, "idle")
    /\ UNCHANGED <<primary, outdated, orders, passes, posted, released>>

\* _reserve_entry: the row is inserted, or reclaimed if it may be.
Claimable(t) == orders[t] \in Reclaimable

\* Faulty variant: the row is left to be committed with the broker's answer.
BadReserve(d, t) ==
    /\ task[d][t] = "checked" /\ Claimable(t)
    /\ Goto(d, t, "reserved")
    /\ UNCHANGED <<primary, outdated, orders, copyLock, passes, posted, released>>

\* The commit of the reservation ends the transaction and frees the lock.
Reserve(d, t) ==
    /\ task[d][t] = "checked" /\ Claimable(t)
    /\ orders' = [orders EXCEPT ![t] = "PENDING"]
    /\ Unlock(d, t) /\ Goto(d, t, "reserved")
    /\ UNCHANGED <<primary, outdated, passes, posted, released>>

\* An order that was there and may not be reclaimed is returned, not sent.
BlockDuplicate(d, t) ==
    /\ task[d][t] = "checked" /\ ~Claimable(t)
    /\ Unlock(d, t) /\ Goto(d, t, "idle")
    /\ UNCHANGED <<primary, outdated, orders, passes, posted, released>>

\* mark_order_submission and the call of the broker.
Submit(d, t) ==
    /\ task[d][t] = "reserved"
    /\ posted' = [posted EXCEPT ![t] = @ + 1]
    /\ Goto(d, t, "sent")
    /\ UNCHANGED <<primary, outdated, orders, copyLock, passes, released>>

\* The row after an answer; TradeLocker's queue may report a request that
\* expired before submission, SKIPPED without the mark.
Answers == {"FILLED", "PLACED", "ERROR", "DEAD"}

\* The session writes what changed since it loaded the row as PENDING.
AnswerCopy(d, t) ==
    /\ task[d][t] = "sent"
    /\ \E s \in Answers : orders' = [orders EXCEPT ![t] = s]
    /\ Goto(d, t, "idle")
    /\ UNCHANGED <<primary, outdated, copyLock, passes, posted, released>>

\* An unknown outcome leaves the status PENDING, which is not a change, and
\* replaces the response, with requires_reconciliation from TradeLocker only.
AnswerUnknown(d, t) ==
    /\ task[d][t] = "sent"
    /\ orders' = [orders EXCEPT ![t] =
            CASE @ = "SKIPPED" -> "DEAD"
              [] @ = "PENDING" /\ t \in CTraderKeyed -> "UNKNOWN"
              [] OTHER -> @]
    /\ Goto(d, t, "idle")
    /\ UNCHANGED <<primary, outdated, copyLock, passes, posted, released>>

\* Faulty variant: cleanup after any exception, submitted or not.
BadRaiseLate(d, t) ==
    /\ task[d][t] = "sent" /\ Goto(d, t, "failed")
    /\ UNCHANGED <<primary, outdated, orders, copyLock, passes, posted, released>>

\* An exception after the submission leaves the reservation as it is ...
RaiseLate(d, t) ==
    /\ task[d][t] = "sent" /\ Goto(d, t, "idle")
    /\ UNCHANGED <<primary, outdated, orders, copyLock, passes, posted, released>>

\* ... and one before it releases the account's PENDING row of this order,
\* whoever reserved it.
Cleanup(d, t) ==
    /\ task[d][t] \in {"refused", "failed"}
    /\ orders' = [orders EXCEPT ![t] = IF @ = "PENDING" THEN "SKIPPED" ELSE @]
    /\ released' = [released EXCEPT ![t] = @ \/ (task[d][t] = "refused" /\ orders[t] = "PENDING")]
    /\ Goto(d, t, "idle")
    /\ UNCHANGED <<primary, outdated, copyLock, passes, posted>>

\* A process dies: its sessions end, and with them their locks.
CrashCopy(d) ==
    /\ \E t \in Targets : task[d][t] # "idle"
    /\ task' = [task EXCEPT ![d] = [t \in Targets |-> "idle"]]
    /\ copyLock' = [t \in Targets |-> IF copyLock[t] = d THEN NoDispatcher ELSE copyLock[t]]
    /\ UNCHANGED <<primary, outdated, orders, passes, posted, released>>

\* reconcile_orders: an accepted order is found by its broker id, a TradeLocker
\* order without an answer by its strategyId.
ReconcileCopy(t) ==
    /\ \/ orders[t] = "PLACED"
       \/ orders[t] = "PENDING" /\ posted[t] > 0 /\ t \notin CTraderKeyed
    /\ \E s \in {"FILLED", "ERROR"} : orders' = [orders EXCEPT ![t] = s]
    /\ UNCHANGED <<primary, outdated, copyLock, task, passes, posted, released>>

CopyNext ==
    \/ ExecutePrimary \/ ConfirmPrimary \/ Outdate \/ PlanPass
    \/ \E d \in Dispatchers, t \in Targets :
        \/ BeginCopy(d, t) \/ Raise(d, t) \/ RejectCopy(d, t) \/ Reserve(d, t)
        \/ BlockDuplicate(d, t) \/ Submit(d, t) \/ AnswerCopy(d, t)
        \/ AnswerUnknown(d, t) \/ RaiseLate(d, t) \/ Cleanup(d, t)
    \/ \E d \in Dispatchers : CrashCopy(d)
    \/ \E t \in Targets : ReconcileCopy(t)

CopySpec == CopyInit /\ [][CopyNext]_copyVars

-----------------------------------------------------------------------------
(* Properties *)

\* An order is sent again only after a task that had not reserved it released
\* its reservation: a dispatcher's own failures, answers and death never lead
\* to a second order, and two tasks hold one reservation only then.
SentAgainOnlyIfReleased ==
    \A t \in Targets : \/ released[t]
                       \/ /\ posted[t] <= 1
                          /\ ~ \A d \in Dispatchers : task[d][t] \in {"reserved", "sent"}

\* From the moment an order may be at the broker until a release, its row stops
\* every further attempt, across crashes of both processes.
SentIsBlocking ==
    \A t \in Targets : posted[t] > 0 /\ ~released[t] => orders[t] \notin Reclaimable

\* What dispatch_confirmed_copy_orders says of its passes: "A durable idempotency
\* reservation protects each target even if this worker and the initial runner
\* attempt the same signal simultaneously."  It does not hold: the cleanup of one
\* releases the reservation of the other.
ReservationProtects == \A t \in Targets : posted[t] <= 1
=============================================================================
