---------------------------- MODULE BacktestJobs ----------------------------
(***************************************************************************)
(* Durable execution of queued backtests: the submit endpoint, the Redis   *)
(* queue, the Celery workers (execute_job), the dispatcher (recover_jobs), *)
(* the retry endpoint (retry_job) and the rows of job_status and           *)
(* backtest_execution they share.  A transaction that takes a row lock and *)
(* then writes is two steps, so that every other process can run between   *)
(* the read and the write.                                                 *)
(***************************************************************************)
EXTENDS Naturals, FiniteSets

CONSTANTS
    Jobs,         \* backtests (rows of job_status with job_type "backtest")
    Workers,      \* Celery worker processes of the "backtest" queue
    Retriers,     \* concurrent calls of POST /jobs/{id}/retry
    Dispatcher,   \* the process running recover_jobs
    None,         \* no holder, no job
    MaxAttempts,  \* backtest_execution.max_attempts
    Cost,         \* credits a backtest costs
    MaxCopies,    \* bound: copies of one message waiting in Redis
    Faults        \* the kinds of failure a run lets happen

FaultKinds == {"crash", "connection", "transient", "permanent", "broker",
               "duplicate", "cancel", "claim"}

ASSUME BacktestAssumption ==
    /\ MaxAttempts \in Nat \ {0}
    /\ Cost \in Nat \ {0}
    /\ MaxCopies \in Nat \ {0}
    /\ Faults \subseteq FaultKinds
    /\ None \notin Jobs \cup Workers \cup Retriers \cup {Dispatcher}
    /\ Dispatcher \notin Workers \cup Retriers
    /\ Workers \cap Retriers = {}

VARIABLES
    \* job_status and backtest_execution, per job
    status, fence, attempts, cancel, stage, owner, hb, sent,
    \* credit_transactions (net debit of the job) and saved results, per job
    ledger, results,
    \* session advisory locks; row locks on backtest_execution, job_status and
    \* the user's wallet
    advisory, rowE, rowJ, wallet,
    \* copies of the job's message waiting in Redis
    queue,
    \* worker: program counter, job in hand, claimed fence, status it read,
    \* credits debited in its open transaction, error class, the stop event of
    \* ExecutionControl, and whether its lock connection is alive
    pc, at, token, seen, pend, err, stopped, linked,
    \* dispatcher: program counter, rows of its scan, job and status in hand
    dpc, todo, djob, dseen,
    \* submit request of each job, and retry requests
    api, rpc, rjob

rowVars    == <<status, fence, attempts, cancel, stage, owner, hb, sent>>
bookVars   == <<ledger, results>>
txVars     == <<rowE, rowJ, wallet>>
workerVars == <<pc, at, token, seen, pend, err, stopped, linked>>
dispVars   == <<dpc, todo, djob, dseen>>
apiVars    == <<api, rpc, rjob>>
vars == <<rowVars, bookVars, advisory, txVars, queue, workerVars, dispVars, apiVars>>

Terminal == {"completed", "failed", "cancelled"}
Statuses == Terminal \cup {"absent", "queued", "running"}
Times    == {"null", "fresh", "old"}     \* "old": more than 120 seconds ago
Holders  == Workers \cup Retriers \cup {Dispatcher, None}

\* Where execute_job has a claim: its heartbeat task runs, and a failure there
\* is one of its own `execute`.
Executing == {"started", "running", "summed", "computing", "guardWait"}
Claimed   == Executing \cup {"guarded", "failing", "handling", "exit"}
Claiming  == {"claim", "claimWait", "claimLocked"}

TypeOK ==
    /\ status \in [Jobs -> Statuses]
    /\ fence \in [Jobs -> Nat] /\ attempts \in [Jobs -> Nat]
    /\ cancel \in [Jobs -> BOOLEAN]
    /\ stage \in [Jobs -> {"queued", "active"} \cup Terminal]
    /\ owner \in [Jobs -> Workers \cup {None}]
    /\ hb \in [Jobs -> Times] /\ sent \in [Jobs -> Times]
    /\ ledger \in [Jobs -> Nat] /\ results \in [Jobs -> Nat]
    /\ advisory \in [Jobs -> Holders]
    /\ rowE \in [Jobs -> Holders] /\ rowJ \in [Jobs -> Holders]
    /\ wallet \in Workers \cup {None}
    /\ queue \in [Jobs -> 0..MaxCopies]
    /\ pc \in [Workers -> {"idle"} \cup Claiming \cup Claimed]
    /\ at \in [Workers -> Jobs \cup {None}]
    /\ token \in [Workers -> Nat] /\ pend \in [Workers -> Nat]
    /\ seen \in [Workers -> Statuses]
    /\ err \in [Workers -> {"none", "transient", "permanent"}]
    /\ stopped \in [Workers -> BOOLEAN] /\ linked \in [Workers -> BOOLEAN]
    /\ dpc \in {"idle", "scan", "recheck", "wait", "locked", "publish", "record", "unlock"}
    /\ todo \subseteq Jobs /\ djob \in Jobs \cup {None} /\ dseen \in Statuses
    /\ api \in [Jobs -> {"idle", "publish", "record", "done"}]
    /\ rpc \in [Retriers -> {"idle", "read", "locked"}]
    /\ rjob \in [Retriers -> Jobs \cup {None}]

Init ==
    /\ status = [j \in Jobs |-> "absent"]
    /\ fence = [j \in Jobs |-> 0] /\ attempts = [j \in Jobs |-> 0]
    /\ cancel = [j \in Jobs |-> FALSE]
    /\ stage = [j \in Jobs |-> "queued"]
    /\ owner = [j \in Jobs |-> None]
    /\ hb = [j \in Jobs |-> "null"] /\ sent = [j \in Jobs |-> "null"]
    /\ ledger = [j \in Jobs |-> 0] /\ results = [j \in Jobs |-> 0]
    /\ advisory = [j \in Jobs |-> None]
    /\ rowE = [j \in Jobs |-> None] /\ rowJ = [j \in Jobs |-> None]
    /\ wallet = None
    /\ queue = [j \in Jobs |-> 0]
    /\ pc = [w \in Workers |-> "idle"] /\ at = [w \in Workers |-> None]
    /\ token = [w \in Workers |-> 0] /\ pend = [w \in Workers |-> 0]
    /\ seen = [w \in Workers |-> "absent"]
    /\ err = [w \in Workers |-> "none"]
    /\ stopped = [w \in Workers |-> FALSE] /\ linked = [w \in Workers |-> FALSE]
    /\ dpc = "idle" /\ todo = {} /\ djob = None /\ dseen = "absent"
    /\ api = [j \in Jobs |-> "idle"]
    /\ rpc = [r \in Retriers |-> "idle"] /\ rjob = [r \in Retriers |-> None]

-----------------------------------------------------------------------------
(* Faulty variants, for testing the properties: each stands for a plausible *)
(* mistake in the definition it replaces.                                   *)

BadNextFence(j) == fence[j]                        \* fence not moved
BadOwnsFence(w) == TRUE                            \* finalization not fenced
BadMayFinalize(w) == fence[at[w]] = token[w]       \* cancellation not checked
BadIsCurrent(w) == TRUE                            \* failure handler not fenced
BadFailureStatus(w) == "retry"                     \* the legacy retry status
BadRecoverable(s, sentAt, beat) ==                 \* orphans not searched for
    s = "queued" /\ sentAt = "null"

-----------------------------------------------------------------------------
(* Locks.  A transaction of p ends: PostgreSQL drops every row lock of p.   *)

Freed(lock, p) == [j \in Jobs |-> IF lock[j] = p THEN None ELSE lock[j]]

EndTx(p) ==
    /\ rowE' = Freed(rowE, p)
    /\ rowJ' = Freed(rowJ, p)
    /\ wallet' = IF wallet = p THEN None ELSE wallet

\* job_status can be written by p: nobody else holds its row.
CanWriteJob(j, p) == rowJ[j] \in {None, p}

\* SELECT ... FOR UPDATE on the backtest_execution row of j.
LockExecution(j, p) ==
    /\ rowE[j] = None
    /\ rowE' = [rowE EXCEPT ![j] = p]
    /\ UNCHANGED <<rowJ, wallet>>

-----------------------------------------------------------------------------
(* The submit endpoint: commit the job, publish its id, record the publish. *)

\* One transaction inserts job_status ("queued") and backtest_execution.
Submit(j) ==
    /\ api[j] = "idle"
    /\ status' = [status EXCEPT ![j] = "queued"]
    /\ api' = [api EXCEPT ![j] = "publish"]
    /\ UNCHANGED <<fence, attempts, cancel, stage, owner, hb, sent, bookVars,
                   advisory, txVars, queue, workerVars, dispVars, rpc, rjob>>

\* dispatch_job: the message reaches Redis.
SubmitPublish(j) ==
    /\ api[j] = "publish" /\ queue[j] < MaxCopies
    /\ queue' = [queue EXCEPT ![j] = @ + 1]
    /\ api' = [api EXCEPT ![j] = "record"]
    /\ UNCHANGED <<rowVars, bookVars, advisory, txVars, workerVars, dispVars, rpc, rjob>>

\* dispatch_job or the request fails ("durable_pending"); a failed publish may
\* still have reached the broker.
SubmitFails(j) ==
    /\ "broker" \in Faults
    /\ api[j] \in {"publish", "record"}
    /\ \/ UNCHANGED queue
       \/ /\ api[j] = "publish" /\ queue[j] < MaxCopies
          /\ queue' = [queue EXCEPT ![j] = @ + 1]
    /\ api' = [api EXCEPT ![j] = "done"]
    /\ UNCHANGED <<rowVars, bookVars, advisory, txVars, workerVars, dispVars, rpc, rjob>>

\* UPDATE backtest_execution SET dispatched_at=now().
SubmitRecord(j) ==
    /\ api[j] = "record" /\ rowE[j] = None
    /\ sent' = [sent EXCEPT ![j] = "fresh"]
    /\ api' = [api EXCEPT ![j] = "done"]
    /\ UNCHANGED <<status, fence, attempts, cancel, stage, owner, hb, bookVars,
                   advisory, txVars, queue, workerVars, dispVars, rpc, rjob>>

-----------------------------------------------------------------------------
(* A worker: delivery, claim, execution, finalization, failure, release.    *)

\* The task ends: the advisory lock is released if this session still has it,
\* the local state is gone.  Celery has acknowledged the message.
Forget(w) ==
    /\ advisory' = Freed(advisory, w)
    /\ pc' = [pc EXCEPT ![w] = "idle"]
    /\ at' = [at EXCEPT ![w] = None]
    /\ token' = [token EXCEPT ![w] = 0]
    /\ seen' = [seen EXCEPT ![w] = "absent"]
    /\ pend' = [pend EXCEPT ![w] = 0]
    /\ err' = [err EXCEPT ![w] = "none"]
    /\ stopped' = [stopped EXCEPT ![w] = FALSE]
    /\ linked' = [linked EXCEPT ![w] = FALSE]

Goto(w, label) ==
    /\ pc' = [pc EXCEPT ![w] = label]
    /\ UNCHANGED <<at, token, seen, pend, err, stopped, linked>>

\* A delivered message whose advisory lock is free: pg_try_advisory_lock.
Receive(w, j) ==
    /\ pc[w] = "idle" /\ queue[j] > 0 /\ advisory[j] = None
    /\ queue' = [queue EXCEPT ![j] = @ - 1]
    /\ advisory' = [advisory EXCEPT ![j] = w]
    /\ pc' = [pc EXCEPT ![w] = "claim"]
    /\ at' = [at EXCEPT ![w] = j]
    /\ linked' = [linked EXCEPT ![w] = TRUE]
    /\ UNCHANGED <<token, seen, pend, err, stopped, rowVars, bookVars, txVars, dispVars, apiVars>>

\* The lock is held: "already_owned" is returned and the message is consumed.
AlreadyOwned(w, j) ==
    /\ pc[w] = "idle" /\ queue[j] > 0 /\ advisory[j] # None
    /\ queue' = [queue EXCEPT ![j] = @ - 1]
    /\ UNCHANGED <<rowVars, bookVars, advisory, txVars, workerVars, dispVars, apiVars>>

\* The claim's SELECT takes its snapshot.  When the row of backtest_execution
\* is locked the statement waits for it; afterwards READ COMMITTED rereads that
\* row but keeps the snapshot's version of job_status, which is not locked.
ClaimRead(w) ==
    /\ pc[w] = "claim"
    /\ seen' = [seen EXCEPT ![w] = status[at[w]]]
    /\ pc' = [pc EXCEPT ![w] = "claimWait"]
    /\ UNCHANGED <<at, token, pend, err, stopped, linked, rowVars, bookVars,
                   advisory, txVars, queue, dispVars, apiVars>>

ClaimLock(w) ==
    /\ pc[w] = "claimWait"
    /\ LockExecution(at[w], w)
    /\ Goto(w, "claimLocked")
    /\ UNCHANGED <<rowVars, bookVars, advisory, queue, dispVars, apiVars>>

\* A terminal job: roll back and return.
ClaimTerminal(w) ==
    /\ pc[w] = "claimLocked" /\ seen[w] \in Terminal
    /\ EndTx(w) /\ Forget(w)
    /\ UNCHANGED <<rowVars, bookVars, queue, dispVars, apiVars>>

OutOfAttempts(j) == cancel[j] \/ attempts[j] >= MaxAttempts

\* Cancelled, or out of attempts: the job ends here.
ClaimRefuse(w) ==
    LET j == at[w]
        s == IF cancel[j] THEN "cancelled" ELSE "failed"
    IN  /\ pc[w] = "claimLocked" /\ seen[w] \notin Terminal
        /\ OutOfAttempts(j)
        /\ CanWriteJob(j, w)
        /\ status' = [status EXCEPT ![j] = s]
        /\ stage' = [stage EXCEPT ![j] = s]
        /\ EndTx(w) /\ Forget(w)
        /\ UNCHANGED <<fence, attempts, cancel, owner, hb, sent, bookVars, queue, dispVars, apiVars>>

NextFence(j) == fence[j] + 1

\* A new attempt: the fence moves, and the claim commits.
Claim(w) ==
    LET j == at[w]
    IN  /\ pc[w] = "claimLocked" /\ seen[w] \notin Terminal
        /\ ~OutOfAttempts(j)
        /\ CanWriteJob(j, w)
        /\ fence' = [fence EXCEPT ![j] = NextFence(j)]
        /\ attempts' = [attempts EXCEPT ![j] = @ + 1]
        /\ owner' = [owner EXCEPT ![j] = w]
        /\ hb' = [hb EXCEPT ![j] = "fresh"]
        /\ stage' = [stage EXCEPT ![j] = "active"]
        /\ status' = [status EXCEPT ![j] = "running"]
        /\ token' = [token EXCEPT ![w] = NextFence(j)]
        /\ pc' = [pc EXCEPT ![w] = "started"]
        /\ seen' = [seen EXCEPT ![w] = "absent"]
        /\ EndTx(w)
        /\ UNCHANGED <<cancel, sent, bookVars, advisory, queue, at, pend, err,
                       stopped, linked, dispVars, apiVars>>

\* The claim transaction fails (connection lost, deadlock victim): nothing is
\* written, the task raises and its message is acknowledged.
ClaimAborted(w) ==
    /\ "claim" \in Faults
    /\ pc[w] \in Claiming
    /\ EndTx(w) /\ Forget(w)
    /\ UNCHANGED <<rowVars, bookVars, queue, dispVars, apiVars>>

\* _execute_backtest_sync publishes RUNNING in a transaction of its own, with
\* no look at the fence.
EarlyCommit(w) ==
    LET j == at[w]
    IN  /\ pc[w] = "started" /\ CanWriteJob(j, w)
        /\ status' = [status EXCEPT ![j] = "running"]
        /\ Goto(w, "running")
        /\ UNCHANGED <<fence, attempts, cancel, stage, owner, hb, sent, bookVars,
                       advisory, txVars, queue, dispVars, apiVars>>

\* What is left to charge, from the job's committed credit transactions.
Remaining(j) == IF ledger[j] < Cost THEN Cost - ledger[j] ELSE 0

\* consume_credits_for_backtest reads the job's transactions before any lock...
ReadLedger(w) ==
    /\ pc[w] = "running"
    /\ pend' = [pend EXCEPT ![w] = Remaining(at[w])]
    /\ pc' = [pc EXCEPT ![w] = "summed"]
    /\ UNCHANGED <<at, token, seen, err, stopped, linked, rowVars, bookVars,
                   advisory, txVars, queue, dispVars, apiVars>>

\* ...then locks the wallet and debits, uncommitted, or finds it all charged.
Debit(w) ==
    /\ pc[w] = "summed"
    /\ IF pend[w] > 0
       THEN wallet = None /\ wallet' = w
       ELSE UNCHANGED wallet
    /\ Goto(w, "computing")
    /\ UNCHANGED <<rowE, rowJ, rowVars, bookVars, advisory, queue, dispVars, apiVars>>

\* The strategy runs; every checkpoint passes.  The result is saved in the open
\* transaction and a new debit is linked to the job, which locks its row.
Save(w) ==
    LET j == at[w]
    IN  /\ pc[w] = "computing" /\ ~stopped[w]
        /\ IF pend[w] > 0
           THEN CanWriteJob(j, w) /\ rowJ' = [rowJ EXCEPT ![j] = w]
           ELSE UNCHANGED rowJ
        /\ Goto(w, "guardWait")
        /\ UNCHANGED <<rowE, wallet, rowVars, bookVars, advisory, queue, dispVars, apiVars>>

\* finalize_guard: the claim is still the current one, and not cancelled.
OwnsFence(w) == fence[at[w]] = token[w] /\ owner[at[w]] = w

MayFinalize(w) == OwnsFence(w) /\ ~cancel[at[w]]

Guard(w) ==
    /\ pc[w] = "guardWait"
    /\ MayFinalize(w)
    /\ LockExecution(at[w], w)
    /\ Goto(w, "guarded")
    /\ UNCHANGED <<rowVars, bookVars, advisory, queue, dispVars, apiVars>>

\* The session rolls back before the failure handler runs.
Raise(w, kind) ==
    /\ pc' = [pc EXCEPT ![w] = "failing"]
    /\ err' = [err EXCEPT ![w] = kind]
    /\ pend' = [pend EXCEPT ![w] = 0]
    /\ EndTx(w)
    /\ UNCHANGED <<at, token, seen, stopped, linked, rowVars, bookVars, advisory,
                   queue, dispVars, apiVars>>

\* BacktestInterrupted: the guard finds a newer claim or a cancellation...
GuardRefuses(w) ==
    /\ pc[w] = "guardWait" /\ rowE[at[w]] = None
    /\ ~MayFinalize(w)
    /\ Raise(w, "permanent")

\* ...or a checkpoint finds the stop event set.
Interrupted(w) ==
    /\ pc[w] = "computing" /\ stopped[w]
    /\ Raise(w, "permanent")

\* `execute` fails: no credits, no data, a strategy error (permanent), or the
\* database connection, a timeout, a deadlock (transient).
Fail(w, kind) ==
    /\ kind \in Faults /\ kind \in {"transient", "permanent"}
    /\ pc[w] \in Executing
    /\ Raise(w, kind)

\* The failure handler's check: the attempt's fence is still the job's.
IsCurrent(w) == fence[at[w]] = token[w]

\* Who holds the execution row of j and is about to write its job_status row.
WritesJobNext(p, j) ==
    \/ p = Dispatcher /\ dseen \notin Terminal /\ OutOfAttempts(j)
    \/ p \in Retriers /\ ~OutOfAttempts(j)
    \/ p \in Workers /\ \/ pc[p] = "claimLocked" /\ seen[p] \notin Terminal
                        \/ pc[p] = "handling" /\ IsCurrent(p)
                        \/ pc[p] = "guarded"

\* Whose transaction holds the execution row of j, who waits for it, and who
\* waits for the row of job_status.
HoldsExecution(p, j) ==
    \/ p = Dispatcher /\ djob = j /\ dpc = "locked"
    \/ p \in Retriers /\ rjob[p] = j /\ rpc[p] = "locked"
    \/ p \in Workers /\ at[p] = j /\ pc[p] \in {"claimLocked", "guarded", "handling"}

NeedsExecution(p, j) ==
    \/ p = Dispatcher /\ djob = j /\ dpc \in {"wait", "record"}
    \/ p \in Retriers /\ rjob[p] = j /\ rpc[p] = "read"
    \/ p \in Workers /\ at[p] = j /\ pc[p] \in {"claimWait", "guardWait", "failing"}

NeedsJob(p, j) ==
    \/ rowE[j] = p /\ WritesJobNext(p, j)
    \/ p \in Workers /\ at[p] = j /\ pc[p] = "started"
    \/ p \in Workers /\ at[p] = j /\ pc[p] = "computing" /\ pend[p] > 0

\* Save locks job_status before Guard locks backtest_execution, everybody else
\* the other way round: PostgreSQL breaks the deadlock.  Here the finalizing
\* transaction is the victim; the other side's aborts are the fault actions.
Deadlocked(w) ==
    LET j == at[w]
    IN  /\ pc[w] = "guardWait" /\ rowJ[j] = w
        /\ rowE[j] \notin {None, w} /\ WritesJobNext(rowE[j], j)

DeadlockVictim(w) == Deadlocked(w) /\ Raise(w, "transient")

\* Results, charge, stage and status commit together.  The worker may not learn
\* of it: the commit succeeds and its answer is lost.
Commit(w) ==
    LET j == at[w]
    IN  /\ pc[w] = "guarded" /\ CanWriteJob(j, w)
        /\ status' = [status EXCEPT ![j] = "completed"]
        /\ stage' = [stage EXCEPT ![j] = "completed"]
        /\ hb' = [hb EXCEPT ![j] = "fresh"]
        /\ ledger' = [ledger EXCEPT ![j] = @ + pend[w]]
        /\ results' = [results EXCEPT ![j] = @ + 1]
        /\ EndTx(w)
        /\ pend' = [pend EXCEPT ![w] = 0]
        /\ \/ pc' = [pc EXCEPT ![w] = "exit"] /\ UNCHANGED err
           \/ /\ "connection" \in Faults
              /\ pc' = [pc EXCEPT ![w] = "failing"]
              /\ err' = [err EXCEPT ![w] = "transient"]
        /\ UNCHANGED <<fence, attempts, cancel, owner, sent, advisory, queue, at,
                       token, seen, stopped, linked, dispVars, apiVars>>

\* The finalizing transaction is lost instead: deadlock victim or connection.
CommitFails(w) ==
    /\ "connection" \in Faults
    /\ pc[w] = "guarded"
    /\ Raise(w, "transient")

\* The failure handler: a new session locks the execution row...
HandlerLock(w) ==
    /\ pc[w] = "failing"
    /\ LockExecution(at[w], w)
    /\ Goto(w, "handling")
    /\ UNCHANGED <<rowVars, bookVars, advisory, queue, dispVars, apiVars>>

\* What becomes of a failed job; attempts is the count this attempt's claim wrote.
FailureStatus(w) ==
    CASE cancel[at[w]] -> "cancelled"
      [] ~cancel[at[w]] /\ err[w] = "transient" /\ attempts[at[w]] < MaxAttempts -> "queued"
      [] OTHER -> "failed"

\* ...and, when the fence is still this attempt's, ends or requeues the job.
HandlerWrite(w) ==
    LET j == at[w]
        s == FailureStatus(w)
    IN  /\ pc[w] = "handling" /\ IsCurrent(w)
        /\ CanWriteJob(j, w)
        /\ status' = IF status[j] # "completed" THEN [status EXCEPT ![j] = s] ELSE status
        /\ IF stage[j] # "completed"
           THEN stage' = [stage EXCEPT ![j] = s] /\ sent' = [sent EXCEPT ![j] = "fresh"]
           ELSE UNCHANGED <<stage, sent>>
        /\ EndTx(w) /\ Goto(w, "exit")
        /\ UNCHANGED <<fence, attempts, cancel, owner, hb, bookVars, advisory, queue, dispVars, apiVars>>

\* A newer claim exists: the stale attempt writes nothing.
HandlerFenced(w) ==
    /\ pc[w] = "handling" /\ ~IsCurrent(w)
    /\ EndTx(w) /\ Goto(w, "exit")
    /\ UNCHANGED <<rowVars, bookVars, advisory, queue, dispVars, apiVars>>

\* The handler's own session fails: the job stays as it is.
HandlerFails(w) ==
    /\ "connection" \in Faults
    /\ pc[w] \in {"failing", "handling"}
    /\ EndTx(w) /\ Goto(w, "exit")
    /\ UNCHANGED <<rowVars, bookVars, advisory, queue, dispVars, apiVars>>

\* heartbeat.cancel(), pg_advisory_unlock, acknowledgement (acks_late).
Exit(w) ==
    /\ pc[w] = "exit"
    /\ Forget(w)
    /\ UNCHANGED <<rowVars, bookVars, txVars, queue, dispVars, apiVars>>

\* The heartbeat, on the lock connection, every 10 seconds until the stop
\* event.  Its telemetry stage overwrites whatever stage the row has.
Heartbeat(w) ==
    LET j == at[w]
    IN  /\ pc[w] \in Claimed /\ linked[w] /\ ~stopped[w]
        /\ rowE[j] = None
        /\ IF OwnsFence(w)
           THEN /\ hb' = [hb EXCEPT ![j] = "fresh"]
                /\ stage' = [stage EXCEPT ![j] = "active"]
                /\ stopped' = [stopped EXCEPT ![w] = cancel[j]]
           ELSE /\ UNCHANGED <<hb, stage>>
                /\ stopped' = [stopped EXCEPT ![w] = TRUE]
        /\ UNCHANGED <<status, fence, attempts, cancel, owner, sent, bookVars, advisory, txVars,
                       queue, pc, at, token, seen, pend, err, linked, dispVars, apiVars>>

\* It raises (connection lost, 15 second command timeout): stop cooperating.
HeartbeatFails(w) ==
    /\ "connection" \in Faults
    /\ pc[w] \in Claimed /\ ~stopped[w]
    /\ stopped' = [stopped EXCEPT ![w] = TRUE]
    /\ UNCHANGED <<rowVars, bookVars, advisory, txVars, queue, pc, at, token, seen,
                   pend, err, linked, dispVars, apiVars>>

\* The lock connection is lost: PostgreSQL frees the advisory lock; the worker
\* goes on until a heartbeat fails.
LoseConnection(w) ==
    /\ "connection" \in Faults
    /\ pc[w] \in Claimed /\ linked[w]
    /\ linked' = [linked EXCEPT ![w] = FALSE]
    /\ advisory' = Freed(advisory, w)
    /\ UNCHANGED <<rowVars, bookVars, txVars, queue, pc, at, token, seen, pend,
                   err, stopped, dispVars, apiVars>>

\* The worker process dies.  reject_on_worker_lost puts the message back; the
\* hard time limit acknowledges it.
Crash(w) ==
    /\ "crash" \in Faults
    /\ pc[w] # "idle"
    /\ EndTx(w) /\ Forget(w)
    /\ \/ UNCHANGED queue
       \/ /\ queue[at[w]] < MaxCopies
          /\ queue' = [queue EXCEPT ![at[w]] = @ + 1]
    /\ UNCHANGED <<rowVars, bookVars, dispVars, apiVars>>

\* A Redis reconnect delivers a message that some worker has in hand again.
Redeliver(w) ==
    /\ "duplicate" \in Faults
    /\ pc[w] # "idle" /\ queue[at[w]] < MaxCopies
    /\ queue' = [queue EXCEPT ![at[w]] = @ + 1]
    /\ UNCHANGED <<rowVars, bookVars, advisory, txVars, workerVars, dispVars, apiVars>>

-----------------------------------------------------------------------------
(* The dispatcher: recover_jobs, over the rows of one scan.                 *)

\* The scan's WHERE clause, and the recheck of one row under its lock.
Recoverable(s, sentAt, beat) ==
    \/ s = "queued" /\ sentAt = "null"
    \/ s = "running" /\ beat = "old" /\ sentAt \in {"null", "old"}

DispGoto(label) == dpc' = label /\ UNCHANGED <<todo, djob, dseen>>

Scan ==
    /\ dpc = "idle"
    /\ LET rows == {j \in Jobs : Recoverable(status[j], sent[j], hb[j])}
       IN  rows # {} /\ todo' = rows
    /\ dpc' = "scan"
    /\ UNCHANGED <<djob, dseen, rowVars, bookVars, advisory, txVars, queue, workerVars, apiVars>>

ScanDone ==
    /\ dpc = "scan" /\ todo = {}
    /\ DispGoto("idle")
    /\ UNCHANGED <<rowVars, bookVars, advisory, txVars, queue, workerVars, apiVars>>

TryLock(j) ==
    /\ dpc = "scan" /\ j \in todo
    /\ todo' = todo \ {j}
    /\ IF advisory[j] = None
       THEN /\ advisory' = [advisory EXCEPT ![j] = Dispatcher]
            /\ djob' = j /\ dpc' = "recheck"
       ELSE UNCHANGED <<advisory, djob, dpc>>
    /\ UNCHANGED <<dseen, rowVars, bookVars, txVars, queue, workerVars, apiVars>>

\* The recheck waits for the row lock like the claim does, with the same stale
\* view of job_status.
RecheckRead ==
    /\ dpc = "recheck"
    /\ dseen' = status[djob] /\ dpc' = "wait"
    /\ UNCHANGED <<todo, djob, rowVars, bookVars, advisory, txVars, queue, workerVars, apiVars>>

RecheckLock ==
    /\ dpc = "wait"
    /\ LockExecution(djob, Dispatcher)
    /\ DispGoto("locked")
    /\ UNCHANGED <<rowVars, bookVars, advisory, queue, workerVars, apiVars>>

\* Cancelled or out of attempts: end the job, unless its row is terminal by now.
RecoverEnds ==
    LET s == IF cancel[djob] THEN "cancelled" ELSE "failed"
    IN  /\ dpc = "locked" /\ dseen \notin Terminal /\ OutOfAttempts(djob)
        /\ CanWriteJob(djob, Dispatcher)
        /\ status' = IF status[djob] \in Terminal THEN status ELSE [status EXCEPT ![djob] = s]
        /\ stage' = [stage EXCEPT ![djob] = s]
        /\ EndTx(Dispatcher) /\ DispGoto("unlock")
        /\ UNCHANGED <<fence, attempts, cancel, owner, hb, sent, bookVars, advisory, queue,
                       workerVars, apiVars>>

\* Faulty variant: a job that is not dispatched again is left without unlocking.
BadRecoverDecides ==
    /\ dpc = "locked" /\ (dseen \in Terminal \/ ~OutOfAttempts(djob))
    /\ EndTx(Dispatcher)
    /\ DispGoto(IF Recoverable(dseen, sent[djob], hb[djob]) THEN "publish" ELSE "scan")
    /\ UNCHANGED <<rowVars, bookVars, advisory, queue, workerVars, apiVars>>

\* Dispatch it again, or leave it: the read transaction ends either way.
RecoverDecides ==
    /\ dpc = "locked" /\ (dseen \in Terminal \/ ~OutOfAttempts(djob))
    /\ EndTx(Dispatcher)
    /\ DispGoto(IF Recoverable(dseen, sent[djob], hb[djob]) THEN "publish" ELSE "unlock")
    /\ UNCHANGED <<rowVars, bookVars, advisory, queue, workerVars, apiVars>>

RecoverPublish ==
    /\ dpc = "publish" /\ queue[djob] < MaxCopies
    /\ queue' = [queue EXCEPT ![djob] = @ + 1]
    /\ DispGoto("record")
    /\ UNCHANGED <<rowVars, bookVars, advisory, txVars, workerVars, apiVars>>

RecoverRecord ==
    /\ dpc = "record" /\ rowE[djob] = None
    /\ sent' = [sent EXCEPT ![djob] = "fresh"]
    /\ DispGoto("unlock")
    /\ UNCHANGED <<status, fence, attempts, cancel, stage, owner, hb, bookVars, advisory, txVars,
                   queue, workerVars, apiVars>>

Unlock ==
    /\ dpc = "unlock"
    /\ advisory' = Freed(advisory, Dispatcher)
    /\ dpc' = "scan" /\ djob' = None /\ dseen' = "absent"
    /\ UNCHANGED <<todo, rowVars, bookVars, txVars, queue, workerVars, apiVars>>

\* The broker refuses the publish, or the process or its connection fails:
\* recover_jobs is left, its locks are freed; the next call scans again.
RecoverFails ==
    /\ "broker" \in Faults
    /\ dpc # "idle"
    /\ \/ UNCHANGED queue
       \/ /\ dpc = "publish" /\ queue[djob] < MaxCopies
          /\ queue' = [queue EXCEPT ![djob] = @ + 1]
    /\ advisory' = Freed(advisory, Dispatcher)
    /\ EndTx(Dispatcher)
    /\ dpc' = "idle" /\ todo' = {} /\ djob' = None /\ dseen' = "absent"
    /\ UNCHANGED <<rowVars, bookVars, workerVars, apiVars>>

-----------------------------------------------------------------------------
(* Users: POST /jobs/{id}/retry and request_cancellation.  Time.            *)

\* retry_job reads a failed job without a lock...
RetryRead(r, j) ==
    /\ rpc[r] = "idle" /\ status[j] = "failed"
    /\ rpc' = [rpc EXCEPT ![r] = "read"]
    /\ rjob' = [rjob EXCEPT ![r] = j]
    /\ UNCHANGED <<rowVars, bookVars, advisory, txVars, queue, workerVars, dispVars, api>>

RetryLock(r) ==
    /\ rpc[r] = "read"
    /\ LockExecution(rjob[r], r)
    /\ rpc' = [rpc EXCEPT ![r] = "locked"]
    /\ UNCHANGED <<rowVars, bookVars, advisory, queue, workerVars, dispVars, api, rjob>>

RetryEnds(r) ==
    /\ EndTx(r)
    /\ rpc' = [rpc EXCEPT ![r] = "idle"]
    /\ rjob' = [rjob EXCEPT ![r] = None]
    /\ UNCHANGED <<fence, attempts, cancel, stage, owner, hb, bookVars, advisory,
                   queue, workerVars, dispVars, api>>

\* ...and queues it again while attempts remain.
RetryQueue(r) ==
    LET j == rjob[r]
    IN  /\ rpc[r] = "locked" /\ ~OutOfAttempts(j) /\ CanWriteJob(j, r)
        /\ status' = [status EXCEPT ![j] = "queued"]
        /\ sent' = [sent EXCEPT ![j] = "null"]
        /\ RetryEnds(r)

RetryRefused(r) ==
    /\ rpc[r] = "locked" /\ OutOfAttempts(rjob[r])
    /\ UNCHANGED <<status, sent>>
    /\ RetryEnds(r)

RequestCancellation(j) ==
    /\ "cancel" \in Faults
    /\ status[j] \in {"queued", "running"} /\ rowE[j] = None
    /\ cancel' = [cancel EXCEPT ![j] = TRUE]
    /\ UNCHANGED <<status, fence, attempts, stage, owner, hb, sent, bookVars, advisory, txVars,
                   queue, workerVars, dispVars, apiVars>>

\* 120 seconds pass since a heartbeat or a dispatch.
HeartbeatAges(j) ==
    /\ hb[j] = "fresh"
    /\ hb' = [hb EXCEPT ![j] = "old"]
    /\ UNCHANGED <<status, fence, attempts, cancel, stage, owner, sent, bookVars, advisory, txVars,
                   queue, workerVars, dispVars, apiVars>>

DispatchAges(j) ==
    /\ sent[j] = "fresh"
    /\ sent' = [sent EXCEPT ![j] = "old"]
    /\ UNCHANGED <<status, fence, attempts, cancel, stage, owner, hb, bookVars, advisory, txVars,
                   queue, workerVars, dispVars, apiVars>>

-----------------------------------------------------------------------------
WorkerStep(w) ==
    \/ \E j \in Jobs : Receive(w, j) \/ AlreadyOwned(w, j)
    \/ ClaimRead(w) \/ ClaimLock(w) \/ ClaimTerminal(w) \/ ClaimRefuse(w) \/ Claim(w)
    \/ EarlyCommit(w) \/ ReadLedger(w) \/ Debit(w) \/ Save(w)
    \/ Guard(w) \/ GuardRefuses(w) \/ Interrupted(w) \/ DeadlockVictim(w) \/ Commit(w)
    \/ HandlerLock(w) \/ HandlerWrite(w) \/ HandlerFenced(w) \/ Exit(w)

WorkerFault(w) ==
    \/ ClaimAborted(w) \/ \E kind \in {"transient", "permanent"} : Fail(w, kind)
    \/ CommitFails(w) \/ HandlerFails(w) \/ HeartbeatFails(w)
    \/ LoseConnection(w) \/ Crash(w) \/ Redeliver(w)

DispatcherStep ==
    \/ Scan \/ ScanDone \/ \E j \in Jobs : TryLock(j)
    \/ RecheckRead \/ RecheckLock \/ RecoverEnds \/ RecoverDecides
    \/ RecoverPublish \/ RecoverRecord \/ Unlock

ApiStep ==
    \/ \E j \in Jobs : Submit(j) \/ SubmitPublish(j) \/ SubmitRecord(j) \/ SubmitFails(j)
    \/ \E r \in Retriers : RetryLock(r) \/ RetryQueue(r) \/ RetryRefused(r)
    \/ \E r \in Retriers, j \in Jobs : RetryRead(r, j)
    \/ \E j \in Jobs : RequestCancellation(j)

Next ==
    \/ \E w \in Workers : WorkerStep(w) \/ WorkerFault(w) \/ Heartbeat(w)
    \/ DispatcherStep \/ RecoverFails
    \/ ApiStep
    \/ \E j \in Jobs : HeartbeatAges(j) \/ DispatchAges(j)

Spec == Init /\ [][Next]_vars

-----------------------------------------------------------------------------
(* Safety *)

\* A job's net committed debit is nothing or exactly its cost, whatever
\* attempts ran, died, were fenced or ran again (the summary is read before the
\* wallet lock, so only the fence keeps two attempts from both charging).
ChargedOnce == \A j \in Jobs : ledger[j] \in {0, Cost}

\* A result is kept only when it was paid for, nothing is paid without one, and
\* a job shown as completed has both.
PaidIffSaved ==
    \A j \in Jobs : /\ results[j] > 0 <=> ledger[j] = Cost
                    /\ status[j] = "completed" => results[j] > 0

\* Crash recovery is bounded: neither redelivery, dispatcher, transient requeue
\* nor user retry starts more than MaxAttempts attempts, and each attempt saves
\* at most one result.
AttemptsBounded ==
    \A j \in Jobs : /\ attempts[j] <= MaxAttempts
                    /\ results[j] <= attempts[j]

\* Of the workers that execute one job, live or stale, at most one holds the
\* current fence, and only that one can be inside finalization.
OneCurrentOwner ==
    \A w1, w2 \in Workers :
        /\ pc[w1] \in Claimed /\ pc[w2] \in Claimed /\ at[w1] = at[w2]
        /\ token[w1] = token[w2]
        => w1 = w2

\* Once a cancellation is recorded the job is neither charged, saved nor put
\* back in the queue, whoever was about to finish it.
CancellationWins ==
    [][\A j \in Jobs : cancel[j] =>
        /\ UNCHANGED <<ledger[j], results[j], attempts[j]>>
        /\ status'[j] = "queued" => status[j] = "queued"]_vars

\* An attempt whose claim was superseded goes on until it notices.  Of all its
\* steps, to finalization, failure handler and heartbeat, none writes anything
\* of a job but the early commit, which shows it as running.
StaleWritesOnlyRunning ==
    [][\A w \in Workers :
        /\ pc[w] \in Claimed /\ token[w] # fence[at[w]]
        /\ pc'[w] # pc[w] \/ stopped'[w] # stopped[w]
        => /\ UNCHANGED <<fence, attempts, cancel, stage, owner, hb, sent, bookVars>>
           /\ \A j \in Jobs : status'[j] \in {status[j], "running"}]_vars

\* The lock that p's next step waits for is held by q.
Blocks(q, p) ==
    /\ q \notin {p, None}
    /\ \E j \in Jobs :
        \/ q = rowE[j] /\ NeedsExecution(p, j)
        \/ q = rowJ[j] /\ NeedsJob(p, j)
        \/ q = wallet /\ p \in Workers /\ pc[p] = "summed" /\ pend[p] > 0

\* No lock outlives the step that needs it: an advisory lock is held for the job
\* in hand, over a live connection, and a row by a transaction about to end.
LocksHaveOwners ==
    \A j \in Jobs :
        /\ advisory[j] # None =>
            \/ advisory[j] = Dispatcher /\ djob = j /\ dpc \notin {"idle", "scan"}
            \/ /\ advisory[j] \in Workers /\ at[advisory[j]] = j
               /\ linked[advisory[j]] /\ pc[advisory[j]] # "idle"
        /\ rowE[j] # None => HoldsExecution(rowE[j], j)
        /\ rowJ[j] # None =>
            wallet = rowJ[j] /\ at[wallet] = j /\ pc[wallet] \in {"guardWait", "guarded"}
        /\ wallet # None => pc[wallet] \in {"computing", "guardWait", "guarded"}

\* The locks are not taken in one order (job_status before backtest_execution
\* in finalization, after it elsewhere), but nobody waits for ever: a chain of
\* waits ends after two, or in the one pair of transactions over one job that
\* PostgreSQL breaks.
WaitsEnd ==
    /\ LocksHaveOwners
    /\ \A p, q \in Holders : Blocks(q, p) =>
        \A r \in Holders : Blocks(r, q) =>
            \A s \in Holders : Blocks(s, r) =>
                s = q /\ \E w \in {q, r} \cap Workers : Deadlocked(w)

Aged(time) == IF time = "fresh" THEN "old" ELSE time

\* A job left running by a worker that is gone is the dispatcher's as soon as
\* its times are old: nobody holds its lock, and the scan's clause finds it.
OrphansAreFound ==
    \A j \in Jobs : status[j] = "running" /\ (\A w \in Workers : at[w] # j) /\ djob # j =>
        advisory[j] = None /\ Recoverable(status[j], Aged(sent[j]), Aged(hb[j]))

\* Workers, dispatcher, retries and faults together run jobs as JobService says:
\* each step starts, finishes or cancels one job, changes what one job shows, or
\* touches nothing its user can see.
Service ==
    INSTANCE JobService WITH state <- status, tried <- attempts, saved <- results,
                             paid <- ledger, dropped <- cancel

JobServiceSpec == Service!Spec

\* "Never let a stale owner overwrite a newer job state": a worker whose fence
\* is behind changes no status.
StaleOwnerNeverOverwrites ==
    [][\A w \in Workers :
        pc[w] \in Claimed /\ pc'[w] # pc[w] /\ token[w] # fence[at[w]]
        => UNCHANGED status]_vars

\* "A task whose dispatch is already recorded is left in the queue": for a
\* queued job with a recorded dispatch some copy waits or is in a worker's hands.
DispatchedIsInQueue ==
    \A j \in Jobs : status[j] = "queued" /\ sent[j] # "null" =>
        \/ queue[j] > 0 \/ api[j] = "publish"
        \/ djob = j /\ dpc = "publish"
        \/ \E w \in Workers : at[w] = j

\* The same line, for an attempt that failed transiently: when it puts its job
\* back in the queue, the dispatcher can still see the job or a copy waits.
TransientRetryIsDeliverable ==
    [][\A j \in Jobs : status[j] = "running" /\ status'[j] = "queued"
        => sent'[j] = "null" \/ queue'[j] > 0]_vars

-----------------------------------------------------------------------------
(* Liveness.  Workers and the dispatcher keep running and time passes.  Strong *)
(* fairness where a step is possible again and again but not all the time: the *)
(* dispatcher gets the advisory lock and a worker the message some time, and   *)
(* the worker does not every time consume the dispatcher's message before the  *)
(* dispatcher has freed the lock (it would throw it away as already owned).    *)

WorkerFairness ==
    \A w \in Workers :
        /\ WF_vars(WorkerStep(w))
        /\ \A j \in Jobs : SF_vars(Receive(w, j))

DispatcherFairness ==
    /\ WF_vars(DispatcherStep)
    /\ \A j \in Jobs : SF_vars(TryLock(j) /\ advisory[j] = None)
    /\ SF_vars(RecoverRecord /\ queue[djob] > 0)
    /\ SF_vars(Unlock /\ queue[djob] > 0)
    /\ \A j \in Jobs : WF_vars(DispatchAges(j)) /\ WF_vars(HeartbeatAges(j))

\* A retry request that holds a row lock ends.
ApiFairness == \A r \in Retriers : WF_vars(RetryQueue(r) \/ RetryRefused(r))

FairSpec == Spec /\ WorkerFairness /\ DispatcherFairness /\ ApiFairness

Fault == RecoverFails \/ \E w \in Workers : WorkerFault(w)

\* Once processes, connections and the broker stop failing, every attempt left
\* behind by a dead worker is found: the job runs again, to an end, or is ended.
RunningEnds ==
    <>[][~Fault]_vars => \A j \in Jobs : status[j] = "running" ~> status[j] # "running"
=============================================================================
