------------------------ MODULE BacktestJobs_proofs -------------------------
(***************************************************************************)
(* Proofs about BacktestJobs, for any number of jobs, workers, retry       *)
(* requests, attempts and copies of a message, and any set of faults.      *)
(*                                                                         *)
(* The invariant is built in four layers, each preserved by every step     *)
(* given the layers below: the types (TypeInv), the fencing argument       *)
(* (FenceInv), the charging argument (PayInv) and, for cancellation,       *)
(* CancelInv.  A layer has one lemma per process, with one step per        *)
(* action.                                                                 *)
(***************************************************************************)
EXTENDS BacktestJobs, TLAPS

\* Whoever works on a job has one in hand.
InHand ==
    /\ \A w \in Workers : pc[w] # "idle" => at[w] \in Jobs
    /\ dpc \notin {"idle", "scan"} => djob \in Jobs
    /\ \A r \in Retriers : rpc[r] # "idle" => rjob[r] \in Jobs

TypeInv == TypeOK /\ InHand

\* Who is between SELECT ... FOR UPDATE and its commit holds the row.
HoldsRow ==
    /\ \A w \in Workers : pc[w] \in {"claimLocked", "guarded", "handling"} => rowE[at[w]] = w
    /\ dpc = "locked" => rowE[djob] = Dispatcher

\* A claim's fence was given out by the job: a later claim's is greater.
FencesGivenOut == \A w \in Workers : pc[w] \in Claimed => token[w] \in 1..fence[at[w]]

\* A guarded worker's claim is the current one: the row lock it holds keeps
\* every other claim out.
GuardedIsCurrent == \A w \in Workers : pc[w] = "guarded" => token[w] = fence[at[w]]

FenceInv == HoldsRow /\ FencesGivenOut /\ OneCurrentOwner /\ GuardedIsCurrent

\* The current claim's view of what is left to pay is still right, although it
\* was read before any lock: only a guarded worker moves the ledger, and it is
\* the current one.
SummaryIsRight ==
    \A w \in Workers :
        /\ pc[w] \in {"summed", "computing", "guardWait", "guarded"}
        /\ token[w] = fence[at[w]]
        => ledger[at[w]] + pend[w] = Cost

\* The fence counts the attempts, and the current one has not saved its result.
AttemptsCounted ==
    /\ \A j \in Jobs : attempts[j] = fence[j] /\ fence[j] <= MaxAttempts /\ results[j] <= fence[j]
    /\ \A w \in Workers :
        pc[w] \in Executing \cup {"guarded"} /\ token[w] = fence[at[w]]
        => results[at[w]] < fence[at[w]]

PayInv == SummaryIsRight /\ ChargedOnce /\ PaidIffSaved /\ AttemptsCounted

\* Nobody knows of a job that was not submitted.
NotBegun ==
    \A j \in Jobs : api[j] = "idle" =>
        /\ status[j] = "absent" /\ ~cancel[j] /\ queue[j] = 0
        /\ j \notin todo /\ djob # j
        /\ \A w \in Workers : at[w] # j
        /\ \A r \in Retriers : rjob[r] # j

\* A cancellation waits for a guarded worker's commit, or is seen by the guard.
GuardedIsWanted == \A w \in Workers : pc[w] = "guarded" => ~cancel[at[w]]

CancelInv == NotBegun /\ GuardedIsWanted

Inv == TypeInv /\ FenceInv /\ PayInv /\ CancelInv

\* A debit that is not committed holds the wallet.
Debited ==
    \A w \in Workers : pc[w] \in {"computing", "guardWait", "guarded"} /\ pend[w] > 0 => wallet = w

\* A job that runs, or that a worker has claimed, has had a heartbeat.
Beating ==
    /\ \A j \in Jobs : status[j] = "running" => hb[j] # "null"
    /\ \A w \in Workers : pc[w] \in Claimed => hb[at[w]] # "null"

LockInv == LocksHaveOwners /\ Debited /\ Beating

\* What CancellationWins says of one step.
CancellationStep ==
    \A j \in Jobs : cancel[j] =>
        /\ UNCHANGED <<ledger[j], results[j], attempts[j]>>
        /\ status'[j] = "queued" => status[j] = "queued"

\* A step of a superseded attempt...
StaleMoves(w) ==
    /\ pc[w] \in Claimed /\ token[w] # fence[at[w]]
    /\ pc'[w] # pc[w] \/ stopped'[w] # stopped[w]

\* ...and what StaleWritesOnlyRunning says of it.
OnlyRunning ==
    /\ UNCHANGED <<fence, attempts, cancel, stage, owner, hb, sent, bookVars>>
    /\ \A j \in Jobs : status'[j] \in {status[j], "running"}

StaleStep == \A w \in Workers : StaleMoves(w) => OnlyRunning

-----------------------------------------------------------------------------
(* Types *)

LEMMA InitType == Init => TypeInv
BY BacktestAssumption
   DEF Init, TypeInv, TypeOK, InHand, Statuses, Terminal, Times, Holders,
       Claiming, Claimed, Executing

LEMMA WorkerType ==
    ASSUME TypeInv,
           NEW w \in Workers,
           WorkerStep(w) \/ WorkerFault(w) \/ Heartbeat(w)
    PROVE  TypeInv'
<1> USE DEF TypeInv, TypeOK, InHand, Statuses, Terminal, Times, Holders, Claiming,
            Claimed, Executing, Freed, EndTx, LockExecution, CanWriteJob, Forget,
            Goto, Raise, rowVars, bookVars, txVars, workerVars, dispVars, apiVars
<1>1. ASSUME NEW j \in Jobs, Receive(w, j) PROVE TypeInv'
  BY <1>1, BacktestAssumption DEF Receive
<1>2. ASSUME NEW j \in Jobs, AlreadyOwned(w, j) PROVE TypeInv'
  BY <1>2, BacktestAssumption DEF AlreadyOwned
<1>3. CASE ClaimRead(w)
  BY <1>3, BacktestAssumption DEF ClaimRead
<1>4. CASE ClaimLock(w)
  BY <1>4, BacktestAssumption DEF ClaimLock
<1>5. CASE ClaimTerminal(w)
  BY <1>5, BacktestAssumption DEF ClaimTerminal
<1>6. CASE ClaimRefuse(w)
  BY <1>6, BacktestAssumption DEF ClaimRefuse, OutOfAttempts
<1>7. CASE Claim(w)
  BY <1>7, BacktestAssumption DEF Claim, NextFence, OutOfAttempts
<1>8. CASE EarlyCommit(w)
  BY <1>8, BacktestAssumption DEF EarlyCommit
<1>9. CASE ReadLedger(w)
  BY <1>9, BacktestAssumption DEF ReadLedger, Remaining
<1>10. CASE Debit(w)
  BY <1>10, BacktestAssumption DEF Debit
<1>11. CASE Save(w)
  <2>1. rowJ' \in [Jobs -> Holders]
    <3>1. CASE pend[w] > 0
      BY <1>11, <3>1 DEF Save
    <3>2. CASE ~(pend[w] > 0)
      BY <1>11, <3>2 DEF Save
    <3> QED BY <3>1, <3>2
  <2> QED BY <1>11, <2>1, BacktestAssumption DEF Save
<1>12. CASE Guard(w)
  BY <1>12, BacktestAssumption DEF Guard, MayFinalize, OwnsFence
<1>13. CASE GuardRefuses(w)
  BY <1>13, BacktestAssumption DEF GuardRefuses
<1>14. CASE Interrupted(w)
  BY <1>14, BacktestAssumption DEF Interrupted
<1>15. CASE DeadlockVictim(w)
  BY <1>15, BacktestAssumption DEF DeadlockVictim, Deadlocked
<1>16. CASE Commit(w)
  BY <1>16, BacktestAssumption DEF Commit
<1>17. CASE HandlerLock(w)
  BY <1>17, BacktestAssumption DEF HandlerLock
<1>18. CASE HandlerWrite(w)
  BY <1>18, BacktestAssumption DEF HandlerWrite, FailureStatus, IsCurrent
<1>19. CASE HandlerFenced(w)
  BY <1>19, BacktestAssumption DEF HandlerFenced, IsCurrent
<1>20. CASE Exit(w)
  BY <1>20, BacktestAssumption DEF Exit
<1>21. CASE ClaimAborted(w)
  BY <1>21, BacktestAssumption DEF ClaimAborted
<1>22. CASE CommitFails(w)
  BY <1>22, BacktestAssumption DEF CommitFails
<1>23. CASE HandlerFails(w)
  BY <1>23, BacktestAssumption DEF HandlerFails
<1>24. CASE HeartbeatFails(w)
  BY <1>24, BacktestAssumption DEF HeartbeatFails
<1>25. CASE LoseConnection(w)
  BY <1>25, BacktestAssumption DEF LoseConnection
<1>26. CASE Crash(w)
  BY <1>26, BacktestAssumption DEF Crash
<1>27. CASE Redeliver(w)
  BY <1>27, BacktestAssumption DEF Redeliver
<1>28. ASSUME NEW kind \in {"transient", "permanent"}, Fail(w, kind) PROVE TypeInv'
  BY <1>28, BacktestAssumption DEF Fail
<1>29. CASE Heartbeat(w)
  <2>1. PICK b \in BOOLEAN : stopped' = [stopped EXCEPT ![w] = b]
    <3>1. cancel[at[w]] \in BOOLEAN
      BY <1>29 DEF Heartbeat
    <3>2. CASE OwnsFence(w)
      BY <1>29, <3>1, <3>2, Zenon DEF Heartbeat
    <3>3. CASE ~OwnsFence(w)
      BY <1>29, <3>3, Zenon DEF Heartbeat
    <3> QED BY <3>2, <3>3
  <2>2. stopped' \in [Workers -> BOOLEAN]
    BY <2>1
  <2>3. hb' \in [Jobs -> Times] /\ stage' \in [Jobs -> {"queued", "active"} \cup Terminal]
    <3>1. \/ hb' = [hb EXCEPT ![at[w]] = "fresh"] /\ stage' = [stage EXCEPT ![at[w]] = "active"]
          \/ UNCHANGED <<hb, stage>>
      BY <1>29 DEF Heartbeat
    <3> QED BY <3>1
  <2>4. UNCHANGED <<status, fence, attempts, cancel, owner, sent, bookVars, advisory, txVars,
                    queue, pc, at, token, seen, pend, err, linked, dispVars, apiVars>>
    BY <1>29 DEF Heartbeat
  <2> QED BY <2>2, <2>3, <2>4
<1> HIDE DEF TypeInv
<1> QED BY <1>1, <1>2, <1>3, <1>4, <1>5, <1>6, <1>7, <1>8, <1>9, <1>10, <1>11,
           <1>12, <1>13, <1>14, <1>15, <1>16, <1>17, <1>18, <1>19, <1>20, <1>21,
           <1>22, <1>23, <1>24, <1>25, <1>26, <1>27, <1>28, <1>29 DEF WorkerStep,
           WorkerFault

LEMMA DispatcherType ==
    ASSUME TypeInv,
           DispatcherStep \/ RecoverFails
    PROVE  TypeInv'
<1> USE DEF TypeInv, TypeOK, InHand, Statuses, Terminal, Times, Holders, Claiming,
            Claimed, Executing, Freed, EndTx, LockExecution, CanWriteJob, Forget,
            Goto, Raise, rowVars, bookVars, txVars, workerVars, dispVars, apiVars
<1>1. CASE Scan
  BY <1>1, BacktestAssumption DEF Scan
<1>2. CASE ScanDone
  BY <1>2, BacktestAssumption DEF ScanDone, DispGoto
<1>3. CASE RecheckRead
  BY <1>3, BacktestAssumption DEF RecheckRead
<1>4. CASE RecheckLock
  BY <1>4, BacktestAssumption DEF RecheckLock, DispGoto
<1>5. CASE RecoverEnds
  BY <1>5, BacktestAssumption DEF RecoverEnds, OutOfAttempts, DispGoto
<1>6. CASE RecoverDecides
  BY <1>6, BacktestAssumption DEF RecoverDecides, DispGoto
<1>7. CASE RecoverPublish
  BY <1>7, BacktestAssumption DEF RecoverPublish, DispGoto
<1>8. CASE RecoverRecord
  BY <1>8, BacktestAssumption DEF RecoverRecord, DispGoto
<1>9. CASE Unlock
  BY <1>9, BacktestAssumption DEF Unlock
<1>10. CASE RecoverFails
  BY <1>10, BacktestAssumption DEF RecoverFails
<1>11. ASSUME NEW j \in Jobs, TryLock(j) PROVE TypeInv'
  BY <1>11, BacktestAssumption DEF TryLock
<1> HIDE DEF TypeInv
<1> QED BY <1>1, <1>2, <1>3, <1>4, <1>5, <1>6, <1>7, <1>8, <1>9, <1>10, <1>11 DEF
           DispatcherStep

LEMMA UserType ==
    ASSUME TypeInv,
           ApiStep \/ \E j \in Jobs : HeartbeatAges(j) \/ DispatchAges(j)
    PROVE  TypeInv'
<1> USE DEF TypeInv, TypeOK, InHand, Statuses, Terminal, Times, Holders, Claiming,
            Claimed, Executing, Freed, EndTx, LockExecution, CanWriteJob, Forget,
            Goto, Raise, rowVars, bookVars, txVars, workerVars, dispVars, apiVars
<1>1. ASSUME NEW j \in Jobs, Submit(j) PROVE TypeInv'
  BY <1>1, BacktestAssumption DEF Submit
<1>2. ASSUME NEW j \in Jobs, SubmitPublish(j) PROVE TypeInv'
  BY <1>2, BacktestAssumption DEF SubmitPublish
<1>3. ASSUME NEW j \in Jobs, SubmitRecord(j) PROVE TypeInv'
  BY <1>3, BacktestAssumption DEF SubmitRecord
<1>4. ASSUME NEW j \in Jobs, SubmitFails(j) PROVE TypeInv'
  BY <1>4, BacktestAssumption DEF SubmitFails
<1>5. ASSUME NEW j \in Jobs, RequestCancellation(j) PROVE TypeInv'
  BY <1>5, BacktestAssumption DEF RequestCancellation
<1>6. ASSUME NEW j \in Jobs, HeartbeatAges(j) PROVE TypeInv'
  BY <1>6, BacktestAssumption DEF HeartbeatAges
<1>7. ASSUME NEW j \in Jobs, DispatchAges(j) PROVE TypeInv'
  BY <1>7, BacktestAssumption DEF DispatchAges
<1>8. ASSUME NEW r \in Retriers, RetryLock(r) PROVE TypeInv'
  BY <1>8, BacktestAssumption DEF RetryLock
<1>9. ASSUME NEW r \in Retriers, RetryQueue(r) PROVE TypeInv'
  BY <1>9, BacktestAssumption DEF RetryQueue, RetryEnds, OutOfAttempts
<1>10. ASSUME NEW r \in Retriers, RetryRefused(r) PROVE TypeInv'
  BY <1>10, BacktestAssumption DEF RetryRefused, RetryEnds
<1>11. ASSUME NEW r \in Retriers, NEW j \in Jobs, RetryRead(r, j) PROVE TypeInv'
  BY <1>11, BacktestAssumption DEF RetryRead
<1> HIDE DEF TypeInv
<1> QED BY <1>1, <1>2, <1>3, <1>4, <1>5, <1>6, <1>7, <1>8, <1>9, <1>10, <1>11 DEF
           ApiStep

LEMMA TypeStep == TypeInv /\ [Next]_vars => TypeInv'
<1> SUFFICES ASSUME TypeInv, [Next]_vars PROVE TypeInv'
  OBVIOUS
<1>1. CASE UNCHANGED vars
  BY <1>1 DEF vars, rowVars, bookVars, txVars, workerVars, dispVars, apiVars, TypeInv, TypeOK, InHand
<1> QED BY <1>1, WorkerType, DispatcherType, UserType DEF Next

\* The declared types are kept.
THEOREM TypeCorrect == Spec => []TypeOK
<1>1. Init => TypeInv
  BY InitType
<1>2. TypeInv /\ [Next]_vars => TypeInv'
  BY TypeStep
<1>3. TypeInv => TypeOK
  BY DEF TypeInv
<1> QED BY <1>1, <1>2, <1>3, PTL DEF Spec

-----------------------------------------------------------------------------
(* Fencing: a claim moves the fence while it holds the row. *)

LEMMA WorkerFence ==
    ASSUME TypeInv, TypeInv', FenceInv,
           NEW w \in Workers,
           WorkerStep(w) \/ WorkerFault(w) \/ Heartbeat(w)
    PROVE  FenceInv'
<1> USE DEF TypeInv, TypeOK, InHand, Statuses, Terminal, Times, Holders, Claiming,
            Claimed, Executing, Freed, EndTx, LockExecution, CanWriteJob, Forget,
            Goto, Raise, rowVars, bookVars, txVars, workerVars, dispVars, apiVars,
            FenceInv, HoldsRow, FencesGivenOut, OneCurrentOwner, GuardedIsCurrent
<1>1. ASSUME NEW j \in Jobs, Receive(w, j) PROVE FenceInv'
  BY <1>1, BacktestAssumption DEF Receive
<1>2. ASSUME NEW j \in Jobs, AlreadyOwned(w, j) PROVE FenceInv'
  BY <1>2, BacktestAssumption DEF AlreadyOwned
<1>3. CASE ClaimRead(w)
  BY <1>3, BacktestAssumption DEF ClaimRead
<1>4. CASE ClaimLock(w)
  BY <1>4, BacktestAssumption DEF ClaimLock
<1>5. CASE ClaimTerminal(w)
  BY <1>5, BacktestAssumption DEF ClaimTerminal
<1>6. CASE ClaimRefuse(w)
  BY <1>6, BacktestAssumption DEF ClaimRefuse, OutOfAttempts
<1>7. CASE Claim(w)
  BY <1>7, BacktestAssumption DEF Claim, NextFence, OutOfAttempts
<1>8. CASE EarlyCommit(w)
  BY <1>8, BacktestAssumption DEF EarlyCommit
<1>9. CASE ReadLedger(w)
  BY <1>9, BacktestAssumption DEF ReadLedger, Remaining
<1>10. CASE Debit(w)
  BY <1>10, BacktestAssumption DEF Debit
<1>11. CASE Save(w)
  BY <1>11, BacktestAssumption DEF Save
<1>12. CASE Guard(w)
  BY <1>12, BacktestAssumption DEF Guard, MayFinalize, OwnsFence
<1>13. CASE GuardRefuses(w)
  BY <1>13, BacktestAssumption DEF GuardRefuses
<1>14. CASE Interrupted(w)
  BY <1>14, BacktestAssumption DEF Interrupted
<1>15. CASE DeadlockVictim(w)
  BY <1>15, BacktestAssumption DEF DeadlockVictim, Deadlocked
<1>16. CASE Commit(w)
  <2>1. /\ at' = at /\ dpc' = dpc /\ djob' = djob
        /\ token' = token /\ fence' = fence /\ owner' = owner
    BY <1>16 DEF Commit
  <2>2. pc'[w] \notin {"claimLocked", "guarded", "handling"}
    BY <1>16 DEF Commit
  <2>3. pc'[w] \in Claimed /\ pc[w] \in Claimed
    BY <1>16 DEF Commit
  <2>4. \A v \in Workers : v # w => pc'[v] = pc[v]
    BY <1>16 DEF Commit
  <2>5. FencesGivenOut'
    BY <2>1, <2>3, <2>4
  <2>6. OneCurrentOwner'
    <3>1. \A v \in Workers : pc'[v] \in Claimed => pc[v] \in Claimed
      BY <2>3, <2>4
    <3> HIDE DEF Claimed, TypeInv, HoldsRow, FencesGivenOut, GuardedIsCurrent
    <3> QED BY <2>1, <3>1
  <2>7. HoldsRow'
    <3>1. rowE' = [j \in Jobs |-> IF rowE[j] = w THEN None ELSE rowE[j]]
      BY <1>16 DEF Commit
    <3> QED BY <2>1, <2>2, <2>4, <3>1, BacktestAssumption
  <2>8. GuardedIsCurrent'
    BY <2>1, <2>2, <2>4
  <2> QED BY <2>5, <2>6, <2>7, <2>8
<1>17. CASE HandlerLock(w)
  BY <1>17, BacktestAssumption DEF HandlerLock
<1>18. CASE HandlerWrite(w)
  BY <1>18, BacktestAssumption DEF HandlerWrite, FailureStatus, IsCurrent
<1>19. CASE HandlerFenced(w)
  BY <1>19, BacktestAssumption DEF HandlerFenced, IsCurrent
<1>20. CASE Exit(w)
  BY <1>20, BacktestAssumption DEF Exit
<1>21. CASE ClaimAborted(w)
  BY <1>21, BacktestAssumption DEF ClaimAborted
<1>22. CASE CommitFails(w)
  BY <1>22, BacktestAssumption DEF CommitFails
<1>23. CASE HandlerFails(w)
  BY <1>23, BacktestAssumption DEF HandlerFails
<1>24. CASE HeartbeatFails(w)
  BY <1>24, BacktestAssumption DEF HeartbeatFails
<1>25. CASE LoseConnection(w)
  BY <1>25, BacktestAssumption DEF LoseConnection
<1>26. CASE Crash(w)
  BY <1>26, BacktestAssumption DEF Crash
<1>27. CASE Redeliver(w)
  BY <1>27, BacktestAssumption DEF Redeliver
<1>28. ASSUME NEW kind \in {"transient", "permanent"}, Fail(w, kind) PROVE FenceInv'
  BY <1>28, BacktestAssumption DEF Fail
<1>29. CASE Heartbeat(w)
  BY <1>29, BacktestAssumption DEF Heartbeat, OwnsFence
<1> HIDE DEF TypeInv, FenceInv
<1> QED BY <1>1, <1>2, <1>3, <1>4, <1>5, <1>6, <1>7, <1>8, <1>9, <1>10, <1>11,
           <1>12, <1>13, <1>14, <1>15, <1>16, <1>17, <1>18, <1>19, <1>20, <1>21,
           <1>22, <1>23, <1>24, <1>25, <1>26, <1>27, <1>28, <1>29 DEF WorkerStep,
           WorkerFault

LEMMA DispatcherFence ==
    ASSUME TypeInv, TypeInv', FenceInv,
           DispatcherStep \/ RecoverFails
    PROVE  FenceInv'
<1> USE DEF TypeInv, TypeOK, InHand, Statuses, Terminal, Times, Holders, Claiming,
            Claimed, Executing, Freed, EndTx, LockExecution, CanWriteJob, Forget,
            Goto, Raise, rowVars, bookVars, txVars, workerVars, dispVars, apiVars,
            FenceInv, HoldsRow, FencesGivenOut, OneCurrentOwner, GuardedIsCurrent
<1>1. CASE Scan
  BY <1>1, BacktestAssumption DEF Scan
<1>2. CASE ScanDone
  BY <1>2, BacktestAssumption DEF ScanDone, DispGoto
<1>3. CASE RecheckRead
  BY <1>3, BacktestAssumption DEF RecheckRead
<1>4. CASE RecheckLock
  BY <1>4, BacktestAssumption DEF RecheckLock, DispGoto
<1>5. CASE RecoverEnds
  BY <1>5, BacktestAssumption DEF RecoverEnds, OutOfAttempts, DispGoto
<1>6. CASE RecoverDecides
  BY <1>6, BacktestAssumption DEF RecoverDecides, DispGoto
<1>7. CASE RecoverPublish
  BY <1>7, BacktestAssumption DEF RecoverPublish, DispGoto
<1>8. CASE RecoverRecord
  BY <1>8, BacktestAssumption DEF RecoverRecord, DispGoto
<1>9. CASE Unlock
  BY <1>9, BacktestAssumption DEF Unlock
<1>10. CASE RecoverFails
  BY <1>10, BacktestAssumption DEF RecoverFails
<1>11. ASSUME NEW j \in Jobs, TryLock(j) PROVE FenceInv'
  BY <1>11, BacktestAssumption DEF TryLock
<1> HIDE DEF TypeInv, FenceInv
<1> QED BY <1>1, <1>2, <1>3, <1>4, <1>5, <1>6, <1>7, <1>8, <1>9, <1>10, <1>11 DEF
           DispatcherStep

LEMMA UserFence ==
    ASSUME TypeInv, TypeInv', FenceInv,
           ApiStep \/ \E j \in Jobs : HeartbeatAges(j) \/ DispatchAges(j)
    PROVE  FenceInv'
<1> USE DEF TypeInv, TypeOK, InHand, Statuses, Terminal, Times, Holders, Claiming,
            Claimed, Executing, Freed, EndTx, LockExecution, CanWriteJob, Forget,
            Goto, Raise, rowVars, bookVars, txVars, workerVars, dispVars, apiVars,
            FenceInv, HoldsRow, FencesGivenOut, OneCurrentOwner, GuardedIsCurrent
<1>1. ASSUME NEW j \in Jobs, Submit(j) PROVE FenceInv'
  BY <1>1, BacktestAssumption DEF Submit
<1>2. ASSUME NEW j \in Jobs, SubmitPublish(j) PROVE FenceInv'
  BY <1>2, BacktestAssumption DEF SubmitPublish
<1>3. ASSUME NEW j \in Jobs, SubmitRecord(j) PROVE FenceInv'
  BY <1>3, BacktestAssumption DEF SubmitRecord
<1>4. ASSUME NEW j \in Jobs, SubmitFails(j) PROVE FenceInv'
  BY <1>4, BacktestAssumption DEF SubmitFails
<1>5. ASSUME NEW j \in Jobs, RequestCancellation(j) PROVE FenceInv'
  BY <1>5, BacktestAssumption DEF RequestCancellation
<1>6. ASSUME NEW j \in Jobs, HeartbeatAges(j) PROVE FenceInv'
  BY <1>6, BacktestAssumption DEF HeartbeatAges
<1>7. ASSUME NEW j \in Jobs, DispatchAges(j) PROVE FenceInv'
  BY <1>7, BacktestAssumption DEF DispatchAges
<1>8. ASSUME NEW r \in Retriers, RetryLock(r) PROVE FenceInv'
  BY <1>8, BacktestAssumption DEF RetryLock
<1>9. ASSUME NEW r \in Retriers, RetryQueue(r) PROVE FenceInv'
  BY <1>9, BacktestAssumption DEF RetryQueue, RetryEnds, OutOfAttempts
<1>10. ASSUME NEW r \in Retriers, RetryRefused(r) PROVE FenceInv'
  BY <1>10, BacktestAssumption DEF RetryRefused, RetryEnds
<1>11. ASSUME NEW r \in Retriers, NEW j \in Jobs, RetryRead(r, j) PROVE FenceInv'
  BY <1>11, BacktestAssumption DEF RetryRead
<1> HIDE DEF TypeInv, FenceInv
<1> QED BY <1>1, <1>2, <1>3, <1>4, <1>5, <1>6, <1>7, <1>8, <1>9, <1>10, <1>11 DEF
           ApiStep

-----------------------------------------------------------------------------
(* Charging *)

LEMMA WorkerPay ==
    ASSUME TypeInv, TypeInv', FenceInv, PayInv,
           NEW w \in Workers,
           WorkerStep(w) \/ WorkerFault(w) \/ Heartbeat(w)
    PROVE  PayInv'
<1> USE DEF TypeInv, TypeOK, InHand, Statuses, Terminal, Times, Holders, Claiming,
            Claimed, Executing, Freed, EndTx, LockExecution, CanWriteJob, Forget,
            Goto, Raise, rowVars, bookVars, txVars, workerVars, dispVars, apiVars,
            FenceInv, HoldsRow, FencesGivenOut, OneCurrentOwner, GuardedIsCurrent,
            PayInv, SummaryIsRight, ChargedOnce, PaidIffSaved, AttemptsCounted
<1>1. ASSUME NEW j \in Jobs, Receive(w, j) PROVE PayInv'
  BY <1>1, BacktestAssumption DEF Receive
<1>2. ASSUME NEW j \in Jobs, AlreadyOwned(w, j) PROVE PayInv'
  BY <1>2, BacktestAssumption DEF AlreadyOwned
<1>3. CASE ClaimRead(w)
  BY <1>3, BacktestAssumption DEF ClaimRead
<1>4. CASE ClaimLock(w)
  BY <1>4, BacktestAssumption DEF ClaimLock
<1>5. CASE ClaimTerminal(w)
  BY <1>5, BacktestAssumption DEF ClaimTerminal
<1>6. CASE ClaimRefuse(w)
  BY <1>6, BacktestAssumption DEF ClaimRefuse, OutOfAttempts
<1>7. CASE Claim(w)
  BY <1>7, BacktestAssumption DEF Claim, NextFence, OutOfAttempts
<1>8. CASE EarlyCommit(w)
  BY <1>8, BacktestAssumption DEF EarlyCommit
<1>9. CASE ReadLedger(w)
  BY <1>9, BacktestAssumption DEF ReadLedger, Remaining
<1>10. CASE Debit(w)
  BY <1>10, BacktestAssumption DEF Debit
<1>11. CASE Save(w)
  BY <1>11, BacktestAssumption DEF Save
<1>12. CASE Guard(w)
  BY <1>12, BacktestAssumption DEF Guard, MayFinalize, OwnsFence
<1>13. CASE GuardRefuses(w)
  BY <1>13, BacktestAssumption DEF GuardRefuses
<1>14. CASE Interrupted(w)
  BY <1>14, BacktestAssumption DEF Interrupted
<1>15. CASE DeadlockVictim(w)
  BY <1>15, BacktestAssumption DEF DeadlockVictim, Deadlocked
<1>16. CASE Commit(w)
  BY <1>16, BacktestAssumption DEF Commit
<1>17. CASE HandlerLock(w)
  BY <1>17, BacktestAssumption DEF HandlerLock
<1>18. CASE HandlerWrite(w)
  BY <1>18, BacktestAssumption DEF HandlerWrite, FailureStatus, IsCurrent
<1>19. CASE HandlerFenced(w)
  BY <1>19, BacktestAssumption DEF HandlerFenced, IsCurrent
<1>20. CASE Exit(w)
  BY <1>20, BacktestAssumption DEF Exit
<1>21. CASE ClaimAborted(w)
  BY <1>21, BacktestAssumption DEF ClaimAborted
<1>22. CASE CommitFails(w)
  BY <1>22, BacktestAssumption DEF CommitFails
<1>23. CASE HandlerFails(w)
  BY <1>23, BacktestAssumption DEF HandlerFails
<1>24. CASE HeartbeatFails(w)
  BY <1>24, BacktestAssumption DEF HeartbeatFails
<1>25. CASE LoseConnection(w)
  BY <1>25, BacktestAssumption DEF LoseConnection
<1>26. CASE Crash(w)
  BY <1>26, BacktestAssumption DEF Crash
<1>27. CASE Redeliver(w)
  BY <1>27, BacktestAssumption DEF Redeliver
<1>28. ASSUME NEW kind \in {"transient", "permanent"}, Fail(w, kind) PROVE PayInv'
  BY <1>28, BacktestAssumption DEF Fail
<1>29. CASE Heartbeat(w)
  BY <1>29, BacktestAssumption DEF Heartbeat, OwnsFence
<1> HIDE DEF TypeInv, FenceInv, PayInv
<1> QED BY <1>1, <1>2, <1>3, <1>4, <1>5, <1>6, <1>7, <1>8, <1>9, <1>10, <1>11,
           <1>12, <1>13, <1>14, <1>15, <1>16, <1>17, <1>18, <1>19, <1>20, <1>21,
           <1>22, <1>23, <1>24, <1>25, <1>26, <1>27, <1>28, <1>29 DEF WorkerStep,
           WorkerFault

LEMMA DispatcherPay ==
    ASSUME TypeInv, TypeInv', FenceInv, PayInv,
           DispatcherStep \/ RecoverFails
    PROVE  PayInv'
<1> USE DEF TypeInv, TypeOK, InHand, Statuses, Terminal, Times, Holders, Claiming,
            Claimed, Executing, Freed, EndTx, LockExecution, CanWriteJob, Forget,
            Goto, Raise, rowVars, bookVars, txVars, workerVars, dispVars, apiVars,
            FenceInv, HoldsRow, FencesGivenOut, OneCurrentOwner, GuardedIsCurrent,
            PayInv, SummaryIsRight, ChargedOnce, PaidIffSaved, AttemptsCounted
<1>1. CASE Scan
  BY <1>1, BacktestAssumption DEF Scan
<1>2. CASE ScanDone
  BY <1>2, BacktestAssumption DEF ScanDone, DispGoto
<1>3. CASE RecheckRead
  BY <1>3, BacktestAssumption DEF RecheckRead
<1>4. CASE RecheckLock
  BY <1>4, BacktestAssumption DEF RecheckLock, DispGoto
<1>5. CASE RecoverEnds
  BY <1>5, BacktestAssumption DEF RecoverEnds, OutOfAttempts, DispGoto
<1>6. CASE RecoverDecides
  BY <1>6, BacktestAssumption DEF RecoverDecides, DispGoto
<1>7. CASE RecoverPublish
  BY <1>7, BacktestAssumption DEF RecoverPublish, DispGoto
<1>8. CASE RecoverRecord
  BY <1>8, BacktestAssumption DEF RecoverRecord, DispGoto
<1>9. CASE Unlock
  BY <1>9, BacktestAssumption DEF Unlock
<1>10. CASE RecoverFails
  BY <1>10, BacktestAssumption DEF RecoverFails
<1>11. ASSUME NEW j \in Jobs, TryLock(j) PROVE PayInv'
  BY <1>11, BacktestAssumption DEF TryLock
<1> HIDE DEF TypeInv, FenceInv, PayInv
<1> QED BY <1>1, <1>2, <1>3, <1>4, <1>5, <1>6, <1>7, <1>8, <1>9, <1>10, <1>11 DEF
           DispatcherStep

LEMMA UserPay ==
    ASSUME TypeInv, TypeInv', FenceInv, PayInv,
           ApiStep \/ \E j \in Jobs : HeartbeatAges(j) \/ DispatchAges(j)
    PROVE  PayInv'
<1> USE DEF TypeInv, TypeOK, InHand, Statuses, Terminal, Times, Holders, Claiming,
            Claimed, Executing, Freed, EndTx, LockExecution, CanWriteJob, Forget,
            Goto, Raise, rowVars, bookVars, txVars, workerVars, dispVars, apiVars,
            FenceInv, HoldsRow, FencesGivenOut, OneCurrentOwner, GuardedIsCurrent,
            PayInv, SummaryIsRight, ChargedOnce, PaidIffSaved, AttemptsCounted
<1>1. ASSUME NEW j \in Jobs, Submit(j) PROVE PayInv'
  BY <1>1, BacktestAssumption DEF Submit
<1>2. ASSUME NEW j \in Jobs, SubmitPublish(j) PROVE PayInv'
  BY <1>2, BacktestAssumption DEF SubmitPublish
<1>3. ASSUME NEW j \in Jobs, SubmitRecord(j) PROVE PayInv'
  BY <1>3, BacktestAssumption DEF SubmitRecord
<1>4. ASSUME NEW j \in Jobs, SubmitFails(j) PROVE PayInv'
  BY <1>4, BacktestAssumption DEF SubmitFails
<1>5. ASSUME NEW j \in Jobs, RequestCancellation(j) PROVE PayInv'
  BY <1>5, BacktestAssumption DEF RequestCancellation
<1>6. ASSUME NEW j \in Jobs, HeartbeatAges(j) PROVE PayInv'
  BY <1>6, BacktestAssumption DEF HeartbeatAges
<1>7. ASSUME NEW j \in Jobs, DispatchAges(j) PROVE PayInv'
  BY <1>7, BacktestAssumption DEF DispatchAges
<1>8. ASSUME NEW r \in Retriers, RetryLock(r) PROVE PayInv'
  BY <1>8, BacktestAssumption DEF RetryLock
<1>9. ASSUME NEW r \in Retriers, RetryQueue(r) PROVE PayInv'
  BY <1>9, BacktestAssumption DEF RetryQueue, RetryEnds, OutOfAttempts
<1>10. ASSUME NEW r \in Retriers, RetryRefused(r) PROVE PayInv'
  BY <1>10, BacktestAssumption DEF RetryRefused, RetryEnds
<1>11. ASSUME NEW r \in Retriers, NEW j \in Jobs, RetryRead(r, j) PROVE PayInv'
  BY <1>11, BacktestAssumption DEF RetryRead
<1> HIDE DEF TypeInv, FenceInv, PayInv
<1> QED BY <1>1, <1>2, <1>3, <1>4, <1>5, <1>6, <1>7, <1>8, <1>9, <1>10, <1>11 DEF
           ApiStep

-----------------------------------------------------------------------------
(* Cancellation *)

LEMMA WorkerCancel ==
    ASSUME TypeInv, TypeInv', FenceInv, CancelInv,
           NEW w \in Workers,
           WorkerStep(w) \/ WorkerFault(w) \/ Heartbeat(w)
    PROVE  CancelInv'
<1> USE DEF TypeInv, TypeOK, InHand, Statuses, Terminal, Times, Holders, Claiming,
            Claimed, Executing, Freed, EndTx, LockExecution, CanWriteJob, Forget,
            Goto, Raise, rowVars, bookVars, txVars, workerVars, dispVars, apiVars,
            FenceInv, HoldsRow, FencesGivenOut, OneCurrentOwner, GuardedIsCurrent,
            CancelInv, NotBegun, GuardedIsWanted
<1>1. ASSUME NEW j \in Jobs, Receive(w, j) PROVE CancelInv'
  BY <1>1, BacktestAssumption DEF Receive
<1>2. ASSUME NEW j \in Jobs, AlreadyOwned(w, j) PROVE CancelInv'
  BY <1>2, BacktestAssumption DEF AlreadyOwned
<1>3. CASE ClaimRead(w)
  BY <1>3, BacktestAssumption DEF ClaimRead
<1>4. CASE ClaimLock(w)
  BY <1>4, BacktestAssumption DEF ClaimLock
<1>5. CASE ClaimTerminal(w)
  BY <1>5, BacktestAssumption DEF ClaimTerminal
<1>6. CASE ClaimRefuse(w)
  BY <1>6, BacktestAssumption DEF ClaimRefuse, OutOfAttempts
<1>7. CASE Claim(w)
  BY <1>7, BacktestAssumption DEF Claim, NextFence, OutOfAttempts
<1>8. CASE EarlyCommit(w)
  BY <1>8, BacktestAssumption DEF EarlyCommit
<1>9. CASE ReadLedger(w)
  BY <1>9, BacktestAssumption DEF ReadLedger, Remaining
<1>10. CASE Debit(w)
  BY <1>10, BacktestAssumption DEF Debit
<1>11. CASE Save(w)
  BY <1>11, BacktestAssumption DEF Save
<1>12. CASE Guard(w)
  BY <1>12, BacktestAssumption DEF Guard, MayFinalize, OwnsFence
<1>13. CASE GuardRefuses(w)
  BY <1>13, BacktestAssumption DEF GuardRefuses
<1>14. CASE Interrupted(w)
  BY <1>14, BacktestAssumption DEF Interrupted
<1>15. CASE DeadlockVictim(w)
  BY <1>15, BacktestAssumption DEF DeadlockVictim, Deadlocked
<1>16. CASE Commit(w)
  BY <1>16, BacktestAssumption DEF Commit
<1>17. CASE HandlerLock(w)
  BY <1>17, BacktestAssumption DEF HandlerLock
<1>18. CASE HandlerWrite(w)
  BY <1>18, BacktestAssumption DEF HandlerWrite, FailureStatus, IsCurrent
<1>19. CASE HandlerFenced(w)
  BY <1>19, BacktestAssumption DEF HandlerFenced, IsCurrent
<1>20. CASE Exit(w)
  BY <1>20, BacktestAssumption DEF Exit
<1>21. CASE ClaimAborted(w)
  BY <1>21, BacktestAssumption DEF ClaimAborted
<1>22. CASE CommitFails(w)
  BY <1>22, BacktestAssumption DEF CommitFails
<1>23. CASE HandlerFails(w)
  BY <1>23, BacktestAssumption DEF HandlerFails
<1>24. CASE HeartbeatFails(w)
  BY <1>24, BacktestAssumption DEF HeartbeatFails
<1>25. CASE LoseConnection(w)
  BY <1>25, BacktestAssumption DEF LoseConnection
<1>26. CASE Crash(w)
  BY <1>26, BacktestAssumption DEF Crash
<1>27. CASE Redeliver(w)
  BY <1>27, BacktestAssumption DEF Redeliver
<1>28. ASSUME NEW kind \in {"transient", "permanent"}, Fail(w, kind) PROVE CancelInv'
  BY <1>28, BacktestAssumption DEF Fail
<1>29. CASE Heartbeat(w)
  BY <1>29, BacktestAssumption DEF Heartbeat, OwnsFence
<1> HIDE DEF TypeInv, FenceInv, CancelInv
<1> QED BY <1>1, <1>2, <1>3, <1>4, <1>5, <1>6, <1>7, <1>8, <1>9, <1>10, <1>11,
           <1>12, <1>13, <1>14, <1>15, <1>16, <1>17, <1>18, <1>19, <1>20, <1>21,
           <1>22, <1>23, <1>24, <1>25, <1>26, <1>27, <1>28, <1>29 DEF WorkerStep,
           WorkerFault

LEMMA DispatcherCancel ==
    ASSUME TypeInv, TypeInv', FenceInv, CancelInv,
           DispatcherStep \/ RecoverFails
    PROVE  CancelInv'
<1> USE DEF TypeInv, TypeOK, InHand, Statuses, Terminal, Times, Holders, Claiming,
            Claimed, Executing, Freed, EndTx, LockExecution, CanWriteJob, Forget,
            Goto, Raise, rowVars, bookVars, txVars, workerVars, dispVars, apiVars,
            FenceInv, HoldsRow, FencesGivenOut, OneCurrentOwner, GuardedIsCurrent,
            CancelInv, NotBegun, GuardedIsWanted
<1>1. CASE Scan
  BY <1>1, BacktestAssumption DEF Scan, Recoverable
<1>2. CASE ScanDone
  BY <1>2, BacktestAssumption DEF ScanDone, DispGoto
<1>3. CASE RecheckRead
  BY <1>3, BacktestAssumption DEF RecheckRead
<1>4. CASE RecheckLock
  BY <1>4, BacktestAssumption DEF RecheckLock, DispGoto
<1>5. CASE RecoverEnds
  BY <1>5, BacktestAssumption DEF RecoverEnds, OutOfAttempts, DispGoto
<1>6. CASE RecoverDecides
  BY <1>6, BacktestAssumption DEF RecoverDecides, DispGoto
<1>7. CASE RecoverPublish
  BY <1>7, BacktestAssumption DEF RecoverPublish, DispGoto
<1>8. CASE RecoverRecord
  BY <1>8, BacktestAssumption DEF RecoverRecord, DispGoto
<1>9. CASE Unlock
  BY <1>9, BacktestAssumption DEF Unlock
<1>10. CASE RecoverFails
  BY <1>10, BacktestAssumption DEF RecoverFails
<1>11. ASSUME NEW j \in Jobs, TryLock(j) PROVE CancelInv'
  BY <1>11, BacktestAssumption DEF TryLock
<1> HIDE DEF TypeInv, FenceInv, CancelInv
<1> QED BY <1>1, <1>2, <1>3, <1>4, <1>5, <1>6, <1>7, <1>8, <1>9, <1>10, <1>11 DEF
           DispatcherStep

LEMMA UserCancel ==
    ASSUME TypeInv, TypeInv', FenceInv, CancelInv,
           ApiStep \/ \E j \in Jobs : HeartbeatAges(j) \/ DispatchAges(j)
    PROVE  CancelInv'
<1> USE DEF TypeInv, TypeOK, InHand, Statuses, Terminal, Times, Holders, Claiming,
            Claimed, Executing, Freed, EndTx, LockExecution, CanWriteJob, Forget,
            Goto, Raise, rowVars, bookVars, txVars, workerVars, dispVars, apiVars,
            FenceInv, HoldsRow, FencesGivenOut, OneCurrentOwner, GuardedIsCurrent,
            CancelInv, NotBegun, GuardedIsWanted
<1>1. ASSUME NEW j \in Jobs, Submit(j) PROVE CancelInv'
  BY <1>1, BacktestAssumption DEF Submit
<1>2. ASSUME NEW j \in Jobs, SubmitPublish(j) PROVE CancelInv'
  BY <1>2, BacktestAssumption DEF SubmitPublish
<1>3. ASSUME NEW j \in Jobs, SubmitRecord(j) PROVE CancelInv'
  BY <1>3, BacktestAssumption DEF SubmitRecord
<1>4. ASSUME NEW j \in Jobs, SubmitFails(j) PROVE CancelInv'
  BY <1>4, BacktestAssumption DEF SubmitFails
<1>5. ASSUME NEW j \in Jobs, RequestCancellation(j) PROVE CancelInv'
  BY <1>5, BacktestAssumption DEF RequestCancellation
<1>6. ASSUME NEW j \in Jobs, HeartbeatAges(j) PROVE CancelInv'
  BY <1>6, BacktestAssumption DEF HeartbeatAges
<1>7. ASSUME NEW j \in Jobs, DispatchAges(j) PROVE CancelInv'
  BY <1>7, BacktestAssumption DEF DispatchAges
<1>8. ASSUME NEW r \in Retriers, RetryLock(r) PROVE CancelInv'
  BY <1>8, BacktestAssumption DEF RetryLock
<1>9. ASSUME NEW r \in Retriers, RetryQueue(r) PROVE CancelInv'
  BY <1>9, BacktestAssumption DEF RetryQueue, RetryEnds, OutOfAttempts
<1>10. ASSUME NEW r \in Retriers, RetryRefused(r) PROVE CancelInv'
  BY <1>10, BacktestAssumption DEF RetryRefused, RetryEnds
<1>11. ASSUME NEW r \in Retriers, NEW j \in Jobs, RetryRead(r, j) PROVE CancelInv'
  BY <1>11, BacktestAssumption DEF RetryRead
<1> HIDE DEF TypeInv, FenceInv, CancelInv
<1> QED BY <1>1, <1>2, <1>3, <1>4, <1>5, <1>6, <1>7, <1>8, <1>9, <1>10, <1>11 DEF
           ApiStep

LEMMA WorkerCancellation ==
    ASSUME TypeInv, FenceInv, CancelInv,
           NEW w \in Workers,
           WorkerStep(w) \/ WorkerFault(w) \/ Heartbeat(w)
    PROVE  CancellationStep
<1> USE DEF TypeInv, TypeOK, InHand, Statuses, Terminal, Times, Holders, Claiming,
            Claimed, Executing, Freed, EndTx, LockExecution, CanWriteJob, Forget,
            Goto, Raise, rowVars, bookVars, txVars, workerVars, dispVars, apiVars,
            FenceInv, HoldsRow, FencesGivenOut, OneCurrentOwner, GuardedIsCurrent,
            CancelInv, NotBegun, GuardedIsWanted, CancellationStep
<1>1. ASSUME NEW j \in Jobs, Receive(w, j) PROVE CancellationStep
  BY <1>1, BacktestAssumption DEF Receive
<1>2. ASSUME NEW j \in Jobs, AlreadyOwned(w, j) PROVE CancellationStep
  BY <1>2, BacktestAssumption DEF AlreadyOwned
<1>3. CASE ClaimRead(w)
  BY <1>3, BacktestAssumption DEF ClaimRead
<1>4. CASE ClaimLock(w)
  BY <1>4, BacktestAssumption DEF ClaimLock
<1>5. CASE ClaimTerminal(w)
  BY <1>5, BacktestAssumption DEF ClaimTerminal
<1>6. CASE ClaimRefuse(w)
  BY <1>6, BacktestAssumption DEF ClaimRefuse, OutOfAttempts
<1>7. CASE Claim(w)
  BY <1>7, BacktestAssumption DEF Claim, NextFence, OutOfAttempts
<1>8. CASE EarlyCommit(w)
  BY <1>8, BacktestAssumption DEF EarlyCommit
<1>9. CASE ReadLedger(w)
  BY <1>9, BacktestAssumption DEF ReadLedger, Remaining
<1>10. CASE Debit(w)
  BY <1>10, BacktestAssumption DEF Debit
<1>11. CASE Save(w)
  BY <1>11, BacktestAssumption DEF Save
<1>12. CASE Guard(w)
  BY <1>12, BacktestAssumption DEF Guard, MayFinalize, OwnsFence
<1>13. CASE GuardRefuses(w)
  BY <1>13, BacktestAssumption DEF GuardRefuses
<1>14. CASE Interrupted(w)
  BY <1>14, BacktestAssumption DEF Interrupted
<1>15. CASE DeadlockVictim(w)
  BY <1>15, BacktestAssumption DEF DeadlockVictim, Deadlocked
<1>16. CASE Commit(w)
  BY <1>16, BacktestAssumption DEF Commit
<1>17. CASE HandlerLock(w)
  BY <1>17, BacktestAssumption DEF HandlerLock
<1>18. CASE HandlerWrite(w)
  BY <1>18, BacktestAssumption DEF HandlerWrite, FailureStatus, IsCurrent
<1>19. CASE HandlerFenced(w)
  BY <1>19, BacktestAssumption DEF HandlerFenced, IsCurrent
<1>20. CASE Exit(w)
  BY <1>20, BacktestAssumption DEF Exit
<1>21. CASE ClaimAborted(w)
  BY <1>21, BacktestAssumption DEF ClaimAborted
<1>22. CASE CommitFails(w)
  BY <1>22, BacktestAssumption DEF CommitFails
<1>23. CASE HandlerFails(w)
  BY <1>23, BacktestAssumption DEF HandlerFails
<1>24. CASE HeartbeatFails(w)
  BY <1>24, BacktestAssumption DEF HeartbeatFails
<1>25. CASE LoseConnection(w)
  BY <1>25, BacktestAssumption DEF LoseConnection
<1>26. CASE Crash(w)
  BY <1>26, BacktestAssumption DEF Crash
<1>27. CASE Redeliver(w)
  BY <1>27, BacktestAssumption DEF Redeliver
<1>28. ASSUME NEW kind \in {"transient", "permanent"}, Fail(w, kind) PROVE CancellationStep
  BY <1>28, BacktestAssumption DEF Fail
<1>29. CASE Heartbeat(w)
  BY <1>29, BacktestAssumption DEF Heartbeat, OwnsFence
<1> HIDE DEF TypeInv, FenceInv, CancelInv, CancellationStep
<1> QED BY <1>1, <1>2, <1>3, <1>4, <1>5, <1>6, <1>7, <1>8, <1>9, <1>10, <1>11,
           <1>12, <1>13, <1>14, <1>15, <1>16, <1>17, <1>18, <1>19, <1>20, <1>21,
           <1>22, <1>23, <1>24, <1>25, <1>26, <1>27, <1>28, <1>29 DEF WorkerStep,
           WorkerFault

LEMMA DispatcherCancellation ==
    ASSUME TypeInv, FenceInv, CancelInv,
           DispatcherStep \/ RecoverFails
    PROVE  CancellationStep
<1> USE DEF TypeInv, TypeOK, InHand, Statuses, Terminal, Times, Holders, Claiming,
            Claimed, Executing, Freed, EndTx, LockExecution, CanWriteJob, Forget,
            Goto, Raise, rowVars, bookVars, txVars, workerVars, dispVars, apiVars,
            FenceInv, HoldsRow, FencesGivenOut, OneCurrentOwner, GuardedIsCurrent,
            CancelInv, NotBegun, GuardedIsWanted, CancellationStep
<1>1. CASE Scan
  BY <1>1, BacktestAssumption DEF Scan, Recoverable
<1>2. CASE ScanDone
  BY <1>2, BacktestAssumption DEF ScanDone, DispGoto
<1>3. CASE RecheckRead
  BY <1>3, BacktestAssumption DEF RecheckRead
<1>4. CASE RecheckLock
  BY <1>4, BacktestAssumption DEF RecheckLock, DispGoto
<1>5. CASE RecoverEnds
  BY <1>5, BacktestAssumption DEF RecoverEnds, OutOfAttempts, DispGoto
<1>6. CASE RecoverDecides
  BY <1>6, BacktestAssumption DEF RecoverDecides, DispGoto
<1>7. CASE RecoverPublish
  BY <1>7, BacktestAssumption DEF RecoverPublish, DispGoto
<1>8. CASE RecoverRecord
  BY <1>8, BacktestAssumption DEF RecoverRecord, DispGoto
<1>9. CASE Unlock
  BY <1>9, BacktestAssumption DEF Unlock
<1>10. CASE RecoverFails
  BY <1>10, BacktestAssumption DEF RecoverFails
<1>11. ASSUME NEW j \in Jobs, TryLock(j) PROVE CancellationStep
  BY <1>11, BacktestAssumption DEF TryLock
<1> HIDE DEF TypeInv, FenceInv, CancelInv, CancellationStep
<1> QED BY <1>1, <1>2, <1>3, <1>4, <1>5, <1>6, <1>7, <1>8, <1>9, <1>10, <1>11 DEF
           DispatcherStep

LEMMA UserCancellation ==
    ASSUME TypeInv, FenceInv, CancelInv,
           ApiStep \/ \E j \in Jobs : HeartbeatAges(j) \/ DispatchAges(j)
    PROVE  CancellationStep
<1> USE DEF TypeInv, TypeOK, InHand, Statuses, Terminal, Times, Holders, Claiming,
            Claimed, Executing, Freed, EndTx, LockExecution, CanWriteJob, Forget,
            Goto, Raise, rowVars, bookVars, txVars, workerVars, dispVars, apiVars,
            FenceInv, HoldsRow, FencesGivenOut, OneCurrentOwner, GuardedIsCurrent,
            CancelInv, NotBegun, GuardedIsWanted, CancellationStep
<1>1. ASSUME NEW j \in Jobs, Submit(j) PROVE CancellationStep
  BY <1>1, BacktestAssumption DEF Submit
<1>2. ASSUME NEW j \in Jobs, SubmitPublish(j) PROVE CancellationStep
  BY <1>2, BacktestAssumption DEF SubmitPublish
<1>3. ASSUME NEW j \in Jobs, SubmitRecord(j) PROVE CancellationStep
  BY <1>3, BacktestAssumption DEF SubmitRecord
<1>4. ASSUME NEW j \in Jobs, SubmitFails(j) PROVE CancellationStep
  BY <1>4, BacktestAssumption DEF SubmitFails
<1>5. ASSUME NEW j \in Jobs, RequestCancellation(j) PROVE CancellationStep
  BY <1>5, BacktestAssumption DEF RequestCancellation
<1>6. ASSUME NEW j \in Jobs, HeartbeatAges(j) PROVE CancellationStep
  BY <1>6, BacktestAssumption DEF HeartbeatAges
<1>7. ASSUME NEW j \in Jobs, DispatchAges(j) PROVE CancellationStep
  BY <1>7, BacktestAssumption DEF DispatchAges
<1>8. ASSUME NEW r \in Retriers, RetryLock(r) PROVE CancellationStep
  BY <1>8, BacktestAssumption DEF RetryLock
<1>9. ASSUME NEW r \in Retriers, RetryQueue(r) PROVE CancellationStep
  BY <1>9, BacktestAssumption DEF RetryQueue, RetryEnds, OutOfAttempts
<1>10. ASSUME NEW r \in Retriers, RetryRefused(r) PROVE CancellationStep
  BY <1>10, BacktestAssumption DEF RetryRefused, RetryEnds
<1>11. ASSUME NEW r \in Retriers, NEW j \in Jobs, RetryRead(r, j) PROVE CancellationStep
  BY <1>11, BacktestAssumption DEF RetryRead
<1> HIDE DEF TypeInv, FenceInv, CancelInv, CancellationStep
<1> QED BY <1>1, <1>2, <1>3, <1>4, <1>5, <1>6, <1>7, <1>8, <1>9, <1>10, <1>11 DEF
           ApiStep

-----------------------------------------------------------------------------
(* Superseded attempts *)

\* A step of worker w moves no other.
LEMMA OneWorkerMoves ==
    ASSUME TypeInv, NEW w \in Workers, NEW v \in Workers, v # w,
           WorkerStep(w) \/ WorkerFault(w) \/ Heartbeat(w)
    PROVE  pc'[v] = pc[v] /\ stopped'[v] = stopped[v]
<1>1. pc \in [Workers -> {"idle"} \cup Claiming \cup Claimed] /\ stopped \in [Workers -> BOOLEAN]
  BY DEF TypeInv, TypeOK
<1> USE <1>1 DEF Forget, Goto, Raise, workerVars
<1>2. ASSUME NEW j \in Jobs, Receive(w, j) \/ AlreadyOwned(w, j)
      PROVE  pc'[v] = pc[v] /\ stopped'[v] = stopped[v]
  BY <1>2 DEF Receive, AlreadyOwned
<1>3. CASE ClaimRead(w) \/ ClaimLock(w) \/ ClaimTerminal(w) \/ ClaimRefuse(w) \/ Claim(w)
  BY <1>3 DEF ClaimRead, ClaimLock, ClaimTerminal, ClaimRefuse, Claim
<1>4. CASE EarlyCommit(w) \/ ReadLedger(w) \/ Debit(w) \/ Save(w)
  BY <1>4 DEF EarlyCommit, ReadLedger, Debit, Save
<1>5. CASE Guard(w) \/ GuardRefuses(w) \/ Interrupted(w) \/ DeadlockVictim(w) \/ Commit(w)
  BY <1>5 DEF Guard, GuardRefuses, Interrupted, DeadlockVictim, Deadlocked, Commit
<1>6. CASE HandlerLock(w) \/ HandlerWrite(w) \/ HandlerFenced(w) \/ HandlerFails(w) \/ Exit(w)
  BY <1>6 DEF HandlerLock, HandlerWrite, HandlerFenced, HandlerFails, Exit
<1>7. CASE ClaimAborted(w) \/ CommitFails(w) \/ Crash(w) \/ Redeliver(w)
  BY <1>7 DEF ClaimAborted, CommitFails, Crash, Redeliver
<1>8. CASE Heartbeat(w) \/ HeartbeatFails(w) \/ LoseConnection(w)
  BY <1>8 DEF Heartbeat, HeartbeatFails, LoseConnection
<1>9. ASSUME NEW kind \in {"transient", "permanent"}, Fail(w, kind)
      PROVE  pc'[v] = pc[v] /\ stopped'[v] = stopped[v]
  BY <1>9 DEF Fail
<1> QED
  BY <1>2, <1>3, <1>4, <1>5, <1>6, <1>7, <1>8, <1>9 DEF WorkerStep, WorkerFault

\* The commit is the current claim's, the failure handler and the heartbeat
\* compare fences before they write.
LEMMA WorkerStale ==
    ASSUME TypeInv, GuardedIsCurrent, NEW w \in Workers,
           WorkerStep(w) \/ WorkerFault(w) \/ Heartbeat(w)
    PROVE  StaleStep
<1> SUFFICES ASSUME NEW v \in Workers, StaleMoves(v) PROVE OnlyRunning
  BY DEF StaleStep
<1>1. v = w
  BY OneWorkerMoves DEF StaleMoves
<1>2. pc[w] \in Claimed /\ token[w] # fence[at[w]]
  BY <1>1 DEF StaleMoves
<1>3. /\ ~Commit(w) /\ ~HandlerWrite(w)
      /\ ~ClaimRead(w) /\ ~ClaimLock(w) /\ ~ClaimTerminal(w) /\ ~ClaimRefuse(w) /\ ~Claim(w)
      /\ ~ClaimAborted(w) /\ \A j \in Jobs : ~Receive(w, j) /\ ~AlreadyOwned(w, j)
  BY <1>2 DEF GuardedIsCurrent, Commit, HandlerWrite, IsCurrent, ClaimRead, ClaimLock,
      ClaimTerminal, ClaimRefuse, Claim, ClaimAborted, Receive, AlreadyOwned, Claimed, Claiming,
      Executing
<1> USE DEF OnlyRunning, rowVars
<1>4. CASE EarlyCommit(w)
  BY <1>4 DEF EarlyCommit, TypeInv, TypeOK
<1>5. CASE ReadLedger(w) \/ Debit(w) \/ Save(w) \/ Guard(w)
  BY <1>5 DEF ReadLedger, Debit, Save, Guard
<1>6. CASE GuardRefuses(w) \/ Interrupted(w) \/ DeadlockVictim(w) \/ CommitFails(w)
  BY <1>6 DEF GuardRefuses, Interrupted, DeadlockVictim, Deadlocked, CommitFails, Raise
<1>7. CASE HandlerLock(w) \/ HandlerFenced(w) \/ HandlerFails(w) \/ Exit(w)
  BY <1>7 DEF HandlerLock, HandlerFenced, HandlerFails, Exit
<1>8. CASE Crash(w) \/ Redeliver(w) \/ HeartbeatFails(w) \/ LoseConnection(w)
  BY <1>8 DEF Crash, Redeliver, HeartbeatFails, LoseConnection
<1>9. CASE Heartbeat(w)
  BY <1>2, <1>9 DEF Heartbeat, OwnsFence
<1>10. ASSUME NEW kind \in {"transient", "permanent"}, Fail(w, kind) PROVE OnlyRunning
  BY <1>10 DEF Fail, Raise
<1> QED
  BY <1>3, <1>4, <1>5, <1>6, <1>7, <1>8, <1>9, <1>10 DEF WorkerStep, WorkerFault

\* The dispatcher and the API move no worker.
LEMMA OthersMoveNone ==
    ASSUME DispatcherStep \/ RecoverFails \/ ApiStep
           \/ \E j \in Jobs : HeartbeatAges(j) \/ DispatchAges(j)
    PROVE  StaleStep
<1> SUFFICES pc' = pc /\ stopped' = stopped
  BY DEF StaleStep, StaleMoves
<1> USE DEF workerVars
<1>1. CASE DispatcherStep \/ RecoverFails
  BY <1>1 DEF DispatcherStep, Scan, ScanDone, TryLock, RecheckRead, RecheckLock, RecoverEnds,
              RecoverDecides, RecoverPublish, RecoverRecord, Unlock, RecoverFails
<1>2. CASE ApiStep
  BY <1>2 DEF ApiStep, Submit, SubmitPublish, SubmitRecord, SubmitFails, RetryLock, RetryQueue,
              RetryRefused, RetryRead, RetryEnds, RequestCancellation
<1>3. CASE \E j \in Jobs : HeartbeatAges(j) \/ DispatchAges(j)
  BY <1>3 DEF HeartbeatAges, DispatchAges
<1> QED BY <1>1, <1>2, <1>3

-----------------------------------------------------------------------------
(* The abstract service *)

\* What a submitted job shows is a status.
Submitted == \A j \in Jobs : api[j] # "idle" => status[j] # "absent"

ServiceStep == [Service!Next]_(Service!jobVars)

\* A step that leaves what the user sees.
LEMMA SameShown ==
    ASSUME UNCHANGED <<status, attempts, cancel, bookVars>>
    PROVE  ServiceStep
BY DEF ServiceStep, Service!jobVars, bookVars

\* A step that only changes what one job shows.
LEMMA OneShown ==
    ASSUME NEW j \in Jobs, NEW s \in {"queued", "running", "failed", "cancelled"},
           status[j] = "absent" => s = "queued",
           s = "queued" => ~cancel[j], s = "cancelled" => cancel[j],
           status' = [status EXCEPT ![j] = s],
           UNCHANGED <<attempts, cancel, bookVars>>
    PROVE  ServiceStep
<1>1. Service!Show(j, s)
  BY DEF Service!Show, bookVars
<1> QED BY <1>1 DEF ServiceStep, Service!Next

\* A job that a worker, the dispatcher or a retry has in hand was submitted.
LEMMA InHandSubmitted ==
    ASSUME TypeInv, CancelInv, Submitted
    PROVE  /\ \A w \in Workers : pc[w] # "idle" => at[w] \in Jobs /\ status[at[w]] # "absent"
           /\ dpc \notin {"idle", "scan"} => djob \in Jobs /\ status[djob] # "absent"
           /\ \A r \in Retriers : rpc[r] # "idle" => rjob[r] \in Jobs /\ status[rjob[r]] # "absent"
BY DEF TypeInv, InHand, CancelInv, NotBegun, Submitted

LEMMA ClaimService ==
    ASSUME TypeInv, PayInv, CancelInv, Submitted, NEW w \in Workers,
           ClaimRefuse(w) \/ Claim(w)
    PROVE  ServiceStep
<1> DEFINE j == at[w]
<1>1. j \in Jobs /\ status[j] # "absent"
  BY InHandSubmitted DEF ClaimRefuse, Claim
<1>2. CASE ClaimRefuse(w)
  <2> DEFINE s == IF cancel[j] THEN "cancelled" ELSE "failed"
  <2>1. /\ status' = [status EXCEPT ![j] = s]
        /\ UNCHANGED <<attempts, cancel, bookVars>>
    BY <1>2 DEF ClaimRefuse
  <2>2. /\ s \in {"queued", "running", "failed", "cancelled"}
        /\ s # "queued" /\ (s = "cancelled" => cancel[j])
    OBVIOUS
  <2> HIDE DEF s, j
  <2> QED BY <1>1, <2>1, <2>2, OneShown
<1>3. CASE Claim(w)
  <2>1. ~cancel[j] /\ attempts[j] < MaxAttempts
    BY <1>1, <1>3, BacktestAssumption DEF Claim, OutOfAttempts, TypeInv, TypeOK
  <2>2. Service!Attempt(j)
    BY <1>1, <1>3, <2>1 DEF Claim, Service!Attempt, bookVars
  <2> QED BY <1>1, <2>2 DEF ServiceStep, Service!Next
<1> QED BY <1>2, <1>3

LEMMA ExecuteService ==
    ASSUME TypeInv, PayInv, CancelInv, GuardedIsCurrent, Submitted, NEW w \in Workers,
           EarlyCommit(w) \/ Commit(w) \/ HandlerWrite(w)
    PROVE  ServiceStep
<1> DEFINE j == at[w]
<1>1. j \in Jobs /\ status[j] # "absent"
  BY InHandSubmitted DEF EarlyCommit, Commit, HandlerWrite
<1>2. CASE EarlyCommit(w)
  <2>1. /\ status' = [status EXCEPT ![j] = "running"]
        /\ UNCHANGED <<attempts, cancel, bookVars>>
    BY <1>2 DEF EarlyCommit
  <2> HIDE DEF j
  <2> QED BY <1>1, <2>1, OneShown
<1>3. CASE Commit(w)
  <2>1. pc[w] = "guarded" /\ token[w] = fence[j] /\ ~cancel[j]
    BY <1>3 DEF Commit, GuardedIsCurrent, CancelInv, GuardedIsWanted
  <2>2. ledger[j] + pend[w] = Cost /\ results[j] < attempts[j]
    BY <1>1, <2>1 DEF PayInv, SummaryIsRight, AttemptsCounted
  <2>3. Service!Finish(j)
    BY <1>1, <1>3, <2>1, <2>2 DEF Commit, Service!Finish, TypeInv, TypeOK
  <2> QED BY <1>1, <2>3 DEF ServiceStep, Service!Next
<1>4. CASE HandlerWrite(w)
  <2> DEFINE s == FailureStatus(w)
  <2>1. /\ UNCHANGED <<attempts, cancel, bookVars>>
        /\ status' = IF status[j] # "completed" THEN [status EXCEPT ![j] = s] ELSE status
    BY <1>4 DEF HandlerWrite
  <2>2. /\ s \in {"queued", "running", "failed", "cancelled"}
        /\ s = "queued" => ~cancel[j]
        /\ s = "cancelled" => cancel[j]
    <3>1. CASE cancel[j]
      BY <3>1 DEF FailureStatus
    <3>2. CASE ~cancel[j] /\ err[w] = "transient" /\ attempts[j] < MaxAttempts
      BY <3>2 DEF FailureStatus
    <3>3. CASE ~cancel[j] /\ ~(err[w] = "transient" /\ attempts[j] < MaxAttempts)
      BY <3>3 DEF FailureStatus
    <3> QED BY <3>1, <3>2, <3>3
  <2> HIDE DEF s, j
  <2> QED BY <1>1, <2>1, <2>2, OneShown, SameShown
<1> QED BY <1>2, <1>3, <1>4

LEMMA WorkerService ==
    ASSUME TypeInv, PayInv, CancelInv, GuardedIsCurrent, Submitted, NEW w \in Workers,
           WorkerStep(w) \/ WorkerFault(w) \/ Heartbeat(w)
    PROVE  ServiceStep
<1> USE SameShown DEF rowVars
<1>1. ASSUME NEW j \in Jobs, Receive(w, j) \/ AlreadyOwned(w, j) PROVE ServiceStep
  BY <1>1 DEF Receive, AlreadyOwned
<1>2. CASE ClaimRead(w) \/ ClaimLock(w) \/ ClaimTerminal(w)
  BY <1>2 DEF ClaimRead, ClaimLock, ClaimTerminal
<1>3. CASE ClaimRefuse(w) \/ Claim(w)
  BY <1>3, ClaimService
<1>4. CASE EarlyCommit(w) \/ Commit(w) \/ HandlerWrite(w)
  BY <1>4, ExecuteService
<1>5. CASE ReadLedger(w) \/ Debit(w) \/ Save(w) \/ Guard(w)
  BY <1>5 DEF ReadLedger, Debit, Save, Guard
<1>6. CASE GuardRefuses(w) \/ Interrupted(w) \/ DeadlockVictim(w) \/ CommitFails(w)
  BY <1>6 DEF GuardRefuses, Interrupted, DeadlockVictim, Deadlocked, CommitFails, Raise
<1>7. CASE HandlerLock(w) \/ HandlerFenced(w) \/ HandlerFails(w) \/ Exit(w)
  BY <1>7 DEF HandlerLock, HandlerFenced, HandlerFails, Exit
<1>8. CASE ClaimAborted(w) \/ Crash(w) \/ Redeliver(w)
  BY <1>8 DEF ClaimAborted, Crash, Redeliver
<1>9. CASE Heartbeat(w) \/ HeartbeatFails(w) \/ LoseConnection(w)
  BY <1>9 DEF Heartbeat, HeartbeatFails, LoseConnection
<1>10. ASSUME NEW kind \in {"transient", "permanent"}, Fail(w, kind) PROVE ServiceStep
  BY <1>10 DEF Fail, Raise
<1> QED
  BY <1>1, <1>2, <1>3, <1>4, <1>5, <1>6, <1>7, <1>8, <1>9, <1>10 DEF WorkerStep, WorkerFault

LEMMA DispatcherService ==
    ASSUME TypeInv, CancelInv, Submitted, DispatcherStep \/ RecoverFails
    PROVE  ServiceStep
<1> USE SameShown DEF rowVars
<1>1. CASE Scan \/ ScanDone \/ \E j \in Jobs : TryLock(j)
  BY <1>1 DEF Scan, ScanDone, TryLock
<1>2. CASE RecheckRead \/ RecheckLock \/ RecoverDecides
  BY <1>2 DEF RecheckRead, RecheckLock, RecoverDecides
<1>3. CASE RecoverPublish \/ RecoverRecord \/ Unlock \/ RecoverFails
  BY <1>3 DEF RecoverPublish, RecoverRecord, Unlock, RecoverFails
<1>4. CASE RecoverEnds
  <2> DEFINE j == djob
             s == IF cancel[j] THEN "cancelled" ELSE "failed"
  <2>1. j \in Jobs /\ status[j] # "absent"
    BY <1>4, InHandSubmitted DEF RecoverEnds
  <2>2. /\ UNCHANGED <<attempts, cancel, bookVars>>
        /\ status' = IF status[j] \in Terminal THEN status ELSE [status EXCEPT ![j] = s]
    BY <1>4 DEF RecoverEnds
  <2>3. /\ s \in {"queued", "running", "failed", "cancelled"}
        /\ s # "queued" /\ (s = "cancelled" => cancel[j])
    OBVIOUS
  <2> HIDE DEF s, j
  <2> QED BY <2>1, <2>2, <2>3, OneShown
<1> QED BY <1>1, <1>2, <1>3, <1>4 DEF DispatcherStep

LEMMA UserService ==
    ASSUME TypeInv, CancelInv, Submitted,
           ApiStep \/ \E j \in Jobs : HeartbeatAges(j) \/ DispatchAges(j)
    PROVE  ServiceStep
<1> USE SameShown DEF rowVars
<1>1. ASSUME NEW j \in Jobs, Submit(j) PROVE ServiceStep
  <2>1. ~cancel[j]
    BY <1>1 DEF Submit, CancelInv, NotBegun
  <2>2. /\ status' = [status EXCEPT ![j] = "queued"]
        /\ UNCHANGED <<attempts, cancel, bookVars>>
    BY <1>1 DEF Submit
  <2> QED BY <2>1, <2>2, OneShown
<1>2. ASSUME NEW j \in Jobs, SubmitPublish(j) \/ SubmitRecord(j) \/ SubmitFails(j)
      PROVE  ServiceStep
  BY <1>2 DEF SubmitPublish, SubmitRecord, SubmitFails
<1>3. ASSUME NEW r \in Retriers, RetryQueue(r) PROVE ServiceStep
  <2> DEFINE j == rjob[r]
  <2>1. j \in Jobs
    BY <1>3, InHandSubmitted DEF RetryQueue
  <2>2. /\ ~cancel[j] /\ status' = [status EXCEPT ![j] = "queued"]
        /\ UNCHANGED <<attempts, cancel, bookVars>>
    BY <1>3 DEF RetryQueue, RetryEnds, OutOfAttempts
  <2> HIDE DEF j
  <2> QED BY <2>1, <2>2, OneShown
<1>4. ASSUME NEW r \in Retriers, RetryLock(r) \/ RetryRefused(r) \/ \E j \in Jobs : RetryRead(r, j)
      PROVE  ServiceStep
  BY <1>4 DEF RetryLock, RetryRefused, RetryRead, RetryEnds
<1>5. ASSUME NEW j \in Jobs, RequestCancellation(j) PROVE ServiceStep
  <2>1. Service!Drop(j)
    BY <1>5 DEF RequestCancellation, Service!Drop, bookVars
  <2> QED BY <2>1 DEF ServiceStep, Service!Next
<1>6. ASSUME NEW j \in Jobs, HeartbeatAges(j) \/ DispatchAges(j) PROVE ServiceStep
  BY <1>6 DEF HeartbeatAges, DispatchAges
<1> QED BY <1>1, <1>2, <1>3, <1>4, <1>5, <1>6 DEF ApiStep

\* A request that leaves "idle" has inserted its job.
LEMMA SubmitInserts ==
    ASSUME TypeInv, Next, NEW j \in Jobs, api[j] = "idle", api'[j] # "idle"
    PROVE  status'[j] # "absent"
<1> USE DEF apiVars
<1>1. ASSUME NEW w \in Workers, WorkerStep(w) \/ WorkerFault(w) \/ Heartbeat(w) PROVE FALSE
  <2>1. UNCHANGED api
    BY <1>1 DEF WorkerStep, WorkerFault, Receive, AlreadyOwned, ClaimRead, ClaimLock, ClaimTerminal,
        ClaimRefuse, Claim, EarlyCommit, ReadLedger, Debit, Save, Guard, GuardRefuses, Interrupted,
        DeadlockVictim, Deadlocked, Commit, HandlerLock, HandlerWrite, HandlerFenced, Exit, ClaimAborted, Fail,
        CommitFails, HandlerFails, HeartbeatFails, LoseConnection, Crash, Redeliver, Heartbeat, Raise
  <2> QED BY <2>1
<1>2. CASE DispatcherStep \/ RecoverFails
  BY <1>2 DEF DispatcherStep, Scan, ScanDone, TryLock, RecheckRead, RecheckLock, RecoverEnds,
              RecoverDecides, RecoverPublish, RecoverRecord, Unlock, RecoverFails
<1>3. CASE ApiStep
  <2>1. ASSUME NEW i \in Jobs, Submit(i) PROVE status'[j] # "absent"
    BY <2>1 DEF Submit, TypeInv, TypeOK
  <2>2. ASSUME NEW i \in Jobs, SubmitPublish(i) \/ SubmitRecord(i) \/ SubmitFails(i) PROVE FALSE
    BY <2>2 DEF SubmitPublish, SubmitRecord, SubmitFails, TypeInv, TypeOK
  <2>3. ASSUME NEW r \in Retriers,
               RetryLock(r) \/ RetryQueue(r) \/ RetryRefused(r) \/ \E i \in Jobs : RetryRead(r, i)
        PROVE  FALSE
    BY <2>3 DEF RetryLock, RetryQueue, RetryRefused, RetryRead, RetryEnds
  <2>4. ASSUME NEW i \in Jobs, RequestCancellation(i) PROVE FALSE
    BY <2>4 DEF RequestCancellation
  <2> QED BY <1>3, <2>1, <2>2, <2>3, <2>4 DEF ApiStep
<1>4. CASE \E i \in Jobs : HeartbeatAges(i) \/ DispatchAges(i)
  BY <1>4 DEF HeartbeatAges, DispatchAges
<1> QED BY <1>1, <1>2, <1>3, <1>4 DEF Next

LEMMA NextService ==
    ASSUME Inv, Submitted, [Next]_vars
    PROVE  ServiceStep /\ Submitted'
<1>1. CASE UNCHANGED vars
  BY <1>1, SameShown DEF vars, rowVars, apiVars, Submitted
<1>2. CASE Next
  <2>1. ServiceStep
    BY <1>2, WorkerService, DispatcherService, UserService DEF Next, Inv, FenceInv
  <2>2. ASSUME NEW j \in Jobs, status[j] # "absent" PROVE status'[j] # "absent"
    <3>1. status \in [Jobs -> Statuses]
      BY DEF Inv, TypeInv, TypeOK
    <3> QED BY <2>1, <2>2, <3>1 DEF ServiceStep, Service!Next, Service!jobVars, Service!Show,
                                    Service!Attempt, Service!Finish, Service!Drop
  <2>3. Submitted'
    BY <1>2, <2>2, SubmitInserts DEF Submitted, Inv
  <2> QED BY <2>1, <2>3
<1> QED BY <1>1, <1>2

-----------------------------------------------------------------------------
(* Locks.  A row belongs to the one step between its SELECT ... FOR UPDATE   *)
(* and the end of the transaction; the wallet is locked before the row of    *)
(* job_status, so that only one attempt at a time holds such a row.          *)

LEMMA WorkerLocks ==
    ASSUME TypeInv, TypeInv', HoldsRow, LockInv,
           NEW w \in Workers,
           WorkerStep(w) \/ WorkerFault(w) \/ Heartbeat(w)
    PROVE  LockInv'
<1> USE DEF TypeInv, TypeOK, InHand, Statuses, Terminal, Times, Holders, Claiming,
            Claimed, Executing, Freed, EndTx, LockExecution, CanWriteJob, Forget,
            Goto, Raise, rowVars, bookVars, txVars, workerVars, dispVars, apiVars,
            LockInv, LocksHaveOwners, HoldsExecution, Debited, Beating
<1>1. ASSUME NEW j \in Jobs, Receive(w, j) PROVE LockInv'
  <2>1. /\ UNCHANGED <<rowE, rowJ, wallet, pend, dispVars, apiVars, status, hb>>
        /\ pc[w] = "idle" /\ pc'[w] = "claim" /\ at'[w] = j /\ linked'[w]
        /\ \A v \in Workers : v # w => pc'[v] = pc[v] /\ at'[v] = at[v] /\ linked'[v] = linked[v]
    BY <1>1 DEF Receive
  <2>2. \A i \in Jobs : IF i = j THEN advisory'[i] = w ELSE advisory'[i] = advisory[i]
    BY <1>1 DEF Receive
  <2>3. ASSUME NEW i \in Jobs PROVE rowE[i] # w /\ rowJ[i] # w /\ advisory[i] # w
    <3>1. w # None /\ w # Dispatcher /\ w \notin Retriers
      BY BacktestAssumption
    <3> HIDE DEF TypeInv
    <3> QED BY <2>1, <3>1
  <2>4. LocksHaveOwners'
    <3> SUFFICES ASSUME NEW i \in Jobs PROVE LocksHaveOwners!(i)'
      OBVIOUS
    <3>1. CASE i = j
      BY <2>1, <2>2, <2>3, <3>1, BacktestAssumption
    <3>2. CASE i # j /\ advisory[i] \in Workers
      BY <2>1, <2>2, <2>3, <3>2, BacktestAssumption
    <3>3. CASE i # j /\ advisory[i] \notin Workers
      BY <2>1, <2>2, <2>3, <3>3, BacktestAssumption
    <3> QED BY <3>1, <3>2, <3>3
  <2>5. Debited' /\ Beating'
    BY <2>1
  <2> QED BY <2>4, <2>5
<1>2. ASSUME NEW j \in Jobs, AlreadyOwned(w, j) PROVE LockInv'
  BY <1>2, BacktestAssumption DEF AlreadyOwned
<1>3. CASE ClaimRead(w)
  BY <1>3, BacktestAssumption DEF ClaimRead
<1>4. CASE ClaimLock(w)
  BY <1>4, BacktestAssumption DEF ClaimLock
<1>5. CASE ClaimTerminal(w)
  BY <1>5, BacktestAssumption DEF ClaimTerminal
<1>6. CASE ClaimRefuse(w)
  BY <1>6, BacktestAssumption DEF ClaimRefuse, OutOfAttempts
<1>7. CASE Claim(w)
  BY <1>7, BacktestAssumption DEF Claim, NextFence, OutOfAttempts
<1>8. CASE EarlyCommit(w)
  BY <1>8, BacktestAssumption DEF EarlyCommit
<1>9. CASE ReadLedger(w)
  BY <1>9, BacktestAssumption DEF ReadLedger, Remaining
<1>10. CASE Debit(w)
  BY <1>10, BacktestAssumption DEF Debit
<1>11. CASE Save(w)
  BY <1>11, BacktestAssumption DEF Save
<1>12. CASE Guard(w)
  BY <1>12, BacktestAssumption DEF Guard, MayFinalize, OwnsFence
<1>13. CASE GuardRefuses(w)
  BY <1>13, BacktestAssumption DEF GuardRefuses
<1>14. CASE Interrupted(w)
  BY <1>14, BacktestAssumption DEF Interrupted
<1>15. CASE DeadlockVictim(w)
  BY <1>15, BacktestAssumption DEF DeadlockVictim, Deadlocked
<1>16. CASE Commit(w)
  BY <1>16, BacktestAssumption DEF Commit
<1>17. CASE HandlerLock(w)
  BY <1>17, BacktestAssumption DEF HandlerLock
<1>18. CASE HandlerWrite(w)
  BY <1>18, BacktestAssumption DEF HandlerWrite, FailureStatus, IsCurrent
<1>19. CASE HandlerFenced(w)
  BY <1>19, BacktestAssumption DEF HandlerFenced, IsCurrent
<1>20. CASE Exit(w)
  BY <1>20, BacktestAssumption DEF Exit
<1>21. CASE ClaimAborted(w)
  BY <1>21, BacktestAssumption DEF ClaimAborted
<1>22. CASE CommitFails(w)
  BY <1>22, BacktestAssumption DEF CommitFails
<1>23. CASE HandlerFails(w)
  BY <1>23, BacktestAssumption DEF HandlerFails
<1>24. CASE HeartbeatFails(w)
  BY <1>24, BacktestAssumption DEF HeartbeatFails
<1>25. CASE LoseConnection(w)
  BY <1>25, BacktestAssumption DEF LoseConnection
<1>26. CASE Crash(w)
  BY <1>26, BacktestAssumption DEF Crash
<1>27. CASE Redeliver(w)
  BY <1>27, BacktestAssumption DEF Redeliver
<1>28. CASE Heartbeat(w)
  BY <1>28, BacktestAssumption DEF Heartbeat, OwnsFence
<1>29. ASSUME NEW kind \in {"transient", "permanent"}, Fail(w, kind) PROVE LockInv'
  BY <1>29, BacktestAssumption DEF Fail
<1> HIDE DEF TypeInv, LockInv
<1> QED BY <1>1, <1>2, <1>3, <1>4, <1>5, <1>6, <1>7, <1>8, <1>9, <1>10, <1>11, <1>12, <1>13, <1>14,
           <1>15, <1>16, <1>17, <1>18, <1>19, <1>20, <1>21, <1>22, <1>23, <1>24, <1>25, <1>26,
           <1>27, <1>28, <1>29 DEF WorkerStep, WorkerFault

LEMMA DispatcherLocks ==
    ASSUME TypeInv, TypeInv', HoldsRow, LockInv,
           DispatcherStep \/ RecoverFails
    PROVE  LockInv'
<1> USE DEF TypeInv, TypeOK, InHand, Statuses, Terminal, Times, Holders, Claiming,
            Claimed, Executing, Freed, EndTx, LockExecution, CanWriteJob, Forget,
            Goto, Raise, rowVars, bookVars, txVars, workerVars, dispVars, apiVars,
            LockInv, LocksHaveOwners, HoldsExecution, Debited, Beating
<1>1. CASE Scan
  BY <1>1, BacktestAssumption DEF Scan
<1>2. CASE ScanDone
  BY <1>2, BacktestAssumption DEF ScanDone, DispGoto
<1>3. CASE RecheckRead
  BY <1>3, BacktestAssumption DEF RecheckRead
<1>4. CASE RecheckLock
  BY <1>4, BacktestAssumption DEF RecheckLock, DispGoto
<1>5. CASE RecoverEnds
  BY <1>5, BacktestAssumption DEF RecoverEnds, OutOfAttempts, DispGoto
<1>6. CASE RecoverDecides
  BY <1>6, BacktestAssumption DEF RecoverDecides, DispGoto
<1>7. CASE RecoverPublish
  BY <1>7, BacktestAssumption DEF RecoverPublish, DispGoto
<1>8. CASE RecoverRecord
  BY <1>8, BacktestAssumption DEF RecoverRecord, DispGoto
<1>9. CASE Unlock
  BY <1>9, BacktestAssumption DEF Unlock
<1>10. CASE RecoverFails
  BY <1>10, BacktestAssumption DEF RecoverFails
<1>11. ASSUME NEW j \in Jobs, TryLock(j) PROVE LockInv'
  BY <1>11, BacktestAssumption DEF TryLock
<1> HIDE DEF TypeInv, LockInv
<1> QED BY <1>1, <1>2, <1>3, <1>4, <1>5, <1>6, <1>7, <1>8, <1>9, <1>10, <1>11 DEF DispatcherStep

LEMMA UserLocks ==
    ASSUME TypeInv, TypeInv', HoldsRow, LockInv,
           ApiStep \/ \E j \in Jobs : HeartbeatAges(j) \/ DispatchAges(j)
    PROVE  LockInv'
<1> USE DEF TypeInv, TypeOK, InHand, Statuses, Terminal, Times, Holders, Claiming,
            Claimed, Executing, Freed, EndTx, LockExecution, CanWriteJob, Forget,
            Goto, Raise, rowVars, bookVars, txVars, workerVars, dispVars, apiVars,
            LockInv, LocksHaveOwners, HoldsExecution, Debited, Beating
<1>1. ASSUME NEW j \in Jobs, Submit(j) PROVE LockInv'
  BY <1>1, BacktestAssumption DEF Submit
<1>2. ASSUME NEW j \in Jobs, SubmitPublish(j) PROVE LockInv'
  BY <1>2, BacktestAssumption DEF SubmitPublish
<1>3. ASSUME NEW j \in Jobs, SubmitRecord(j) PROVE LockInv'
  BY <1>3, BacktestAssumption DEF SubmitRecord
<1>4. ASSUME NEW j \in Jobs, SubmitFails(j) PROVE LockInv'
  BY <1>4, BacktestAssumption DEF SubmitFails
<1>5. ASSUME NEW j \in Jobs, RequestCancellation(j) PROVE LockInv'
  BY <1>5, BacktestAssumption DEF RequestCancellation
<1>6. ASSUME NEW j \in Jobs, HeartbeatAges(j) PROVE LockInv'
  BY <1>6, BacktestAssumption DEF HeartbeatAges
<1>7. ASSUME NEW j \in Jobs, DispatchAges(j) PROVE LockInv'
  BY <1>7, BacktestAssumption DEF DispatchAges
<1>8. ASSUME NEW r \in Retriers, RetryLock(r) PROVE LockInv'
  BY <1>8, BacktestAssumption DEF RetryLock
<1>9. ASSUME NEW r \in Retriers, RetryQueue(r) PROVE LockInv'
  BY <1>9, BacktestAssumption DEF RetryQueue, RetryEnds, OutOfAttempts
<1>10. ASSUME NEW r \in Retriers, RetryRefused(r) PROVE LockInv'
  BY <1>10, BacktestAssumption DEF RetryRefused, RetryEnds
<1>11. ASSUME NEW r \in Retriers, NEW j \in Jobs, RetryRead(r, j) PROVE LockInv'
  BY <1>11, BacktestAssumption DEF RetryRead
<1> HIDE DEF TypeInv, LockInv
<1> QED BY <1>1, <1>2, <1>3, <1>4, <1>5, <1>6, <1>7, <1>8, <1>9, <1>10, <1>11 DEF ApiStep

\* Who keeps somebody waiting has a transaction: over a job's execution row, or
\* an attempt that has saved or still computes.
LEMMA BlockerHolds ==
    ASSUME TypeInv, LocksHaveOwners, NEW p \in Holders, NEW q \in Holders, Blocks(q, p)
    PROVE  \/ \E j \in Jobs : rowE[j] = q /\ HoldsExecution(q, j)
           \/ q \in Workers /\ wallet = q /\ pc[q] \in {"computing", "guardWait", "guarded"}
<1>1. q # None
  BY DEF Blocks
<1>2. PICK j \in Jobs : q = rowE[j] \/ q = rowJ[j] \/ q = wallet
  BY DEF Blocks
<1>3. CASE q = rowE[j]
  BY <1>1, <1>2, <1>3 DEF LocksHaveOwners
<1>4. CASE q = rowJ[j] \/ q = wallet
  BY <1>1, <1>2, <1>4 DEF LocksHaveOwners, TypeInv, TypeOK
<1> QED BY <1>2, <1>3, <1>4

\* When it waits itself, it is for the other row of its job: the finalizing
\* attempt for the execution row, its holder for the attempt that has saved.
LEMMA BlockerWaits ==
    ASSUME TypeInv, HoldsRow, LocksHaveOwners, Debited,
           NEW p \in Holders, NEW q \in Holders, NEW r \in Holders, Blocks(q, p), Blocks(r, q)
    PROVE  \E j \in Jobs :
             \/ /\ rowE[j] = q /\ rowJ[j] = r /\ WritesJobNext(q, j)
                /\ r \in Workers /\ pc[r] = "guardWait" /\ at[r] = j
             \/ /\ q \in Workers /\ wallet = q /\ pc[q] = "guardWait" /\ at[q] = j
                /\ rowE[j] = r
<1> USE DEF TypeInv, TypeOK, Holders
<1>1. r # q /\ r # None
  BY DEF Blocks
<1>2. PICK j \in Jobs :
        \/ r = rowE[j] /\ NeedsExecution(q, j)
        \/ r = rowJ[j] /\ NeedsJob(q, j)
        \/ r = wallet /\ q \in Workers /\ pc[q] = "summed" /\ pend[q] > 0
  BY DEF Blocks
<1>3. CASE \E i \in Jobs : rowE[i] = q /\ HoldsExecution(q, i)
  \* It cannot wait for an execution row, only for the row of its job.
  <2>1. r = rowJ[j] /\ rowE[j] = q /\ WritesJobNext(q, j)
    BY <1>2, <1>3, BacktestAssumption DEF HoldsExecution, NeedsExecution, NeedsJob
  <2>2. r \in Workers /\ at[r] = j /\ pc[r] \in {"guardWait", "guarded"}
    BY <1>1, <2>1 DEF LocksHaveOwners
  <2>3. pc[r] # "guarded"
    BY <1>1, <2>1, <2>2 DEF HoldsRow
  <2> QED BY <2>1, <2>2, <2>3
<1>4. CASE q \in Workers /\ wallet = q /\ pc[q] \in {"computing", "guardWait", "guarded"}
  <2>1. CASE r = rowE[j] /\ NeedsExecution(q, j)
    BY <1>4, <2>1, BacktestAssumption DEF NeedsExecution
  <2>2. CASE r = rowJ[j] /\ NeedsJob(q, j)
    \* Who has the row of a job has the wallet, so nobody else computes.
    BY <1>1, <1>4, <2>2 DEF LocksHaveOwners
  <2> QED BY <1>2, <1>4, <2>1, <2>2
<1> QED BY <1>3, <1>4, BlockerHolds

LEMMA LocksEnd ==
    ASSUME TypeInv, HoldsRow, LocksHaveOwners, Debited
    PROVE  WaitsEnd
<1> SUFFICES ASSUME NEW p \in Holders, NEW q \in Holders, NEW r \in Holders, NEW s \in Holders,
                    Blocks(q, p), Blocks(r, q), Blocks(s, r)
             PROVE  s = q /\ \E w \in {q, r} \cap Workers : Deadlocked(w)
  BY DEF WaitsEnd
<1>0. q # None /\ r # None /\ s # None /\ r # q
  BY DEF Blocks
<1>1. PICK j \in Jobs :
        \/ /\ rowE[j] = q /\ rowJ[j] = r /\ WritesJobNext(q, j)
           /\ r \in Workers /\ pc[r] = "guardWait" /\ at[r] = j
        \/ q \in Workers /\ wallet = q /\ pc[q] = "guardWait" /\ at[q] = j /\ rowE[j] = r
  BY BlockerWaits
<1>2. PICK i \in Jobs :
        \/ /\ rowE[i] = r /\ rowJ[i] = s /\ WritesJobNext(r, i)
           /\ s \in Workers /\ pc[s] = "guardWait" /\ at[s] = i
        \/ r \in Workers /\ wallet = r /\ pc[r] = "guardWait" /\ at[r] = i /\ rowE[i] = s
  BY BlockerWaits
<1>3. CASE r \in Workers /\ pc[r] = "guardWait" /\ at[r] = j /\ rowE[j] = q /\ rowJ[j] = r
           /\ WritesJobNext(q, j)
  <2>1. rowE[i] # r
    BY <1>0, <1>3, BacktestAssumption DEF LocksHaveOwners, HoldsExecution
  <2>2. s = q
    BY <1>2, <1>3, <2>1
  <2>3. Deadlocked(r)
    BY <1>0, <1>3 DEF Deadlocked
  <2> QED BY <1>3, <2>2, <2>3
<1>4. CASE q \in Workers /\ wallet = q /\ pc[q] = "guardWait" /\ at[q] = j /\ rowE[j] = r
  \* The holder of the execution row waits for whoever saved, who has the wallet.
  <2>1. HoldsExecution(r, j)
    BY <1>0, <1>4 DEF LocksHaveOwners
  <2>2. /\ rowE[i] = r /\ rowJ[i] = s /\ WritesJobNext(r, i)
        /\ s \in Workers /\ at[s] = i
    BY <1>2, <2>1, BacktestAssumption DEF HoldsExecution
  <2>3. s = q /\ i = j
    BY <1>0, <1>4, <2>2 DEF LocksHaveOwners
  <2>4. Deadlocked(q)
    BY <1>0, <1>4, <2>2, <2>3 DEF Deadlocked
  <2> QED BY <1>4, <2>3, <2>4
<1> QED BY <1>1, <1>3, <1>4

-----------------------------------------------------------------------------
(* The theorems *)

LEMMA InvInit == Init => Inv
<1> SUFFICES ASSUME Init PROVE Inv
  OBVIOUS
<1>1. TypeInv
  BY InitType
<1>2. FenceInv
  BY DEF Init, FenceInv, HoldsRow, FencesGivenOut, OneCurrentOwner, GuardedIsCurrent, Claimed, Executing
<1>3. PayInv
  BY BacktestAssumption
     DEF Init, PayInv, SummaryIsRight, ChargedOnce, PaidIffSaved, AttemptsCounted, Executing
<1>4. CancelInv
  BY BacktestAssumption DEF Init, CancelInv, NotBegun, GuardedIsWanted
<1> QED BY <1>1, <1>2, <1>3, <1>4 DEF Inv

LEMMA InvStep == Inv /\ [Next]_vars => Inv'
<1> SUFFICES ASSUME Inv, [Next]_vars PROVE Inv'
  OBVIOUS
<1>1. TypeInv'
  BY TypeStep DEF Inv
<1>2. CASE UNCHANGED vars
  BY <1>1, <1>2
     DEF vars, rowVars, bookVars, txVars, workerVars, dispVars, apiVars, Inv,
         FenceInv, HoldsRow, FencesGivenOut, OneCurrentOwner, GuardedIsCurrent,
         PayInv, SummaryIsRight, ChargedOnce, PaidIffSaved, AttemptsCounted,
         CancelInv, NotBegun, GuardedIsWanted
<1>3. CASE Next
  <2>1. FenceInv'
    BY <1>1, <1>3, WorkerFence, DispatcherFence, UserFence DEF Next, Inv
  <2>2. PayInv'
    BY <1>1, <1>3, WorkerPay, DispatcherPay, UserPay DEF Next, Inv
  <2>3. CancelInv'
    BY <1>1, <1>3, WorkerCancel, DispatcherCancel, UserCancel DEF Next, Inv
  <2> QED BY <1>1, <2>1, <2>2, <2>3 DEF Inv
<1> QED BY <1>2, <1>3

\* The inductive invariant of jobs, claims, charges and cancellations.
THEOREM Invariance == Spec => []Inv
<1>1. Init => Inv
  BY InvInit
<1>2. Inv /\ [Next]_vars => Inv'
  BY InvStep
<1> QED BY <1>1, <1>2, PTL DEF Spec

\* Of the workers executing a job, live or stale, one has the current fence.
THEOREM Fencing == Spec => []OneCurrentOwner
<1>1. Inv => OneCurrentOwner
  BY DEF Inv, FenceInv
<1> QED BY <1>1, Invariance, PTL

\* A job is charged nothing or exactly its cost, whatever attempts die or run again.
THEOREM Charging == Spec => []ChargedOnce
<1>1. Inv => ChargedOnce
  BY DEF Inv, PayInv
<1> QED BY <1>1, Invariance, PTL

\* Credits and results are committed together: paid for means saved.
THEOREM Paying == Spec => []PaidIffSaved
<1>1. Inv => PaidIffSaved
  BY DEF Inv, PayInv
<1> QED BY <1>1, Invariance, PTL

\* No sequence of redelivery, recovery and retries exceeds the attempts, and
\* each attempt saves at most one result.
THEOREM Bounded == Spec => []AttemptsBounded
<1>1. Inv => AttemptsBounded
  BY BacktestAssumption DEF Inv, TypeInv, TypeOK, PayInv, AttemptsCounted, AttemptsBounded
<1> QED BY <1>1, Invariance, PTL

\* A recorded cancellation is never overtaken by a charge, a result or a retry.
THEOREM Cancelling == Spec => CancellationWins
<1>1. Inv /\ [Next]_vars => [CancellationStep]_vars
  <2> SUFFICES ASSUME Inv, Next PROVE CancellationStep
    OBVIOUS
  <2> QED BY WorkerCancellation, DispatcherCancellation, UserCancellation DEF Next, Inv
<1>2. Spec => [][CancellationStep]_vars
  BY <1>1, Invariance, PTL DEF Spec
<1> QED BY <1>2 DEF CancellationStep, CancellationWins

\* An attempt whose claim was superseded, by whatever redelivery or recovery,
\* writes nothing of a job any more, but may still show it as running.
THEOREM Superseded == Spec => StaleWritesOnlyRunning
<1>1. Inv /\ [Next]_vars => [StaleStep]_vars
  <2> SUFFICES ASSUME Inv, Next PROVE StaleStep
    OBVIOUS
  <2> QED BY WorkerStale, OthersMoveNone DEF Next, Inv, FenceInv
<1>2. Spec => [][StaleStep]_vars
  BY <1>1, Invariance, PTL DEF Spec
<1> QED BY <1>2 DEF StaleStep, StaleMoves, OnlyRunning, StaleWritesOnlyRunning

\* Durable execution implements the abstract service, for any sets of jobs,
\* workers and retries and any faults: with its claims, locks, fences and
\* handlers hidden, jobs are started, finished, cancelled and shown as
\* JobService says and in no other way.
THEOREM JobsImplement == Spec => JobServiceSpec
<1>1. Init => Service!Init /\ Submitted
  BY DEF Init, Service!Init, Submitted
<1>2. Inv /\ Submitted /\ [Next]_vars => Submitted' /\ [Service!Next]_(Service!jobVars)
  BY NextService DEF ServiceStep
<1> QED BY <1>1, <1>2, Invariance, PTL DEF Spec, JobServiceSpec, Service!Spec

LEMMA LockInvariance == Spec => []LockInv
<1>1. Init => LockInv
  BY BacktestAssumption
     DEF Init, LockInv, LocksHaveOwners, Debited, Beating, Claimed, Executing
<1>2. Inv /\ LockInv /\ [Next]_vars => LockInv'
  <2> SUFFICES ASSUME Inv, LockInv, [Next]_vars PROVE LockInv'
    OBVIOUS
  <2>1. TypeInv /\ TypeInv' /\ HoldsRow
    BY TypeStep DEF Inv, FenceInv
  <2>2. CASE UNCHANGED vars
    BY <2>2 DEF vars, rowVars, txVars, workerVars, dispVars, apiVars, LockInv, LocksHaveOwners,
                HoldsExecution, Debited, Beating
  <2> QED BY <2>1, <2>2, WorkerLocks, DispatcherLocks, UserLocks DEF Next
<1> QED BY <1>1, <1>2, Invariance, PTL DEF Spec

\* No lock is left behind, by whatever crash, lost connection or failed handler,
\* and although finalization takes the two rows of a job in the other order than
\* the claim, the dispatcher and the retry do, only the pair that PostgreSQL
\* breaks waits for each other (backtests.py:2764, backtest_jobs.py).
THEOREM Releasing == Spec => []WaitsEnd
<1>1. Inv /\ LockInv => WaitsEnd
  BY LocksEnd DEF Inv, FenceInv, LockInv
<1> QED BY <1>1, Invariance, LockInvariance, PTL

\* recover_jobs can find every job that a dead worker left running: its advisory
\* lock is free and, once its times are old, the scan's clause holds of it.
THEOREM Recovering == Spec => []OrphansAreFound
<1>1. Inv /\ LockInv => OrphansAreFound
  <2> SUFFICES ASSUME Inv, LockInv, NEW j \in Jobs, status[j] = "running",
                      \A w \in Workers : at[w] # j, djob # j
               PROVE  advisory[j] = None /\ Recoverable(status[j], Aged(sent[j]), Aged(hb[j]))
    BY DEF OrphansAreFound
  <2>1. advisory[j] = None
    BY DEF LockInv, LocksHaveOwners
  <2>2. hb[j] \in {"fresh", "old"} /\ sent[j] \in {"null", "fresh", "old"}
    BY DEF Inv, TypeInv, TypeOK, Times, LockInv, Beating
  <2> QED BY <2>1, <2>2 DEF Recoverable, Aged
<1> QED BY <1>1, Invariance, LockInvariance, PTL
=============================================================================
