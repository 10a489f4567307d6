----------------------------- MODULE CandleRuns -----------------------------
(***************************************************************************)
(* The evaluation of closed candles of one deployment: the market worker   *)
(* stores a candle and publishes it (live_market_worker.py), the strategy  *)
(* workers take the message (live_strategy_worker.py), the scheduler       *)
(* dispatches deployments of the other brokers (auto_runner_service.py,    *)
(* candle_catchup.py) and a user runs the strategy once.  All of them call *)
(* run_strategy_for_deployment (strategy_runner.py): one transaction with  *)
(* an advisory lock, except that what a run does at the broker, or a       *)
(* refresh of candles, commits in its middle.                              *)
(***************************************************************************)
EXTENDS Integers

CONSTANTS
    StreamWorkers,  \* strategy worker processes; one run each (asyncio lock)
    Scheduler,      \* the scan of the auto runner, one at a time
    OnceCalls,      \* calls of POST /run-strategy-once
    NoRunner,
    Sides,          \* of an entry: BUY, SELL
    MaxCandle       \* bound: candles 1..MaxCandle of the timeframe

EngineRunners == StreamWorkers \cup {Scheduler} \cup OnceCalls
Candles == 1..MaxCandle
EntryOf == Candles \X Sides   \* what uq_live_engine_signal_once_per_candle keys
NoCandle == 0      \* as a cursor: one before these was processed
Null == -1         \* no candle was ever processed
Cursors == {Null, NoCandle} \cup Candles

ASSUME CandleAssumption ==
    /\ NoRunner \notin EngineRunners
    /\ Scheduler \notin StreamWorkers \cup OnceCalls /\ StreamWorkers \cap OnceCalls = {}
    /\ Sides \subseteq {"BUY", "SELL"}
    /\ MaxCandle \in Nat

\* How an entry reaches the broker.  GATEWAY: a cTrader request with a key made
\* from the candle, sent once per key whoever repeats it.  DIRECT: the order is
\* sent by the run itself, which commits before: TradeLocker's PENDING row, or
\* the broker synchronisation of Upstox and MT5.
Routes == {"GATEWAY", "DIRECT"}

VARIABLES
    route,       \* of the deployment's account
    sequential,  \* the scheduler catches up in candle order
    active,      \* RUNNING with the auto runner on
    stored,      \* closed candles in live_market_candles
    publishing,  \* the candle the market worker has committed and not published
    messages,    \* candles with an event the group has not acknowledged
    cursor,      \* last_processed_candle_time
    runnerLock,  \* the deployment's advisory lock
    signals,     \* committed ENGINE rows of live_signals
    engineRun,   \* where each runner is, with what it has loaded
    placed,      \* history: entries handed to the broker
    evaluated    \* history: candles the strategy answered for

feedVars   == <<stored, publishing>>
candleHistory == <<placed, evaluated>>
candleVars == <<route, sequential, active, feedVars, messages, cursor, runnerLock,
                signals, engineRun, candleHistory>>

Answered == Sides \cup {"HOLD"}
Places == {"idle", "taken", "loaded", "refused", "refreshing", "open", "answered",
           "placing", "ready", "sent", "marking", "closing"}
RunRecords == [pc : Places, candle : Candles \cup {NoCandle}, base : Cursors,
               answer : Answered \cup {"none", "held", "stopped"}, quiet : BOOLEAN]
IdleRun == [pc |-> "idle", candle |-> NoCandle, base |-> Null, answer |-> "none", quiet |-> FALSE]

CandleTypeOK ==
    /\ route \in Routes /\ sequential \in BOOLEAN /\ active \in BOOLEAN
    /\ stored \subseteq Candles
    /\ publishing \in Candles \cup {NoCandle} /\ cursor \in Cursors
    /\ messages \subseteq Candles
    /\ runnerLock \in EngineRunners \cup {NoRunner}
    /\ signals \subseteq EntryOf
    /\ engineRun \in [EngineRunners -> RunRecords]
    /\ placed \in [EntryOf -> Nat]
    /\ evaluated \subseteq Candles

CandleInit ==
    /\ route \in Routes /\ sequential \in BOOLEAN /\ (route = "GATEWAY" => ~sequential)
    /\ active = TRUE
    /\ stored = {} /\ publishing = NoCandle
    /\ messages = {}
    /\ cursor \in {Null, NoCandle} /\ (~sequential => cursor = Null)   \* else they are alike
    /\ runnerLock = NoRunner /\ signals = {}
    /\ engineRun = [p \in EngineRunners |-> IdleRun]
    /\ placed = [e \in EntryOf |-> 0] /\ evaluated = {}

\* The newest candle, in a set that is empty while none is stored.
Newest == {c \in stored : \A d \in stored : d <= c}

-----------------------------------------------------------------------------
(* Candles *)

\* The market worker inserts or overwrites the row with what it read of the
\* cursor; a backfill after a reconnect brings a candle again.
FeedCandle(c) ==
    /\ route = "GATEWAY" /\ active /\ publishing = NoCandle
    /\ stored' = stored \cup {c}
    /\ publishing' = IF cursor >= c THEN NoCandle ELSE c
    /\ UNCHANGED <<route, sequential, active, messages, cursor, runnerLock, signals,
                   engineRun, candleHistory>>

\* It publishes afterwards, unless it has died.
PublishCandle ==
    /\ publishing # NoCandle /\ publishing' = NoCandle
    /\ messages' \in {messages, messages \cup {publishing}}
    /\ UNCHANGED <<route, sequential, active, stored, cursor, runnerLock,
                   signals, engineRun, candleHistory>>

\* refresh_deployment_candles, from the scheduler, a call or the TradeLocker
\* candle worker, stores a candle without a message.  (One that is there is
\* overwritten, which changes nothing here.)
RefreshCandle(c) ==
    /\ c \notin stored
    /\ stored' = stored \cup {c}
    /\ UNCHANGED <<route, sequential, active, publishing, messages, cursor, runnerLock,
                   signals, engineRun, candleHistory>>

\* The owner stops or pauses the deployment or switches the auto runner off ...
Deactivate ==
    /\ active /\ active' = FALSE
    /\ UNCHANGED <<route, sequential, feedVars, messages, cursor, runnerLock, signals,
                   engineRun, candleHistory>>

\* ... and starts it or switches it on again; the cursor stays where it was.
Activate ==
    /\ ~active /\ active' = TRUE
    /\ UNCHANGED <<route, sequential, feedVars, messages, cursor, runnerLock, signals,
                   engineRun, candleHistory>>

-----------------------------------------------------------------------------
(* Starting a run *)

Move(p, place) == engineRun' = [engineRun EXCEPT ![p].pc = place]
Unlocked(p) == IF runnerLock = p THEN NoRunner ELSE runnerLock
Later(p) == IF engineRun[p].candle > engineRun[p].base THEN engineRun[p].candle
                                                       ELSE engineRun[p].base
\* A run that has returned; its caller closes it.
ToClose(p, how) ==
    engineRun' = [engineRun EXCEPT ![p] =
        [IdleRun EXCEPT !.pc = "closing", !.candle = engineRun[p].candle, !.answer = how,
                        !.base = IF p = Scheduler THEN Later(p) ELSE Null]]
EndRun(p) == engineRun' = [engineRun EXCEPT ![p] = IdleRun] /\ runnerLock' = Unlocked(p)

\* Faulty variant: the candle after the cursor is taken for a processed one.
BadProcessed(c) == cursor + 1 >= c

\* The durable cursor says that the candle, or a later one, is done.
Processed(c) == cursor >= c

\* A worker reads a message, or reclaims one that another is slow with, and
\* looks at the deployment, once: what it reads here decides, also when the
\* owner starts the deployment again before the message is acknowledged.
TakeMessage(p, c) ==
    /\ p \in StreamWorkers /\ engineRun[p].pc = "idle" /\ c \in messages
    /\ engineRun' = [engineRun EXCEPT ![p] =
            [IdleRun EXCEPT !.candle = c,
                            !.pc = IF active /\ ~Processed(c) THEN "taken" ELSE "closing",
                            !.answer = IF active THEN "none" ELSE "stopped"]]
    /\ UNCHANGED <<route, sequential, active, feedVars, messages, cursor, runnerLock,
                   signals, candleHistory>>

\* The runner loads the deployment row.  It refuses one that is not RUNNING; an
\* auto runner switched off does not stop it.
LoadDeployment(p) ==
    /\ engineRun[p].pc = "taken"
    /\ \E place \in IF active THEN {"loaded"} ELSE {"loaded", "refused"} :
            engineRun' = [engineRun EXCEPT ![p].pc = place, ![p].base = cursor]
    /\ UNCHANGED <<route, sequential, active, feedVars, messages, cursor, runnerLock,
                   signals, candleHistory>>

\* plan_recovery: the candle after the cursor when it is stored, without an order
\* if it is not the newest; a gap is waited for.
NextToRun ==
    IF sequential /\ cursor # Null
    THEN {[candle |-> c, quiet |-> c \notin Newest] : c \in stored \cap {cursor + 1}}
    ELSE {[candle |-> c, quiet |-> FALSE] : c \in {c \in Newest : c > cursor}}

\* The scheduler keeps the row it read here for the whole run.
DispatchCandle(p) ==
    /\ p = Scheduler /\ route # "GATEWAY" /\ engineRun[p].pc = "idle"
    /\ active
    /\ \E next \in NextToRun :
            engineRun' = [engineRun EXCEPT ![p] =
                [IdleRun EXCEPT !.pc = "loaded", !.base = cursor,
                                !.candle = next.candle, !.quiet = next.quiet]]
    /\ UNCHANGED <<route, sequential, active, feedVars, messages, cursor, runnerLock,
                   signals, candleHistory>>

\* A call runs the newest candle there is when it gets to it.
RunOnce(p) ==
    /\ p \in OnceCalls /\ engineRun[p].pc = "idle"
    /\ \E place \in IF active THEN {"loaded"} ELSE {"loaded", "refused"} :
            engineRun' = [engineRun EXCEPT ![p] = [IdleRun EXCEPT !.pc = place, !.base = cursor]]
    /\ UNCHANGED <<route, sequential, active, feedVars, messages, cursor, runnerLock,
                   signals, candleHistory>>

\* LOCK_SKIPPED: the message stays pending, the scheduler will try again.
BadSkipped(p) == Move(p, "closing") /\ UNCHANGED runnerLock
Skipped(p) == EndRun(p)

LockDeployment(p) ==
    /\ engineRun[p].pc \in {"loaded", "refused"}
    /\ \/ runnerLock # NoRunner /\ Skipped(p)
       \/ runnerLock = NoRunner /\ engineRun[p].pc = "refused" /\ UNCHANGED runnerLock
            /\ ToClose(p, "stopped")
       \/ runnerLock = NoRunner /\ engineRun[p].pc = "loaded" /\ runnerLock' = p
            /\ Move(p, IF p \in OnceCalls THEN "refreshing" ELSE "open")
    /\ UNCHANGED <<route, sequential, active, feedVars, messages, cursor, signals,
                   candleHistory>>

-----------------------------------------------------------------------------
(* The evaluation *)

\* The refresh of a call commits: the advisory lock ends with the transaction.
\* One that fails early commits nothing.
CommitRefresh(p) ==
    /\ engineRun[p].pc = "refreshing" /\ Move(p, "open")
    /\ runnerLock' \in {runnerLock, NoRunner}
    /\ UNCHANGED <<route, sequential, active, feedVars, messages, cursor, signals,
                   candleHistory>>

Targeted(p) == IF p \in OnceCalls THEN Newest ELSE {engineRun[p].candle}

\* The strategy answers for the candle from the stored history.  A second
\* evaluation may answer otherwise: bars are corrected, parameters edited.
Answer(p) ==
    /\ engineRun[p].pc = "open"
    /\ \E c \in Targeted(p) :
        /\ \E answer \in Answered :
                engineRun' = [engineRun EXCEPT ![p].pc = "answered", ![p].candle = c,
                                               ![p].answer = answer]
        /\ evaluated' = evaluated \cup {c}
    /\ UNCHANGED <<route, sequential, active, feedVars, messages, cursor, runnerLock,
                   signals, placed>>

\* The history is too short, the retained instance failed and a cold calculation
\* is left to the "next scheduler cycle", or the output is no data frame: a
\* worker acknowledges the message all the same.
GiveUp(p) ==
    /\ engineRun[p].pc = "open"
    /\ IF p \in StreamWorkers THEN ToClose(p, "held") /\ runnerLock' = Unlocked(p)
                              ELSE EndRun(p)
    /\ UNCHANGED <<route, sequential, active, feedVars, messages, cursor, signals, candleHistory>>

\* _mark_candle_processed compares with the cursor the run has loaded.
Marked(p) == IF engineRun[p].candle > engineRun[p].base THEN engineRun[p].candle ELSE cursor

\* The commit of a run that is through.
CommitRun(p) ==
    /\ cursor' = Marked(p)
    /\ IF p \in OnceCalls THEN EndRun(p)
                          ELSE ToClose(p, "none") /\ runnerLock' = Unlocked(p)

\* The row it has loaded is read again before it is used.
MoveOn(p, place) == engineRun' = [engineRun EXCEPT ![p].pc = place, ![p].base = Null]

\* From its first flush to its commit a run holds the deployment's row: others
\* wait where they write it.
Entry(p) == <<engineRun[p].candle, engineRun[p].answer>>
Uncommitted(p) == \/ engineRun[p].pc = "placing"
                  \/ engineRun[p].pc \in {"sent", "marking"} /\ Entry(p) \notin signals
RowIsFree(p) == \A q \in EngineRunners \ {p} : ~Uncommitted(q)

\* A HOLD, a signal that is there already or a candle that is too old by now.
PassOver(p) ==
    /\ engineRun[p].pc = "answered" /\ RowIsFree(p)
    /\ CommitRun(p)
    /\ UNCHANGED <<route, sequential, active, feedVars, messages, signals,
                   candleHistory>>

\* Only the signal is kept: catch-up, monitor mode or auto trade off.
BadIsNew(p) == engineRun[p].answer \in Sides
IsNew(p) == engineRun[p].answer \in Sides /\ Entry(p) \notin signals

KeepSignal(p) ==
    /\ engineRun[p].pc = "answered" /\ RowIsFree(p) /\ IsNew(p)
    /\ signals' = signals \cup {Entry(p)}
    /\ CommitRun(p)
    /\ UNCHANGED <<route, sequential, active, feedVars, messages, candleHistory>>

\* The signal is inserted under the unique index and executed.
InsertSignal(p) ==
    /\ engineRun[p].pc = "answered" /\ RowIsFree(p) /\ IsNew(p)
    /\ ~engineRun[p].quiet
    /\ MoveOn(p, "placing")
    /\ UNCHANGED <<route, sequential, active, feedVars, messages, cursor, runnerLock,
                   signals, candleHistory>>

-----------------------------------------------------------------------------
(* execute_signal *)

\* What precedes the order: _reserve_entry or the broker synchronisation commits
\* the signal, and with it the lock is gone; a cTrader run commits nothing.
BadCommits(p) == UNCHANGED <<signals, runnerLock>>
Commits(p) ==
    IF route = "GATEWAY" THEN UNCHANGED <<signals, runnerLock>>
    ELSE signals' = signals \cup {Entry(p)} /\ runnerLock' = Unlocked(p)

Prepare(p) ==
    /\ engineRun[p].pc = "placing" /\ route # "GATEWAY"
    /\ Commits(p) /\ MoveOn(p, "ready")
    /\ UNCHANGED <<route, sequential, active, feedVars, messages, cursor, candleHistory>>

\* The order goes out; the gateway sends a key once.
SendEntry(p) ==
    /\ engineRun[p].pc = IF route = "GATEWAY" THEN "placing" ELSE "ready"
    /\ placed' = [placed EXCEPT ![Entry(p)] = IF route = "GATEWAY" THEN 1 ELSE @ + 1]
    /\ MoveOn(p, "sent")
    /\ UNCHANGED <<route, sequential, active, feedVars, messages, cursor, runnerLock,
                   signals, evaluated>>

\* A safety gate, the risk rules or the broker's state reject the signal.
RejectEntry(p) ==
    /\ engineRun[p].pc \in {"placing", "ready"} /\ MoveOn(p, "sent")
    /\ UNCHANGED <<route, sequential, active, feedVars, messages, cursor, runnerLock,
                   signals, candleHistory>>

\* With copy accounts the primary's result is committed before the fan-out.
CommitPrimary(p) ==
    /\ engineRun[p].pc = "sent" /\ Entry(p) \notin signals
    /\ signals' = signals \cup {Entry(p)} /\ runnerLock' = Unlocked(p)
    /\ UNCHANGED <<route, sequential, active, feedVars, messages, cursor, engineRun,
                   candleHistory>>

\* The deployment is read again ...
RefreshRow(p) ==
    /\ engineRun[p].pc = "sent"
    /\ engineRun' = [engineRun EXCEPT ![p].pc = "marking", ![p].base = cursor]
    /\ UNCHANGED <<route, sequential, active, feedVars, messages, cursor, runnerLock,
                   signals, candleHistory>>

\* ... and the rest committed with the cursor.
FinishRun(p) ==
    /\ engineRun[p].pc = "marking" /\ RowIsFree(p)
    /\ signals' = signals \cup {Entry(p)}
    /\ CommitRun(p)
    /\ UNCHANGED <<route, sequential, active, feedVars, messages, candleHistory>>

\* A worker acknowledges the message, the scheduler writes the candle it ran
\* over whatever cursor its copy of the row has.
CloseRun(p) ==
    /\ engineRun[p].pc = "closing" /\ EndRun(p)
    /\ LET c == engineRun[p].candle IN
        /\ messages' = IF p \in StreamWorkers THEN messages \ {c} ELSE messages
        /\ cursor' = IF p = Scheduler /\ engineRun[p].base # c THEN c ELSE cursor
    /\ UNCHANGED <<route, sequential, active, feedVars, signals, candleHistory>>

\* An exception rolls back, a process dies: what is not committed is gone and
\* the message is still pending.
AbortRun(p) ==
    /\ engineRun[p].pc # "idle" /\ EndRun(p)
    /\ UNCHANGED <<route, sequential, active, feedVars, messages, cursor, signals,
                   candleHistory>>

CandleNext ==
    \/ \E c \in Candles : FeedCandle(c) \/ RefreshCandle(c)
    \/ PublishCandle \/ Deactivate \/ Activate
    \/ \E p \in EngineRunners :
        \/ \E c \in Candles : TakeMessage(p, c)
        \/ LoadDeployment(p) \/ DispatchCandle(p) \/ RunOnce(p) \/ LockDeployment(p)
        \/ CommitRefresh(p) \/ Answer(p) \/ GiveUp(p) \/ PassOver(p) \/ KeepSignal(p)
        \/ InsertSignal(p) \/ Prepare(p) \/ SendEntry(p) \/ RejectEntry(p)
        \/ CommitPrimary(p) \/ RefreshRow(p) \/ FinishRun(p) \/ CloseRun(p) \/ AbortRun(p)

CandleSpec == CandleInit /\ [][CandleNext]_candleVars

-----------------------------------------------------------------------------
(* Properties *)

\* One candle sends one entry per side, whatever the route: a message processed
\* twice, two workers, a call whose refresh gave the lock away, a cursor that
\* went back, a crash between the order and its commit.
EntryPlacedOnce == \A e \in EntryOf : placed[e] <= 1

\* "Commit intent BEFORE external I/O": an entry that may be at the broker is
\* recorded whatever dies afterwards, except a cTrader entry, which is recorded
\* with the rest of its run.
PlacedIsRecorded == route # "GATEWAY" => \A e \in EntryOf : placed[e] > 0 => e \in signals

\* The cursor stands on a candle the strategy has answered for: no run that
\* another one kept out, and no run that was given up, consumes a candle.
CursorWasEvaluated == cursor \in evaluated \cup {Null, NoCandle}

\* A message is acknowledged only when its candle, or a later one, was answered
\* for, by a worker that read the deployment as stopped, or with one of the HOLDs
\* that are acknowledged. What the deployment is by then settles nothing: one
\* that was stopped after the worker looked excuses no lost candle.
AckedIsSettled ==
    [][\A c \in messages \ messages' :
          \/ \E d \in evaluated : d >= c
          \/ \E p \in StreamWorkers :
                /\ engineRun[p].candle = c
                /\ engineRun[p].answer \in {"held", "stopped"}]_candleVars
=============================================================================
