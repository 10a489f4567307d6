-------------------------- MODULE CandleRuns_proofs --------------------------
(***************************************************************************)
(* Proofs about CandleRuns, for any number of workers, calls and candles.  *)
(*                                                                         *)
(* The entries (OrderInv): the deployment's row is held by at most one run *)
(* with an uncommitted signal (Exclusive), so that no signal a run is      *)
(* placing is committed by another.  Where a run has committed its signal  *)
(* before the order (pc "ready") the entry has not been sent and no second *)
(* run is there with it.  The candles (CursorInv): a run that marks its    *)
(* candle has an answer for it, and a worker that is about to acknowledge  *)
(* has a reason.                                                           *)
(***************************************************************************)
EXTENDS CandleRuns, TLAPS

\* One run at a time holds the deployment's row.
Exclusive == \A p, q \in EngineRunners : Uncommitted(p) /\ Uncommitted(q) => p = q

\* What a run that executes a signal knows of its entry.
Executes(p) ==
    /\ engineRun[p].pc = "placing" => Entry(p) \in EntryOf /\ Entry(p) \notin signals
    /\ engineRun[p].pc = "ready" => /\ Entry(p) \in EntryOf /\ Entry(p) \in signals
                                    /\ route # "GATEWAY" /\ placed[Entry(p)] = 0
    /\ engineRun[p].pc \in {"sent", "marking"} => Entry(p) \in EntryOf

OneReady ==
    \A p, q \in EngineRunners :
        engineRun[p].pc = "ready" /\ engineRun[q].pc = "ready" /\ Entry(p) = Entry(q) => p = q

OrderInv ==
    /\ Exclusive /\ OneReady /\ \A p \in EngineRunners : Executes(p)
    /\ EntryPlacedOnce /\ PlacedIsRecorded

\* A worker may acknowledge the candle of its message.
Settled(p) ==
    \/ \E d \in evaluated : d >= engineRun[p].candle
    \/ engineRun[p].answer \in {"held", "stopped"}

Follows(p) ==
    /\ engineRun[p].pc \in {"taken", "loaded", "open"} /\ p \notin OnceCalls =>
           engineRun[p].candle \in Candles
    /\ engineRun[p].pc \in {"answered", "placing", "ready", "sent", "marking"} =>
           engineRun[p].candle \in evaluated
    /\ engineRun[p].pc = "refreshing" => p \in OnceCalls
    /\ p = Scheduler => /\ engineRun[p].pc \notin {"taken", "refused", "refreshing"}
                        /\ engineRun[p].pc = "closing" => engineRun[p].candle \in evaluated
    /\ p \in StreamWorkers /\ engineRun[p].pc = "closing" => Settled(p)

CursorInv == CursorWasEvaluated /\ \A p \in EngineRunners : Follows(p)

Inv == CandleTypeOK /\ OrderInv /\ CursorInv

RunStep(p) ==
    \/ \E c \in Candles : TakeMessage(p, c)
    \/ LoadDeployment(p) \/ DispatchCandle(p) \/ RunOnce(p) \/ LockDeployment(p)
    \/ CommitRefresh(p) \/ Answer(p) \/ GiveUp(p) \/ PassOver(p) \/ KeepSignal(p)
    \/ InsertSignal(p) \/ Prepare(p) \/ SendEntry(p) \/ RejectEntry(p)
    \/ CommitPrimary(p) \/ RefreshRow(p) \/ FinishRun(p) \/ CloseRun(p) \/ AbortRun(p)

-----------------------------------------------------------------------------
(* Types *)

\* The records a runner can have.
LEMMA RunRecordTypes ==
    ASSUME CandleTypeOK, NEW p \in EngineRunners
    PROVE  /\ engineRun[p] \in RunRecords /\ IdleRun \in RunRecords
           /\ Later(p) \in Cursors /\ Marked(p) \in Cursors
           /\ Unlocked(p) \in EngineRunners \cup {NoRunner}
  BY CandleAssumption DEF CandleTypeOK, RunRecords, IdleRun, Later, Marked, Unlocked, Places,
     Answered, Cursors, NoCandle, Null

\* An entry in execution is a candle with a side.
LEMMA EntryTypes ==
    ASSUME CandleTypeOK, NEW p \in EngineRunners, Executes(p), Follows(p)
    PROVE  /\ engineRun[p].pc = "answered" /\ IsNew(p) => Entry(p) \in EntryOf
           /\ engineRun[p].pc \in {"placing", "ready", "sent", "marking"} => Entry(p) \in EntryOf
  BY RunRecordTypes DEF Executes, Follows, IsNew, Entry, EntryOf, CandleTypeOK

LEMMA EndRunTypes ==
    ASSUME CandleTypeOK, NEW p \in EngineRunners, EndRun(p)
    PROVE  engineRun' \in [EngineRunners -> RunRecords] /\ runnerLock' \in EngineRunners \cup {NoRunner}
  BY RunRecordTypes DEF CandleTypeOK, EndRun

LEMMA MoveTypes ==
    ASSUME CandleTypeOK, NEW p \in EngineRunners, NEW place \in Places,
           Move(p, place) \/ MoveOn(p, place)
    PROVE  engineRun' \in [EngineRunners -> RunRecords]
  BY RunRecordTypes DEF CandleTypeOK, Move, MoveOn, RunRecords, Cursors, Null

LEMMA ToCloseTypes ==
    ASSUME CandleTypeOK, NEW p \in EngineRunners, NEW how \in {"none", "held", "stopped"}, ToClose(p, how)
    PROVE  engineRun' \in [EngineRunners -> RunRecords]
  <1>1. [IdleRun EXCEPT !.pc = "closing", !.candle = engineRun[p].candle, !.answer = how,
             !.base = IF p = Scheduler THEN Later(p) ELSE Null] \in RunRecords
    BY RunRecordTypes DEF RunRecords, IdleRun, Places, Cursors, Null
  <1> QED BY <1>1 DEF CandleTypeOK, ToClose

LEMMA CommitRunTypes ==
    ASSUME CandleTypeOK, NEW p \in EngineRunners, CommitRun(p)
    PROVE  /\ engineRun' \in [EngineRunners -> RunRecords]
           /\ runnerLock' \in EngineRunners \cup {NoRunner} /\ cursor' \in Cursors
  BY RunRecordTypes, EndRunTypes, ToCloseTypes DEF CommitRun

\* Each step of a run keeps the types.
LEMMA RunStepTypes ==
    ASSUME CandleTypeOK, NEW p \in EngineRunners, Executes(p), Follows(p), RunStep(p)
    PROVE  CandleTypeOK'
  <1> USE RunRecordTypes
  <1>1. ASSUME NEW c \in Candles, TakeMessage(p, c) PROVE CandleTypeOK'
    <2>1. [IdleRun EXCEPT !.candle = c,
                          !.pc = IF active /\ ~Processed(c) THEN "taken" ELSE "closing",
                          !.answer = IF active THEN "none" ELSE "stopped"] \in RunRecords
      BY DEF RunRecords, IdleRun, Places
    <2> QED BY <1>1, <2>1 DEF TakeMessage, CandleTypeOK, feedVars, candleHistory
  <1>2. CASE LoadDeployment(p)
    <2>1. \A place \in {"loaded", "refused"} :
              [engineRun[p] EXCEPT !.pc = place, !.base = cursor] \in RunRecords
      BY DEF RunRecords, Places, CandleTypeOK
    <2> QED BY <1>2, <2>1 DEF LoadDeployment, CandleTypeOK, feedVars, candleHistory
  <1>3. CASE DispatchCandle(p)
    <2>1. PICK next \in NextToRun :
              engineRun' = [engineRun EXCEPT ![p] = [IdleRun EXCEPT !.pc = "loaded",
                  !.base = cursor, !.candle = next.candle, !.quiet = next.quiet]]
      BY <1>3 DEF DispatchCandle
    <2>2. next.candle \in Candles /\ next.quiet \in BOOLEAN
      <3>1. CASE sequential /\ cursor # Null
        <4>1. PICK c \in stored : next = [candle |-> c, quiet |-> c \notin Newest]
          BY <3>1 DEF NextToRun
        <4>2. (c \notin Newest) \in BOOLEAN
          OBVIOUS
        <4> QED BY <4>1, <4>2, Zenon DEF CandleTypeOK
      <3>2. CASE ~(sequential /\ cursor # Null)
        <4>1. PICK c \in stored : next = [candle |-> c, quiet |-> FALSE]
          BY <3>2 DEF NextToRun, Newest
        <4> QED BY <4>1 DEF CandleTypeOK
      <3> QED BY <3>1, <3>2
    <2>3. [IdleRun EXCEPT !.pc = "loaded", !.base = cursor, !.candle = next.candle,
              !.quiet = next.quiet] \in RunRecords
      BY <2>2 DEF RunRecords, IdleRun, Places, CandleTypeOK
    <2> QED BY <1>3, <2>1, <2>3 DEF DispatchCandle, CandleTypeOK, feedVars, candleHistory
  <1>4. CASE RunOnce(p)
    <2>1. \A place \in {"loaded", "refused"} :
              [IdleRun EXCEPT !.pc = place, !.base = cursor] \in RunRecords
      BY DEF RunRecords, IdleRun, Places, CandleTypeOK
    <2> QED BY <1>4, <2>1 DEF RunOnce, CandleTypeOK, feedVars, candleHistory
  <1>5. CASE LockDeployment(p)
    BY <1>5, EndRunTypes, MoveTypes, ToCloseTypes
       DEF LockDeployment, Skipped, CandleTypeOK, feedVars, candleHistory, Places
  <1>6. CASE CommitRefresh(p)
    BY <1>6, MoveTypes DEF CommitRefresh, CandleTypeOK, feedVars, candleHistory, Places
  <1>7. CASE Answer(p)
    <2>1. PICK c \in Targeted(p), answer \in Answered :
              /\ engineRun' = [engineRun EXCEPT ![p].pc = "answered", ![p].candle = c,
                                               ![p].answer = answer]
              /\ evaluated' = evaluated \cup {c}
      BY <1>7 DEF Answer
    <2>2. c \in Candles
      BY <1>7 DEF Answer, Targeted, Newest, CandleTypeOK, Follows
    <2>3. [engineRun[p] EXCEPT !.pc = "answered", !.candle = c, !.answer = answer] \in RunRecords
      BY <2>2 DEF RunRecords, Places
    <2> QED BY <1>7, <2>1, <2>2, <2>3 DEF Answer, CandleTypeOK, feedVars
  <1>8. CASE GiveUp(p)
    BY <1>8, EndRunTypes, ToCloseTypes DEF GiveUp, CandleTypeOK, feedVars, candleHistory
  <1>9. CASE PassOver(p)
    BY <1>9, CommitRunTypes DEF PassOver, CandleTypeOK, feedVars, candleHistory
  <1>10. CASE KeepSignal(p)
    BY <1>10, CommitRunTypes, EntryTypes DEF KeepSignal, CandleTypeOK, feedVars, candleHistory
  <1>11. CASE InsertSignal(p)
    BY <1>11, MoveTypes DEF InsertSignal, CandleTypeOK, feedVars, candleHistory, Places
  <1>12. CASE Prepare(p)
    BY <1>12, MoveTypes, EntryTypes DEF Prepare, Commits, CandleTypeOK, feedVars, candleHistory, Places
  <1>13. CASE SendEntry(p)
    <2>1. engineRun' \in [EngineRunners -> RunRecords]
      BY <1>13, MoveTypes DEF SendEntry, Places
    <2>2. placed' \in [EntryOf -> Nat]
      BY <1>13, EntryTypes DEF SendEntry, CandleTypeOK
    <2> QED BY <1>13, <2>1, <2>2 DEF SendEntry, CandleTypeOK, feedVars
  <1>14. CASE RejectEntry(p)
    BY <1>14, MoveTypes DEF RejectEntry, CandleTypeOK, feedVars, candleHistory, Places
  <1>15. CASE CommitPrimary(p)
    BY <1>15, EntryTypes DEF CommitPrimary, CandleTypeOK, feedVars, candleHistory
  <1>16. CASE RefreshRow(p)
    <2>1. [engineRun[p] EXCEPT !.pc = "marking", !.base = cursor] \in RunRecords
      BY DEF RunRecords, Places, CandleTypeOK
    <2> QED BY <1>16, <2>1 DEF RefreshRow, CandleTypeOK, feedVars, candleHistory
  <1>17. CASE FinishRun(p)
    BY <1>17, CommitRunTypes, EntryTypes DEF FinishRun, CandleTypeOK, feedVars, candleHistory
  <1>18. CASE CloseRun(p)
    BY <1>18, EndRunTypes DEF CloseRun, CandleTypeOK, feedVars, candleHistory, RunRecords, Cursors
  <1>19. CASE AbortRun(p)
    BY <1>19, EndRunTypes DEF AbortRun, CandleTypeOK, feedVars, candleHistory
  <1> QED BY <1>1, <1>2, <1>3, <1>4, <1>5, <1>6, <1>7, <1>8, <1>9, <1>10, <1>11, <1>12, <1>13,
             <1>14, <1>15, <1>16, <1>17, <1>18, <1>19 DEF RunStep

-----------------------------------------------------------------------------
(* Entries *)

\* What the step of one run may do to the signals and to itself, the placing of
\* an order apart.
LEMMA OrderKept ==
    ASSUME CandleTypeOK, OrderInv, NEW p \in EngineRunners,
           UNCHANGED <<route, placed>>,
           \A q \in EngineRunners \ {p} : engineRun'[q] = engineRun[q],
           signals' # signals => signals' = signals \cup {Entry(p)} /\ RowIsFree(p),
           Uncommitted(p)' => RowIsFree(p),
           Executes(p)',
           engineRun'[p].pc = "ready" => Entry(p)' \notin signals
    PROVE  OrderInv'
  <1>1. \A q \in EngineRunners \ {p} : /\ Entry(q)' = Entry(q)
                                       /\ Uncommitted(q)' => Uncommitted(q)
    BY DEF Entry, Uncommitted
  <1>2. Exclusive'
    BY <1>1 DEF OrderInv, Exclusive, RowIsFree
  <1>3. OneReady'
    BY <1>1 DEF OrderInv, OneReady, Executes
  <1>4. \A q \in EngineRunners \ {p} : Executes(q)'
    <2> SUFFICES ASSUME NEW q \in EngineRunners \ {p} PROVE Executes(q)'
      OBVIOUS
    <2>1. Executes(q)
      BY DEF OrderInv
    <2>2. signals' # signals => engineRun[q].pc # "placing"
      BY DEF RowIsFree, Uncommitted
    <2> QED BY <1>1, <2>1, <2>2 DEF Executes
  <1>5. EntryPlacedOnce' /\ PlacedIsRecorded'
    BY DEF OrderInv, EntryPlacedOnce, PlacedIsRecorded
  <1> QED BY <1>2, <1>3, <1>4, <1>5 DEF OrderInv

\* Whoever holds the row finds it free.
LEMMA HolderIsAlone ==
    ASSUME OrderInv, NEW p \in EngineRunners, Uncommitted(p)
    PROVE  RowIsFree(p)
  BY DEF OrderInv, Exclusive, RowIsFree

\* A run that is not in execution afterwards.
LEMMA OrderCalm ==
    ASSUME CandleTypeOK, OrderInv, NEW p \in EngineRunners,
           UNCHANGED <<route, placed>>,
           \A q \in EngineRunners \ {p} : engineRun'[q] = engineRun[q],
           signals' # signals => signals' = signals \cup {Entry(p)} /\ RowIsFree(p),
           engineRun'[p].pc \notin {"placing", "ready", "sent", "marking"}
    PROVE  OrderInv'
  <1>1. ~Uncommitted(p)' /\ Executes(p)'
    BY DEF Uncommitted, Executes
  <1> QED BY <1>1, OrderKept

LEMMA EndRunCalm ==
    ASSUME CandleTypeOK, NEW p \in EngineRunners,
           \/ EndRun(p)
           \/ \E how \in {"none", "held", "stopped"} : ToClose(p, how)
           \/ CommitRun(p)
    PROVE  /\ \A q \in EngineRunners \ {p} : engineRun'[q] = engineRun[q]
           /\ engineRun'[p].pc \in {"idle", "closing"}
  <1>1. CASE EndRun(p)
    BY <1>1 DEF CandleTypeOK, EndRun, IdleRun
  <1>2. ASSUME NEW how \in {"none", "held", "stopped"}, ToClose(p, how)
        PROVE  /\ \A q \in EngineRunners \ {p} : engineRun'[q] = engineRun[q]
               /\ engineRun'[p].pc \in {"idle", "closing"}
    BY <1>2 DEF CandleTypeOK, ToClose, IdleRun
  <1> QED BY <1>1, <1>2 DEF CommitRun

\* Each step of a run keeps the order of its entry.
LEMMA RunStepOrder ==
    ASSUME CandleTypeOK, OrderInv, NEW p \in EngineRunners, Follows(p), RunStep(p)
    PROVE  OrderInv'
  <1> DEFINE Calm == /\ \A q \in EngineRunners \ {p} : engineRun'[q] = engineRun[q]
                     /\ engineRun'[p].pc \notin {"placing", "ready", "sent", "marking"}
  <1>0. CandleTypeOK /\ Executes(p)
    BY DEF OrderInv
  <1>1. ASSUME NEW c \in Candles, TakeMessage(p, c) PROVE OrderInv'
    <2>1. Calm
      BY <1>1 DEF TakeMessage, IdleRun, CandleTypeOK
    <2> QED BY <1>1, <2>1, OrderCalm DEF TakeMessage, candleHistory
  <1>2. CASE LoadDeployment(p)
    <2>1. Calm
      BY <1>2 DEF LoadDeployment, CandleTypeOK
    <2> QED BY <1>2, <2>1, OrderCalm DEF LoadDeployment, candleHistory
  <1>3. CASE DispatchCandle(p)
    <2>1. Calm
      BY <1>3 DEF DispatchCandle, CandleTypeOK, IdleRun
    <2> QED BY <1>3, <2>1, OrderCalm DEF DispatchCandle, candleHistory
  <1>4. CASE RunOnce(p)
    <2>1. Calm
      BY <1>4 DEF RunOnce, CandleTypeOK, IdleRun
    <2> QED BY <1>4, <2>1, OrderCalm DEF RunOnce, candleHistory
  <1>5. CASE LockDeployment(p)
    <2>1. Calm
      <3>1. CASE EndRun(p) \/ ToClose(p, "stopped")
        BY <3>1, EndRunCalm
      <3>2. CASE \E place \in {"refreshing", "open"} : Move(p, place)
        BY <3>2 DEF Move, CandleTypeOK
      <3> QED BY <1>5, <3>1, <3>2 DEF LockDeployment, Skipped
    <2> QED BY <1>5, <2>1, OrderCalm DEF LockDeployment, candleHistory
  <1>6. CASE CommitRefresh(p)
    <2>1. Calm
      BY <1>6 DEF CommitRefresh, CandleTypeOK, Move
    <2> QED BY <1>6, <2>1, OrderCalm DEF CommitRefresh, candleHistory
  <1>7. CASE Answer(p)
    <2>1. Calm
      BY <1>7 DEF Answer, CandleTypeOK
    <2> QED BY <1>7, <2>1, OrderCalm DEF Answer
  <1>8. CASE GiveUp(p)
    <2>1. Calm
      BY <1>8, EndRunCalm DEF GiveUp
    <2> QED BY <1>8, <2>1, OrderCalm DEF GiveUp, candleHistory
  <1>9. CASE PassOver(p)
    <2>1. Calm
      BY <1>9, EndRunCalm DEF PassOver
    <2> QED BY <1>9, <2>1, OrderCalm DEF PassOver, candleHistory
  <1>10. CASE KeepSignal(p)
    <2>1. Calm
      BY <1>10, EndRunCalm DEF KeepSignal
    <2> QED BY <1>10, <2>1, OrderCalm DEF KeepSignal, candleHistory
  <1>11. CASE InsertSignal(p)
    <2>1. /\ Entry(p)' = Entry(p) /\ engineRun'[p].pc = "placing"
          /\ \A q \in EngineRunners \ {p} : engineRun'[q] = engineRun[q]
      BY <1>11 DEF InsertSignal, MoveOn, Entry, CandleTypeOK
    <2>2. Executes(p)'
      BY <1>0, <1>11, <2>1, EntryTypes DEF InsertSignal, Executes, IsNew
    <2> QED BY <1>11, <2>1, <2>2, OrderKept DEF InsertSignal, candleHistory
  <1>12. CASE Prepare(p)
    <2>1. /\ Entry(p)' = Entry(p) /\ engineRun'[p].pc = "ready"
          /\ \A q \in EngineRunners \ {p} : engineRun'[q] = engineRun[q]
      BY <1>12 DEF Prepare, MoveOn, Entry, CandleTypeOK
    <2>2. /\ signals' = signals \cup {Entry(p)} /\ RowIsFree(p)
          /\ Entry(p) \in EntryOf /\ Entry(p) \notin signals /\ route # "GATEWAY"
      BY <1>0, <1>12, HolderIsAlone DEF Prepare, Commits, Executes, Uncommitted
    <2>3. placed[Entry(p)] = 0
      BY <2>2 DEF OrderInv, PlacedIsRecorded, CandleTypeOK
    <2>4. Executes(p)' /\ ~Uncommitted(p)'
      BY <1>12, <2>1, <2>2, <2>3 DEF Prepare, Executes, Uncommitted, candleHistory
    <2> QED BY <1>12, <2>1, <2>2, <2>4, OrderKept DEF Prepare, candleHistory
  <1>13. CASE SendEntry(p)
    <2>1. /\ Entry(p)' = Entry(p) /\ engineRun'[p].pc = "sent"
          /\ \A q \in EngineRunners \ {p} : engineRun'[q] = engineRun[q] /\ Entry(q)' = Entry(q)
      BY <1>13 DEF SendEntry, MoveOn, Entry, CandleTypeOK
    <2>2. UNCHANGED <<route, signals>> /\ Entry(p) \in EntryOf
      BY <1>0, <1>13 DEF SendEntry, Executes
    <2>3. Uncommitted(p)' => Uncommitted(p)
      BY <1>0, <1>13, <2>1, <2>2 DEF SendEntry, Uncommitted, Executes
    <2>4. Exclusive' /\ OneReady'
      BY <2>1, <2>2, <2>3 DEF OrderInv, Exclusive, OneReady, Uncommitted
    <2>5. /\ placed'[Entry(p)] = 1
          /\ \A e \in EntryOf \ {Entry(p)} : placed'[e] = placed[e]
          /\ route # "GATEWAY" => engineRun[p].pc = "ready" /\ Entry(p) \in signals
      BY <1>0, <1>13, <2>2 DEF SendEntry, Executes, CandleTypeOK
    <2>6. EntryPlacedOnce' /\ PlacedIsRecorded'
      BY <2>2, <2>5 DEF OrderInv, EntryPlacedOnce, PlacedIsRecorded
    <2>7. ASSUME NEW q \in EngineRunners PROVE Executes(q)'
      <3>1. CASE q = p
        BY <2>1, <2>2, <3>1 DEF Executes
      <3>2. CASE q # p
        <4>1. Executes(q)
          BY DEF OrderInv
        <4>2. engineRun[q].pc = "ready" => Entry(q) # Entry(p)
          BY <2>5, <3>2, <4>1 DEF OrderInv, OneReady, Executes
        <4> QED BY <2>1, <2>2, <2>5, <3>2, <4>1, <4>2 DEF Executes
      <3> QED BY <3>1, <3>2
    <2> QED BY <2>4, <2>6, <2>7 DEF OrderInv
  <1>14. CASE RejectEntry(p)
    <2>1. /\ Entry(p)' = Entry(p) /\ engineRun'[p].pc = "sent"
          /\ \A q \in EngineRunners \ {p} : engineRun'[q] = engineRun[q]
      BY <1>14 DEF RejectEntry, MoveOn, Entry, CandleTypeOK
    <2>2. Executes(p)' /\ (Uncommitted(p)' => Uncommitted(p))
      BY <1>0, <1>14, <2>1 DEF RejectEntry, Executes, Uncommitted
    <2>3. Uncommitted(p)' => RowIsFree(p)
      BY <2>2, HolderIsAlone
    <2> QED BY <1>14, <2>1, <2>2, <2>3, OrderKept DEF RejectEntry, candleHistory
  <1>15. CASE CommitPrimary(p)
    <2>1. RowIsFree(p)
      BY <1>15, HolderIsAlone DEF CommitPrimary, Uncommitted
    <2>2. Executes(p)' /\ ~Uncommitted(p)' /\ engineRun'[p].pc = "sent"
      BY <1>0, <1>15 DEF CommitPrimary, Executes, Uncommitted, Entry
    <2> QED BY <1>15, <2>1, <2>2, OrderKept DEF CommitPrimary, candleHistory
  <1>16. CASE RefreshRow(p)
    <2>1. /\ Entry(p)' = Entry(p) /\ engineRun'[p].pc = "marking"
          /\ \A q \in EngineRunners \ {p} : engineRun'[q] = engineRun[q]
      BY <1>16 DEF RefreshRow, Entry, CandleTypeOK
    <2>2. Executes(p)' /\ (Uncommitted(p)' => Uncommitted(p))
      BY <1>0, <1>16, <2>1 DEF RefreshRow, Executes, Uncommitted
    <2>3. Uncommitted(p)' => RowIsFree(p)
      BY <2>2, HolderIsAlone
    <2> QED BY <1>16, <2>1, <2>2, <2>3, OrderKept DEF RefreshRow, candleHistory
  <1>17. CASE FinishRun(p)
    <2>1. Calm
      BY <1>17, EndRunCalm DEF FinishRun
    <2> QED BY <1>17, <2>1, OrderCalm DEF FinishRun, candleHistory
  <1>18. CASE CloseRun(p)
    <2>1. Calm
      BY <1>18, EndRunCalm DEF CloseRun
    <2> QED BY <1>18, <2>1, OrderCalm DEF CloseRun, candleHistory
  <1>19. CASE AbortRun(p)
    <2>1. Calm
      BY <1>19, EndRunCalm DEF AbortRun
    <2> QED BY <1>19, <2>1, OrderCalm DEF AbortRun, candleHistory
  <1> QED BY <1>1, <1>2, <1>3, <1>4, <1>5, <1>6, <1>7, <1>8, <1>9, <1>10, <1>11, <1>12, <1>13,
             <1>14, <1>15, <1>16, <1>17, <1>18, <1>19 DEF RunStep

-----------------------------------------------------------------------------
(* Candles *)

\* What a step has to show about the run that takes it.
LEMMA CursorKept ==
    ASSUME CursorInv, NEW p \in EngineRunners,
           \A q \in EngineRunners \ {p} : engineRun'[q] = engineRun[q],
           evaluated \subseteq evaluated',
           Follows(p)', CursorWasEvaluated'
    PROVE  CursorInv'
  <1>1. ASSUME NEW q \in EngineRunners \ {p} PROVE Follows(q)'
    <2>1. Follows(q) /\ engineRun'[q] = engineRun[q]
      BY DEF CursorInv
    <2>2. Settled(q) => Settled(q)'
      BY <2>1 DEF Settled
    <2> QED BY <2>1, <2>2 DEF Follows
  <1> QED BY <1>1 DEF CursorInv

\* The end of a run that is through.
LEMMA CommitRunFollows ==
    ASSUME CandleTypeOK, CursorInv, NEW p \in EngineRunners, engineRun[p].candle \in evaluated,
           CommitRun(p), UNCHANGED evaluated
    PROVE  CursorInv'
  <1>1. CursorWasEvaluated'
    BY DEF CommitRun, Marked, CursorInv, CursorWasEvaluated
  <1>2. \A q \in EngineRunners \ {p} : engineRun'[q] = engineRun[q]
    BY EndRunCalm
  <1>3. CASE p \in OnceCalls
    <2>1. engineRun'[p] = IdleRun
      BY <1>3 DEF CommitRun, EndRun, CandleTypeOK
    <2>2. Follows(p)'
      BY <1>3, <2>1, CandleAssumption DEF Follows, IdleRun
    <2> QED BY <1>1, <1>2, <2>2, CursorKept
  <1>4. CASE p \notin OnceCalls
    <2>1. engineRun'[p].pc = "closing" /\ engineRun'[p].candle = engineRun[p].candle
      BY <1>4 DEF CommitRun, ToClose, CandleTypeOK, IdleRun
    <2>2. engineRun[p].candle >= engineRun[p].candle
      BY RunRecordTypes DEF RunRecords, Candles, NoCandle
    <2>3. Follows(p)'
      BY <2>1, <2>2 DEF Follows, Settled
    <2> QED BY <1>1, <1>2, <2>3, CursorKept
  <1> QED BY <1>3, <1>4

\* A run that ends without a mark.
LEMMA EndRunFollows ==
    ASSUME CandleTypeOK, CursorInv, NEW p \in EngineRunners, EndRun(p),
           UNCHANGED evaluated, CursorWasEvaluated'
    PROVE  CursorInv'
  <1>1. engineRun'[p] = IdleRun /\ \A q \in EngineRunners \ {p} : engineRun'[q] = engineRun[q]
    BY DEF EndRun, CandleTypeOK
  <1>2. Follows(p)'
    BY <1>1 DEF Follows, IdleRun
  <1> QED BY <1>1, <1>2, CursorKept

\* A run that moves on inside its execution.
LEMMA ExecutionFollows ==
    ASSUME CandleTypeOK, CursorInv, NEW p \in EngineRunners,
           engineRun[p].pc \in {"answered", "placing", "ready", "sent", "marking"},
           \A q \in EngineRunners \ {p} : engineRun'[q] = engineRun[q],
           engineRun'[p].pc \in {"placing", "ready", "sent", "marking"},
           engineRun'[p].candle = engineRun[p].candle,
           UNCHANGED <<evaluated, cursor>>
    PROVE  CursorInv'
  <1>1. engineRun[p].candle \in evaluated
    BY DEF CursorInv, Follows
  <1>2. Follows(p)'
    BY <1>1 DEF Follows
  <1> QED BY <1>2, CursorKept DEF CursorInv, CursorWasEvaluated

\* Each step of a run keeps to the candles that were answered for.
LEMMA RunStepCursor ==
    ASSUME CandleTypeOK, CursorInv, NEW p \in EngineRunners, RunStep(p)
    PROVE  CursorInv'
  <1> DEFINE Others == \A q \in EngineRunners \ {p} : engineRun'[q] = engineRun[q]
  <1>0. Follows(p) /\ CursorWasEvaluated
    BY DEF CursorInv
  <1>1. ASSUME NEW c \in Candles, TakeMessage(p, c) PROVE CursorInv'
    <2>1. /\ Others /\ p # Scheduler /\ engineRun'[p].candle = c
          /\ engineRun'[p].pc = IF active /\ ~Processed(c) THEN "taken" ELSE "closing"
          /\ engineRun'[p].answer = IF active THEN "none" ELSE "stopped"
      BY <1>1, CandleAssumption DEF TakeMessage, CandleTypeOK, IdleRun
    <2>2. Processed(c) => cursor \in evaluated /\ cursor >= c
      BY <1>0 DEF Processed, CandleTypeOK, CursorWasEvaluated, Cursors, Candles, Null, NoCandle
    <2>4. evaluated' = evaluated
      BY <1>1 DEF TakeMessage, candleHistory
    <2>5. engineRun'[p].pc = "closing" => Settled(p)'
      BY <2>1, <2>2, <2>4 DEF Settled
    <2>6. Follows(p)'
      BY <2>1, <2>5 DEF Follows
    <2> QED BY <1>0, <1>1, <2>1, <2>6, CursorKept
            DEF TakeMessage, CursorWasEvaluated, candleHistory
  <1>2. CASE LoadDeployment(p)
    <2>1. /\ Others /\ p # Scheduler /\ engineRun'[p].candle = engineRun[p].candle
          /\ engineRun[p].pc = "taken"
          /\ engineRun'[p].pc \in IF active THEN {"loaded"} ELSE {"loaded", "refused"}
      BY <1>0, <1>2 DEF LoadDeployment, CandleTypeOK, Follows
    <2>2. Follows(p)'
      BY <1>0, <1>2, <2>1 DEF LoadDeployment, Follows, candleHistory
    <2> QED BY <1>0, <1>2, <2>1, <2>2, CursorKept
            DEF LoadDeployment, CursorWasEvaluated, candleHistory
  <1>3. CASE DispatchCandle(p)
    <2>1. PICK next \in NextToRun :
              engineRun' = [engineRun EXCEPT ![p] = [IdleRun EXCEPT !.pc = "loaded",
                  !.base = cursor, !.candle = next.candle, !.quiet = next.quiet]]
      BY <1>3 DEF DispatchCandle
    <2>2. /\ Others /\ engineRun'[p].pc = "loaded" /\ engineRun'[p].candle = next.candle
      BY <2>1 DEF CandleTypeOK, IdleRun
    <2>3. next.candle \in Candles
      BY DEF NextToRun, Newest, CandleTypeOK
    <2>4. Follows(p)'
      BY <2>2, <2>3 DEF Follows
    <2> QED BY <1>0, <1>3, <2>2, <2>4, CursorKept
            DEF DispatchCandle, CursorWasEvaluated, candleHistory
  <1>4. CASE RunOnce(p)
    <2>1. /\ Others /\ p # Scheduler /\ p \notin StreamWorkers
          /\ engineRun'[p].pc \in IF active THEN {"loaded"} ELSE {"loaded", "refused"}
      BY <1>4, CandleAssumption DEF RunOnce, CandleTypeOK, IdleRun
    <2>2. Follows(p)'
      BY <1>4, <2>1 DEF RunOnce, Follows
    <2> QED BY <1>0, <1>4, <2>1, <2>2, CursorKept
            DEF RunOnce, CursorWasEvaluated, candleHistory
  <1>5. CASE LockDeployment(p)
    <2>1. UNCHANGED <<evaluated, cursor>> /\ CursorWasEvaluated'
      BY <1>0, <1>5 DEF LockDeployment, CursorWasEvaluated, candleHistory
    <2>2. CASE EndRun(p)
      BY <2>1, <2>2, EndRunFollows
    <2>3. CASE engineRun[p].pc = "refused" /\ ToClose(p, "stopped")
      <3>1. Others /\ engineRun'[p].pc = "closing" /\ p # Scheduler
            /\ engineRun'[p].answer = "stopped"
        BY <1>0, <2>3 DEF ToClose, CandleTypeOK, IdleRun, Follows
      <3>2. Follows(p)'
        BY <2>1, <3>1 DEF Follows, Settled
      <3> QED BY <2>1, <3>1, <3>2, CursorKept
    <2>4. CASE /\ engineRun[p].pc = "loaded"
               /\ Move(p, IF p \in OnceCalls THEN "refreshing" ELSE "open")
      <3>1. /\ Others /\ engineRun'[p].candle = engineRun[p].candle
            /\ engineRun'[p].pc = IF p \in OnceCalls THEN "refreshing" ELSE "open"
        BY <2>4 DEF Move, CandleTypeOK
      <3>2. Follows(p)'
        BY <1>0, <2>4, <3>1, CandleAssumption DEF Follows
      <3> QED BY <2>1, <3>1, <3>2, CursorKept
    <2> QED BY <1>5, <2>2, <2>3, <2>4 DEF LockDeployment, Skipped
  <1>6. CASE CommitRefresh(p)
    <2>1. /\ Others /\ engineRun'[p].pc = "open" /\ engineRun[p].pc = "refreshing"
          /\ engineRun'[p].candle = engineRun[p].candle
      BY <1>6 DEF CommitRefresh, Move, CandleTypeOK
    <2>2. UNCHANGED <<evaluated, cursor>> /\ CursorWasEvaluated'
      BY <1>0, <1>6 DEF CommitRefresh, CursorWasEvaluated, candleHistory
    <2>3. p \in OnceCalls
      BY <1>0, <2>1 DEF Follows
    <2>4. Follows(p)'
      BY <2>1, <2>3, CandleAssumption DEF Follows
    <2> QED BY <2>1, <2>2, <2>4, CursorKept
  <1>7. CASE Answer(p)
    <2>1. PICK c \in Targeted(p) : /\ engineRun'[p].pc = "answered" /\ engineRun'[p].candle = c
                                   /\ Others /\ evaluated' = evaluated \cup {c}
      BY <1>7 DEF Answer, CandleTypeOK
    <2>2. Follows(p)'
      BY <2>1 DEF Follows
    <2> QED BY <1>0, <1>7, <2>1, <2>2, CursorKept DEF Answer, CursorWasEvaluated
  <1>8. CASE GiveUp(p)
    <2>1. UNCHANGED <<evaluated, cursor>> /\ CursorWasEvaluated'
      BY <1>0, <1>8 DEF GiveUp, CursorWasEvaluated, candleHistory
    <2>2. CASE p \in StreamWorkers
      <3>1. /\ Others /\ engineRun'[p].pc = "closing" /\ engineRun'[p].answer = "held"
        BY <1>8, <2>2 DEF GiveUp, ToClose, CandleTypeOK, IdleRun
      <3>2. Follows(p)'
        BY <2>2, <3>1, CandleAssumption DEF Follows, Settled
      <3> QED BY <2>1, <3>1, <3>2, CursorKept
    <2>3. CASE p \notin StreamWorkers
      BY <1>8, <2>1, <2>3, EndRunFollows DEF GiveUp
    <2> QED BY <2>2, <2>3
  <1>9. CASE PassOver(p) \/ KeepSignal(p) \/ FinishRun(p)
    <2>1. engineRun[p].candle \in evaluated /\ CommitRun(p) /\ UNCHANGED evaluated
      BY <1>0, <1>9 DEF PassOver, KeepSignal, FinishRun, Follows, candleHistory
    <2> QED BY <2>1, CommitRunFollows
  <1>10. CASE \/ InsertSignal(p) \/ Prepare(p) \/ SendEntry(p) \/ RejectEntry(p) \/ RefreshRow(p)
    <2>1. /\ engineRun[p].pc \in {"answered", "placing", "ready", "sent", "marking"}
          /\ UNCHANGED <<evaluated, cursor>>
      BY <1>10 DEF InsertSignal, Prepare, SendEntry, RejectEntry, RefreshRow, candleHistory
    <2>2. /\ Others /\ engineRun'[p].candle = engineRun[p].candle
          /\ engineRun'[p].pc \in {"placing", "ready", "sent", "marking"}
      <3>1. \/ \E place \in {"placing", "ready", "sent"} : MoveOn(p, place)
            \/ engineRun' = [engineRun EXCEPT ![p].pc = "marking", ![p].base = cursor]
        BY <1>10 DEF InsertSignal, Prepare, SendEntry, RejectEntry, RefreshRow
      <3>2. ASSUME NEW place \in {"placing", "ready", "sent"}, MoveOn(p, place)
            PROVE  Others /\ engineRun'[p].candle = engineRun[p].candle /\ engineRun'[p].pc = place
        BY <3>2 DEF MoveOn, CandleTypeOK
      <3>3. CASE engineRun' = [engineRun EXCEPT ![p].pc = "marking", ![p].base = cursor]
        BY <3>3 DEF CandleTypeOK
      <3> QED BY <3>1, <3>2, <3>3
    <2> QED BY <2>1, <2>2, ExecutionFollows
  <1>11. CASE CommitPrimary(p)
    <2>1. Follows(p)' /\ CursorWasEvaluated'
      BY <1>0, <1>11 DEF CommitPrimary, Follows, Settled, CursorWasEvaluated, candleHistory
    <2> QED BY <1>11, <2>1, CursorKept DEF CommitPrimary, candleHistory
  <1>12. CASE CloseRun(p) \/ AbortRun(p)
    <2>1. EndRun(p) /\ UNCHANGED evaluated
      BY <1>12 DEF CloseRun, AbortRun, candleHistory
    <2>2. CursorWasEvaluated'
      BY <1>0, <1>12 DEF CloseRun, AbortRun, CursorWasEvaluated, Follows, candleHistory
    <2> QED BY <2>1, <2>2, EndRunFollows
  <1> QED BY <1>1, <1>2, <1>3, <1>4, <1>5, <1>6, <1>7, <1>8, <1>9, <1>10, <1>11, <1>12 DEF RunStep

-----------------------------------------------------------------------------
(* The invariant and the theorems *)

LEMMA CandleInitInv == CandleInit => Inv
  <1> SUFFICES ASSUME CandleInit PROVE Inv
    OBVIOUS
  <1>1. \A p \in EngineRunners : engineRun[p] = IdleRun
    BY DEF CandleInit
  <1>2. IdleRun \in RunRecords
    BY DEF IdleRun, RunRecords, Places, Cursors
  <1>3. CandleTypeOK
    BY <1>2 DEF CandleInit, CandleTypeOK, Routes, Cursors
  <1>4. OrderInv
    BY <1>1 DEF CandleInit, OrderInv, Exclusive, OneReady, Uncommitted, Executes, EntryPlacedOnce,
       PlacedIsRecorded, IdleRun
  <1>5. CursorInv
    BY <1>1 DEF CandleInit, CursorInv, CursorWasEvaluated, Follows, IdleRun
  <1> QED BY <1>3, <1>4, <1>5 DEF Inv

\* Candles and the owner disturb no run.
LEMMA FeedStepInv ==
    ASSUME Inv,
           PublishCandle \/ Deactivate \/ Activate \/ \E c \in Candles : FeedCandle(c) \/ RefreshCandle(c)
    PROVE  Inv'
  <1>1. UNCHANGED <<route, cursor, runnerLock, signals, engineRun, placed, evaluated>>
    BY DEF PublishCandle, Deactivate, Activate, FeedCandle, RefreshCandle, candleHistory
  <1>2. CandleTypeOK'
    BY DEF Inv, CandleTypeOK, PublishCandle, Deactivate, Activate, FeedCandle, RefreshCandle, feedVars,
       candleHistory
  <1>3. OrderInv'
    BY <1>1 DEF Inv, OrderInv, Exclusive, OneReady, Uncommitted, Executes, Entry, EntryPlacedOnce,
       PlacedIsRecorded
  <1>4. CursorInv'
    BY <1>1 DEF Inv, CursorInv, CursorWasEvaluated, Follows, Settled
  <1> QED BY <1>2, <1>3, <1>4 DEF Inv

LEMMA CandleNextInv == Inv /\ [CandleNext]_candleVars => Inv'
  <1> SUFFICES ASSUME Inv, [CandleNext]_candleVars PROVE Inv'
    OBVIOUS
  <1>1. ASSUME NEW p \in EngineRunners, RunStep(p) PROVE Inv'
    <2>1. Executes(p) /\ Follows(p)
      BY DEF Inv, OrderInv, CursorInv
    <2> QED BY <1>1, <2>1, RunStepTypes, RunStepOrder, RunStepCursor DEF Inv
  <1>2. CASE PublishCandle \/ Deactivate \/ Activate \/ \E c \in Candles : FeedCandle(c) \/ RefreshCandle(c)
    BY <1>2, FeedStepInv
  <1>3. CASE UNCHANGED candleVars
    BY <1>3 DEF candleVars, candleHistory, feedVars, Inv, CandleTypeOK, OrderInv, Exclusive, OneReady,
       Uncommitted, Executes, Entry, EntryPlacedOnce, PlacedIsRecorded, CursorInv,
       CursorWasEvaluated, Follows, Settled
  <1> QED BY <1>1, <1>2, <1>3 DEF CandleNext, RunStep

LEMMA CandleInvariant == CandleSpec => []Inv
  BY CandleInitInv, CandleNextInv, PTL DEF CandleSpec

\* The entry of a candle and a side goes to the broker at most once, for any
\* number of workers, calls and candles and on every route: redelivered and
\* reclaimed messages, a lock that was given away by a commit, a cursor that
\* went back and runs that died after the order notwithstanding.
THEOREM CandleEntryOnce == CandleSpec => []EntryPlacedOnce
  BY CandleInvariant, PTL DEF Inv, OrderInv

\* Whatever dies, an entry on a route that commits before it sends is recorded
\* once it may be at the broker.
THEOREM CandleEntryRecorded == CandleSpec => []PlacedIsRecorded
  BY CandleInvariant, PTL DEF Inv, OrderInv

\* last_processed_candle_time stands on no candle the strategy was not asked about.
THEOREM CandleCursorEvaluated == CandleSpec => []CursorWasEvaluated
  BY CandleInvariant, PTL DEF Inv, CursorInv

\* The types of the runs and of what they share.
THEOREM CandleTypeCorrect == CandleSpec => []CandleTypeOK
  BY CandleInvariant, PTL DEF Inv

\* A worker acknowledges a candle only when it or a later one was answered for,
\* when it read the deployment as stopped, or when its own run ended in one of
\* the HOLDs that are acknowledged; whether the deployment runs by then is no
\* part of the reason.
THEOREM CandleAckSettled == CandleSpec => AckedIsSettled
  <1>1. ASSUME Inv, [CandleNext]_candleVars,
               NEW c \in messages \ messages'
        PROVE  \/ \E d \in evaluated : d >= c
               \/ \E p \in StreamWorkers :
                     /\ engineRun[p].candle = c
                     /\ engineRun[p].answer \in {"held", "stopped"}
    <2>1. PICK p \in EngineRunners : CloseRun(p)
      BY <1>1 DEF candleVars, CandleNext, FeedCandle, RefreshCandle, PublishCandle, Deactivate, Activate,
         TakeMessage, LoadDeployment, DispatchCandle, RunOnce, LockDeployment, CommitRefresh, Answer,
         GiveUp, PassOver, KeepSignal, InsertSignal, Prepare, SendEntry, RejectEntry,
         CommitPrimary, RefreshRow, FinishRun, AbortRun
    <2>2. p \in StreamWorkers /\ engineRun[p].candle = c /\ engineRun[p].pc = "closing"
      BY <1>1, <2>1 DEF CloseRun
    <2> QED BY <1>1, <2>2 DEF Inv, CursorInv, Follows, Settled
  <1>2. Inv /\ [CandleNext]_candleVars =>
            [\A c \in messages \ messages' :
                \/ \E d \in evaluated : d >= c
                \/ \E p \in StreamWorkers :
                      /\ engineRun[p].candle = c
                      /\ engineRun[p].answer \in {"held", "stopped"}]_candleVars
    BY <1>1
  <1> QED BY <1>2, CandleInvariant, PTL DEF CandleSpec, AckedIsSettled
==============================================================================
