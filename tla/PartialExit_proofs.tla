------------------------- MODULE PartialExit_proofs -------------------------
(***************************************************************************)
(* Proofs about PartialExit, for any sizes, percentage, lot step and       *)
(* number of closes asked.                                                 *)
(*                                                                         *)
(* AnyInv holds for any number of quote handlers.  Its types say what was  *)
(* seen of the position: nothing but all of it or nothing (Seen) until the *)
(* broker has executed a close, so that a runner, which is neither, is     *)
(* reached only after one.  A cTrader close goes to the broker once for    *)
(* the key, whoever asks (CTraderOnce).                                    *)
(*                                                                         *)
(* The two providers without a key depend on there being one handler       *)
(* (OneManager), since the row lock of a second one returns the object it  *)
(* loaded before.  What may be at TradeLocker is then known from the       *)
(* order, the handler or the state (TradeLockerOnce), and an MT5 command   *)
(* leaves no state from which another is queued (Mt5Once).                 *)
(***************************************************************************)
EXTENDS PartialExit, TLAPS

\* Sizes that a position can have been seen with: all of it or nothing until
\* the broker has executed a close.
Seen == IF closes > 0 THEN 0..InitialSize ELSE {0, InitialSize}

Plans == {NoPlan} \cup MinSize..(InitialSize - 1)

\* TRIGGERED is written and overwritten in one transaction.
Stored == (Final \cup InFlight \cup Armed) \ {"TRIGGERED"}
States == [status : Stored, runner : Plans]
Waited == [status : InFlight \cup {"FAILED_RETRYABLE"}, runner : Plans]
Due    == [status : Stored \cap Armed, runner : Plans]

Replies == Gateway!Answers \cup {"UNCERTAIN", "REJECTED", "ERROR"}

Positions(sizes) == [open : BOOLEAN, size : sizes]
Eligibles(sizes) == {size \in sizes : Eligible(size)}

Reading(sizes) == [at : {"read"}, state : Due, position : Positions(sizes)]
Calling(sizes) == [at : {"calling"}, state : Due, position : Positions(Eligibles(sizes)),
                   reply : {"none"}]
Called(sizes)  == [at : {"called"}, state : Due, position : Positions(Eligibles(sizes)),
                   reply : Replies]
HandlerPlaces(sizes) == {Idle} \cup Reading(sizes) \cup Calling(sizes) \cup Called(sizes)
ScanPlaces(sizes) ==
    {Idle} \cup [at : {"read"}, state : Waited, position : Positions(sizes)]

BrokerTypes ==
    /\ provider \in Providers
    /\ volume \in Seen /\ heartbeat \in Seen
    /\ asked \in Seq(Nat) /\ Len(asked) <= MaxCalls /\ flight \subseteq 1..Len(asked)
    /\ command \in {"none", "queued", "executed", "refused", "reported"}
    /\ closes \in Nat /\ doubts \subseteq {"lost", "resumed", "blinked"}

RowTypes ==
    /\ position \in Positions(Seen) /\ manage \in States
    /\ order \in {"none", "PLACED", "FILLED", "ERROR"}

LocalTypes ==
    /\ deployLock \in Handlers \cup {NoOne}
    /\ handler \in [Handlers -> HandlerPlaces(Seen)]
    /\ scan \in ScanPlaces(Seen)

ServiceTypes ==
    /\ sent \in [{"exit"} -> 0..1]
    /\ told \in [1..MaxCalls -> {NoPlan} \cup [key : {"exit"}, answer : Gateway!Answers]]

PartialTypes == BrokerTypes /\ RowTypes /\ LocalTypes /\ ServiceTypes

Asking(h) == handler[h].at \in {"calling", "called"}

\* Only the handler that holds the deployment's lock is asking.
Locking == \A h \in Handlers : Asking(h) => deployLock = h /\ Len(asked) > 0

OneAtMost == closes <= 1 /\ (flight # {} => closes = 0 /\ \E c \in 1..MaxCalls : flight = {c})
Live == flight # {} \/ closes > 0

CTraderOnce == provider = "CTRADER" => OneAtMost /\ (Live => sent["exit"] = 1)

AnyInv == PartialTypes /\ Locking /\ DoneIsExecuted /\ CTraderOnce

OneManager == \A g, h \in Handlers : g = h

\* The answers after which the close may be at TradeLocker.
MayBeSent == {"PLACED", "UNCERTAIN"}

\* What a close that is at TradeLocker, or was executed, keeps from being asked
\* again: the order that records it, the handler that has not committed yet, or
\* the state that waits for a decision.
TradeLockerOnce == provider = "TRADELOCKER" /\ doubts = {} =>
    /\ OneAtMost
    /\ Live => \/ ~Resendable
               \/ \E h \in Handlers : handler[h].at = "called" /\ handler[h].reply \in MayBeSent
               \/ manage.status \notin Armed /\ \A h \in Handlers : handler[h] = Idle
    /\ \A h \in Handlers : Asking(h) => Resendable
    /\ manage.status = "AWAITING_RECONCILE" => ~Resendable
    /\ scan.at = "read" /\ scan.state.status = "AWAITING_RECONCILE" => ~Resendable

\* A command that was queued leaves no state from which another one is, also
\* while the terminal has not decided a close it was only PLACED with.
Mt5Once == provider = "MT5" /\ doubts = {} =>
    /\ OneAtMost
    /\ flight # {} => command \in {"queued", "executed", "reported"}
    /\ command = "queued" => closes = 0 /\ flight # {}
    /\ closes > 0 \/ command # "none" =>
          manage.status \notin Armed /\ \A h \in Handlers : handler[h] = Idle

NoCommand == provider # "MT5" => command = "none"

OneInv == AnyInv /\ NoCommand /\ TradeLockerOnce /\ Mt5Once

-----------------------------------------------------------------------------
(* Sizes and records *)

\* A split that is eligible closes something and leaves a valid runner.
LEMMA SplitIsValid ==
    ASSUME NEW total \in 0..InitialSize, Eligible(total)
    PROVE  CloseSize(total) \in Nat /\ RunnerSize(total) \in Plans
<1>1. InitialSize \in Nat /\ MinSize \in Nat /\ MinSize > 0
  BY PartialAssumption DEF PartialAssumption
<1>2. Wanted(total) \in Int
  BY PartialAssumption DEF PartialAssumption, Wanted
<1>3. CloseSize(total) \in Int /\ CloseSize(total) <= total - MinSize
  BY <1>1, <1>2 DEF CloseSize
<1>4. CloseSize(total) >= MinSize
  BY DEF Eligible
<1> QED BY <1>1, <1>3, <1>4 DEF RunnerSize, Plans

LEMMA SeenSizes == ASSUME closes \in Nat PROVE Seen \subseteq 0..InitialSize /\ 0 \in Seen
BY PartialAssumption DEF PartialAssumption, Seen

\* What a handler's place tells of its record.
LEMMA HandlerType ==
    ASSUME LocalTypes, NEW h \in Handlers
    PROVE  /\ handler[h].at \in {"idle", "read", "calling", "called"}
           /\ handler[h].at = "idle" <=> handler[h] = Idle
           /\ handler[h].at = "read" => handler[h] \in Reading(Seen)
           /\ handler[h].at = "calling" => handler[h] \in Calling(Seen)
           /\ handler[h].at = "called" => handler[h] \in Called(Seen)
<1>1. handler[h] \in HandlerPlaces(Seen)
  BY DEF LocalTypes
<1>2. Idle.at = "idle"
  BY DEF Idle
<1>3. CASE handler[h] = Idle
  BY <1>2, <1>3
<1>4. CASE handler[h] \in Reading(Seen)
  BY <1>2, <1>4 DEF Reading
<1>5. CASE handler[h] \in Calling(Seen)
  BY <1>2, <1>5 DEF Calling
<1>6. CASE handler[h] \in Called(Seen)
  BY <1>2, <1>6 DEF Called
<1> QED BY <1>1, <1>3, <1>4, <1>5, <1>6 DEF HandlerPlaces

LEMMA ScanType ==
    ASSUME LocalTypes
    PROVE  /\ scan.at \in {"idle", "read"}
           /\ scan.at = "read" => scan \in [at : {"read"}, state : Waited,
                                            position : Positions(Seen)]
<1>1. scan \in ScanPlaces(Seen)
  BY DEF LocalTypes
<1>2. Idle.at = "idle"
  BY DEF Idle
<1>3. CASE scan = Idle
  BY <1>2, <1>3
<1>4. CASE scan # Idle
  <2>1. scan \in [at : {"read"}, state : Waited, position : Positions(Seen)]
    BY <1>1, <1>4 DEF ScanPlaces
  <2> HIDE DEF Positions, Waited
  <2> QED BY <2>1
<1> QED BY <1>3, <1>4

\* More has been seen, nothing less.
LEMMA PlacesGrow ==
    ASSUME NEW S, NEW T, S \subseteq T
    PROVE  /\ Positions(S) \subseteq Positions(T)
           /\ HandlerPlaces(S) \subseteq HandlerPlaces(T)
           /\ ScanPlaces(S) \subseteq ScanPlaces(T)
<1>1. /\ Positions(S) \subseteq Positions(T)
      /\ Positions(Eligibles(S)) \subseteq Positions(Eligibles(T))
  BY DEF Positions, Eligibles
<1>2. Reading(S) \subseteq Reading(T) /\ Calling(S) \subseteq Calling(T)
      /\ Called(S) \subseteq Called(T)
  BY <1>1 DEF Reading, Calling, Called
<1>3. ScanPlaces(S) \subseteq ScanPlaces(T)
  BY <1>1 DEF ScanPlaces
<1> QED BY <1>1, <1>2, <1>3 DEF HandlerPlaces

\* A session's write keeps the states typed.
LEMMA WrittenType ==
    ASSUME manage \in States, NEW loaded, NEW new,
           new.status \in Stored \/ new.status = loaded.status,
           new.runner \in Plans \/ new.runner = loaded.runner
    PROVE  /\ Written(loaded, new) \in States
           /\ Written(loaded, new).status =
                  IF new.status = loaded.status THEN manage.status ELSE new.status
BY DEF Written, States

LEMMA VolumeSeen == ASSUME BrokerTypes PROVE Volume \in Seen
BY DEF BrokerTypes, Volume

\* A refreshed position is what the broker was seen with.
LEMMA RefreshedType ==
    ASSUME BrokerTypes, RowTypes, NEW loaded \in Positions(Seen)
    PROVE  /\ Refreshed(loaded) \in Positions(Seen)
           /\ position.open \in BOOLEAN
           /\ (IF position.open THEN Refreshed(loaded) ELSE position) \in Positions(Seen)
<1>1. (Volume > 0) \in BOOLEAN
  BY VolumeSeen, SeenSizes DEF BrokerTypes
<1>2. [open |-> Volume > 0, size |-> Volume] \in Positions(Seen)
  BY <1>1, VolumeSeen DEF Positions
<1>3. position.open \in BOOLEAN
  BY DEF RowTypes, Positions
<1> QED BY <1>2, <1>3 DEF Refreshed, RowTypes

-----------------------------------------------------------------------------
(* What a step that leaves a part of the state alone preserves *)

LEMMA BrokerSame ==
    ASSUME BrokerTypes, UNCHANGED <<provider, broker>>,
           doubts' \subseteq {"lost", "resumed", "blinked"}
    PROVE  BrokerTypes' /\ Seen' = Seen
BY DEF BrokerTypes, broker, Seen

LEMMA RowsSame ==
    ASSUME RowTypes, DoneIsExecuted, UNCHANGED <<rows, closes>>
    PROVE  RowTypes' /\ DoneIsExecuted'
BY DEF RowTypes, DoneIsExecuted, rows, Seen

LEMMA LocalSame ==
    ASSUME LocalTypes, Locking, UNCHANGED <<local, closes, asked>>
    PROVE  LocalTypes' /\ Locking'
BY DEF LocalTypes, Locking, Asking, local, Seen

LEMMA ServiceSame ==
    ASSUME ServiceTypes, UNCHANGED serviceState
    PROVE  ServiceTypes'
BY DEF ServiceTypes, serviceState

LEMMA CTraderSame ==
    ASSUME CTraderOnce, UNCHANGED <<provider, flight, closes, sent>>
    PROVE  CTraderOnce'
BY DEF CTraderOnce, OneAtMost, Live

\* A handler moves, and the lock with it.
LEMMA HandlerMoves ==
    ASSUME LocalTypes, Locking, UNCHANGED <<scan, closes, asked>>,
           NEW h \in Handlers, NEW next \in HandlerPlaces(Seen),
           handler' = [handler EXCEPT ![h] = next],
           deployLock' \in Handlers \cup {NoOne},
           next.at \in {"calling", "called"} => deployLock' = h /\ Len(asked) > 0,
           \A g \in Handlers \ {h} : Asking(g) => deployLock' = g
    PROVE  LocalTypes' /\ Locking'
<1>1. \A g \in Handlers : handler'[g] = IF g = h THEN next ELSE handler[g]
  BY DEF LocalTypes
<1>2. LocalTypes'
  BY DEF LocalTypes, Seen
<1>3. Locking'
  BY <1>1 DEF Locking, Asking
<1> QED BY <1>2, <1>3

-----------------------------------------------------------------------------
(* The broker and the gateway *)

LEMMA BrokerClosesInv ==
    ASSUME AnyInv, BrokerCloses
    PROVE  AnyInv'
<1> USE DEF AnyInv, PartialTypes
<1>1. BrokerTypes'
  BY SeenSizes DEF BrokerCloses, BrokerTypes, Seen
<1> QED BY <1>1, RowsSame, LocalSame, ServiceSame, CTraderSame DEF BrokerCloses, serviceState

LEMMA HeartbeatInv ==
    ASSUME AnyInv, Heartbeat
    PROVE  AnyInv'
<1> USE DEF AnyInv, PartialTypes
<1>1. BrokerTypes'
  BY SeenSizes DEF Heartbeat, BrokerTypes, Seen
<1> QED BY <1>1, RowsSame, LocalSame, ServiceSame, CTraderSame DEF Heartbeat, serviceState

\* A close executed: any size may be seen from now on.
LEMMA ExecutedInv ==
    ASSUME AnyInv, NEW c \in flight, closes' = closes + 1, flight' = flight \ {c},
           volume' \in 0..volume,
           command' \in {"none", "queued", "executed", "refused", "reported"},
           UNCHANGED <<provider, heartbeat, asked, rows, local, serviceState, doubts>>
    PROVE  AnyInv'
<1> USE DEF AnyInv, PartialTypes
<1>1. closes \in Nat /\ closes' \in Nat /\ closes' > 0 /\ Seen' = 0..InitialSize
  BY DEF BrokerTypes, Seen
<1>2. Seen \subseteq Seen'
  BY <1>1, SeenSizes
<1>3. volume' \in Seen'
  <2>1. volume \in 0..InitialSize /\ InitialSize \in Nat
    BY <1>1, SeenSizes, PartialAssumption DEF BrokerTypes, PartialAssumption
  <2> QED BY <1>1, <2>1
<1>4. BrokerTypes'
  BY <1>1, <1>2, <1>3 DEF BrokerTypes
<1>5. RowTypes' /\ LocalTypes'
  BY <1>2, PlacesGrow DEF RowTypes, LocalTypes, rows, local
<1>6. Locking'
  BY DEF Locking, Asking, local
<1>7. DoneIsExecuted'
  BY <1>1 DEF DoneIsExecuted
<1>8. CTraderOnce'
  BY <1>1 DEF CTraderOnce, OneAtMost, Live, serviceState
<1> QED BY <1>4, <1>5, <1>6, <1>7, <1>8, ServiceSame

LEMMA BrokerTakesInv ==
    ASSUME AnyInv, NEW c \in 1..MaxCalls, BrokerTakes(c)
    PROVE  AnyInv'
<1> USE DEF AnyInv, PartialTypes
<1>1. command' \in {"none", "queued", "executed", "refused", "reported"}
  BY DEF BrokerTakes, BrokerTypes
<1>2. CASE closes' = closes + 1 /\ volume > 0
           /\ volume' = IF asked[c] < volume THEN volume - asked[c] ELSE 0
  <2>1. asked[c] \in Nat /\ volume \in Nat
    BY SeenSizes, PartialAssumption DEF BrokerTakes, BrokerTypes, PartialAssumption
  <2>2. volume' \in 0..volume
    BY <1>2, <2>1
  <2> QED BY <1>1, <1>2, <2>2, ExecutedInv DEF BrokerTakes
<1>3. CASE UNCHANGED <<volume, closes>>
  <2>1. BrokerTypes'
    BY <1>1, <1>3 DEF BrokerTakes, BrokerTypes, Seen
  <2>2. CTraderOnce'
    BY <1>3 DEF BrokerTakes, CTraderOnce, OneAtMost, Live, serviceState
  <2> QED BY <1>3, <2>1, <2>2, RowsSame, LocalSame, ServiceSame DEF BrokerTakes
<1> QED BY <1>2, <1>3 DEF BrokerTakes

LEMMA TerminalTakesPartInv ==
    ASSUME AnyInv, NEW c \in 1..MaxCalls, TerminalTakesPart(c)
    PROVE  AnyInv'
<1> USE DEF AnyInv, PartialTypes
<1>1. asked[c] \in Nat /\ volume \in Nat
  BY SeenSizes, PartialAssumption DEF TerminalTakesPart, BrokerTypes, PartialAssumption
<1>2. PICK part \in 1..(asked[c] - 1) : part < volume /\ volume' = volume - part
  BY DEF TerminalTakesPart
<1>3. volume' \in 0..volume
  BY <1>1, <1>2
<1> QED BY <1>3, ExecutedInv DEF TerminalTakesPart

LEMMA AgentReportsPlacedInv ==
    ASSUME AnyInv, AgentReportsPlaced
    PROVE  AnyInv'
<1> USE DEF AnyInv, PartialTypes
<1>1. BrokerTypes'
  BY DEF AgentReportsPlaced, BrokerTypes, Seen
<1> QED BY <1>1, RowsSame, LocalSame, ServiceSame, CTraderSame
        DEF AgentReportsPlaced, serviceState

\* The key goes to the broker once.
LEMMA GatewaySendInv ==
    ASSUME AnyInv, NEW c \in 1..MaxCalls, GatewaySend(c)
    PROVE  AnyInv'
<1> USE DEF AnyInv, PartialTypes
<1>1. /\ sent["exit"] = 0 /\ sent' = [sent EXCEPT !["exit"] = 1]
      /\ UNCHANGED told
  BY DEF GatewaySend, Gateway!Send
<1>2. ServiceTypes' /\ sent'["exit"] = 1
  BY <1>1 DEF ServiceTypes
<1>3. BrokerTypes'
  BY DEF GatewaySend, BrokerTypes, Seen
<1>4. flight = {} /\ closes = 0
  BY <1>1 DEF GatewaySend, CTraderOnce, Live, BrokerTypes
<1>5. CTraderOnce'
  <2>1. flight' = {c} /\ closes' = 0
    BY <1>4 DEF GatewaySend
  <2> QED BY <1>2, <2>1 DEF CTraderOnce, OneAtMost
<1> QED BY <1>2, <1>3, <1>5, RowsSame, LocalSame DEF GatewaySend

LEMMA GatewayRecordInv ==
    ASSUME AnyInv, GatewayRecord
    PROVE  AnyInv'
<1> USE DEF AnyInv, PartialTypes
<1>1. UNCHANGED <<sent, told>>
  BY DEF GatewayRecord, Gateway!Record
<1>2. ServiceTypes'
  BY <1>1 DEF ServiceTypes
<1>3. BrokerTypes' /\ CTraderOnce'
  BY <1>1, BrokerSame, CTraderSame DEF GatewayRecord, broker, BrokerTypes
<1> QED BY <1>2, <1>3, RowsSame, LocalSame DEF GatewayRecord, broker

LEMMA GatewayMistakeInv ==
    ASSUME AnyInv, GatewayMistake
    PROVE  AnyInv'
<1> USE DEF AnyInv, PartialTypes
<1>1. UNCHANGED <<sent, told>>
  BY DEF GatewayMistake, Gateway!Mistake
<1>2. ServiceTypes'
  BY <1>1 DEF ServiceTypes
<1>3. BrokerTypes' /\ CTraderOnce'
  BY <1>1, BrokerSame, CTraderSame DEF GatewayMistake, broker, BrokerTypes
<1> QED BY <1>2, <1>3, RowsSame, LocalSame DEF GatewayMistake, broker

-----------------------------------------------------------------------------
(* The quote handler *)

\* Nobody asks while the deployment's lock is free.
LEMMA LockFree ==
    ASSUME AnyInv, deployLock = NoOne
    PROVE  \A h \in Handlers : ~Asking(h)
BY PartialAssumption DEF AnyInv, Locking, PartialAssumption

LEMMA IdlePlace == Idle \in HandlerPlaces(Seen) /\ Idle.at = "idle" /\ Idle \in ScanPlaces(Seen)
BY DEF Idle, HandlerPlaces, ScanPlaces

LEMMA QuoteReadInv ==
    ASSUME AnyInv, NEW h \in Handlers, QuoteRead(h)
    PROVE  AnyInv'
<1> USE DEF AnyInv, PartialTypes
<1> DEFINE next == [at |-> "read", state |-> manage, position |-> position]
<1>1. manage \in Due
  BY DEF QuoteRead, RowTypes, States, Due
<1>2. next \in HandlerPlaces(Seen) /\ next.at = "read"
  BY <1>1 DEF RowTypes, HandlerPlaces, Reading
<1>3. LocalTypes' /\ Locking'
  <2>1. UNCHANGED <<scan, closes, asked, deployLock>> /\ handler' = [handler EXCEPT ![h] = next]
    BY DEF QuoteRead, broker
  <2> HIDE DEF next
  <2> QED BY <1>2, <2>1, HandlerMoves DEF LocalTypes, Locking
<1> QED BY <1>3, BrokerSame, RowsSame, ServiceSame, CTraderSame
        DEF QuoteRead, broker, serviceState, BrokerTypes

\* A handler that reads and finds nothing to ask goes back.
LEMMA EndQuoteMoves ==
    ASSUME LocalTypes, Locking, UNCHANGED <<scan, closes, asked>>,
           NEW h \in Handlers, EndQuote(h),
           deployLock' \in {NoOne, deployLock},
           \A g \in Handlers \ {h} : Asking(g) => deployLock' = g
    PROVE  LocalTypes' /\ Locking'
<1>1. deployLock' \in Handlers \cup {NoOne}
  BY DEF LocalTypes
<1> QED BY <1>1, IdlePlace, HandlerMoves DEF EndQuote

\* The position row that a handler or the scan saves.
LEMMA ReadCurrent ==
    ASSUME AnyInv, NEW h \in Handlers, handler[h].at = "read"
    PROVE  /\ Current(h) \in Positions(Seen)
           /\ (IF position.open THEN Current(h) ELSE position) \in Positions(Seen)
           /\ Total(h) \in Seen /\ Total(h) \in 0..InitialSize
           /\ handler[h].state \in Due
<1> USE DEF AnyInv, PartialTypes
<1>1. handler[h] \in Reading(Seen)
  BY HandlerType
<1>2. handler[h].position \in Positions(Seen) /\ handler[h].state \in Due
  BY <1>1 DEF Reading
<1>3. Current(h) \in Positions(Seen)
      /\ (IF position.open THEN Current(h) ELSE position) \in Positions(Seen)
  BY <1>2, RefreshedType DEF Current
<1> QED BY <1>2, <1>3, SeenSizes DEF Total, Positions, BrokerTypes

\* Rows that a handler has written: never DONE.
LEMMA RowsWritten ==
    ASSUME RowTypes, DoneIsExecuted, UNCHANGED closes,
           position' \in Positions(Seen), order' \in {"none", "PLACED", "FILLED", "ERROR"},
           manage' \in States, manage'.status = "DONE" => manage.status = "DONE"
    PROVE  RowTypes' /\ DoneIsExecuted'
<1>1. Seen' = Seen
  BY DEF Seen
<1> QED BY <1>1 DEF RowTypes, DoneIsExecuted

LEMMA QuoteRefusedInv ==
    ASSUME AnyInv, NEW h \in Handlers, QuoteRefused(h)
    PROVE  AnyInv'
<1> USE DEF AnyInv, PartialTypes
<1>1. PICK s \in {"FAILED_RETRYABLE", "FAILED_TERMINAL", "SKIPPED_MIN_SIZE"} :
        manage' = Written(handler[h].state, [handler[h].state EXCEPT !.status = s])
  BY DEF QuoteRefused
<1> DEFINE new == [handler[h].state EXCEPT !.status = s]
<1>2. handler[h].at = "read" /\ deployLock = NoOne
  BY DEF QuoteRefused, Refreshes
<1>3. new.status = s /\ new.runner = handler[h].state.runner
  BY <1>2, ReadCurrent DEF Due
<1>4. s \in Stored /\ s # "DONE"
  BY DEF Stored, Final, Armed
<1>5. manage' \in States /\ (manage'.status = "DONE" => manage.status = "DONE")
  <2>1. manage' = Written(handler[h].state, new)
    BY <1>1
  <2> HIDE DEF new
  <2> QED BY <1>3, <1>4, <2>1, WrittenType DEF RowTypes
<1>6. position' \in Positions(Seen)
  BY <1>2, ReadCurrent DEF QuoteRefused, SavePosition
<1>7. RowTypes' /\ DoneIsExecuted'
  BY <1>5, <1>6, RowsWritten DEF QuoteRefused, broker, RowTypes
<1>8. LocalTypes' /\ Locking'
  BY <1>2, LockFree, EndQuoteMoves DEF QuoteRefused, broker
<1> QED BY <1>7, <1>8, BrokerSame, ServiceSame, CTraderSame
        DEF QuoteRefused, broker, serviceState, BrokerTypes

LEMMA QuoteRecordedInv ==
    ASSUME AnyInv, NEW h \in Handlers, QuoteRecorded(h)
    PROVE  AnyInv'
<1> USE DEF AnyInv, PartialTypes
<1> DEFINE new == [handler[h].state EXCEPT !.runner = RunnerSize(Total(h))]
<1>1. handler[h].at = "read" /\ deployLock = NoOne /\ Eligible(Total(h))
  BY DEF QuoteRecorded, Refreshes
<1>2. new.status = handler[h].state.status /\ new.runner \in Plans
  BY <1>1, ReadCurrent, SplitIsValid DEF Due
<1>3. manage' = Written(handler[h].state, new)
  BY DEF QuoteRecorded
<1>4. manage' \in States /\ (manage'.status = "DONE" => manage.status = "DONE")
  <2> HIDE DEF new
  <2> QED BY <1>2, <1>3, WrittenType DEF RowTypes
<1>5. position' \in Positions(Seen)
  BY <1>1, ReadCurrent DEF QuoteRecorded, SavePosition
<1>6. RowTypes' /\ DoneIsExecuted'
  BY <1>4, <1>5, RowsWritten DEF QuoteRecorded, broker, RowTypes
<1>7. LocalTypes' /\ Locking'
  BY <1>1, LockFree, EndQuoteMoves DEF QuoteRecorded, broker
<1> QED BY <1>6, <1>7, BrokerSame, ServiceSame, CTraderSame
        DEF QuoteRecorded, broker, serviceState, BrokerTypes

LEMMA QuoteAskInv ==
    ASSUME AnyInv, NEW h \in Handlers, QuoteAsk(h)
    PROVE  AnyInv'
<1> USE DEF AnyInv, PartialTypes
<1> DEFINE next == [at |-> "calling", state |-> handler[h].state, position |-> Current(h),
                    reply |-> "none"]
<1>1. handler[h].at = "read" /\ deployLock = NoOne /\ Eligible(Total(h))
  BY DEF QuoteAsk, Refreshes
<1>2. CloseSize(Total(h)) \in Nat
  BY <1>1, ReadCurrent, SplitIsValid
<1>3. /\ asked' \in Seq(Nat) /\ Len(asked') = Len(asked) + 1 /\ Len(asked) \in Nat
      /\ Len(asked') <= MaxCalls
  BY <1>2, PartialAssumption DEF QuoteAsk, BrokerTypes, PartialAssumption
<1>4. BrokerTypes'
  <2>1. flight' \subseteq 1..Len(asked')
    BY <1>3 DEF QuoteAsk, BrokerTypes
  <2> QED BY <1>3, <2>1 DEF QuoteAsk, BrokerTypes, Seen
<1>5. next \in HandlerPlaces(Seen)
  <2>1. Current(h) \in Positions(Eligibles(Seen))
    BY <1>1, ReadCurrent DEF Total, Positions, Eligibles
  <2> QED BY <1>1, <2>1, ReadCurrent DEF HandlerPlaces, Calling
<1>6. handler' = [handler EXCEPT ![h] = next]
  BY DEF QuoteAsk, LocalTypes
<1>7. LocalTypes'
  <2> HIDE DEF next
  <2> QED BY <1>5, <1>6 DEF QuoteAsk, LocalTypes, Seen
<1>8. Locking'
  <2>1. \A g \in Handlers \ {h} : ~Asking(g) /\ handler'[g] = handler[g]
    BY <1>1, <1>6, LockFree DEF LocalTypes
  <2> QED BY <1>3, <2>1 DEF QuoteAsk, Locking, Asking
<1> QED BY <1>4, <1>7, <1>8, RowsSame, ServiceSame, CTraderSame DEF QuoteAsk, serviceState

LEMMA QuoteDroppedInv ==
    ASSUME AnyInv, NEW h \in Handlers, QuoteDropped(h)
    PROVE  AnyInv'
<1> USE DEF AnyInv, PartialTypes
<1>1. LocalTypes' /\ Locking'
  BY EndQuoteMoves DEF QuoteDropped, broker, Locking
<1> QED BY <1>1, BrokerSame, RowsSame, ServiceSame, CTraderSame
        DEF QuoteDropped, broker, serviceState, BrokerTypes

\* The answer to a call.
LEMMA ReplyMoves ==
    ASSUME AnyInv, UNCHANGED <<scan, closes, asked, deployLock>>,
           NEW h \in Handlers, handler[h].at = "calling", NEW r \in Replies, Reply(h, r)
    PROVE  LocalTypes' /\ Locking'
<1> USE DEF AnyInv, PartialTypes
<1> DEFINE next == [handler[h] EXCEPT !.at = "called", !.reply = r]
<1>1. handler[h] \in Calling(Seen) /\ deployLock = h /\ Len(asked) > 0
  BY HandlerType DEF Locking, Asking
<1>2. next \in HandlerPlaces(Seen)
  BY <1>1 DEF Calling, Called, HandlerPlaces
<1>3. handler' = [handler EXCEPT ![h] = next]
  BY DEF Reply, LocalTypes
<1>4. \A g \in Handlers \ {h} : ~Asking(g)
  BY <1>1 DEF Locking
<1> HIDE DEF next
<1> QED BY <1>1, <1>2, <1>3, <1>4, HandlerMoves DEF LocalTypes

LEMMA AnswerCTraderInv ==
    ASSUME AnyInv, NEW h \in Handlers, AnswerCTrader(h)
    PROVE  AnyInv'
<1> USE DEF AnyInv, PartialTypes
<1>1. PICK a \in Gateway!Answers :
        told' = [told EXCEPT ![Len(asked)] = [key |-> "exit", answer |-> a]]
  BY DEF AnswerCTrader, Gateway!Answer
<1>2. Len(asked) \in 1..MaxCalls
  BY PartialAssumption DEF AnswerCTrader, Locking, Asking, BrokerTypes, PartialAssumption
<1>3. ServiceTypes' /\ told'[Len(asked)].answer = a
  BY <1>1, <1>2 DEF AnswerCTrader, Gateway!Answer, ServiceTypes
<1>4. LocalTypes' /\ Locking'
  BY <1>3, ReplyMoves DEF AnswerCTrader, broker, Replies
<1>5. UNCHANGED sent
  BY DEF AnswerCTrader, Gateway!Answer
<1> QED BY <1>3, <1>4, <1>5, BrokerSame, RowsSame, CTraderSame
        DEF AnswerCTrader, broker, BrokerTypes

LEMMA AnswerTradeLockerInv ==
    ASSUME AnyInv, NEW h \in Handlers, AnswerTradeLocker(h)
    PROVE  AnyInv'
<1> USE DEF AnyInv, PartialTypes
<1>1. Len(asked) \in 1..Len(asked)
  BY DEF AnswerTradeLocker, Locking, Asking, BrokerTypes
<1>2. BrokerTypes'
  BY <1>1 DEF AnswerTradeLocker, BrokerTypes, Seen
<1>3. PICK r \in {"PLACED", "UNCERTAIN", "REJECTED"} : Reply(h, r)
  BY DEF AnswerTradeLocker
<1>4. r \in Replies
  BY DEF Replies, Gateway!Answers, Gateway!Success
<1>5. LocalTypes' /\ Locking'
  BY <1>3, <1>4, ReplyMoves DEF AnswerTradeLocker
<1>6. CTraderOnce'
  BY DEF AnswerTradeLocker, CTraderOnce
<1> QED BY <1>2, <1>5, <1>6, RowsSame, ServiceSame DEF AnswerTradeLocker

LEMMA AnswerMt5Inv ==
    ASSUME AnyInv, NEW h \in Handlers, AnswerMt5(h)
    PROVE  AnyInv'
<1> USE DEF AnyInv, PartialTypes
<1>1. PICK r \in {"PLACED", "ERROR"} : Reply(h, r)
  BY DEF AnswerMt5
<1>2. r \in Replies
  BY DEF Replies, Gateway!Answers, Gateway!Success
<1>3. LocalTypes' /\ Locking'
  BY <1>1, <1>2, ReplyMoves DEF AnswerMt5, broker
<1> QED BY <1>3, BrokerSame, RowsSame, ServiceSame, CTraderSame
        DEF AnswerMt5, broker, serviceState, BrokerTypes

\* What a commit makes of the rows.
LEMMA CommittedRows ==
    ASSUME AnyInv, NEW h \in Handlers, QuoteCommit(h)
    PROVE  /\ handler[h] \in Called(Seen) /\ manage' \in States
           /\ manage'.status = NewStatus(handler[h].reply) \/ UNCHANGED manage.status
           /\ handler[h].state.status # NewStatus(handler[h].reply) \/ provider = "MT5" =>
                 manage'.status = NewStatus(handler[h].reply)
           /\ NewStatus(handler[h].reply) \in {"AWAITING_RECONCILE", "MANUAL_REVIEW",
                                               "FAILED_RETRYABLE"}
<1> USE DEF AnyInv, PartialTypes
<1> DEFINE reply == handler[h].reply
           was == IF provider = "MT5" THEN [handler[h].state EXCEPT !.status = "TRIGGERED"]
                  ELSE handler[h].state
           new == [status |-> NewStatus(reply), runner |-> RunnerSize(handler[h].position.size)]
<1>1. handler[h] \in Called(Seen)
  BY HandlerType DEF QuoteCommit
<1>2. handler[h].state \in Due /\ handler[h].position.size \in Eligibles(Seen)
  BY <1>1 DEF Called, Positions
<1>3. RunnerSize(handler[h].position.size) \in Plans
  BY <1>2, SplitIsValid, SeenSizes DEF Eligibles, BrokerTypes
<1>4. NewStatus(reply) \in {"AWAITING_RECONCILE", "MANUAL_REVIEW", "FAILED_RETRYABLE"}
  BY DEF NewStatus
<1>5. NewStatus(reply) \in Stored /\ NewStatus(reply) # "TRIGGERED"
  BY <1>4 DEF Stored, InFlight, Armed
<1>6. manage' = Written(was, new)
  BY DEF QuoteCommit
<1>7. was.status = IF provider = "MT5" THEN "TRIGGERED" ELSE handler[h].state.status
  BY <1>2 DEF Due
<1>8. new.status = NewStatus(reply) /\ new.runner \in Plans
  BY <1>3
<1>9. manage' \in States
      /\ manage'.status = IF NewStatus(reply) = was.status THEN manage.status ELSE NewStatus(reply)
  <2> HIDE DEF was, new, reply
  <2> QED BY <1>5, <1>6, <1>8, WrittenType DEF RowTypes
<1> HIDE DEF was, new
<1> QED BY <1>1, <1>4, <1>5, <1>7, <1>9

LEMMA QuoteCommitInv ==
    ASSUME AnyInv, NEW h \in Handlers, QuoteCommit(h)
    PROVE  AnyInv'
<1> USE DEF AnyInv, PartialTypes
<1>1. Asking(h) /\ deployLock = h /\ deployLock' = NoOne /\ Len(asked) \in 1..Len(asked)
  BY DEF QuoteCommit, Asking, Locking, BrokerTypes
<1>2. BrokerTypes'
  BY <1>1 DEF QuoteCommit, BrokerTypes, Seen
<1>3. RowTypes' /\ DoneIsExecuted'
  <2>1. handler[h].position \in Positions(Seen)
    BY CommittedRows DEF Called, Positions, Eligibles
  <2>2. position' \in Positions(Seen)
    BY <2>1 DEF QuoteCommit, RowTypes
  <2>3. order' \in {"none", "PLACED", "FILLED", "ERROR"}
    BY DEF QuoteCommit, Gateway!Success
  <2>4. manage'.status = "DONE" => manage.status = "DONE"
    BY CommittedRows
  <2> QED BY <2>2, <2>3, <2>4, CommittedRows, RowsWritten DEF QuoteCommit, broker
<1>4. LocalTypes' /\ Locking'
  <2>1. \A g \in Handlers \ {h} : ~Asking(g)
    BY <1>1 DEF Locking
  <2> QED BY <1>1, <2>1, EndQuoteMoves DEF QuoteCommit
<1>5. CTraderOnce'
  BY CTraderSame DEF QuoteCommit, CTraderOnce, serviceState
<1> QED BY <1>2, <1>3, <1>4, <1>5, ServiceSame DEF QuoteCommit

LEMMA QuoteLostInv ==
    ASSUME AnyInv, NEW h \in Handlers, QuoteLost(h)
    PROVE  AnyInv'
<1> USE DEF AnyInv, PartialTypes
<1>1. Asking(h) /\ deployLock = h /\ deployLock' = NoOne
  BY DEF QuoteLost, Asking, Locking
<1>2. LocalTypes' /\ Locking'
  <2>1. \A g \in Handlers \ {h} : ~Asking(g)
    BY <1>1 DEF Locking
  <2> QED BY <1>1, <2>1, EndQuoteMoves DEF QuoteLost, broker
<1>3. BrokerTypes'
  BY BrokerSame DEF QuoteLost, BrokerTypes
<1> QED BY <1>2, <1>3, RowsSame, ServiceSame, CTraderSame DEF QuoteLost, broker, serviceState

-----------------------------------------------------------------------------
(* Those who follow the broker *)

\* The scan moves, the handlers stay.
LEMMA ScanMoves ==
    ASSUME LocalTypes, Locking, UNCHANGED <<closes, asked, deployLock, handler>>,
           scan' \in ScanPlaces(Seen)
    PROVE  LocalTypes' /\ Locking'
BY DEF LocalTypes, Locking, Asking, Seen

LEMMA ScanReadInv ==
    ASSUME AnyInv, ScanRead
    PROVE  AnyInv'
<1> USE DEF AnyInv, PartialTypes
<1>1. scan' \in ScanPlaces(Seen)
  <2>1. manage \in Waited
    BY DEF ScanRead, RowTypes, States, Waited, Stored
  <2> QED BY <2>1 DEF ScanRead, RowTypes, ScanPlaces
<1>2. LocalTypes' /\ Locking'
  BY <1>1, ScanMoves DEF ScanRead, broker
<1> QED BY <1>2, BrokerSame, RowsSame, ServiceSame, CTraderSame
        DEF ScanRead, broker, serviceState, BrokerTypes

\* What the scan writes, and what it knows when it calls an exit done.
LEMMA ScanWrites ==
    ASSUME AnyInv, ScanFinish
    PROVE  /\ position' \in Positions(Seen) /\ manage' \in States
           /\ manage'.status = "DONE" => manage.status = "DONE" \/ closes > 0
           /\ \/ manage'.status \in {"BROKER_POSITION_CLOSED", "DONE", manage.status}
              \/ /\ provider = "TRADELOCKER" /\ manage'.status = "FAILED_RETRYABLE"
                 /\ scan.state.status # "FAILED_RETRYABLE"
<1> USE DEF AnyInv, PartialTypes
<1> DEFINE now == Refreshed(scan.position)
           plan == scan.state.runner
<1>1. scan.at = "read" /\ scan.state \in Waited /\ scan.position \in Positions(Seen)
  BY ScanType DEF ScanFinish
<1>2. now \in Positions(Seen) /\ now.size \in Seen
      /\ (IF position.open THEN now ELSE position) \in Positions(Seen)
  <2>1. now \in Positions(Seen) /\ (IF position.open THEN now ELSE position) \in Positions(Seen)
    BY <1>1, RefreshedType
  <2> HIDE DEF now
  <2> QED BY <2>1 DEF Positions
<1>3. position' \in Positions(Seen)
  BY <1>2 DEF ScanFinish
<1>4. CASE manage' = [manage EXCEPT !.status = "BROKER_POSITION_CLOSED"]
  BY <1>3, <1>4 DEF RowTypes, States, Stored, Final
<1>5. CASE UNCHANGED manage
  BY <1>3, <1>5 DEF RowTypes
<1>6. ASSUME Reached(now.size, plan),
             NEW s \in {"DONE"} \cup
                       (IF provider = "TRADELOCKER" THEN {"FAILED_RETRYABLE"} ELSE {}),
             manage' = Written(scan.state, [scan.state EXCEPT !.status = s])
      PROVE  /\ manage' \in States
             /\ manage'.status = "DONE" => manage.status = "DONE" \/ closes > 0
             /\ \/ manage'.status \in {"DONE", manage.status}
                \/ /\ provider = "TRADELOCKER" /\ manage'.status = "FAILED_RETRYABLE"
                   /\ scan.state.status # "FAILED_RETRYABLE"
  <2> DEFINE new == [scan.state EXCEPT !.status = s]
  <2>1. new.status = s /\ new.runner = scan.state.runner
    BY <1>1 DEF Waited
  <2>2. s \in Stored
    BY DEF Stored, Final, Armed
  <2>3. manage' = Written(scan.state, new)
    BY <1>6
  <2>4. /\ manage' \in States
        /\ manage'.status = IF s = scan.state.status THEN manage.status ELSE s
    <3> HIDE DEF new
    <3> QED BY <2>1, <2>2, <2>3, WrittenType DEF RowTypes
  <2>5. closes > 0
    <3>1. plan \in MinSize..(InitialSize - 1) /\ now.size = plan
      BY <1>1, <1>6 DEF Reached, Waited, Plans
    <3>2. now.size \notin {0, InitialSize}
      BY <3>1, PartialAssumption DEF PartialAssumption
    <3> HIDE DEF now
    <3> QED BY <1>2, <3>2 DEF Seen
  <2> QED BY <2>4, <2>5
<1> QED BY <1>3, <1>4, <1>5, <1>6 DEF ScanFinish

LEMMA ScanFinishInv ==
    ASSUME AnyInv, ScanFinish
    PROVE  AnyInv'
<1> USE DEF AnyInv, PartialTypes
<1>1. RowTypes' /\ DoneIsExecuted'
  <2>1. Seen' = Seen /\ UNCHANGED <<order, closes>> /\ (closes > 0 => closes >= 1)
    BY DEF ScanFinish, broker, Seen, BrokerTypes
  <2> QED BY <2>1, ScanWrites DEF RowTypes, DoneIsExecuted
<1>2. LocalTypes' /\ Locking'
  BY IdlePlace, ScanMoves DEF ScanFinish, broker
<1>3. doubts' \subseteq {"lost", "resumed", "blinked"}
  BY DEF ScanFinish, BrokerTypes
<1> QED BY <1>1, <1>2, <1>3, BrokerSame, ServiceSame, CTraderSame
        DEF ScanFinish, broker, serviceState

LEMMA ScanDroppedInv ==
    ASSUME AnyInv, ScanDropped
    PROVE  AnyInv'
<1> USE DEF AnyInv, PartialTypes
<1>1. LocalTypes' /\ Locking'
  BY IdlePlace, ScanMoves DEF ScanDropped, broker
<1> QED BY <1>1, BrokerSame, RowsSame, ServiceSame, CTraderSame
        DEF ScanDropped, broker, serviceState, BrokerTypes

LEMMA RepairClosedInv ==
    ASSUME AnyInv, RepairClosed
    PROVE  AnyInv'
<1> USE DEF AnyInv, PartialTypes
<1>1. manage' \in States /\ manage'.status # "DONE"
  BY DEF RepairClosed, RowTypes, States, Stored, Final
<1>2. RowTypes' /\ DoneIsExecuted'
  BY <1>1, RowsWritten DEF RepairClosed, broker, RowTypes
<1> QED BY <1>2, BrokerSame, LocalSame, ServiceSame, CTraderSame
        DEF RepairClosed, broker, serviceState, BrokerTypes

LEMMA SyncPositionsInv ==
    ASSUME AnyInv, SyncPositions
    PROVE  AnyInv'
<1> USE DEF AnyInv, PartialTypes
<1>1. manage' \in States /\ (manage'.status = "DONE" => manage.status = "DONE")
  <2>1. CASE manage' = manage
    BY <2>1 DEF RowTypes
  <2>2. CASE manage' = [manage EXCEPT !.status = "BROKER_POSITION_CLOSED"]
    BY <2>2 DEF RowTypes, States, Stored, Final
  <2> QED BY <2>1, <2>2 DEF SyncPositions
<1>2. position' \in Positions(Seen)
  <2>1. (Volume > 0) \in BOOLEAN
    BY VolumeSeen, SeenSizes DEF BrokerTypes
  <2> QED BY <2>1, VolumeSeen DEF SyncPositions, Positions
<1>3. RowTypes' /\ DoneIsExecuted'
  BY <1>1, <1>2, RowsWritten DEF SyncPositions, broker, RowTypes
<1> QED BY <1>3, BrokerSame, LocalSame, ServiceSame, CTraderSame
        DEF SyncPositions, broker, serviceState, BrokerTypes

LEMMA ReappearsInv ==
    ASSUME AnyInv, Reappears
    PROVE  AnyInv'
<1> USE DEF AnyInv, PartialTypes
<1>1. manage' \in States /\ manage'.status # "DONE"
  BY DEF Reappears, States, Stored, Armed, Final, Plans
<1>2. position' \in Positions(Seen)
  BY VolumeSeen DEF Reappears, Positions
<1>3. RowTypes' /\ DoneIsExecuted'
  BY <1>1, <1>2, RowsWritten DEF Reappears
<1>4. LocalTypes'
  BY IdlePlace DEF Reappears, LocalTypes, Seen
<1>5. Locking'
  BY IdlePlace DEF Reappears, Locking, Asking
<1>6. BrokerTypes'
  BY DEF Reappears, BrokerTypes, Seen
<1> QED BY <1>3, <1>4, <1>5, <1>6, ServiceSame, CTraderSame DEF Reappears, serviceState

LEMMA Mt5ResultInv ==
    ASSUME AnyInv, Mt5Result
    PROVE  AnyInv'
<1> USE DEF AnyInv, PartialTypes
<1>1. manage' \in States /\ (manage'.status = "DONE" => manage.status = "DONE")
  BY DEF Mt5Result, RowTypes, States, Stored, InFlight
<1>2. RowTypes' /\ DoneIsExecuted'
  BY <1>1, RowsWritten DEF Mt5Result, RowTypes
<1>3. BrokerTypes'
  BY DEF Mt5Result, BrokerTypes, Seen
<1> QED BY <1>2, <1>3, LocalSame, ServiceSame, CTraderSame DEF Mt5Result, serviceState

-----------------------------------------------------------------------------

LEMMA PartialInitInv == PartialInit => AnyInv
<1> SUFFICES ASSUME PartialInit PROVE AnyInv
  OBVIOUS
<1>1. Seen = {0, InitialSize} /\ InitialSize \in Nat
  BY PartialAssumption DEF PartialInit, Seen, PartialAssumption
<1>2. BrokerTypes
  BY <1>1, PartialAssumption DEF PartialInit, BrokerTypes, PartialAssumption
<1>3. RowTypes
  BY <1>1 DEF PartialInit, RowTypes, Positions, States, Stored, Armed, Final, Plans
<1>4. LocalTypes
  BY IdlePlace DEF PartialInit, LocalTypes
<1>5. ServiceTypes
  BY DEF PartialInit, Gateway!Init, ServiceTypes
<1>6. Locking
  BY IdlePlace DEF PartialInit, Locking, Asking
<1>7. DoneIsExecuted /\ CTraderOnce
  BY DEF PartialInit, DoneIsExecuted, CTraderOnce, OneAtMost, Live
<1> QED BY <1>2, <1>3, <1>4, <1>5, <1>6, <1>7 DEF AnyInv, PartialTypes

LEMMA AnyStutter ==
    ASSUME AnyInv, UNCHANGED partialVars
    PROVE  AnyInv'
BY BrokerSame, RowsSame, LocalSame, ServiceSame, CTraderSame
DEF AnyInv, PartialTypes, partialVars, broker, serviceState, BrokerTypes

LEMMA AnyNextInv == AnyInv /\ [PartialNext]_partialVars => AnyInv'
<1> SUFFICES ASSUME AnyInv, [PartialNext]_partialVars PROVE AnyInv'
  OBVIOUS
<1>1. ASSUME NEW c \in 1..MaxCalls, BrokerTakes(c) \/ TerminalTakesPart(c) \/ GatewaySend(c)
      PROVE  AnyInv'
  BY <1>1, BrokerTakesInv, TerminalTakesPartInv, GatewaySendInv
<1>2. ASSUME NEW h \in Handlers,
             \/ QuoteRead(h) \/ QuoteRefused(h) \/ QuoteRecorded(h) \/ QuoteAsk(h)
             \/ QuoteDropped(h) \/ AnswerCTrader(h) \/ AnswerTradeLocker(h) \/ AnswerMt5(h)
             \/ QuoteCommit(h) \/ QuoteLost(h)
      PROVE  AnyInv'
  BY <1>2, QuoteReadInv, QuoteRefusedInv, QuoteRecordedInv, QuoteAskInv, QuoteDroppedInv,
     AnswerCTraderInv, AnswerTradeLockerInv, AnswerMt5Inv, QuoteCommitInv, QuoteLostInv
<1> QED BY <1>1, <1>2, AnyStutter, BrokerClosesInv, HeartbeatInv, GatewayRecordInv,
           ScanReadInv, ScanFinishInv, ScanDroppedInv, RepairClosedInv, SyncPositionsInv,
           ReappearsInv, Mt5ResultInv, GatewayMistakeInv, AgentReportsPlacedInv
        DEF PartialNext

LEMMA PartialInvariant == PartialSpec => []AnyInv
BY PartialInitInv, AnyNextInv, PTL DEF PartialSpec

\* The types of the position, the rows and the sessions, for any number of
\* handlers.
THEOREM PartialTypeCorrect == PartialSpec => []PartialTypeOK
<1>1. ASSUME AnyInv PROVE PartialTypeOK
  <2> USE <1>1 DEF AnyInv, PartialTypes
  <2>1. Seen \subseteq 0..InitialSize
    BY SeenSizes DEF BrokerTypes
  <2>2. \A h \in Handlers : handler[h].at \in {"idle", "read", "calling", "called"}
    BY HandlerType
  <2>3. InitialSize \in Nat /\ MinSize \in Nat
    BY PartialAssumption DEF PartialAssumption
  <2>4. Plans \subseteq {NoPlan} \cup MinSize..InitialSize
    BY <2>3 DEF Plans
  <2>5. manage \in [status : Final \cup InFlight \cup Armed,
                    runner : {NoPlan} \cup MinSize..InitialSize]
    BY <2>4 DEF RowTypes, States, Stored
  <2>6. position \in [open : BOOLEAN, size : 0..InitialSize]
    BY <2>1 DEF RowTypes, Positions
  <2> QED BY <2>1, <2>2, <2>5, <2>6 DEF PartialTypeOK, BrokerTypes, RowTypes, LocalTypes
<1> QED BY <1>1, PartialInvariant, PTL

\* A partial exit that is called DONE was executed: no interleaving of handlers,
\* scan and reconcile worker, no stale object and no lost transaction makes the
\* runner appear reached, not even an empty or late position list.
THEOREM PartialDoneExecuted == PartialSpec => []DoneIsExecuted
BY PartialInvariant, PTL DEF AnyInv

\* On a cTrader account the partial exit is executed once at most, for any number
\* of handlers and whatever is lost: the one key of its order is enough.
THEOREM CTraderExitsOnce == PartialSpec => [](provider = "CTRADER" => closes <= 1)
<1>1. AnyInv => (provider = "CTRADER" => closes <= 1)
  BY DEF AnyInv, CTraderOnce, OneAtMost
<1> QED BY <1>1, PartialInvariant, PTL

\* Handlers and recovery use the cTrader gateway as the service that
\* CTraderGateway implements: every step maps to one of OrderService or to none.
THEOREM PartialUsesGateway == PartialSpec => Gateway!Spec
<1>1. PartialInit => Gateway!Init
  BY DEF PartialInit
<1>2. AnyInv /\ [PartialNext]_partialVars => [Gateway!Next]_(Gateway!serviceVars)
  <2> SUFFICES ASSUME AnyInv, [PartialNext]_partialVars
               PROVE  [Gateway!Next]_(Gateway!serviceVars)
    OBVIOUS
  <2>1. CASE \E c \in 1..MaxCalls : GatewaySend(c)
    BY <2>1 DEF GatewaySend, Gateway!Next
  <2>2. CASE GatewayRecord
    BY <2>2 DEF GatewayRecord, Gateway!Next
  <2>3. CASE \E h \in Handlers : AnswerCTrader(h)
    <3>1. Len(asked) \in 1..MaxCalls
      BY <2>3, PartialAssumption DEF AnyInv, PartialTypes, AnswerCTrader, Locking, Asking,
         BrokerTypes, PartialAssumption
    <3> QED BY <2>3, <3>1 DEF AnswerCTrader, Gateway!Next
  <2>4. CASE GatewayMistake
    BY <2>4 DEF GatewayMistake, Gateway!Next
  <2>5. CASE UNCHANGED serviceState
    BY <2>5 DEF serviceState, Gateway!serviceVars
  <2> QED BY <2>1, <2>2, <2>3, <2>4, <2>5 DEF PartialNext, partialVars, BrokerCloses, Heartbeat,
             BrokerTakes, TerminalTakesPart, AgentReportsPlaced, QuoteRead, QuoteRefused, QuoteRecorded, QuoteAsk, QuoteDropped,
             AnswerTradeLocker, AnswerMt5, QuoteCommit, QuoteLost, ScanRead, ScanFinish,
             ScanDropped, RepairClosed, SyncPositions, Reappears, Mt5Result
<1> QED BY <1>1, <1>2, PartialInvariant, PTL DEF PartialSpec, Gateway!Spec

-----------------------------------------------------------------------------
(* One position manager *)

LEMMA NoCommandNext ==
    ASSUME AnyInv, NoCommand, PartialNext
    PROVE  NoCommand'
<1>1. UNCHANGED provider
  BY DEF PartialNext, BrokerCloses, BrokerTakes, TerminalTakesPart, AgentReportsPlaced, Heartbeat,
     GatewaySend, GatewayRecord, GatewayMistake, QuoteRead,
     QuoteRefused, QuoteRecorded, QuoteAsk, QuoteDropped, AnswerCTrader, AnswerTradeLocker,
     AnswerMt5, QuoteCommit, QuoteLost, ScanRead, ScanFinish, ScanDropped, RepairClosed,
     SyncPositions, Reappears, Mt5Result
<1>2. command' \in {command, "none"} \/ provider = "MT5" \/ command \in {"queued", "executed"}
  BY DEF PartialNext, BrokerCloses, BrokerTakes, TerminalTakesPart, AgentReportsPlaced, Heartbeat,
     GatewaySend, GatewayRecord, GatewayMistake, QuoteRead,
     QuoteRefused, QuoteRecorded, QuoteAsk, QuoteDropped, AnswerCTrader, AnswerTradeLocker,
     AnswerMt5, QuoteCommit, QuoteLost, ScanRead, ScanFinish, ScanDropped, RepairClosed,
     SyncPositions, Reappears, Mt5Result, broker
<1> QED BY <1>1, <1>2 DEF NoCommand

\* A step that may close the state, and leaves the orders alone.
LEMMA TradeLockerFrame ==
    ASSUME TradeLockerOnce, UNCHANGED <<provider, doubts, flight, closes, order, handler, scan>>,
           manage'.status \in {manage.status, "BROKER_POSITION_CLOSED"}
    PROVE  TradeLockerOnce'
BY DEF TradeLockerOnce, OneAtMost, Live, Resendable, Asking, Armed

\* With one handler, one that reads has nothing at the broker or an order that
\* says so; one that is calling has nothing at the broker.
LEMMA TradeLockerHandler ==
    ASSUME OneManager, AnyInv, TradeLockerOnce, provider = "TRADELOCKER", doubts = {},
           NEW h \in Handlers
    PROVE  /\ handler[h].at = "read" => ~Live \/ ~Resendable
           /\ handler[h].at = "calling" => ~Live
           /\ handler[h].at = "called" => ~Live \/ handler[h].reply \in MayBeSent
           /\ handler[h] = Idle => handler[h].at = "idle"
           /\ \A g \in Handlers : g = h
<1>1. \A g \in Handlers : g = h
  BY DEF OneManager
<1>2. handler[h] = Idle => handler[h].at = "idle"
  BY DEF Idle
<1> QED BY <1>1, <1>2 DEF TradeLockerOnce, Asking

\* A handler that does not ask has moved: nothing new is at the broker.
LEMMA TradeLockerQuiet ==
    ASSUME OneManager, AnyInv, TradeLockerOnce, provider = "TRADELOCKER", doubts' = {},
           NEW h \in Handlers, ~Asking(h)',
           ~Live \/ ~Resendable,
           UNCHANGED <<provider, doubts, flight, closes, order, scan>>,
           manage'.status = "AWAITING_RECONCILE" => ~Resendable
    PROVE  TradeLockerOnce'
<1>1. \A g \in Handlers : g = h
  BY DEF OneManager
<1> QED BY <1>1 DEF TradeLockerOnce, OneAtMost, Live, Resendable, Asking

LEMMA TradeLockerNext ==
    ASSUME OneManager, AnyInv, NoCommand, TradeLockerOnce, PartialNext,
           provider = "TRADELOCKER", doubts' = {}
    PROVE  TradeLockerOnce'
<1> USE DEF AnyInv, PartialTypes
<1>1. CASE BrokerCloses
  BY <1>1, TradeLockerFrame DEF BrokerCloses, rows, local
<1>2. CASE Heartbeat \/ GatewayRecord \/ (\E c \in 1..MaxCalls : GatewaySend(c))
  <2>1. UNCHANGED <<provider, doubts, flight, closes, order, handler, scan, manage>>
    BY <1>2 DEF Heartbeat, GatewayRecord, GatewaySend, broker, rows, local
  <2> QED BY <2>1, TradeLockerFrame
<1>3. ASSUME NEW c \in 1..MaxCalls, BrokerTakes(c) PROVE TradeLockerOnce'
  <2>1. c \in flight /\ flight' = flight \ {c} /\ closes' \in {closes, closes + 1}
        /\ UNCHANGED <<provider, doubts, order, handler, scan, manage>>
    BY <1>3 DEF BrokerTakes, rows, local
  <2>2. closes = 0 /\ flight = {c}
    BY <2>1 DEF TradeLockerOnce, OneAtMost
  <2> QED BY <2>1, <2>2 DEF TradeLockerOnce, OneAtMost, Live, Resendable, Asking
<1>4. ASSUME NEW h \in Handlers, QuoteRead(h) PROVE TradeLockerOnce'
  <2>1. UNCHANGED <<provider, doubts, flight, closes, order, scan, manage>>
    BY <1>4 DEF QuoteRead, broker, rows
  <2>2. handler'[h].at = "read" /\ handler[h] = Idle /\ manage.status \in Armed
    BY <1>4 DEF QuoteRead, LocalTypes
  <2>3. ~Live \/ ~Resendable
    BY <2>1, <2>2, TradeLockerHandler DEF TradeLockerOnce, OneManager
  <2> QED BY <2>1, <2>2, <2>3, TradeLockerQuiet DEF Asking, TradeLockerOnce
<1>5. ASSUME NEW h \in Handlers, QuoteRefused(h) \/ QuoteRecorded(h) \/ QuoteDropped(h)
      PROVE  TradeLockerOnce'
  <2>1. UNCHANGED <<provider, doubts, flight, closes, order, scan>>
    BY <1>5 DEF QuoteRefused, QuoteRecorded, QuoteDropped, broker, rows
  <2>2. handler[h].at = "read" /\ handler'[h] = Idle
    BY <1>5 DEF QuoteRefused, QuoteRecorded, QuoteDropped, Refreshes, EndQuote, LocalTypes
  <2>3. manage'.status = "AWAITING_RECONCILE" => manage.status = "AWAITING_RECONCILE"
    <3>1. CASE QuoteRefused(h)
      <4>1. PICK s \in {"FAILED_RETRYABLE", "FAILED_TERMINAL", "SKIPPED_MIN_SIZE"} :
              manage' = Written(handler[h].state, [handler[h].state EXCEPT !.status = s])
        BY <3>1 DEF QuoteRefused
      <4>2. [handler[h].state EXCEPT !.status = s].status = s
        BY <2>2, ReadCurrent DEF Due
      <4> QED BY <4>1, <4>2 DEF Written
    <3>2. CASE QuoteRecorded(h)
      BY <2>2, <3>2, ReadCurrent DEF QuoteRecorded, Written, Due
    <3>3. CASE QuoteDropped(h)
      BY <3>3 DEF QuoteDropped, rows
    <3> QED BY <1>5, <3>1, <3>2, <3>3
  <2> QED BY <2>1, <2>2, <2>3, IdlePlace, TradeLockerHandler, TradeLockerQuiet
          DEF Asking, TradeLockerOnce
<1>6. ASSUME NEW h \in Handlers, QuoteAsk(h) PROVE TradeLockerOnce'
  <2>1. UNCHANGED <<provider, doubts, flight, closes, order, scan, manage>> /\ Resendable
        /\ handler[h].at = "read"
    BY <1>6 DEF QuoteAsk, rows, Refreshes
  <2>2. ~Live
    BY <2>1, TradeLockerHandler
  <2> QED BY <2>1, <2>2 DEF TradeLockerOnce, OneAtMost, Live, Resendable, Asking
<1>7. ASSUME NEW h \in Handlers, AnswerTradeLocker(h) PROVE TradeLockerOnce'
  <2>1. /\ UNCHANGED <<provider, doubts, closes, order, scan, manage, asked>>
        /\ handler[h].at = "calling" /\ Asking(h)
    BY <1>7 DEF AnswerTradeLocker, rows, Asking
  <2>2. ~Live /\ Resendable /\ flight = {} /\ closes = 0
    BY <2>1, TradeLockerHandler DEF TradeLockerOnce, Live, BrokerTypes
  <2>3. handler[h] \in Calling(Seen)
    BY <2>1, HandlerType
  <2>4. PICK r \in {"PLACED", "UNCERTAIN", "REJECTED"} :
          /\ Reply(h, r)
          /\ \/ flight' = {Len(asked)} /\ r \in MayBeSent
             \/ flight' = {}
    BY <1>7, <2>2 DEF AnswerTradeLocker, MayBeSent
  <2>5. handler'[h].at = "called" /\ handler'[h].reply = r
    BY <2>3, <2>4 DEF Reply, LocalTypes, Calling
  <2>6. Len(asked) \in 1..MaxCalls
    BY <2>1, PartialAssumption DEF Locking, BrokerTypes, PartialAssumption
  <2>7. OneAtMost'
    BY <2>1, <2>2, <2>4, <2>6 DEF OneAtMost
  <2>8. Live' => \E g \in Handlers : handler'[g].at = "called" /\ handler'[g].reply \in MayBeSent
    BY <2>1, <2>2, <2>4, <2>5 DEF Live
  <2> QED BY <2>1, <2>2, <2>7, <2>8 DEF TradeLockerOnce, Resendable, Asking
<1>8. ASSUME NEW h \in Handlers, QuoteCommit(h) PROVE TradeLockerOnce'
  <2>1. /\ UNCHANGED <<provider, doubts, closes, scan, flight>>
        /\ handler[h].at = "called" /\ Asking(h)
    BY <1>8 DEF QuoteCommit, Asking
  <2>2. \A g \in Handlers : handler'[g] = Idle
    BY <1>8, TradeLockerHandler, <2>1 DEF QuoteCommit, EndQuote, LocalTypes
  <2>3. Resendable /\ handler[h].state.status \in Armed
    BY <1>8, <2>1, CommittedRows DEF TradeLockerOnce, Called, Due
  <2>4. order' = IF handler[h].reply \in Gateway!Success THEN handler[h].reply ELSE "ERROR"
    BY <1>8 DEF QuoteCommit
  <2>5. CASE handler[h].reply \in Gateway!Success
    <3>1. ~Resendable'
      BY <2>4, <2>5 DEF Resendable, Gateway!Success
    <3> QED BY <2>1, <2>2, <3>1, IdlePlace DEF TradeLockerOnce, OneAtMost, Asking
  <2>6. CASE handler[h].reply \notin Gateway!Success
    <3>1. manage'.status # "AWAITING_RECONCILE"
      BY <1>8, <2>1, <2>3, <2>6, CommittedRows DEF NewStatus, TradeLockerOnce
    <3>2. Live => handler[h].reply = "UNCERTAIN"
      BY <2>1, <2>6, TradeLockerHandler DEF MayBeSent, Gateway!Success
    <3>3. Live => manage'.status = "MANUAL_REVIEW"
      BY <1>8, <2>3, <2>6, <3>2, CommittedRows DEF NewStatus, Armed
    <3>4. Live' => manage'.status \notin Armed
      BY <2>1, <3>3 DEF Live, Armed
    <3>5. ~(scan.at = "read" /\ scan.state.status = "AWAITING_RECONCILE")
      BY <2>1, <2>3 DEF TradeLockerOnce
    <3> QED BY <2>1, <2>2, <3>1, <3>4, <3>5, IdlePlace DEF TradeLockerOnce, OneAtMost, Asking
  <2> QED BY <2>5, <2>6
<1>9. ASSUME NEW h \in Handlers, QuoteLost(h) PROVE TradeLockerOnce'
  <2>1. /\ UNCHANGED <<provider, flight, closes, order, scan, manage>>
        /\ Asking(h) /\ doubts \subseteq doubts' /\ doubts = {}
    BY <1>9 DEF QuoteLost, Asking, broker, rows
  <2>2. handler[h].reply \notin MayBeSent
    BY <1>9 DEF QuoteLost, MayBeSent
  <2>3. ~Live
    BY <2>1, <2>2, TradeLockerHandler DEF Asking
  <2>4. handler'[h] = Idle
    BY <1>9 DEF QuoteLost, EndQuote, LocalTypes
  <2> QED BY <2>1, <2>3, <2>4, IdlePlace, TradeLockerQuiet DEF Asking, TradeLockerOnce
<1>10. CASE ScanRead
  <2>1. UNCHANGED <<provider, doubts, flight, closes, order, handler, manage>>
        /\ scan' = [at |-> "read", state |-> manage, position |-> position]
    BY <1>10 DEF ScanRead, broker, rows
  <2> QED BY <2>1 DEF TradeLockerOnce, OneAtMost, Live, Resendable, Asking
<1>11. CASE ScanFinish
  <2>1. UNCHANGED <<provider, flight, closes, order, handler>> /\ scan' = Idle
        /\ doubts = {} /\ scan.at = "read"
    BY <1>11 DEF ScanFinish, broker
  <2>2. manage'.status = "FAILED_RETRYABLE" => scan.state.status # "MANUAL_REVIEW"
    BY <1>11 DEF ScanFinish
  <2>3. scan.state.status \in {"AWAITING_RECONCILE", "MANUAL_REVIEW", "FAILED_RETRYABLE"}
    BY <2>1, ScanType DEF Waited, InFlight
  <2>4. \/ manage'.status \in {"BROKER_POSITION_CLOSED", "DONE", manage.status}
        \/ manage'.status = "FAILED_RETRYABLE" /\ ~Resendable
    BY <1>11, <2>1, <2>2, <2>3, ScanWrites DEF TradeLockerOnce
  <2> QED BY <2>1, <2>4, IdlePlace DEF TradeLockerOnce, OneAtMost, Live, Resendable, Asking, Armed
<1>12. CASE ScanDropped
  <2>1. UNCHANGED <<provider, doubts, flight, closes, order, handler, manage>> /\ scan' = Idle
    BY <1>12 DEF ScanDropped, broker, rows
  <2> QED BY <2>1, IdlePlace DEF TradeLockerOnce, OneAtMost, Live, Resendable, Asking
<1>13. CASE RepairClosed \/ SyncPositions
  <2>1. manage'.status \in {manage.status, "BROKER_POSITION_CLOSED"}
    BY <1>13 DEF RepairClosed, SyncPositions, RowTypes, States
  <2> QED BY <1>13, <2>1, TradeLockerFrame DEF RepairClosed, SyncPositions, broker, local
<1>14. CASE Reappears
  BY <1>14 DEF Reappears
<1>15. CASE Mt5Result
  BY <1>15 DEF Mt5Result, NoCommand
<1>16. CASE GatewayMistake \/ \E h \in Handlers : AnswerCTrader(h) \/ AnswerMt5(h)
  BY <1>16 DEF GatewayMistake, AnswerCTrader, AnswerMt5
<1>17. CASE AgentReportsPlaced \/ \E c \in 1..MaxCalls : TerminalTakesPart(c)
  BY <1>17 DEF AgentReportsPlaced, TerminalTakesPart, NoCommand
<1> QED BY <1>1, <1>2, <1>3, <1>4, <1>5, <1>6, <1>7, <1>8, <1>9, <1>10, <1>11, <1>12, <1>13,
           <1>14, <1>15, <1>16, <1>17 DEF PartialNext

LEMMA Mt5Frame ==
    ASSUME Mt5Once, UNCHANGED <<provider, doubts, flight, closes, command, handler>>,
           manage'.status \in {manage.status, "BROKER_POSITION_CLOSED", "DONE"}
    PROVE  Mt5Once'
BY DEF Mt5Once, OneAtMost, Armed

\* With one handler, one that has read or asks has no command and no close behind it.
LEMMA Mt5Handler ==
    ASSUME AnyInv, Mt5Once, provider = "MT5", doubts = {},
           NEW h \in Handlers, handler[h] # Idle \/ manage.status \in Armed
    PROVE  closes = 0 /\ command = "none" /\ flight = {}
BY DEF Mt5Once, AnyInv, PartialTypes, BrokerTypes

\* So a step that queues nothing is free to move it.
LEMMA Mt5Quiet ==
    ASSUME closes = 0, command = "none", flight = {}, UNCHANGED <<closes, command, flight>>
    PROVE  Mt5Once'
BY DEF Mt5Once, OneAtMost

LEMMA Mt5Next ==
    ASSUME OneManager, AnyInv, Mt5Once, PartialNext, provider = "MT5", doubts' = {}
    PROVE  Mt5Once'
<1> USE DEF AnyInv, PartialTypes
<1>1. CASE \/ BrokerCloses \/ Heartbeat \/ GatewayRecord \/ GatewayMistake
           \/ ScanRead \/ ScanDropped
           \/ \E c \in 1..MaxCalls : GatewaySend(c)
  <2>1. UNCHANGED <<provider, doubts, flight, closes, command, handler, manage>>
    BY <1>1 DEF BrokerCloses, Heartbeat, GatewayRecord, GatewayMistake, GatewaySend, ScanRead,
       ScanDropped, broker, rows, local
  <2> QED BY <2>1, Mt5Frame
<1>2. CASE RepairClosed \/ SyncPositions
  <2>1. manage'.status \in {manage.status, "BROKER_POSITION_CLOSED"}
    BY <1>2 DEF RepairClosed, SyncPositions, RowTypes, States
  <2> QED BY <1>2, <2>1, Mt5Frame DEF RepairClosed, SyncPositions, broker, local
<1>3. CASE ScanFinish
  <2>1. manage'.status \in {manage.status, "BROKER_POSITION_CLOSED", "DONE"}
    BY <1>3, ScanWrites
  <2>2. UNCHANGED <<provider, flight, closes, command, handler>> /\ doubts = {}
    BY <1>3 DEF ScanFinish, broker
  <2> QED BY <2>1, <2>2, Mt5Frame
<1>4. ASSUME NEW c \in 1..MaxCalls, BrokerTakes(c) \/ TerminalTakesPart(c) PROVE Mt5Once'
  <2>1. /\ c \in flight /\ flight' = flight \ {c} /\ closes' \in {closes, closes + 1}
        /\ command' \in IF command = "queued" THEN {"executed", "refused"} ELSE {command}
        /\ UNCHANGED <<provider, doubts, handler, manage>>
    BY <1>4 DEF BrokerTakes, TerminalTakesPart, rows, local
  <2>2. command # "none" /\ closes = 0 /\ flight = {c}
    BY <2>1 DEF Mt5Once, OneAtMost
  <2>3. manage.status \notin Armed /\ \A h \in Handlers : handler[h] = Idle
    BY <2>1, <2>2 DEF Mt5Once
  <2> QED BY <2>1, <2>2, <2>3 DEF Mt5Once, OneAtMost
<1>5. ASSUME NEW h \in Handlers,
             \/ QuoteRead(h) \/ QuoteRefused(h) \/ QuoteRecorded(h) \/ QuoteAsk(h)
             \/ QuoteDropped(h) \/ AnswerMt5(h) \/ QuoteLost(h)
      PROVE  Mt5Once'
  <2>1. UNCHANGED <<flight, closes, command>> /\ doubts = {}
    BY <1>5 DEF QuoteRead, QuoteRefused, QuoteRecorded, QuoteAsk, QuoteDropped, AnswerMt5,
       QuoteLost, broker
  <2>2. handler[h] # Idle \/ manage.status \in Armed
    BY <1>5, IdlePlace DEF QuoteRead, QuoteRefused, QuoteRecorded, QuoteAsk, QuoteDropped,
       AnswerMt5, QuoteLost, Refreshes
  <2> QED BY <2>1, <2>2, Mt5Handler, Mt5Quiet
<1>6. ASSUME NEW h \in Handlers, QuoteCommit(h) PROVE Mt5Once'
  <2>1. /\ UNCHANGED <<provider, doubts, closes>> /\ handler[h].at = "called" /\ Asking(h)
    BY <1>6 DEF QuoteCommit, Asking
  <2>2. closes = 0 /\ command = "none" /\ flight = {}
    BY <2>1, IdlePlace, Mt5Handler
  <2>3. Len(asked) \in 1..MaxCalls
    BY <2>1, PartialAssumption DEF Locking, BrokerTypes, PartialAssumption
  <2>4. CASE handler[h].reply = "PLACED"
    <3>1. command' = "queued" /\ flight' = {Len(asked)}
      BY <1>6, <2>2, <2>4 DEF QuoteCommit
    <3>2. manage'.status = "AWAITING_RECONCILE"
      BY <1>6, <2>4, CommittedRows DEF NewStatus, Gateway!Success
    <3>3. \A g \in Handlers : handler'[g] = Idle
      BY <1>6 DEF QuoteCommit, EndQuote, LocalTypes, OneManager
    <3> QED BY <2>1, <2>2, <2>3, <3>1, <3>2, <3>3 DEF Mt5Once, OneAtMost, Armed
  <2>5. CASE handler[h].reply # "PLACED"
    BY <1>6, <2>2, <2>5, Mt5Quiet DEF QuoteCommit
  <2> QED BY <2>4, <2>5
<1>7. CASE Mt5Result
  <2>1. UNCHANGED <<provider, flight, closes, doubts, handler>>
    BY <1>7 DEF Mt5Result, local
  <2>2. command \in {"executed", "refused"} /\ command' \in {"reported", "none"}
        /\ (manage'.status = "AWAITING_RECONCILE" \/ UNCHANGED manage)
    BY <1>7 DEF Mt5Result, RowTypes, States
  <2>3. /\ command' = "none" => flight = {}
        /\ \A h \in Handlers : handler[h] = Idle
    BY <1>7, <2>1, <2>2 DEF Mt5Once, Mt5Result
  <2>4. manage'.status \notin Armed
    BY <2>1, <2>2 DEF Mt5Once, Armed
  <2> QED BY <2>1, <2>2, <2>3, <2>4 DEF Mt5Once, OneAtMost
<1>8. CASE Reappears
  BY <1>8 DEF Reappears
<1>9. CASE \E h \in Handlers : AnswerCTrader(h) \/ AnswerTradeLocker(h)
  BY <1>9 DEF AnswerCTrader, AnswerTradeLocker
<1>10. CASE AgentReportsPlaced
  BY <1>10 DEF AgentReportsPlaced, rows, local, Mt5Once, OneAtMost
<1> QED BY <1>1, <1>2, <1>3, <1>4, <1>5, <1>6, <1>7, <1>8, <1>9, <1>10 DEF PartialNext

LEMMA OneInvNext == OneManager /\ OneInv /\ [PartialNext]_partialVars => OneInv'
<1>1. ASSUME OneManager, OneInv, PartialNext PROVE OneInv'
  <2>1. UNCHANGED provider
    BY <1>1 DEF PartialNext, BrokerCloses, BrokerTakes, TerminalTakesPart, AgentReportsPlaced,
       Heartbeat, GatewaySend, GatewayRecord, GatewayMistake, QuoteRead, QuoteRefused, QuoteRecorded, QuoteAsk, QuoteDropped, AnswerCTrader,
       AnswerTradeLocker, AnswerMt5, QuoteCommit, QuoteLost, ScanRead, ScanFinish, ScanDropped,
       RepairClosed, SyncPositions, Reappears, Mt5Result
  <2>2. AnyInv' /\ NoCommand'
    BY <1>1, AnyNextInv, NoCommandNext DEF OneInv
  <2>3. TradeLockerOnce'
    BY <1>1, <2>1, TradeLockerNext DEF OneInv, TradeLockerOnce
  <2>4. Mt5Once'
    BY <1>1, <2>1, Mt5Next DEF OneInv, Mt5Once
  <2> QED BY <2>2, <2>3, <2>4 DEF OneInv
<1>2. ASSUME OneInv, UNCHANGED partialVars PROVE OneInv'
  <2>1. UNCHANGED <<provider, command, doubts, flight, closes, order, handler, scan, manage>>
    BY <1>2 DEF partialVars, broker, rows, local
  <2> QED BY <1>2, <2>1, AnyStutter, TradeLockerFrame, Mt5Frame DEF OneInv, NoCommand
<1> QED BY <1>1, <1>2

LEMMA OneInvInit == PartialInit => OneInv
<1>1. PartialInit => NoCommand /\ TradeLockerOnce /\ Mt5Once
  BY IdlePlace DEF PartialInit, NoCommand, TradeLockerOnce, Mt5Once, OneAtMost, Live, Asking
<1> QED BY <1>1, PartialInitInv DEF OneInv

\* With one position manager the partial exit is executed once at most on every
\* provider, but for the three doubts.
THEOREM PartialExitsOnce == ASSUME OneManager PROVE PartialSpec => []ExitedOnce
<1>1. OneInv => ExitedOnce
  BY PartialAssumption DEF OneInv, AnyInv, PartialTypes, BrokerTypes, CTraderOnce,
     TradeLockerOnce, Mt5Once, OneAtMost, ExitedOnce, PartialAssumption, KnownProviders
<1>2. OneInv /\ [PartialNext]_partialVars => OneInv'
  BY OneInvNext
<1> QED BY <1>1, <1>2, OneInvInit, PTL DEF PartialSpec
=============================================================================
