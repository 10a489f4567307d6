---------------------------- MODULE PartialExit ----------------------------
(***************************************************************************)
(* The partial exit of one open broker position: the management state that *)
(* decides it, the order row that records it, the quote handler that sends *)
(* it and the three writers that follow what the broker did - the recovery *)
(* scan of the same worker, the reconcile worker and the result of an MT5  *)
(* command.  A cTrader close is an order of OrderService, which            *)
(* CTraderGateway implements; TradeLocker takes no key; an MT5 close is a  *)
(* command row of the handler's own transaction.  A close is one execution *)
(* here, except that an MT5 terminal may execute it in part.               *)
(***************************************************************************)
EXTENDS Integers, Sequences

CONSTANTS
    Providers,   \* of the position's account, among the three below
    Handlers,    \* quote handlers (one per position manager process)
    InitialSize, MinSize, LotStep, Percent,   \* in the broker's smallest unit
    NoPlan,      \* no runner size has been planned
    MaxCalls     \* bound: closes asked of a broker

NoOne == "none"

KnownProviders == {"CTRADER", "TRADELOCKER", "MT5"}

ASSUME PartialAssumption ==
    /\ Providers \subseteq KnownProviders
    /\ InitialSize \in Nat /\ MinSize \in Nat \ {0} /\ LotStep \in Nat \ {0}
    /\ Percent \in 1..99 /\ NoPlan \notin Int /\ MaxCalls \in Nat
    /\ NoOne \notin Handlers

VARIABLES
    provider,
    volume,      \* of the position at the broker; 0 when it is closed
    heartbeat,   \* the volume the MT5 agent reported last
    asked,       \* sizes of the closes asked of the provider so far
    flight,      \* those the broker has been sent and has not decided
    position,    \* the LivePosition row
    manage,      \* the LivePositionManagementState row
    order,       \* status of the PARTIAL_EXIT LiveOrder row
    command,     \* the MT5 command
    deployLock,  \* the deployment's advisory lock: a handler, or none
    handler,     \* where each quote handler is
    scan,        \* the state the recovery scan has loaded, if any
    sent, mistaken, outcome, told,   \* the order service of cTrader
    closes,      \* history: partial closes the broker executed
    doubts       \* history: how a close may have fallen out of the records

serviceState == <<sent, mistaken, outcome, told>>
rows == <<position, manage, order>>
local == <<deployLock, handler, scan>>
broker == <<volume, heartbeat, asked, flight, command, closes>>
partialVars == <<provider, broker, rows, local, serviceState, doubts>>

Gateway == INSTANCE OrderService
             WITH Keys <- {"exit"}, Requests <- 1..MaxCalls, None <- NoPlan

Final    == {"SKIPPED_MIN_SIZE", "DONE", "FAILED_TERMINAL", "BROKER_POSITION_CLOSED"}
InFlight == {"AWAITING_RECONCILE", "MANUAL_REVIEW"}
Armed      == {"PENDING", "TRIGGERED", "FAILED_RETRYABLE"}
Idle  == [at |-> "idle"]

-----------------------------------------------------------------------------
(* calculate_broker_partial_split *)

Wanted(total) == ((2 * total * Percent + 100 * LotStep) \div (200 * LotStep)) * LotStep

CloseSize(total) ==
    IF Wanted(total) > total - MinSize THEN total - MinSize ELSE Wanted(total)

Eligible(total) ==
    total * (100 - Percent) >= MinSize * 100 /\ CloseSize(total) >= MinSize

RunnerSize(total) == total - CloseSize(total)

-----------------------------------------------------------------------------
PartialTypeOK ==
    /\ provider \in Providers
    /\ {volume, heartbeat} \subseteq 0..InitialSize
    /\ Len(asked) <= MaxCalls /\ flight \subseteq 1..Len(asked)
    /\ position \in [open : BOOLEAN, size : 0..InitialSize]
    /\ manage \in [status : Final \cup InFlight \cup Armed,
                   runner : {NoPlan} \cup MinSize..InitialSize]
    /\ order \in {"none", "PLACED", "FILLED", "ERROR"}
    /\ command \in {"none", "queued", "executed", "refused", "reported"}
    /\ deployLock \in Handlers \cup {NoOne}
    /\ \A h \in Handlers : handler[h].at \in {"idle", "read", "calling", "called"}
    /\ closes \in Nat /\ doubts \subseteq {"lost", "resumed", "blinked"}

PartialInit ==
    /\ provider \in Providers
    /\ volume = InitialSize /\ heartbeat = InitialSize
    /\ asked = <<>> /\ flight = {}
    /\ position = [open |-> TRUE, size |-> InitialSize]
    /\ manage = [status |-> "PENDING", runner |-> NoPlan]
    /\ order = "none" /\ command = "none" /\ deployLock = NoOne
    /\ handler = [h \in Handlers |-> Idle] /\ scan = Idle
    /\ Gateway!Init
    /\ closes = 0 /\ doubts = {}

-----------------------------------------------------------------------------
(* The broker *)

\* A stop, a target or the user closes the position.
BrokerCloses ==
    /\ volume > 0 /\ volume' = 0
    /\ UNCHANGED <<provider, heartbeat, asked, flight, command, closes, rows, local,
                   serviceState, doubts>>

\* The broker, or the MT5 terminal, executes a close or refuses it; order_send
\* may give no answer for a close it executed, which the agent calls refused.
BrokerTakes(c) ==
    /\ c \in flight /\ flight' = flight \ {c}
    /\ \/ /\ volume > 0
          /\ volume' = IF asked[c] < volume THEN volume - asked[c] ELSE 0
          /\ closes' = closes + 1
          /\ command' \in IF command = "queued" THEN {"executed", "refused"} ELSE {command}
       \/ /\ command' = IF command = "queued" THEN "refused" ELSE command
          /\ UNCHANGED <<volume, closes>>
    /\ UNCHANGED <<provider, heartbeat, asked, rows, local, serviceState, doubts>>

\* DONE_PARTIAL: the terminal closes a part of what was asked, immediate or
\* cancel, and the agent reports the close as refused.
TerminalTakesPart(c) ==
    /\ command = "queued" /\ command' = "refused"
    /\ c \in flight /\ flight' = flight \ {c}
    /\ \E part \in 1..(asked[c] - 1) : part < volume /\ volume' = volume - part
    /\ closes' = closes + 1
    /\ UNCHANGED <<provider, heartbeat, asked, rows, local, serviceState, doubts>>

\* PLACED: the terminal has taken the close, the agent reports it as done, and
\* the terminal executes or drops it later.
AgentReportsPlaced ==
    /\ command = "queued" /\ volume > 0
    /\ command' = "executed"
    /\ UNCHANGED <<provider, volume, heartbeat, asked, flight, closes, rows, local,
                   serviceState, doubts>>

\* The position list of the MT5 agent's heartbeat; a terminal that does not
\* answer is reported with an empty list.
Heartbeat ==
    /\ provider = "MT5" /\ heartbeat' \in {volume, 0}
    /\ UNCHANGED <<provider, volume, asked, flight, command, closes, rows, local,
                   serviceState, doubts>>

\* The gateway sends the order, also after its caller gave up, and records it.
GatewaySend(c) ==
    /\ provider = "CTRADER" /\ c \in 1..Len(asked)
    /\ Gateway!Send("exit") /\ flight' = flight \cup {c}
    /\ UNCHANGED <<provider, volume, heartbeat, asked, command, closes, rows, local, doubts>>

GatewayRecord ==
    /\ Gateway!Record("exit")
    /\ UNCHANGED <<provider, broker, rows, local, doubts>>

\* The gateway takes another order's event for the answer to this one.
GatewayMistake ==
    /\ provider = "CTRADER" /\ asked # <<>>
    /\ Gateway!Mistake("exit")
    /\ UNCHANGED <<provider, broker, rows, local, doubts>>

-----------------------------------------------------------------------------
(* The quote handler *)

\* What a refresh of the account reports: the broker's volume, for MT5 the last
\* heartbeat's.
Volume == IF provider = "MT5" THEN heartbeat ELSE volume

\* A session that loaded the position row keeps its object: a row that another
\* transaction has closed since is not refreshed and still looks open.
Refreshed(loaded) ==
    IF position.open THEN [open |-> Volume > 0, size |-> Volume] ELSE loaded

\* A session writes the columns whose value differs from what it loaded.
Written(loaded, new) ==
    [status |-> IF new.status = loaded.status THEN manage.status ELSE new.status,
     runner |-> IF new.runner = loaded.runner THEN manage.runner ELSE new.runner]

\* A quote beyond the trigger price finds the state due.
QuoteRead(h) ==
    /\ handler[h] = Idle
    /\ position.open /\ manage.status \in Armed
    /\ handler' = [handler EXCEPT ![h] =
                      [at |-> "read", state |-> manage, position |-> position]]
    /\ UNCHANGED <<provider, broker, rows, deployLock, scan, serviceState, doubts>>

\* The deployment's lock is tried; the row lock returns the object loaded
\* before, so the check of its status sees what QuoteRead saw.
Refreshes(h) == handler[h].at = "read" /\ deployLock = NoOne
Current(h) == Refreshed(handler[h].position)
Total(h) == Current(h).size

EndQuote(h) == handler' = [handler EXCEPT ![h] = Idle]

\* The columns of the position that the handler's commit writes.
SavePosition(h) == position' = IF position.open THEN Current(h) ELSE position

\* Nothing to send: the account is not connected or not allowed, or no split
\* leaves a valid runner.
QuoteRefused(h) ==
    /\ Refreshes(h) /\ Current(h).open
    /\ \E s \in {"FAILED_RETRYABLE", "FAILED_TERMINAL"} \cup
                (IF Eligible(Total(h)) THEN {} ELSE {"SKIPPED_MIN_SIZE"}) :
          manage' = Written(handler[h].state, [handler[h].state EXCEPT !.status = s])
    /\ SavePosition(h) /\ EndQuote(h)
    /\ UNCHANGED <<provider, broker, order, deployLock, scan, serviceState, doubts>>

\* Faulty variant: any order that is not filled may be sent again.
BadResendable == order # "FILLED"

Resendable == order \in {"none", "ERROR"}

\* An order that may not be sent again is adopted with the new plan.
QuoteRecorded(h) ==
    /\ Refreshes(h) /\ Current(h).open /\ Eligible(Total(h)) /\ ~Resendable
    /\ manage' = Written(handler[h].state,
                         [handler[h].state EXCEPT !.runner = RunnerSize(Total(h))])
    /\ SavePosition(h) /\ EndQuote(h)
    /\ UNCHANGED <<provider, broker, order, deployLock, scan, serviceState, doubts>>

\* The order row and the state are written and the provider is called; the
\* transaction stays open.
QuoteAsk(h) ==
    /\ Refreshes(h) /\ Current(h).open /\ Eligible(Total(h)) /\ Resendable
    /\ Len(asked) < MaxCalls
    /\ asked' = Append(asked, CloseSize(Total(h)))
    /\ deployLock' = h
    /\ handler' = [handler EXCEPT ![h] = [at |-> "calling", state |-> @.state,
                      position |-> Current(h), reply |-> "none"]]
    /\ UNCHANGED <<provider, volume, heartbeat, flight, command, closes, rows, scan,
                   serviceState, doubts>>

\* The position is gone, the refresh fails, the lock is busy: rolled back.
QuoteDropped(h) ==
    /\ handler[h].at = "read" /\ EndQuote(h)
    /\ UNCHANGED <<provider, broker, rows, deployLock, scan, serviceState, doubts>>

Reply(h, r) == handler' = [handler EXCEPT ![h] = [@ EXCEPT !.at = "called", !.reply = r]]

\* submit_close_position returns or raises.
AnswerCTrader(h) ==
    /\ handler[h].at = "calling" /\ provider = "CTRADER"
    /\ Gateway!Answer(Len(asked), "exit")
    /\ Reply(h, told'[Len(asked)].answer)
    /\ UNCHANGED <<provider, broker, rows, deployLock, scan, doubts>>

\* close_position of TradeLocker: accepted, or unknown, or refused by a gate.
AnswerTradeLocker(h) ==
    /\ handler[h].at = "calling" /\ provider = "TRADELOCKER"
    /\ \/ /\ flight' = flight \cup {Len(asked)}
          /\ \E r \in {"PLACED", "UNCERTAIN"} : Reply(h, r)
       \/ /\ UNCHANGED flight
          /\ \E r \in {"UNCERTAIN", "REJECTED"} : Reply(h, r)
    /\ UNCHANGED <<provider, volume, heartbeat, asked, command, closes, rows, deployLock,
                   scan, serviceState, doubts>>

\* close_position of the MT5 agent adds a command, unless the agent is silent.
AnswerMt5(h) ==
    /\ handler[h].at = "calling" /\ provider = "MT5"
    /\ \E r \in {"PLACED", "ERROR"} : Reply(h, r)
    /\ UNCHANGED <<provider, broker, rows, deployLock, scan, serviceState, doubts>>

NewStatus(reply) ==
    CASE reply \in Gateway!Success -> "AWAITING_RECONCILE"
      [] reply = "UNCERTAIN"       -> "MANUAL_REVIEW"
      [] OTHER                     -> "FAILED_RETRYABLE"

\* What the answer makes of order and state is committed; the MT5 adapter's
\* queries have written TRIGGERED before, so that its status always counts.
QuoteCommit(h) ==
    LET reply == handler[h].reply
        was   == IF provider = "MT5" THEN [handler[h].state EXCEPT !.status = "TRIGGERED"]
                 ELSE handler[h].state
    IN
    /\ handler[h].at = "called"
    /\ order' = IF reply \in Gateway!Success THEN reply ELSE "ERROR"
    /\ manage' = Written(was, [status |-> NewStatus(reply),
                               runner |-> RunnerSize(handler[h].position.size)])
    /\ position' = IF position.open THEN handler[h].position ELSE position
    /\ \/ /\ provider = "MT5" /\ reply = "PLACED" /\ command = "none"
          /\ command' = "queued" /\ flight' = flight \cup {Len(asked)}
       \/ /\ provider # "MT5" \/ reply # "PLACED" \/ command # "none"
          /\ UNCHANGED <<command, flight>>
    /\ deployLock' = NoOne /\ EndQuote(h)
    /\ UNCHANGED <<provider, volume, heartbeat, asked, closes, scan, serviceState, doubts>>

\* The worker dies or its commit fails: order row, state and MT5 command are
\* rolled back, what the broker was sent is not.
QuoteLost(h) ==
    /\ handler[h].at \in {"calling", "called"}
    /\ doubts' = IF provider = "TRADELOCKER" /\ handler[h].reply \in {"PLACED", "UNCERTAIN"}
                 THEN doubts \cup {"lost"} ELSE doubts
    /\ deployLock' = NoOne /\ EndQuote(h)
    /\ UNCHANGED <<provider, broker, rows, scan, serviceState>>

-----------------------------------------------------------------------------
(* Those who follow the broker *)

\* Faulty variant: a planned runner is taken for a reached one.
BadReached(size, runner) == runner # NoPlan

Reached(size, runner) == runner # NoPlan /\ size = runner

\* The recovery scan loads the states that may wait for the broker ...
ScanRead ==
    /\ scan = Idle
    /\ manage.status \in InFlight \cup {"TRIGGERED", "FAILED_RETRYABLE"}
    /\ scan' = [at |-> "read", state |-> manage, position |-> position]
    /\ UNCHANGED <<provider, broker, rows, deployLock, handler, serviceState, doubts>>

\* ... and under the deployment's lock compares the account with the plan it
\* loaded (finalize_from_broker_truth).  Only TradeLocker may fail to report
\* the runner's stop and target.
ScanFinish ==
    LET now  == Refreshed(scan.position)
        plan == scan.state.runner
    IN
    /\ scan.at = "read" /\ deployLock = NoOne /\ scan' = Idle
    /\ position' = IF position.open THEN now ELSE position
    /\ \/ ~now.open /\ manage' = [manage EXCEPT !.status = "BROKER_POSITION_CLOSED"]
       \/ now.open /\ ~Reached(now.size, plan) /\ UNCHANGED manage
       \/ /\ now.open /\ Reached(now.size, plan)
          /\ \E s \in {"DONE"} \cup (IF provider = "TRADELOCKER" THEN {"FAILED_RETRYABLE"} ELSE {}) :
                manage' = Written(scan.state, [scan.state EXCEPT !.status = s])
    /\ doubts' = IF manage'.status = "FAILED_RETRYABLE" /\ scan.state.status = "MANUAL_REVIEW"
                 THEN doubts \cup {"resumed"} ELSE doubts
    /\ UNCHANGED <<provider, broker, order, deployLock, handler, serviceState>>

\* The lock is busy or the refresh fails.
ScanDropped ==
    /\ scan.at = "read" /\ scan' = Idle
    /\ UNCHANGED <<provider, broker, rows, deployLock, handler, serviceState, doubts>>

\* The scan's repair of states whose position is closed.
RepairClosed ==
    /\ ~position.open /\ manage.status \notin Final
    /\ manage' = [manage EXCEPT !.status = "BROKER_POSITION_CLOSED"]
    /\ UNCHANGED <<provider, broker, position, order, local, serviceState, doubts>>

\* reconcile_positions in another worker: the position row follows the broker,
\* and its state ends with it.
SyncPositions ==
    /\ deployLock = NoOne /\ position.open
    /\ position' = [open |-> Volume > 0, size |-> Volume]
    /\ manage' = IF Volume = 0 /\ manage.status \notin Final
                 THEN [manage EXCEPT !.status = "BROKER_POSITION_CLOSED"] ELSE manage
    /\ UNCHANGED <<provider, broker, order, local, serviceState, doubts>>

\* A position that an empty list closed is found again: reconcile_positions
\* inserts a new row, and the scan a new state with a key of its own.  (Bound:
\* not while a command or an order of the old row is under way.)
Reappears ==
    /\ deployLock = NoOne /\ ~position.open /\ Volume > 0
    /\ command \in {"none", "reported"} /\ command' = "none" /\ flight = {}
    /\ position' = [open |-> TRUE, size |-> Volume]
    /\ manage' = [status |-> "PENDING", runner |-> NoPlan]
    /\ order' = "none" /\ doubts' = doubts \cup {"blinked"}
    /\ handler' = [h \in Handlers |-> Idle] /\ scan' = Idle
    /\ UNCHANGED <<provider, volume, heartbeat, asked, flight, closes, deployLock,
                   serviceState>>

\* _store_command_result of the MT5 command; it takes no deployment lock.
Mt5Result ==
    /\ \/ /\ command = "executed" /\ command' = "reported"
          /\ order' = "FILLED"
          /\ manage' = [manage EXCEPT !.status = "AWAITING_RECONCILE"]
       \/ /\ command = "refused" /\ command' = "none"
          /\ order' = "ERROR" /\ UNCHANGED manage
    /\ UNCHANGED <<provider, volume, heartbeat, asked, flight, closes, position, local,
                   serviceState, doubts>>

PartialNext ==
    \/ BrokerCloses \/ Heartbeat \/ GatewayRecord \/ GatewayMistake \/ AgentReportsPlaced
    \/ \E c \in 1..MaxCalls : BrokerTakes(c) \/ TerminalTakesPart(c) \/ GatewaySend(c)
    \/ \E h \in Handlers :
        \/ QuoteRead(h) \/ QuoteRefused(h) \/ QuoteRecorded(h) \/ QuoteAsk(h)
        \/ QuoteDropped(h) \/ AnswerCTrader(h) \/ AnswerTradeLocker(h) \/ AnswerMt5(h)
        \/ QuoteCommit(h) \/ QuoteLost(h)
    \/ ScanRead \/ ScanFinish \/ ScanDropped \/ RepairClosed \/ SyncPositions \/ Reappears
    \/ Mt5Result

PartialSpec == PartialInit /\ [][PartialNext]_partialVars

-----------------------------------------------------------------------------
(* Properties *)

\* The broker executes at most one partial close of a position, whatever is
\* retried, answered late or read stale, but for three cases: a transaction
\* that had asked TradeLocker, which knows no key, was lost; the scan found the
\* runner of an uncertain close without its stop and resumed; an MT5 terminal's
\* empty position list ended the row, and a new one began.
ExitedOnce == closes <= 1 \/ doubts # {}

\* A partial exit that is called DONE was executed.
DoneIsExecuted == manage.status = "DONE" => closes >= 1
=============================================================================
