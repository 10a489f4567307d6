--------------------------- MODULE CTraderGateway ---------------------------
(***************************************************************************)
(* Order submission over the persistent cTrader session: the strategy-side *)
(* calls submit_market_order and submit_close_position, the Redis stream   *)
(* of order requests, its consumer-group tasks in the market workers       *)
(* (_process_order_message), the Redis dedupe key, the PostgreSQL row of   *)
(* LiveBrokerOrderIntent and the send queue of the broker session.  The    *)
(* orders are those of one broker account; an event of an order that is    *)
(* none of them, a stop loss or a manual trade, is a stray one.            *)
(* Every await between two accesses to shared state is a step boundary.    *)
(***************************************************************************)
EXTENDS Naturals, FiniteSets

CONSTANTS
    Keys,       \* idempotency keys: one per order identity
    Entries,    \* the keys of entries; the others close a position
    Requests,   \* calls of the gateway, each with its request_id
    Gateways,   \* market worker processes
    None,       \* no answer, no key
    Faults      \* the kinds of failure a run lets happen

FaultKinds == {"crash", "redis", "database", "broker", "stray", "expiry", "deadline"}

ASSUME GatewayAssumption ==
    /\ Entries \subseteq Keys
    /\ Faults \subseteq FaultKinds
    /\ None \notin Keys

Success == {"FILLED", "PLACED"}     \* PLACED also stands for PARTIAL
Results == Success \cup {"FAILED", "PENDING", "SKIPPED"}
ASSUME NoneAssumption == None \notin Results \cup {"RAISED"}

VARIABLES
    \* caller: its program counter, the key of the order it asks for, its answer
    cpc, key, answer,
    \* per request: the stream message in the consumer group, the reply list
    msg, reply,
    \* per key: the Redis dedupe value, the intent row (its result_json once
    \* COMPLETED), what the broker has, and the orders for which the session
    \* took an event of another order
    dedupe, intent, sends, broker, mistaken,
    \* keys of the orders waiting in a session's send queue
    outbox,
    \* per worker, its task for each request: program counter and response
    pc, res

callVars   == <<cpc, key, answer>>
streamVars == <<msg, reply>>
brokerVars == <<sends, broker, mistaken>>
taskVars   == <<pc, res>>
vars == <<callVars, streamVars, dedupe, intent, brokerVars, outbox, taskVars>>

Labels == {"none", "start", "claim", "wait", "exec", "deadline", "send", "sending",
           "complete", "save", "reply", "ack", "fail", "failSave", "failAck"}

TypeOK ==
    /\ cpc \in [Requests -> {"idle", "checked", "waiting", "done"}]
    /\ key \in [Requests -> Keys \cup {None}]
    /\ answer \in [Requests -> Results \cup {"RAISED", None}]
    /\ msg \in [Requests -> {"none", "queued", "delivered", "acked"}]
    /\ reply \in [Requests -> Results \cup {None}]
    /\ dedupe \in [Keys -> Results \cup {"none", "processing"}]
    /\ intent \in [Keys -> Success \cup {"none", "reserved"}]
    /\ sends \in [Keys -> Nat]
    /\ broker \in [Keys -> {"none", "received", "accepted", "rejected", "cancelled", "filled"}]
    /\ mistaken \subseteq Keys
    /\ outbox \in [Gateways -> SUBSET Keys]
    /\ pc \in [Gateways -> [Requests -> Labels]]
    /\ res \in [Gateways -> [Requests -> Results \cup {None}]]
    /\ \A r \in Requests : cpc[r] # "idle" => key[r] \in Keys
    /\ \A g \in Gateways, r \in Requests : pc[g][r] # "none" => cpc[r] # "idle"

Init ==
    /\ cpc = [r \in Requests |-> "idle"]
    /\ key = [r \in Requests |-> None] /\ answer = [r \in Requests |-> None]
    /\ msg = [r \in Requests |-> "none"] /\ reply = [r \in Requests |-> None]
    /\ dedupe = [k \in Keys |-> "none"] /\ intent = [k \in Keys |-> "none"]
    /\ sends = [k \in Keys |-> 0] /\ broker = [k \in Keys |-> "none"]
    /\ mistaken = {}
    /\ outbox = [g \in Gateways |-> {}]
    /\ pc = [g \in Gateways |-> [r \in Requests |-> "none"]]
    /\ res = [g \in Gateways |-> [r \in Requests |-> None]]

-----------------------------------------------------------------------------
(* Faulty variants, for testing the properties.                             *)

BadExistingResult(k) == intent[k]          \* the row's status not looked at
BadReserves(k) == intent[k] \notin Success  \* a reserved row does not stop a send
BadAcknowledged(k) == TRUE                 \* no answer taken for an acceptance
BadRecorded(g, r) == "PLACED"              \* the fill not written to the row
BadReclaimable(g, r) == FALSE              \* no XAUTOCLAIM

-----------------------------------------------------------------------------
(* The caller. *)

InProgress(v) == v = "processing"

\* The call looks at the dedupe value first: only an unknown order is published,
Call(r, k) ==
    /\ cpc[r] = "idle" /\ dedupe[k] = "none"
    /\ key' = [key EXCEPT ![r] = k]
    /\ cpc' = [cpc EXCEPT ![r] = "checked"]
    /\ UNCHANGED <<answer, streamVars, dedupe, intent, brokerVars, outbox, taskVars>>

\* a result is returned and an order in flight is not sent again.  If Redis is
\* known to be down the call fails before it looks.
CallEnds(r, k) ==
    /\ cpc[r] = "idle"
    /\ \E a \in Results :
        /\ \/ dedupe[k] \in Results /\ a = dedupe[k]
           \/ InProgress(dedupe[k]) /\ a = "PENDING"
           \/ "redis" \in Faults /\ a = "FAILED"
        /\ answer' = [answer EXCEPT ![r] = a]
    /\ key' = [key EXCEPT ![r] = k]
    /\ cpc' = [cpc EXCEPT ![r] = "done"]
    /\ UNCHANGED <<streamVars, dedupe, intent, brokerVars, outbox, taskVars>>

Publish(r) ==
    /\ cpc[r] = "checked"
    /\ msg' = [msg EXCEPT ![r] = "queued"]
    /\ cpc' = [cpc EXCEPT ![r] = "waiting"]
    /\ UNCHANGED <<key, answer, reply, dedupe, intent, brokerVars, outbox, taskVars>>

\* XADD, or the entry's deadline before it, raises in the caller; XADD may have
\* happened.
PublishRaises(r) ==
    /\ Faults \cap {"redis", "deadline"} # {}
    /\ cpc[r] = "checked"
    /\ msg' \in {msg, [msg EXCEPT ![r] = "queued"]}
    /\ cpc' = [cpc EXCEPT ![r] = "done"]
    /\ answer' = [answer EXCEPT ![r] = "RAISED"]
    /\ UNCHANGED <<key, reply, dedupe, intent, brokerVars, outbox, taskVars>>

\* BLPOP of the reply list.
Answered(r) ==
    /\ cpc[r] = "waiting" /\ reply[r] # None
    /\ answer' = [answer EXCEPT ![r] = reply[r]]
    /\ reply' = [reply EXCEPT ![r] = None]
    /\ cpc' = [cpc EXCEPT ![r] = "done"]
    /\ UNCHANGED <<key, msg, dedupe, intent, brokerVars, outbox, taskVars>>

\* No reply in time: an entry is PENDING, but a close is reported FAILED.
GiveUp(r) ==
    /\ cpc[r] = "waiting"
    /\ answer' = [answer EXCEPT ![r] = IF key[r] \in Entries THEN "PENDING" ELSE "FAILED"]
    /\ cpc' = [cpc EXCEPT ![r] = "done"]
    /\ UNCHANGED <<key, streamVars, dedupe, intent, brokerVars, outbox, taskVars>>

-----------------------------------------------------------------------------
(* The consumer group and the task of worker g for request r.               *)

Goto(g, r, label) == pc' = [pc EXCEPT ![g][r] = label]

Respond(g, r, label, a) ==
    /\ Goto(g, r, label)
    /\ res' = [res EXCEPT ![g][r] = a]

Deliver(g, r) ==
    /\ msg[r] = "queued" /\ pc[g][r] = "none"
    /\ msg' = [msg EXCEPT ![r] = "delivered"]
    /\ Goto(g, r, "start")
    /\ UNCHANGED <<callVars, reply, dedupe, intent, brokerVars, outbox, res>>

\* XAUTOCLAIM of a message that was delivered and not acknowledged, unless this
\* worker has it in flight.
Reclaimable(g, r) == msg[r] = "delivered" /\ pc[g][r] = "none"

Reclaim(g, r) ==
    /\ Reclaimable(g, r)
    /\ Goto(g, r, "start")
    /\ UNCHANGED <<callVars, streamVars, dedupe, intent, brokerVars, outbox, res>>

ReadDedupe(g, r) ==
    /\ pc[g][r] = "start" /\ dedupe[key[r]] \notin Results
    /\ Goto(g, r, IF InProgress(dedupe[key[r]]) THEN "wait" ELSE "claim")
    /\ UNCHANGED <<callVars, streamVars, dedupe, intent, brokerVars, outbox, res>>

\* SET NX of the PROCESSING marker.
ClaimDedupe(g, r) ==
    /\ pc[g][r] = "claim"
    /\ dedupe' = [dedupe EXCEPT ![key[r]] = IF @ = "none" THEN "processing" ELSE @]
    /\ Goto(g, r, IF dedupe[key[r]] = "none" THEN "exec" ELSE "wait")
    /\ UNCHANGED <<callVars, streamVars, intent, brokerVars, outbox, res>>

\* The result is there, at once or while waiting for the other task;
Deduplicated(g, r) ==
    /\ pc[g][r] \in {"start", "wait"} /\ dedupe[key[r]] \in Results
    /\ Respond(g, r, "reply", dedupe[key[r]])
    /\ UNCHANGED <<callVars, streamVars, dedupe, intent, brokerVars, outbox>>

\* the wait is given up with PENDING.
WaitEnds(g, r) ==
    /\ pc[g][r] = "wait"
    /\ Respond(g, r, "reply", "PENDING")
    /\ UNCHANGED <<callVars, streamVars, dedupe, intent, brokerVars, outbox>>

\* The entry's deadline has passed, before or after the reservation.
Expired(g, r) ==
    /\ "deadline" \in Faults
    /\ pc[g][r] \in {"exec", "deadline"} /\ key[r] \in Entries
    /\ Respond(g, r, "save", "SKIPPED")
    /\ UNCHANGED <<callVars, streamVars, dedupe, intent, brokerVars, outbox>>

\* The row can be inserted: no call has reserved this order before.
Reserves(k) == intent[k] = "none"

\* _reserve_broker_intent: INSERT ... ON CONFLICT DO NOTHING, committed before
\* the send.
Reserve(g, r) ==
    /\ pc[g][r] = "exec" /\ Reserves(key[r])
    /\ intent' = [intent EXCEPT ![key[r]] = "reserved"]
    /\ Goto(g, r, "deadline")
    /\ UNCHANGED <<callVars, streamVars, dedupe, brokerVars, outbox, res>>

\* A conflict: the recorded result is returned, or PENDING.
ExistingResult(k) == IF intent[k] \in Success THEN intent[k] ELSE "PENDING"

AlreadyReserved(g, r) ==
    /\ pc[g][r] = "exec" /\ ~Reserves(key[r])
    /\ Respond(g, r, "save", ExistingResult(key[r]))
    /\ UNCHANGED <<callVars, streamVars, dedupe, intent, brokerVars, outbox>>

InTime(g, r) ==
    /\ pc[g][r] = "deadline"
    /\ Goto(g, r, "send")
    /\ UNCHANGED <<callVars, streamVars, dedupe, intent, brokerVars, outbox, res>>

\* submit_trade, connected: the order enters the send queue of the session.
Enqueue(g, r) ==
    /\ pc[g][r] = "send"
    /\ outbox' = [outbox EXCEPT ![g] = @ \cup {key[r]}]
    /\ Goto(g, r, "sending")
    /\ UNCHANGED <<callVars, streamVars, dedupe, intent, brokerVars, res>>

\* The sender loop writes it to the socket; the waiting task may be gone.
SenderLoop(g, k) ==
    /\ k \in outbox[g]
    /\ outbox' = [outbox EXCEPT ![g] = @ \ {k}]
    /\ sends' = [sends EXCEPT ![k] = @ + 1]
    /\ broker' = [broker EXCEPT ![k] = "received"]
    /\ UNCHANGED <<callVars, streamVars, dedupe, intent, mistaken, taskVars>>

\* The broker accepts, rejects, cancels or fills an order it has.
BrokerDecides(k) ==
    /\ \/ broker[k] = "received" /\ broker' = [broker EXCEPT ![k] = "accepted"]
       \/ broker[k] = "received" /\ broker' = [broker EXCEPT ![k] = "rejected"]
       \/ broker[k] = "accepted" /\ broker' = [broker EXCEPT ![k] = "cancelled"]
       \/ broker[k] \in {"received", "accepted"} /\ broker' = [broker EXCEPT ![k] = "filled"]
    /\ UNCHANGED <<callVars, streamVars, dedupe, intent, sends, mistaken, outbox, taskVars>>

\* The order's own execution event ends the wait...
Filled(g, r) ==
    /\ pc[g][r] = "sending" /\ broker[key[r]] = "filled"
    /\ Respond(g, r, "complete", "FILLED")
    /\ UNCHANGED <<callVars, streamVars, dedupe, intent, brokerVars, outbox>>

\* ...or the time is up: an acknowledged order is PLACED.
Acknowledged(k) == broker[k] \in {"accepted", "filled", "cancelled"}

TimedOut(g, r) ==
    /\ pc[g][r] = "sending" /\ Acknowledged(key[r])
    /\ Respond(g, r, "complete", "PLACED")
    /\ UNCHANGED <<callVars, streamVars, dedupe, intent, brokerVars, outbox>>

\* An event without a clientMsgId that names no known order goes to the only
\* order of its account that waits, written to the socket or not.
OnlyPending(g, r) == \A q \in Requests \ {r} : pc[g][q] # "sending"

\* Another order's fill is taken for this one's and ends the wait; another's
\* acceptance or partial fill is kept as its acknowledgement until the time is
\* up, which is one step here: nothing looks at it before.  (Another's rejection
\* makes the task raise: Unanswered.)
StrayEvent(g, r) ==
    /\ "stray" \in Faults
    /\ pc[g][r] = "sending" /\ OnlyPending(g, r)
    /\ mistaken' = mistaken \cup {key[r]}
    /\ \E a \in Success : Respond(g, r, "complete", a)
    /\ UNCHANGED <<callVars, streamVars, dedupe, intent, sends, broker, outbox>>

\* Without an acknowledgement the task raises; it may be late or lost.
Unanswered(g, r) ==
    /\ pc[g][r] = "sending"
    /\ Goto(g, r, "fail")
    /\ UNCHANGED <<callVars, streamVars, dedupe, intent, brokerVars, outbox, res>>

\* _complete_broker_intent.
Recorded(g, r) == res[g][r]

Complete(g, r) ==
    /\ pc[g][r] = "complete"
    /\ intent' = [intent EXCEPT ![key[r]] = Recorded(g, r)]
    /\ Goto(g, r, "save")
    /\ UNCHANGED <<callVars, streamVars, dedupe, brokerVars, outbox, res>>

\* set_order_dedupe.
Save(g, r) ==
    /\ pc[g][r] = "save"
    /\ dedupe' = [dedupe EXCEPT ![key[r]] = res[g][r]]
    /\ Goto(g, r, "reply")
    /\ UNCHANGED <<callVars, streamVars, intent, brokerVars, outbox, res>>

\* RPUSH to the reply list: only its head is ever popped.
PushReply(r, a) == reply' = [reply EXCEPT ![r] = IF @ = None THEN a ELSE @]

\* set_order_result.
Reply(g, r) ==
    /\ pc[g][r] = "reply"
    /\ PushReply(r, res[g][r])
    /\ Goto(g, r, "ack")
    /\ UNCHANGED <<callVars, msg, dedupe, intent, brokerVars, outbox, res>>

Ack(g, r) ==
    /\ pc[g][r] \in {"ack", "failAck"}
    /\ msg' = [msg EXCEPT ![r] = "acked"]
    /\ Respond(g, r, "none", None)
    /\ UNCHANGED <<callVars, reply, dedupe, intent, brokerVars, outbox>>

\* An exception in the task: FAILED is replied, kept as the result whatever was
\* there, and the message is acknowledged.
FailReply(g, r) ==
    /\ pc[g][r] = "fail"
    /\ PushReply(r, "FAILED")
    /\ Goto(g, r, "failSave")
    /\ UNCHANGED <<callVars, msg, dedupe, intent, brokerVars, outbox, res>>

FailSave(g, r) ==
    /\ pc[g][r] = "failSave"
    /\ dedupe' = [dedupe EXCEPT ![key[r]] = "FAILED"]
    /\ Goto(g, r, "failAck")
    /\ UNCHANGED <<callVars, streamVars, intent, brokerVars, outbox, res>>

-----------------------------------------------------------------------------
(* Failures. *)

\* The account, the symbol or the session is not usable, or the broker rejects
\* the order: the task raises.
BrokerFails(g, r) ==
    /\ "broker" \in Faults
    /\ \/ pc[g][r] \in {"exec", "send"}
       \/ pc[g][r] = "sending" /\ broker[key[r]] \in {"rejected", "cancelled"}
    /\ Goto(g, r, "fail")
    /\ UNCHANGED <<callVars, streamVars, dedupe, intent, brokerVars, outbox, res>>

\* The session is lost: its send queue is dropped, its waiting requests fail.
Disconnect(g) ==
    /\ "broker" \in Faults
    /\ outbox' = [outbox EXCEPT ![g] = {}]
    /\ pc' = [pc EXCEPT ![g] = [r \in Requests |-> IF @[r] = "sending" THEN "fail" ELSE @[r]]]
    /\ pc' # pc \/ outbox' # outbox
    /\ UNCHANGED <<callVars, streamVars, dedupe, intent, brokerVars, res>>

\* A statement on the intent row raises; its commit may have happened, which is
\* the same statement followed by this step.
DatabaseFails(g, r) ==
    /\ "database" \in Faults
    /\ \/ pc[g][r] \in {"exec", "deadline", "complete"}
       \/ pc[g][r] = "save" /\ res[g][r] \in Success
    /\ Goto(g, r, "fail")
    /\ UNCHANGED <<callVars, streamVars, dedupe, intent, brokerVars, outbox, res>>

\* A Redis command of the task raises: the handler runs,
RedisFails(g, r) ==
    /\ "redis" \in Faults
    /\ pc[g][r] \in {"start", "claim", "wait", "save", "reply", "ack"}
    /\ Goto(g, r, "fail")
    /\ UNCHANGED <<callVars, streamVars, dedupe, intent, brokerVars, outbox, res>>

\* or raises itself and leaves the message to be reclaimed.
HandlerFails(g, r) ==
    /\ "redis" \in Faults
    /\ pc[g][r] \in {"fail", "failSave", "failAck"}
    /\ Respond(g, r, "none", None)
    /\ UNCHANGED <<callVars, streamVars, dedupe, intent, brokerVars, outbox>>

\* A worker dies: its tasks and its send queue are gone.
Crash(g) ==
    /\ "crash" \in Faults
    /\ \E r \in Requests : pc[g][r] # "none"
    /\ pc' = [pc EXCEPT ![g] = [r \in Requests |-> "none"]]
    /\ res' = [res EXCEPT ![g] = [r \in Requests |-> None]]
    /\ outbox' = [outbox EXCEPT ![g] = {}]
    /\ UNCHANGED <<callVars, streamVars, dedupe, intent, brokerVars>>

\* The dedupe value's time to live ends, also under a task that runs.
DedupeExpires(k) ==
    /\ "expiry" \in Faults
    /\ dedupe[k] # "none"
    /\ dedupe' = [dedupe EXCEPT ![k] = "none"]
    /\ UNCHANGED <<callVars, streamVars, intent, brokerVars, outbox, taskVars>>

-----------------------------------------------------------------------------
CallStep(r) ==
    \/ \E k \in Keys : Call(r, k) \/ CallEnds(r, k)
    \/ Publish(r) \/ PublishRaises(r) \/ Answered(r) \/ GiveUp(r)

TaskStep(g, r) ==
    \/ ReadDedupe(g, r) \/ ClaimDedupe(g, r) \/ Deduplicated(g, r) \/ WaitEnds(g, r)
    \/ Expired(g, r) \/ Reserve(g, r) \/ AlreadyReserved(g, r) \/ InTime(g, r)
    \/ Enqueue(g, r) \/ Filled(g, r) \/ TimedOut(g, r) \/ Unanswered(g, r)
    \/ Complete(g, r) \/ Save(g, r) \/ Reply(g, r) \/ Ack(g, r)
    \/ FailReply(g, r) \/ FailSave(g, r)

TaskFault(g, r) ==
    \/ BrokerFails(g, r) \/ StrayEvent(g, r)
    \/ DatabaseFails(g, r) \/ RedisFails(g, r) \/ HandlerFails(g, r)

SessionStep == \E k \in Keys : BrokerDecides(k) \/ \E g \in Gateways : SenderLoop(g, k)

Fault ==
    \/ \E g \in Gateways, r \in Requests : TaskFault(g, r)
    \/ \E g \in Gateways : Disconnect(g) \/ Crash(g)

Next ==
    \/ \E r \in Requests : CallStep(r)
    \/ \E g \in Gateways, r \in Requests : Deliver(g, r) \/ Reclaim(g, r) \/ TaskStep(g, r)
    \/ SessionStep
    \/ Fault
    \/ \E k \in Keys : DedupeExpires(k)

Spec == Init /\ [][Next]_vars

-----------------------------------------------------------------------------
(* Safety *)

\* An order is written to the broker's socket at most once, whatever calls,
\* redeliveries, crashes, expired dedupe keys and late sends there are.
SentAtMostOnce == \A k \in Keys : sends[k] <= 1

\* A caller told FILLED or PLACED is told what the durable row says, which is
\* what the broker did with this very order: it is still so after a crash or an
\* expired dedupe key.  Only an order for which the session took another
\* order's event may have a success recorded that the broker knows nothing of.
BrokerDid(k, a) ==
    \/ a = "FILLED" /\ broker[k] = "filled"
    \/ a = "PLACED" /\ broker[k] \in {"accepted", "filled", "cancelled"}

SuccessIsDurable ==
    /\ \A r \in Requests : answer[r] \in Success => intent[key[r]] = answer[r]
    /\ \A k \in Keys : dedupe[k] \in Success => intent[k] = dedupe[k]
    /\ \A k \in Keys : intent[k] \in Success => BrokerDid(k, intent[k]) \/ k \in mistaken

\* The gateway implements the order service.
told == [r \in Requests |->
            IF answer[r] = None THEN None ELSE [key |-> key[r], answer |-> answer[r]]]
outcome == [k \in Keys |-> IF intent[k] \in Success THEN intent[k] ELSE None]

Service == INSTANCE OrderService WITH sent <- sends, outcome <- outcome, told <- told

ServiceSpec == Service!Spec

-----------------------------------------------------------------------------
(* Liveness.  A worker reads the stream, reclaims what is idle and runs its  *)
(* tasks; every wait in a task has a timeout.                                *)

FairSpec ==
    /\ Spec
    /\ \A g \in Gateways, r \in Requests :
        WF_vars(Deliver(g, r)) /\ WF_vars(Reclaim(g, r)) /\ WF_vars(TaskStep(g, r))

\* Once workers, Redis, database and session stop failing, every published
\* request is worked off, also those a dead worker had in hand.
RequestsAcked ==
    <>[][~Fault]_vars => \A r \in Requests : msg[r] = "queued" ~> msg[r] = "acked"
=============================================================================
