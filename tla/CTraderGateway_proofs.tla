----------------------- MODULE CTraderGateway_proofs ------------------------
(***************************************************************************)
(* Proofs about CTraderGateway, for any number of orders, requests and     *)
(* workers and any set of faults.                                          *)
(*                                                                         *)
(* The invariant is built in three layers, each preserved by every step    *)
(* given the layers below: the types (TypeInv), the sending argument       *)
(* (SendInv: the intent row arms one task, once) and the answers           *)
(* (ResultInv: a success is said only after the row holds it).  Of a step  *)
(* that keeps the invariant, Refines says what it does to the order        *)
(* service.                                                                *)
(***************************************************************************)
EXTENDS CTraderGateway, TLAPS

\* A task with an answer to give has one.
HasResponse ==
    \A g \in Gateways, r \in Requests :
        /\ pc[g][r] = "complete" => res[g][r] \in Success
        /\ pc[g][r] \in {"save", "reply", "ack"} => res[g][r] \in Results

\* Nobody works on or answers a call that was not made, and it is answered once.
NotAnswered ==
    \A r \in Requests :
        /\ cpc[r] = "idle" => msg[r] = "none" /\ reply[r] = None
        /\ cpc[r] # "done" => answer[r] = None

TypeInv == TypeOK /\ HasResponse /\ NotAnswered

\* The labels of a task that inserted the intent row and may still send.
Armed == {"deadline", "send", "sending", "complete"}

\* Only the task that inserted the row is armed, and the row shows it.
ArmedReserved ==
    \A g \in Gateways, r \in Requests : pc[g][r] \in Armed => intent[key[r]] = "reserved"

OneArmed ==
    \A g, h \in Gateways, r, q \in Requests :
        /\ pc[g][r] \in Armed /\ pc[h][q] \in Armed
        /\ key[r] = key[q]
        => g = h /\ r = q

\* Before submit_trade the order is nowhere.
NotYetSent ==
    \A g \in Gateways, r \in Requests : pc[g][r] \in {"deadline", "send"} =>
        sends[key[r]] = 0 /\ \A h \in Gateways : key[r] \notin outbox[h]

\* It waits in one send queue at most and is not sent while it does: a late
\* send is the first.
QueuedOnce ==
    \A g \in Gateways : \A k \in outbox[g] :
        /\ sends[k] = 0 /\ intent[k] # "none"
        /\ \A h \in Gateways : k \in outbox[h] => h = g

\* The broker knows an order exactly if it was sent, and the row knows, too.
SentIsKnown ==
    \A k \in Keys :
        /\ sends[k] \in {0, 1}
        /\ sends[k] = 0 <=> broker[k] = "none"
        /\ sends[k] = 1 => intent[k] # "none"

SendInv == ArmedReserved /\ OneArmed /\ NotYetSent /\ QueuedOnce /\ SentIsKnown

\* A task about to record a success saw it at the broker, or took an event of
\* another order for it.
Confirmed ==
    \A g \in Gateways, r \in Requests : pc[g][r] = "complete" =>
        BrokerDid(key[r], res[g][r]) \/ key[r] \in mistaken

\* A success on its way to the caller is the recorded one.
SuccessInFlight ==
    \A r \in Requests :
        /\ reply[r] \in Success => intent[key[r]] = reply[r]
        /\ \A g \in Gateways :
            pc[g][r] \in {"save", "reply", "ack"} /\ res[g][r] \in Success
            => intent[key[r]] = res[g][r]

ResultInv == Confirmed /\ SuccessInFlight /\ SuccessIsDurable

Inv == TypeInv /\ SendInv /\ ResultInv

-----------------------------------------------------------------------------
(* Types *)

LEMMA InitType == Init => TypeInv
BY GatewayAssumption, NoneAssumption
   DEF Init, TypeInv, TypeOK, HasResponse, NotAnswered, Labels, Success, Results

LEMMA CallType ==
    ASSUME TypeInv,
           NEW r \in Requests,
           CallStep(r)
    PROVE  TypeInv'
<1> USE DEF TypeInv, TypeOK, HasResponse, NotAnswered, Labels, Success, Results,
            Goto, Respond, callVars, streamVars, brokerVars, taskVars
<1>1. ASSUME NEW k \in Keys, Call(r, k) PROVE TypeInv'
  BY <1>1, GatewayAssumption, NoneAssumption DEF Call
<1>2. ASSUME NEW k \in Keys, CallEnds(r, k) PROVE TypeInv'
  BY <1>2, GatewayAssumption, NoneAssumption DEF CallEnds, InProgress
<1>3. CASE Publish(r)
  BY <1>3, GatewayAssumption, NoneAssumption DEF Publish
<1>4. CASE PublishRaises(r)
  <2>1. CASE msg' = msg
    BY <1>4, <2>1, GatewayAssumption, NoneAssumption DEF PublishRaises
  <2>2. CASE msg' = [msg EXCEPT ![r] = "queued"]
    BY <1>4, <2>2, GatewayAssumption, NoneAssumption DEF PublishRaises
  <2> QED BY <1>4, <2>1, <2>2 DEF PublishRaises
<1>5. CASE Answered(r)
  BY <1>5, GatewayAssumption, NoneAssumption DEF Answered
<1>6. CASE GiveUp(r)
  BY <1>6, GatewayAssumption, NoneAssumption DEF GiveUp
<1> HIDE DEF TypeInv
<1> QED BY <1>1, <1>2, <1>3, <1>4, <1>5, <1>6 DEF CallStep

LEMMA TaskType ==
    ASSUME TypeInv,
           NEW g \in Gateways, NEW r \in Requests,
           Deliver(g, r) \/ Reclaim(g, r) \/ TaskStep(g, r) \/ TaskFault(g, r)
    PROVE  TypeInv'
<1> USE DEF TypeInv, TypeOK, HasResponse, NotAnswered, Labels, Success, Results,
            Goto, Respond, callVars, streamVars, brokerVars, taskVars
<1>1. CASE Deliver(g, r)
  BY <1>1, GatewayAssumption, NoneAssumption DEF Deliver
<1>2. CASE Reclaim(g, r)
  BY <1>2, GatewayAssumption, NoneAssumption DEF Reclaim, Reclaimable
<1>3. CASE ReadDedupe(g, r)
  BY <1>3, GatewayAssumption, NoneAssumption DEF ReadDedupe, InProgress
<1>4. CASE ClaimDedupe(g, r)
  BY <1>4, GatewayAssumption, NoneAssumption DEF ClaimDedupe
<1>5. CASE Deduplicated(g, r)
  BY <1>5, GatewayAssumption, NoneAssumption DEF Deduplicated
<1>6. CASE WaitEnds(g, r)
  BY <1>6, GatewayAssumption, NoneAssumption DEF WaitEnds
<1>7. CASE Expired(g, r)
  BY <1>7, GatewayAssumption, NoneAssumption DEF Expired
<1>8. CASE Reserve(g, r)
  BY <1>8, GatewayAssumption, NoneAssumption DEF Reserve, Reserves
<1>9. CASE AlreadyReserved(g, r)
  BY <1>9, GatewayAssumption, NoneAssumption DEF AlreadyReserved, Reserves, ExistingResult
<1>10. CASE InTime(g, r)
  BY <1>10, GatewayAssumption, NoneAssumption DEF InTime
<1>11. CASE Enqueue(g, r)
  BY <1>11, GatewayAssumption, NoneAssumption DEF Enqueue
<1>12. CASE Filled(g, r)
  BY <1>12, GatewayAssumption, NoneAssumption DEF Filled
<1>13. CASE TimedOut(g, r)
  BY <1>13, GatewayAssumption, NoneAssumption DEF TimedOut, Acknowledged
<1>14. CASE Unanswered(g, r)
  BY <1>14, GatewayAssumption, NoneAssumption DEF Unanswered
<1>15. CASE Complete(g, r)
  BY <1>15, GatewayAssumption, NoneAssumption DEF Complete, Recorded
<1>16. CASE Save(g, r)
  BY <1>16, GatewayAssumption, NoneAssumption DEF Save
<1>17. CASE Reply(g, r)
  BY <1>17, GatewayAssumption, NoneAssumption DEF Reply, PushReply
<1>18. CASE Ack(g, r)
  BY <1>18, GatewayAssumption, NoneAssumption DEF Ack
<1>19. CASE FailReply(g, r)
  BY <1>19, GatewayAssumption, NoneAssumption DEF FailReply, PushReply
<1>20. CASE FailSave(g, r)
  BY <1>20, GatewayAssumption, NoneAssumption DEF FailSave
<1>21. CASE BrokerFails(g, r)
  BY <1>21, GatewayAssumption, NoneAssumption DEF BrokerFails
<1>22. CASE DatabaseFails(g, r)
  BY <1>22, GatewayAssumption, NoneAssumption DEF DatabaseFails
<1>23. CASE RedisFails(g, r)
  BY <1>23, GatewayAssumption, NoneAssumption DEF RedisFails
<1>24. CASE HandlerFails(g, r)
  BY <1>24, GatewayAssumption, NoneAssumption DEF HandlerFails
<1>25. CASE StrayEvent(g, r)
  BY <1>25, GatewayAssumption, NoneAssumption DEF StrayEvent
<1> HIDE DEF TypeInv
<1> QED BY <1>1, <1>2, <1>3, <1>4, <1>5, <1>6, <1>7, <1>8, <1>9, <1>10, <1>11, <1>12, <1>13, <1>14, <1>15, <1>16, <1>17, <1>18, <1>19, <1>20, <1>21, <1>22, <1>23, <1>24, <1>25 DEF TaskStep, TaskFault

LEMMA WorldType ==
    ASSUME TypeInv,
           SessionStep \/ (\E g \in Gateways : Disconnect(g) \/ Crash(g)) \/ \E k \in Keys : DedupeExpires(k)
    PROVE  TypeInv'
<1> USE DEF TypeInv, TypeOK, HasResponse, NotAnswered, Labels, Success, Results,
            Goto, Respond, callVars, streamVars, brokerVars, taskVars
<1>1. ASSUME NEW g \in Gateways, NEW k \in Keys, SenderLoop(g, k) PROVE TypeInv'
  BY <1>1, GatewayAssumption, NoneAssumption DEF SenderLoop
<1>2. ASSUME NEW k \in Keys, BrokerDecides(k) PROVE TypeInv'
  <2>1. PICK s \in {"accepted", "rejected", "cancelled", "filled"} :
          broker' = [broker EXCEPT ![k] = s]
    BY <1>2 DEF BrokerDecides
  <2>2. broker' \in [Keys -> {"none", "received", "accepted", "rejected", "cancelled", "filled"}]
    BY <2>1
  <2> QED BY <1>2, <2>2 DEF BrokerDecides
<1>3. ASSUME NEW g \in Gateways, Disconnect(g) PROVE TypeInv'
  BY <1>3, GatewayAssumption, NoneAssumption DEF Disconnect
<1>4. ASSUME NEW g \in Gateways, Crash(g) PROVE TypeInv'
  BY <1>4, GatewayAssumption, NoneAssumption DEF Crash
<1>5. ASSUME NEW k \in Keys, DedupeExpires(k) PROVE TypeInv'
  BY <1>5, GatewayAssumption, NoneAssumption DEF DedupeExpires
<1> HIDE DEF TypeInv
<1> QED BY <1>1, <1>2, <1>3, <1>4, <1>5 DEF SessionStep

-----------------------------------------------------------------------------
(* Sending *)

LEMMA CallSend ==
    ASSUME TypeInv, TypeInv', SendInv,
           NEW r \in Requests,
           CallStep(r)
    PROVE  SendInv'
<1> USE DEF SendInv, ArmedReserved, OneArmed, NotYetSent, QueuedOnce, SentIsKnown, Armed,
            TypeInv, TypeOK, HasResponse, NotAnswered, Labels, Success, Results,
            Goto, Respond, callVars, streamVars, brokerVars, taskVars
<1>1. ASSUME NEW k \in Keys, Call(r, k) PROVE SendInv'
  BY <1>1, GatewayAssumption, NoneAssumption DEF Call
<1>2. ASSUME NEW k \in Keys, CallEnds(r, k) PROVE SendInv'
  BY <1>2, GatewayAssumption, NoneAssumption DEF CallEnds, InProgress
<1>3. CASE Publish(r)
  BY <1>3, GatewayAssumption, NoneAssumption DEF Publish
<1>4. CASE PublishRaises(r)
  BY <1>4, GatewayAssumption, NoneAssumption DEF PublishRaises
<1>5. CASE Answered(r)
  BY <1>5, GatewayAssumption, NoneAssumption DEF Answered
<1>6. CASE GiveUp(r)
  BY <1>6, GatewayAssumption, NoneAssumption DEF GiveUp
<1> HIDE DEF SendInv, TypeInv
<1> QED BY <1>1, <1>2, <1>3, <1>4, <1>5, <1>6 DEF CallStep

LEMMA TaskSend ==
    ASSUME TypeInv, TypeInv', SendInv,
           NEW g \in Gateways, NEW r \in Requests,
           Deliver(g, r) \/ Reclaim(g, r) \/ TaskStep(g, r) \/ TaskFault(g, r)
    PROVE  SendInv'
<1> USE DEF SendInv, ArmedReserved, OneArmed, NotYetSent, QueuedOnce, SentIsKnown, Armed,
            TypeInv, TypeOK, HasResponse, NotAnswered, Labels, Success, Results,
            Goto, Respond, callVars, streamVars, brokerVars, taskVars
<1>1. CASE Deliver(g, r)
  BY <1>1, GatewayAssumption, NoneAssumption DEF Deliver
<1>2. CASE Reclaim(g, r)
  BY <1>2, GatewayAssumption, NoneAssumption DEF Reclaim, Reclaimable
<1>3. CASE ReadDedupe(g, r)
  BY <1>3, GatewayAssumption, NoneAssumption DEF ReadDedupe, InProgress
<1>4. CASE ClaimDedupe(g, r)
  BY <1>4, GatewayAssumption, NoneAssumption DEF ClaimDedupe
<1>5. CASE Deduplicated(g, r)
  BY <1>5, GatewayAssumption, NoneAssumption DEF Deduplicated
<1>6. CASE WaitEnds(g, r)
  BY <1>6, GatewayAssumption, NoneAssumption DEF WaitEnds
<1>7. CASE Expired(g, r)
  BY <1>7, GatewayAssumption, NoneAssumption DEF Expired
<1>8. CASE Reserve(g, r)
  BY <1>8, GatewayAssumption, NoneAssumption DEF Reserve, Reserves
<1>9. CASE AlreadyReserved(g, r)
  BY <1>9, GatewayAssumption, NoneAssumption DEF AlreadyReserved, Reserves, ExistingResult
<1>10. CASE InTime(g, r)
  BY <1>10, GatewayAssumption, NoneAssumption DEF InTime
<1>11. CASE Enqueue(g, r)
  BY <1>11, GatewayAssumption, NoneAssumption DEF Enqueue
<1>12. CASE Filled(g, r)
  BY <1>12, GatewayAssumption, NoneAssumption DEF Filled
<1>13. CASE TimedOut(g, r)
  BY <1>13, GatewayAssumption, NoneAssumption DEF TimedOut, Acknowledged
<1>14. CASE Unanswered(g, r)
  BY <1>14, GatewayAssumption, NoneAssumption DEF Unanswered
<1>15. CASE Complete(g, r)
  BY <1>15, GatewayAssumption, NoneAssumption DEF Complete, Recorded
<1>16. CASE Save(g, r)
  BY <1>16, GatewayAssumption, NoneAssumption DEF Save
<1>17. CASE Reply(g, r)
  BY <1>17, GatewayAssumption, NoneAssumption DEF Reply, PushReply
<1>18. CASE Ack(g, r)
  BY <1>18, GatewayAssumption, NoneAssumption DEF Ack
<1>19. CASE FailReply(g, r)
  BY <1>19, GatewayAssumption, NoneAssumption DEF FailReply, PushReply
<1>20. CASE FailSave(g, r)
  BY <1>20, GatewayAssumption, NoneAssumption DEF FailSave
<1>21. CASE BrokerFails(g, r)
  BY <1>21, GatewayAssumption, NoneAssumption DEF BrokerFails
<1>22. CASE DatabaseFails(g, r)
  BY <1>22, GatewayAssumption, NoneAssumption DEF DatabaseFails
<1>23. CASE RedisFails(g, r)
  BY <1>23, GatewayAssumption, NoneAssumption DEF RedisFails
<1>24. CASE HandlerFails(g, r)
  BY <1>24, GatewayAssumption, NoneAssumption DEF HandlerFails
<1>25. CASE StrayEvent(g, r)
  BY <1>25, GatewayAssumption, NoneAssumption DEF StrayEvent
<1> HIDE DEF SendInv, TypeInv
<1> QED BY <1>1, <1>2, <1>3, <1>4, <1>5, <1>6, <1>7, <1>8, <1>9, <1>10, <1>11, <1>12, <1>13, <1>14, <1>15, <1>16, <1>17, <1>18, <1>19, <1>20, <1>21, <1>22, <1>23, <1>24, <1>25 DEF TaskStep, TaskFault

LEMMA WorldSend ==
    ASSUME TypeInv, TypeInv', SendInv,
           SessionStep \/ (\E g \in Gateways : Disconnect(g) \/ Crash(g)) \/ \E k \in Keys : DedupeExpires(k)
    PROVE  SendInv'
<1> USE DEF SendInv, ArmedReserved, OneArmed, NotYetSent, QueuedOnce, SentIsKnown, Armed,
            TypeInv, TypeOK, HasResponse, NotAnswered, Labels, Success, Results,
            Goto, Respond, callVars, streamVars, brokerVars, taskVars
<1>1. ASSUME NEW g \in Gateways, NEW k \in Keys, SenderLoop(g, k) PROVE SendInv'
  BY <1>1, GatewayAssumption, NoneAssumption DEF SenderLoop
<1>2. ASSUME NEW k \in Keys, BrokerDecides(k) PROVE SendInv'
  BY <1>2, GatewayAssumption, NoneAssumption DEF BrokerDecides
<1>3. ASSUME NEW g \in Gateways, Disconnect(g) PROVE SendInv'
  BY <1>3, GatewayAssumption, NoneAssumption DEF Disconnect
<1>4. ASSUME NEW g \in Gateways, Crash(g) PROVE SendInv'
  BY <1>4, GatewayAssumption, NoneAssumption DEF Crash
<1>5. ASSUME NEW k \in Keys, DedupeExpires(k) PROVE SendInv'
  BY <1>5, GatewayAssumption, NoneAssumption DEF DedupeExpires
<1> HIDE DEF SendInv, TypeInv
<1> QED BY <1>1, <1>2, <1>3, <1>4, <1>5 DEF SessionStep

-----------------------------------------------------------------------------
(* Answers *)

LEMMA CallResult ==
    ASSUME TypeInv, TypeInv', SendInv, SendInv', ResultInv,
           NEW r \in Requests,
           CallStep(r)
    PROVE  ResultInv'
<1> USE DEF ResultInv, Confirmed, SuccessInFlight, SuccessIsDurable, BrokerDid,
            SendInv, ArmedReserved, OneArmed, NotYetSent, QueuedOnce, SentIsKnown, Armed,
            TypeInv, TypeOK, HasResponse, NotAnswered, Labels, Success, Results,
            Goto, Respond, callVars, streamVars, brokerVars, taskVars
<1>1. ASSUME NEW k \in Keys, Call(r, k) PROVE ResultInv'
  BY <1>1, GatewayAssumption, NoneAssumption DEF Call
<1>2. ASSUME NEW k \in Keys, CallEnds(r, k) PROVE ResultInv'
  BY <1>2, GatewayAssumption, NoneAssumption DEF CallEnds, InProgress
<1>3. CASE Publish(r)
  BY <1>3, GatewayAssumption, NoneAssumption DEF Publish
<1>4. CASE PublishRaises(r)
  BY <1>4, GatewayAssumption, NoneAssumption DEF PublishRaises
<1>5. CASE Answered(r)
  BY <1>5, GatewayAssumption, NoneAssumption DEF Answered
<1>6. CASE GiveUp(r)
  BY <1>6, GatewayAssumption, NoneAssumption DEF GiveUp
<1> HIDE DEF ResultInv, SendInv, TypeInv
<1> QED BY <1>1, <1>2, <1>3, <1>4, <1>5, <1>6 DEF CallStep

LEMMA TaskResult ==
    ASSUME TypeInv, TypeInv', SendInv, SendInv', ResultInv,
           NEW g \in Gateways, NEW r \in Requests,
           Deliver(g, r) \/ Reclaim(g, r) \/ TaskStep(g, r) \/ TaskFault(g, r)
    PROVE  ResultInv'
<1> USE DEF ResultInv, Confirmed, SuccessInFlight, SuccessIsDurable, BrokerDid,
            SendInv, ArmedReserved, OneArmed, NotYetSent, QueuedOnce, SentIsKnown, Armed,
            TypeInv, TypeOK, HasResponse, NotAnswered, Labels, Success, Results,
            Goto, Respond, callVars, streamVars, brokerVars, taskVars
<1>1. CASE Deliver(g, r)
  BY <1>1, GatewayAssumption, NoneAssumption DEF Deliver
<1>2. CASE Reclaim(g, r)
  BY <1>2, GatewayAssumption, NoneAssumption DEF Reclaim, Reclaimable
<1>3. CASE ReadDedupe(g, r)
  BY <1>3, GatewayAssumption, NoneAssumption DEF ReadDedupe, InProgress
<1>4. CASE ClaimDedupe(g, r)
  BY <1>4, GatewayAssumption, NoneAssumption DEF ClaimDedupe
<1>5. CASE Deduplicated(g, r)
  BY <1>5, GatewayAssumption, NoneAssumption DEF Deduplicated
<1>6. CASE WaitEnds(g, r)
  BY <1>6, GatewayAssumption, NoneAssumption DEF WaitEnds
<1>7. CASE Expired(g, r)
  BY <1>7, GatewayAssumption, NoneAssumption DEF Expired
<1>8. CASE Reserve(g, r)
  BY <1>8, GatewayAssumption, NoneAssumption DEF Reserve, Reserves
<1>9. CASE AlreadyReserved(g, r)
  BY <1>9, GatewayAssumption, NoneAssumption DEF AlreadyReserved, Reserves, ExistingResult
<1>10. CASE InTime(g, r)
  BY <1>10, GatewayAssumption, NoneAssumption DEF InTime
<1>11. CASE Enqueue(g, r)
  BY <1>11, GatewayAssumption, NoneAssumption DEF Enqueue
<1>12. CASE Filled(g, r)
  BY <1>12, GatewayAssumption, NoneAssumption DEF Filled
<1>13. CASE TimedOut(g, r)
  BY <1>13, GatewayAssumption, NoneAssumption DEF TimedOut, Acknowledged
<1>14. CASE Unanswered(g, r)
  BY <1>14, GatewayAssumption, NoneAssumption DEF Unanswered
<1>15. CASE Complete(g, r)
  BY <1>15, GatewayAssumption, NoneAssumption DEF Complete, Recorded
<1>16. CASE Save(g, r)
  BY <1>16, GatewayAssumption, NoneAssumption DEF Save
<1>17. CASE Reply(g, r)
  BY <1>17, GatewayAssumption, NoneAssumption DEF Reply, PushReply
<1>18. CASE Ack(g, r)
  BY <1>18, GatewayAssumption, NoneAssumption DEF Ack
<1>19. CASE FailReply(g, r)
  BY <1>19, GatewayAssumption, NoneAssumption DEF FailReply, PushReply
<1>20. CASE FailSave(g, r)
  BY <1>20, GatewayAssumption, NoneAssumption DEF FailSave
<1>21. CASE BrokerFails(g, r)
  BY <1>21, GatewayAssumption, NoneAssumption DEF BrokerFails
<1>22. CASE DatabaseFails(g, r)
  BY <1>22, GatewayAssumption, NoneAssumption DEF DatabaseFails
<1>23. CASE RedisFails(g, r)
  BY <1>23, GatewayAssumption, NoneAssumption DEF RedisFails
<1>24. CASE HandlerFails(g, r)
  BY <1>24, GatewayAssumption, NoneAssumption DEF HandlerFails
<1>25. CASE StrayEvent(g, r)
  BY <1>25, GatewayAssumption, NoneAssumption DEF StrayEvent
<1> HIDE DEF ResultInv, SendInv, TypeInv
<1> QED BY <1>1, <1>2, <1>3, <1>4, <1>5, <1>6, <1>7, <1>8, <1>9, <1>10, <1>11, <1>12, <1>13, <1>14, <1>15, <1>16, <1>17, <1>18, <1>19, <1>20, <1>21, <1>22, <1>23, <1>24, <1>25 DEF TaskStep, TaskFault

LEMMA WorldResult ==
    ASSUME TypeInv, TypeInv', SendInv, SendInv', ResultInv,
           SessionStep \/ (\E g \in Gateways : Disconnect(g) \/ Crash(g)) \/ \E k \in Keys : DedupeExpires(k)
    PROVE  ResultInv'
<1> USE DEF ResultInv, Confirmed, SuccessInFlight, SuccessIsDurable, BrokerDid,
            SendInv, ArmedReserved, OneArmed, NotYetSent, QueuedOnce, SentIsKnown, Armed,
            TypeInv, TypeOK, HasResponse, NotAnswered, Labels, Success, Results,
            Goto, Respond, callVars, streamVars, brokerVars, taskVars
<1>1. ASSUME NEW g \in Gateways, NEW k \in Keys, SenderLoop(g, k) PROVE ResultInv'
  BY <1>1, GatewayAssumption, NoneAssumption DEF SenderLoop
<1>2. ASSUME NEW k \in Keys, BrokerDecides(k) PROVE ResultInv'
  BY <1>2, GatewayAssumption, NoneAssumption DEF BrokerDecides
<1>3. ASSUME NEW g \in Gateways, Disconnect(g) PROVE ResultInv'
  BY <1>3, GatewayAssumption, NoneAssumption DEF Disconnect
<1>4. ASSUME NEW g \in Gateways, Crash(g) PROVE ResultInv'
  BY <1>4, GatewayAssumption, NoneAssumption DEF Crash
<1>5. ASSUME NEW k \in Keys, DedupeExpires(k) PROVE ResultInv'
  BY <1>5, GatewayAssumption, NoneAssumption DEF DedupeExpires
<1> HIDE DEF ResultInv, SendInv, TypeInv
<1> QED BY <1>1, <1>2, <1>3, <1>4, <1>5 DEF SessionStep

-----------------------------------------------------------------------------
(* The invariant *)

LEMMA InvInit == Init => Inv
<1>1. Init => SendInv
  BY DEF Init, SendInv, ArmedReserved, OneArmed, NotYetSent, QueuedOnce, SentIsKnown, Armed
<1>2. Init => ResultInv
  BY NoneAssumption
     DEF Init, ResultInv, Confirmed, SuccessInFlight, SuccessIsDurable, Success, Results
<1> QED BY <1>1, <1>2, InitType DEF Inv

LEMMA InvStep == Inv /\ [Next]_vars => Inv'
<1> SUFFICES ASSUME Inv, [Next]_vars PROVE Inv'
  OBVIOUS
<1>1. CASE UNCHANGED vars
  BY <1>1
     DEF vars, callVars, streamVars, brokerVars, taskVars, Inv, TypeInv, TypeOK,
         HasResponse, NotAnswered, SendInv, ArmedReserved, OneArmed, NotYetSent,
         QueuedOnce, SentIsKnown, ResultInv, Confirmed, SuccessInFlight,
         SuccessIsDurable, BrokerDid
<1>2. CASE Next
  <2>1. TypeInv'
    BY <1>2, CallType, TaskType, WorldType DEF Next, Fault, Inv
  <2>2. SendInv'
    BY <1>2, <2>1, CallSend, TaskSend, WorldSend DEF Next, Fault, Inv
  <2>3. ResultInv'
    BY <1>2, <2>1, <2>2, CallResult, TaskResult, WorldResult DEF Next, Fault, Inv
  <2> QED BY <2>1, <2>2, <2>3 DEF Inv
<1> QED BY <1>1, <1>2

LEMMA Invariance == Spec => []Inv
BY InvInit, InvStep, PTL DEF Spec

\* Every variable of the gateway keeps its type.
THEOREM TypeCorrect == Spec => []TypeOK
<1>1. Inv => TypeOK
  BY DEF Inv, TypeInv
<1> QED BY <1>1, Invariance, PTL

\* However often an order is asked for, delivered, reclaimed or sent late, and
\* whatever crashes or expires, the broker gets it once at most.
THEOREM Sending == Spec => []SentAtMostOnce
<1>1. Inv => SentAtMostOnce
  BY DEF Inv, SendInv, SentIsKnown, SentAtMostOnce
<1> QED BY <1>1, Invariance, PTL

\* FILLED and PLACED agree with the durable row, and the row with what the
\* broker did, unless the session took another order's event for this order's.
THEOREM Answering == Spec => []SuccessIsDurable
<1>1. Inv => SuccessIsDurable
  BY DEF Inv, ResultInv
<1> QED BY <1>1, Invariance, PTL

-----------------------------------------------------------------------------
(* The order service *)

ServiceStep == [Service!Next]_(Service!serviceVars)

LEMMA SameService ==
    ASSUME sends' = sends, mistaken' = mistaken, outcome' = outcome, told' = told
    PROVE  ServiceStep
BY DEF ServiceStep, Service!serviceVars

LEMMA CallService ==
    ASSUME Inv, Inv', NEW r \in Requests, CallStep(r)
    PROVE  ServiceStep
<1> USE DEF Inv, TypeInv, TypeOK, NotAnswered, ResultInv, SuccessInFlight,
            SuccessIsDurable, Success, Results, callVars, streamVars, brokerVars, taskVars
<1>1. ASSUME cpc[r] # "done", key'[r] \in Keys, answer'[r] \in Results \cup {"RAISED"},
             \A q \in Requests \ {r} : key'[q] = key[q] /\ answer'[q] = answer[q],
             UNCHANGED <<intent, sends, mistaken>>
      PROVE  ServiceStep
  <2>1. told[r] = None
    BY <1>1 DEF told
  <2>2. told' = [told EXCEPT ![r] = [key |-> key'[r], answer |-> answer'[r]]]
    <3>1. answer'[r] # None
      BY <1>1, NoneAssumption
    <3>2. told'[r] = [key |-> key'[r], answer |-> answer'[r]]
      BY <1>1, <3>1, Zenon DEF told
    <3>3. ASSUME NEW q \in Requests \ {r} PROVE told'[q] = told[q]
      BY <1>1, <3>3, Zenon DEF told
    <3>4. told = [q \in Requests |-> told[q]] /\ told' = [q \in Requests |-> told'[q]]
      BY SMT DEF told
    <3> HIDE DEF told
    <3> QED BY <3>2, <3>3, <3>4
  <2>3. answer'[r] \in Success => outcome[key'[r]] = answer'[r]
    BY <1>1 DEF outcome
  <2>4. outcome' = outcome /\ sends' = sends /\ mistaken' = mistaken
    BY <1>1 DEF outcome
  <2>5. Service!Answer(r, key'[r])
    BY <1>1, <2>1, <2>2, <2>3, <2>4 DEF Service!Answer, Service!Answers, Service!Success
  <2> QED BY <1>1, <2>5 DEF ServiceStep, Service!Next
<1>2. ASSUME NEW k \in Keys, Call(r, k) PROVE ServiceStep
  <2>1. told' = told
    BY <1>2 DEF Call, told
  <2> QED BY <1>2, <2>1, SameService DEF Call, outcome
<1>3. ASSUME NEW k \in Keys, CallEnds(r, k) PROVE ServiceStep
  BY <1>1, <1>3 DEF CallEnds
<1>4. CASE Publish(r)
  BY <1>4, SameService DEF Publish, outcome, told
<1>5. CASE PublishRaises(r)
  BY <1>1, <1>5 DEF PublishRaises
<1>6. CASE Answered(r)
  BY <1>1, <1>6 DEF Answered
<1>7. CASE GiveUp(r)
  BY <1>1, <1>7 DEF GiveUp
<1> QED BY <1>2, <1>3, <1>4, <1>5, <1>6, <1>7 DEF CallStep

LEMMA TaskService ==
    ASSUME Inv, NEW g \in Gateways, NEW r \in Requests,
           Deliver(g, r) \/ Reclaim(g, r) \/ TaskStep(g, r) \/ TaskFault(g, r)
    PROVE  ServiceStep
<1> USE DEF callVars, streamVars, brokerVars, taskVars
<1>1. CASE Reserve(g, r)
  <2>1. outcome' = outcome
    BY <1>1 DEF Reserve, Reserves, outcome, Inv, TypeInv, TypeOK, Success
  <2> QED BY <1>1, <2>1, SameService DEF Reserve, told
<1>2. CASE Complete(g, r)
  <2> DEFINE k == key[r]
  <2>1. /\ k \in Keys /\ intent[k] = "reserved" /\ res[g][r] \in Success
        /\ sends[k] = 1 \/ k \in mistaken
    BY <1>2 DEF Complete, Inv, TypeInv, TypeOK, HasResponse, SendInv, ArmedReserved, Armed,
                SentIsKnown, ResultInv, Confirmed, BrokerDid, Success
  <2>2. outcome[k] = None /\ outcome' = [outcome EXCEPT ![k] = res[g][r]]
    BY <1>2, <2>1 DEF Complete, Recorded, outcome, Inv, TypeInv, TypeOK, Success
  <2>3. told' = told /\ sends' = sends /\ mistaken' = mistaken
    BY <1>2 DEF Complete, told
  <2>4. Service!Record(k)
    BY <2>1, <2>2, <2>3 DEF Service!Record, Service!Success, Success
  <2> QED BY <2>1, <2>4 DEF ServiceStep, Service!Next
<1>3. CASE StrayEvent(g, r)
  <2> DEFINE k == key[r]
  <2>1. k \in Keys /\ intent[k] = "reserved"
    BY <1>3 DEF StrayEvent, Inv, TypeInv, TypeOK, SendInv, ArmedReserved, Armed
  <2>2. outcome[k] = None
    BY <2>1 DEF outcome, Success
  <2>3. mistaken' = mistaken \cup {k} /\ sends' = sends /\ outcome' = outcome /\ told' = told
    BY <1>3 DEF StrayEvent, outcome, told
  <2>4. Service!Mistake(k)
    BY <2>2, <2>3 DEF Service!Mistake
  <2> QED BY <2>1, <2>4 DEF ServiceStep, Service!Next
<1>4. CASE ~Reserve(g, r) /\ ~Complete(g, r) /\ ~StrayEvent(g, r)
  <2>1. UNCHANGED <<key, answer, intent, sends, mistaken>>
    BY <1>4 DEF TaskStep, TaskFault, Deliver, Reclaim, ReadDedupe, ClaimDedupe, Deduplicated, WaitEnds, Expired, AlreadyReserved, InTime, Enqueue, Filled, TimedOut, Unanswered, Save, Reply, Ack, FailReply, FailSave, BrokerFails, DatabaseFails, RedisFails, HandlerFails, Goto, Respond
  <2> QED BY <2>1, SameService DEF outcome, told
<1> QED BY <1>1, <1>2, <1>3, <1>4

LEMMA WorldService ==
    ASSUME Inv,
           SessionStep \/ (\E g \in Gateways : Disconnect(g) \/ Crash(g)) \/ \E k \in Keys : DedupeExpires(k)
    PROVE  ServiceStep
<1> USE DEF callVars, streamVars, brokerVars, taskVars
<1>1. ASSUME NEW g \in Gateways, NEW k \in Keys, SenderLoop(g, k) PROVE ServiceStep
  <2>1. k \in outbox[g] /\ sends' = [sends EXCEPT ![k] = sends[k] + 1]
    BY <1>1 DEF SenderLoop
  <2>2. sends[k] = 0
    BY <2>1 DEF Inv, SendInv, QueuedOnce
  <2>3. mistaken' = mistaken /\ outcome' = outcome /\ told' = told
    BY <1>1 DEF SenderLoop, outcome, told
  <2>4. Service!Send(k)
    BY <2>1, <2>2, <2>3 DEF Service!Send
  <2> QED BY <2>4 DEF ServiceStep, Service!Next
<1>2. ASSUME NEW k \in Keys, BrokerDecides(k) PROVE ServiceStep
  BY <1>2, SameService DEF BrokerDecides, outcome, told
<1>3. ASSUME NEW g \in Gateways, Disconnect(g) PROVE ServiceStep
  BY <1>3, SameService DEF Disconnect, outcome, told
<1>4. ASSUME NEW g \in Gateways, Crash(g) PROVE ServiceStep
  BY <1>4, SameService DEF Crash, outcome, told
<1>5. ASSUME NEW k \in Keys, DedupeExpires(k) PROVE ServiceStep
  BY <1>5, SameService DEF DedupeExpires, outcome, told
<1> QED BY <1>1, <1>2, <1>3, <1>4, <1>5 DEF SessionStep

\* The gateway implements the order service: every step of a caller, a task, a
\* session or a failure sends an order, takes another order's event for it,
\* records its outcome, answers one call or changes nothing the callers can tell.
THEOREM Implements == Spec => ServiceSpec
<1>1. Init => Service!Init
  BY NoneAssumption DEF Init, Service!Init, outcome, told, Success, Results
<1>2. Inv /\ Inv' /\ [Next]_vars => [Service!Next]_(Service!serviceVars)
  <2> SUFFICES ASSUME Inv, Inv', [Next]_vars PROVE ServiceStep
    BY DEF ServiceStep
  <2>1. CASE UNCHANGED vars
    BY <2>1, SameService DEF vars, callVars, brokerVars, outcome, told
  <2>2. CASE Next
    BY <2>2, CallService, TaskService, WorldService DEF Next, Fault
  <2> QED BY <2>1, <2>2
<1> QED BY <1>1, <1>2, Invariance, PTL DEF Spec, ServiceSpec, Service!Spec
=============================================================================
