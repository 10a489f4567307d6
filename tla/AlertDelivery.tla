--------------------------- MODULE AlertDelivery ---------------------------
(***************************************************************************)
(* The outbox of price alerts: a NotificationDelivery row per event and    *)
(* channel, and workers that send them (process_due_deliveries).  Neither  *)
(* Telegram nor Twilio takes an idempotency key, so SENDING is committed   *)
(* before the request and a row left in SENDING is called AMBIGUOUS, never *)
(* sent again.  A request may outlast the time after which another worker  *)
(* takes its row for left.                                                 *)
(***************************************************************************)
EXTENDS Naturals

CONSTANTS
    Deliveries,          \* rows, each an event on a channel
    Senders,             \* alert workers
    MaxDeliveryAttempts  \* MAX_ATTEMPTS

ASSUME DeliveryAssumption == MaxDeliveryAttempts \in Nat \ {0}

VARIABLES
    delivery,    \* status and attempt of each row
    elapsed,     \* of a RETRYING row: next_attempt_at has come; of a SENDING
                 \* row: requested_at is older than the channel's timeout
    sender,      \* where each worker is in its pass
    received     \* history: messages of each row that reached the recipient

deliveryVars == <<delivery, elapsed, sender, received>>

Waiting == {"PENDING", "RETRYING"}
Ended   == {"SENT", "FAILED", "AMBIGUOUS"}
Replies == {"ok", "retry", "refused", "unknown"}

Asleep == [at |-> "idle", todo |-> {}]

DeliveryTypeOK ==
    /\ delivery \in [Deliveries -> [status : Waiting \cup Ended \cup {"SENDING"},
                                    attempt : 0..MaxDeliveryAttempts]]
    /\ elapsed \in [Deliveries -> BOOLEAN]
    /\ sender \in [Senders ->
           [at : {"idle", "marked", "pass"}, todo : SUBSET Deliveries]
           \cup [at : {"sending"}, todo : SUBSET Deliveries, row : Deliveries]
           \cup [at : {"replied"}, todo : SUBSET Deliveries, row : Deliveries, reply : Replies]]
    /\ received \in [Deliveries -> Nat]

\* The evaluator inserts the rows with the event, in its transaction.
DeliveryInit ==
    /\ delivery = [d \in Deliveries |-> [status |-> "PENDING", attempt |-> 0]]
    /\ elapsed = [d \in Deliveries |-> FALSE]
    /\ sender = [w \in Senders |-> Asleep]
    /\ received = [d \in Deliveries |-> 0]

-----------------------------------------------------------------------------
\* next_attempt_at comes, or a request grows older than the timeout.
TimePasses(d) ==
    /\ delivery[d].status \in {"RETRYING", "SENDING"} /\ ~elapsed[d]
    /\ elapsed' = [elapsed EXCEPT ![d] = TRUE]
    /\ UNCHANGED <<delivery, sender, received>>

\* Faulty variant: an interrupted delivery is tried once more.
BadLeft(d) == [delivery[d] EXCEPT !.status = "RETRYING"]

Left(d) == [delivery[d] EXCEPT !.status = "AMBIGUOUS"]

\* _mark_stale_sending_ambiguous, in a transaction of its own.
MarkStale(w) ==
    /\ sender[w].at = "idle"
    /\ delivery' = [d \in Deliveries |->
            IF delivery[d].status = "SENDING" /\ elapsed[d] THEN Left(d) ELSE delivery[d]]
    /\ sender' = [sender EXCEPT ![w].at = "marked"]
    /\ UNCHANGED <<elapsed, received>>

\* The ids of the due rows are read without a lock.
Plan(w) ==
    /\ sender[w].at = "marked"
    /\ sender' = [sender EXCEPT ![w] = [at |-> "pass",
            todo |-> {d \in Deliveries : \/ delivery[d].status = "PENDING"
                                         \/ delivery[d].status = "RETRYING" /\ elapsed[d]}]]
    /\ UNCHANGED <<delivery, elapsed, received>>

\* The row is read again with FOR UPDATE SKIP LOCKED; whether it is due is not
\* asked again, and another worker's backoff may be cut short.
Takeable(d) == delivery[d].status \in Waiting

\* The attempt and SENDING are committed before the provider is called.
Take(w, d) ==
    /\ sender[w].at = "pass" /\ d \in sender[w].todo
    /\ Takeable(d)
    /\ delivery' = [delivery EXCEPT ![d] = [status |-> "SENDING", attempt |-> @.attempt + 1]]
    /\ elapsed' = [elapsed EXCEPT ![d] = FALSE]
    /\ sender' = [sender EXCEPT ![w] =
            [at |-> "sending", todo |-> @.todo \ {d}, row |-> d]]
    /\ UNCHANGED received

PassBy(w, d) ==
    /\ sender[w].at = "pass" /\ d \in sender[w].todo
    /\ ~Takeable(d)
    /\ sender' = [sender EXCEPT ![w].todo = @ \ {d}]
    /\ UNCHANGED <<delivery, elapsed, received>>

\* send_telegram or send_whatsapp: the provider takes the message and says so,
\* or says nothing in time; turns it down for now (429, 5xx, no connection) or
\* for good.  Without a recipient nothing is called.  (A 5xx is taken at its
\* word, as in the code: the message was not accepted.)
Dispatch(w) ==
    /\ sender[w].at = "sending"
    /\ \E reply \in Replies, taken \in BOOLEAN :
        /\ reply = "ok" => taken
        /\ reply \in {"retry", "refused"} => ~taken
        /\ received' = [received EXCEPT ![sender[w].row] = IF taken THEN @ + 1 ELSE @]
        /\ sender' = [sender EXCEPT ![w] =
                [at |-> "replied", todo |-> @.todo, row |-> @.row, reply |-> reply]]
    /\ UNCHANGED <<delivery, elapsed>>

\* Faulty variant: a timeout counts as a failure of the provider.
BadUnknown(reply, attempt) ==
    CASE reply = "ok"      -> "SENT"
      [] reply = "retry" /\ attempt < MaxDeliveryAttempts -> "RETRYING"
      [] OTHER -> "FAILED"

NextStatus(reply, attempt) ==
    CASE reply = "ok"      -> "SENT"
      [] reply = "unknown" -> "AMBIGUOUS"
      [] reply = "retry" /\ attempt < MaxDeliveryAttempts -> "RETRYING"
      [] OTHER -> "FAILED"

\* The outcome is written to the row whatever another worker has made of it:
\* the session's own object still reads SENDING.
Finish(w) ==
    LET d == sender[w].row
    IN  /\ sender[w].at = "replied"
        /\ delivery' = [delivery EXCEPT ![d].status =
            NextStatus(sender[w].reply, delivery[d].attempt)]
        /\ elapsed' = [elapsed EXCEPT ![d] = FALSE]
        /\ sender' = [sender EXCEPT ![w] = [at |-> "pass", todo |-> @.todo]]
        /\ UNCHANGED received

\* The pass is over; or a query fails, or the worker dies, wherever it is.
EndPass(w) ==
    /\ sender[w].at # "idle"
    /\ sender' = [sender EXCEPT ![w] = Asleep]
    /\ UNCHANGED <<delivery, elapsed, received>>

DeliveryNext ==
    \/ \E d \in Deliveries : TimePasses(d)
    \/ \E w \in Senders : \/ MarkStale(w) \/ Plan(w) \/ Dispatch(w) \/ Finish(w) \/ EndPass(w)
                          \/ \E d \in Deliveries : Take(w, d) \/ PassBy(w, d)

DeliverySpec == DeliveryInit /\ [][DeliveryNext]_deliveryVars

-----------------------------------------------------------------------------
(* Properties *)

\* "Replaying can duplicate an alert": a notification reaches its recipient at
\* most once, with workers that die, answer late and share the rows.
NotifiedOnce == \A d \in Deliveries : received[d] <= 1

\* What a row says of its message is true, also when a late answer replaces
\* AMBIGUOUS: SENT arrived; FAILED and a row to be sent again did not.
DeliveryTellsTruth ==
    \A d \in Deliveries :
        /\ delivery[d].status = "SENT" => received[d] = 1
        /\ delivery[d].status \in Waiting \cup {"FAILED"} => received[d] = 0

\* SENT and FAILED are final: no late answer, stale mark or other worker that
\* still has the row in its plan leads from them to another status.
DeliveryIsFinal ==
    [][\A d \in Deliveries :
          delivery[d].status \in {"SENT", "FAILED"} => delivery'[d] = delivery[d]]_deliveryVars

\* The outbox sends and records like the order services: arrival is the sending,
\* SENT the recorded acceptance, AMBIGUOUS and FAILED say nothing of it.
DeliveryService ==
    INSTANCE OrderService WITH
        Keys <- Deliveries, Requests <- {}, None <- "none", sent <- received, mistaken <- {},
        outcome <- [d \in Deliveries |-> IF delivery[d].status = "SENT" THEN "FILLED" ELSE "none"],
        told <- [r \in {} |-> "none"]

DeliveryServiceSpec == DeliveryService!Spec
=============================================================================
