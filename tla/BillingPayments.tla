--------------------------- MODULE BillingPayments ---------------------------
(***************************************************************************)
(* Razorpay checkout of credit top-ups and subscriptions: the browser's    *)
(* verify and failure calls and the two webhook endpoints, all writing the *)
(* payments row of one order (api/v1/payments.py, api/v1/subscriptions.py).*)
(*                                                                         *)
(* An order is a payments row.  An attempt is a Razorpay payment id: an    *)
(* order may see several, at most one of which takes the money.  Both      *)
(* endpoints keep one log of webhook events, keyed by the attempt.  A grant*)
(* is a committed credit transaction that carries the order's markers, or  *)
(* an activation of its subscription.                                      *)
(***************************************************************************)
EXTENDS Naturals

CONSTANTS
    TopUps,             \* orders of purpose CREDIT_TOPUP
    Subscriptions,      \* orders of purpose SUBSCRIPTION
    Attempts,           \* Razorpay payment ids
    OrderOf,            \* [Attempts -> Orders]
    Endpoints,          \* the webhook URLs configured at Razorpay...
    Subscribed,         \* ...and the events they are configured for
    Requests,           \* concurrent HTTP requests of the API
    None

Orders == TopUps \cup Subscriptions
Events == {"payment.authorized", "payment.captured", "payment.failed"}
Hooks == {"topupWebhook", "subscriptionWebhook"}

Deliveries == [to : Hooks, event : Events, pay : Attempts]
Calls == [to : {"verify", "failure"}, event : {"none"}, pay : Attempts]

ASSUME BillingAssumption ==
    /\ TopUps \cap Subscriptions = {}
    /\ OrderOf \in [Attempts -> Orders]
    /\ Endpoints \subseteq Hooks
    /\ Subscribed \subseteq Events
    /\ None \notin Requests
    /\ None \notin Deliveries \cup Calls

VARIABLES
    rounded,    \* subscription orders whose amount_inr is not the price charged
    status,     \* [Orders -> {"CREATED", "PAID", "FAILED"}], payments.status
    grants,     \* [Orders -> Nat], committed grants of the order
    logged,     \* deliveries with a PROCESSED or IGNORED billing_webhook_events row
    lock,       \* [Orders -> Requests \cup {None}], lock of the payments row
    rz,         \* [Attempts -> state of the payment at Razorpay]
    due,        \* webhook deliveries Razorpay has not seen a 2xx for
    req,        \* [Requests -> what the request asks, or None]
    pc,         \* [Requests -> where the request is]
    seen        \* [Requests -> the status its session read]

rowVars == <<status, grants, logged>>
reqVars == <<req, pc, seen>>
vars == <<rounded, rowVars, lock, rz, due, reqVars>>

TypeOK ==
    /\ rounded \subseteq Subscriptions
    /\ status \in [Orders -> {"CREATED", "PAID", "FAILED"}]
    /\ grants \in [Orders -> Nat]
    /\ logged \subseteq Deliveries
    /\ lock \in [Orders -> Requests \cup {None}]
    /\ rz \in [Attempts -> {"created", "authorized", "captured", "failed"}]
    /\ due \subseteq Deliveries
    /\ req \in [Requests -> Deliveries \cup Calls \cup {None}]
    /\ pc \in [Requests -> {"idle", "start", "wait", "locked", "failing"}]
    /\ \A p \in Requests : pc[p] # "idle" => req[p] # None
    /\ seen \in [Requests -> {"CREATED", "PAID", "FAILED"}]

\* A price that is not whole rupees is rounded when the order is created.
Init ==
    /\ rounded \in SUBSET Subscriptions
    /\ status = [o \in Orders |-> "CREATED"]
    /\ grants = [o \in Orders |-> 0]
    /\ logged = {}
    /\ lock = [o \in Orders |-> None]
    /\ rz = [a \in Attempts |-> "created"]
    /\ due = {}
    /\ req = [p \in Requests |-> None]
    /\ pc = [p \in Requests |-> "idle"]
    /\ seen = [p \in Requests |-> "CREATED"]

-----------------------------------------------------------------------------
(* Faulty variants, for testing the properties.                             *)

BadPaid(p) == seen[p] # "CREATED"           \* FAILED taken for final
BadAlreadyGranted(o) == FALSE               \* no look at the ledger
BadHearing(p, event) == pc[p] = "locked" /\ req[p].to \in Hooks  \* any event

\* The body of the request forgotten.
BadOpen(p, r) ==
    /\ pc[p] = "idle"
    /\ pc' = [pc EXCEPT ![p] = "start"]
    /\ UNCHANGED <<rounded, rowVars, lock, rz, due, req, seen>>

-----------------------------------------------------------------------------
(* Razorpay: an order accepts one payment; an event goes to every endpoint. *)

Unpaid(a) == \A b \in Attempts :
    OrderOf[b] = OrderOf[a] => rz[b] \notin {"authorized", "captured"}

Moves(a, state, event) ==
    /\ rz' = [rz EXCEPT ![a] = state]
    /\ due' = due \cup {d \in Deliveries :
                 d.to \in Endpoints /\ d.event = event /\ event \in Subscribed /\ d.pay = a}
    /\ UNCHANGED <<rounded, rowVars, lock, reqVars>>

Authorize(a) ==
    /\ rz[a] = "created" /\ Unpaid(a)
    /\ Moves(a, "authorized", "payment.authorized")

Decline(a) ==
    /\ rz[a] = "created"
    /\ Moves(a, "failed", "payment.failed")

\* Orders are created with payment_capture = 1.  A payment reported as failed
\* may still be captured, when the bank answers late.
Capture(a) ==
    /\ rz[a] = "authorized" \/ (rz[a] = "failed" /\ Unpaid(a))
    /\ Moves(a, "captured", "payment.captured")

-----------------------------------------------------------------------------
(* Requests *)

Open(p, r) ==
    /\ pc[p] = "idle"
    /\ req' = [req EXCEPT ![p] = r]
    /\ pc' = [pc EXCEPT ![p] = "start"]
    /\ UNCHANGED <<rounded, rowVars, lock, rz, due, seen>>

\* The checkout's handler runs once the payment went through; the page may
\* call it again.
Verify(p, a) ==
    /\ rz[a] \in {"authorized", "captured"}
    /\ Open(p, [to |-> "verify", event |-> "none", pay |-> a])

\* The checkout is dismissed, or reports a failed payment, at any time.
Failure(p, a) == Open(p, [to |-> "failure", event |-> "none", pay |-> a])

Deliver(p, d) == d \in due /\ Open(p, d)

Order(p) == OrderOf[req[p].pay]

\* The request's transaction ends, by commit or rollback.
Close(p) ==
    /\ pc' = [pc EXCEPT ![p] = "idle"]
    /\ req' = [req EXCEPT ![p] = None]
    /\ seen' = [seen EXCEPT ![p] = "CREATED"]
    /\ lock' = [o \in Orders |-> IF lock[o] = p THEN None ELSE lock[o]]
    /\ UNCHANGED <<rounded, rz>>

\* A webhook is answered with a 2xx, which Razorpay may not receive.
Answer(p) ==
    /\ Close(p)
    /\ due' \in {due, due \ {req[p]}}

Respond(p) == Close(p) /\ UNCHANGED due

\* The request fails before its commit: nothing is written, no 2xx is sent.
Lost(p) ==
    /\ pc[p] # "idle"
    /\ Respond(p)
    /\ UNCHANGED rowVars

Goto(p, step) ==
    /\ pc' = [pc EXCEPT ![p] = step]
    /\ UNCHANGED <<rounded, rowVars, rz, due, req>>

-----------------------------------------------------------------------------
(* Before the row is locked *)

Supported(p) == req[p].event \in {"payment.captured", "payment.failed"}

\* _find_processed_webhook_event: only the top-up webhook asks.
Duplicate(p) == req[p].to = "topupWebhook" /\ \E d \in logged : d.pay = req[p].pay

Log(p) == logged' = logged \cup {req[p]}

WebhookDuplicate(p) ==
    /\ pc[p] = "start" /\ Duplicate(p)
    /\ Answer(p)
    /\ UNCHANGED rowVars

WebhookUnsupported(p) ==
    /\ pc[p] = "start" /\ req[p].to \in Hooks
    /\ ~Duplicate(p) /\ ~Supported(p)
    /\ Log(p) /\ Answer(p)
    /\ UNCHANGED <<status, grants>>

\* The order is looked up by its purpose.
Own(p) == Order(p) \in (IF req[p].to = "topupWebhook" THEN TopUps ELSE Subscriptions)

WebhookPasses(p) ==
    /\ pc[p] = "start" /\ req[p].to \in Hooks
    /\ ~Duplicate(p) /\ Supported(p)
    /\ Goto(p, "wait")
    /\ UNCHANGED <<lock, seen>>

WebhookNotFound(p) ==
    /\ pc[p] = "wait" /\ ~Own(p)
    /\ Log(p) /\ Answer(p)
    /\ UNCHANGED <<status, grants>>

\* SELECT ... FOR UPDATE on the payments row.  The failure call of a top-up
\* does without it.
LocksRow(p) ==
    \/ pc[p] = "wait" /\ Own(p)
    \/ pc[p] = "start" /\ req[p].to = "verify"
    \/ pc[p] = "start" /\ req[p].to = "failure" /\ Order(p) \in Subscriptions

Lock(p) ==
    /\ LocksRow(p)
    /\ lock[Order(p)] = None
    /\ lock' = [lock EXCEPT ![Order(p)] = p]
    /\ seen' = [seen EXCEPT ![p] = status[Order(p)]]
    /\ Goto(p, "locked")

-----------------------------------------------------------------------------
(* The decision on the locked row, and its commit *)

Paid(p) == seen[p] = "PAID"

SetStatus(p, s) == status' = [status EXCEPT ![Order(p)] = s]

Grant(p) == grants' = [grants EXCEPT ![Order(p)] = @ + 1]

\* _has_credit_grant_for_payment: the subscription endpoints do not ask.
AlreadyGranted(o) == o \in TopUps /\ grants[o] > 0

\* What verify accepts of the payment it fetches from Razorpay.
Accepted(p) ==
    \/ rz[req[p].pay] = "captured"
    \/ rz[req[p].pay] = "authorized" /\ Order(p) \in TopUps

Verifying(p) == pc[p] = "locked" /\ req[p].to = "verify"

VerifyPaid(p) ==
    /\ Verifying(p) /\ Paid(p)
    /\ Respond(p)
    /\ UNCHANGED rowVars

VerifyRefused(p) ==
    /\ Verifying(p) /\ ~Paid(p) /\ ~Accepted(p)
    /\ SetStatus(p, "FAILED")
    /\ Respond(p)
    /\ UNCHANGED <<grants, logged>>

VerifyPays(p) ==
    /\ Verifying(p) /\ ~Paid(p) /\ Accepted(p)
    /\ SetStatus(p, "PAID")
    /\ IF AlreadyGranted(Order(p)) THEN UNCHANGED grants ELSE Grant(p)
    /\ Respond(p)
    /\ UNCHANGED logged

Hearing(p, event) == pc[p] = "locked" /\ req[p].to \in Hooks /\ req[p].event = event

WebhookPaid(p) ==
    /\ Hearing(p, "payment.captured") /\ Paid(p)
    /\ Log(p) /\ Answer(p)
    /\ UNCHANGED <<status, grants>>

WebhookCaptured(p) ==
    /\ Hearing(p, "payment.captured") /\ ~Paid(p) /\ Order(p) \in TopUps
    /\ SetStatus(p, "PAID")
    /\ IF AlreadyGranted(Order(p)) THEN UNCHANGED grants ELSE Grant(p)
    /\ Log(p) /\ Answer(p)

\* The subscription webhook compares paise with the rounded rupees; the event is
\* recorded as FAILED, which is not a duplicate later.
WebhookMismatch(p) ==
    /\ Hearing(p, "payment.captured") /\ ~Paid(p) /\ Order(p) \in rounded
    /\ SetStatus(p, "FAILED")
    /\ Answer(p)
    /\ UNCHANGED <<grants, logged>>

\* Otherwise it marks the order PAID and activates the subscription, but then
\* reads a name it never set: NameError, no commit, no 2xx.
WebhookRaises(p) ==
    /\ Hearing(p, "payment.captured") /\ ~Paid(p)
    /\ Order(p) \in Subscriptions \ rounded
    /\ Respond(p)
    /\ UNCHANGED rowVars

\* Faulty variant: a late payment.failed shows a paid order as failed.
BadWebhookFailed(p) ==
    /\ Hearing(p, "payment.failed")
    /\ SetStatus(p, "FAILED")
    /\ Log(p) /\ Answer(p)
    /\ UNCHANGED grants

WebhookFailed(p) ==
    /\ Hearing(p, "payment.failed")
    /\ IF Paid(p) THEN UNCHANGED status ELSE SetStatus(p, "FAILED")
    /\ Log(p) /\ Answer(p)
    /\ UNCHANGED grants

\* mark_subscription_payment_failure decides on the locked row...
FailureLocked(p) ==
    /\ pc[p] = "locked" /\ req[p].to = "failure"
    /\ IF Paid(p) THEN UNCHANGED status ELSE SetStatus(p, "FAILED")
    /\ Respond(p)
    /\ UNCHANGED <<grants, logged>>

\* ...mark_payment_failure on what it read without a lock.  Its UPDATE waits
\* for the row and sets the status, unless the session read FAILED already.
FailureReads(p) ==
    /\ pc[p] = "start" /\ req[p].to = "failure" /\ Order(p) \in TopUps
    /\ seen' = [seen EXCEPT ![p] = status[Order(p)]]
    /\ Goto(p, "failing")
    /\ UNCHANGED lock

FailureWrites(p) ==
    /\ pc[p] = "failing"
    /\ IF seen[p] = "CREATED"
       THEN lock[Order(p)] = None /\ SetStatus(p, "FAILED")
       ELSE UNCHANGED status
    /\ Respond(p)
    /\ UNCHANGED <<grants, logged>>

-----------------------------------------------------------------------------
WebhookStep(p) ==
    \/ WebhookDuplicate(p) \/ WebhookUnsupported(p) \/ WebhookPasses(p)
    \/ WebhookNotFound(p) \/ WebhookPaid(p) \/ WebhookCaptured(p)
    \/ WebhookMismatch(p) \/ WebhookRaises(p) \/ WebhookFailed(p)

CallStep(p) ==
    \/ VerifyPaid(p) \/ VerifyRefused(p) \/ VerifyPays(p)
    \/ FailureReads(p) \/ FailureWrites(p) \/ FailureLocked(p)

Step(p) == Lock(p) \/ WebhookStep(p) \/ CallStep(p)

Customer(p) == \E a \in Attempts : Verify(p, a) \/ Failure(p, a)

Razorpay == \E a \in Attempts : Authorize(a) \/ Decline(a) \/ Capture(a)

NoneLost ==
    \/ Razorpay
    \/ \E p \in Requests :
          Customer(p) \/ Step(p) \/ \E d \in Deliveries : Deliver(p, d)

Next == NoneLost \/ \E p \in Requests : Lost(p)

Spec == Init /\ [][Next]_vars

\* When no request is lost: the API finishes what it started, and Razorpay
\* repeats a webhook until it is answered, so an unanswered delivery finds a
\* free request again and again.
Fairness ==
    /\ \A p \in Requests : SF_vars(Lock(p)) /\ WF_vars(WebhookStep(p) \/ CallStep(p))
    /\ \A d \in Deliveries : SF_vars(\E p \in Requests : Deliver(p, d))

LiveSpec == Init /\ [][NoneLost]_vars /\ Fairness
-----------------------------------------------------------------------------
(* Properties *)

\* An order is paid out once: although the failure call may un-pay a paid
\* top-up behind a lock, and verify and the webhooks then pay it again.
GrantedOnce == \A o \in Orders : grants[o] <= 1

\* A paid order got what was bought: PAID and the grant are one commit.
PaidIsGranted == \A o \in Orders : status[o] = "PAID" => grants[o] > 0

\* Razorpay has the money; of a top-up verify takes an authorization for it.
HasMoney(o) == \E a \in Attempts : OrderOf[a] = o /\
    (rz[a] = "captured" \/ (rz[a] = "authorized" /\ o \in TopUps))

\* Nothing is granted before Razorpay has the money, whatever events come when.
GrantWasPaid == \A o \in Orders : grants[o] > 0 => HasMoney(o)

\* The top-up webhook logs a capture only once its order was granted: a logged
\* capture is answered as a duplicate for ever after.
LoggedIsGranted == \A d \in logged :
    d.to = "topupWebhook" /\ d.event = "payment.captured" /\ OrderOf[d.pay] \in TopUps
        => grants[OrderOf[d.pay]] > 0

\* _find_processed_webhook_event "Return[s] a previously handled Razorpay webhook
\* event": a capture answered as a duplicate has been paid out before.
DuplicateWasGranted == [][\A p \in Requests :
    WebhookDuplicate(p) /\ req[p].event = "payment.captured" /\ Order(p) \in TopUps
        => grants[Order(p)] > 0]_vars

\* What every step of the checkout does to an order its customer was promised:
\* granted once and for its money, shown as paid from then on, and a
\* subscription for ever, however the calls and the events of its payments
\* overtake each other.
Payments == INSTANCE PaymentService
    WITH money <- {o \in Orders : HasMoney(o)}, shown <- status, given <- grants

PaymentServiceSpec == Payments!Spec

\* A captured subscription is activated by its webhook, as the handler's answer
\* "Subscription payment processed" says.
SubscriptionIsActivated == \A a \in Attempts : OrderOf[a] \in Subscriptions =>
    (rz[a] = "captured" ~> grants[OrderOf[a]] > 0)
=============================================================================
