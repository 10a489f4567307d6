--------------------------- MODULE PaymentService ---------------------------
(***************************************************************************)
(* What the checkout promises about an order.  It is granted at most once, *)
(* and only when Razorpay has its money; it is shown as paid from its      *)
(* grant on and never before.  A grant is never taken back.  A paid        *)
(* subscription stays paid.  A paid top-up may be shown as failed and paid *)
(* again by a late call: what the customer is shown is then wrong, what    *)
(* the customer was given is not.                                          *)
(***************************************************************************)
EXTENDS Naturals

CONSTANTS TopUps, Subscriptions

Orders == TopUps \cup Subscriptions

VARIABLES
    money,      \* orders Razorpay has the money of
    shown,      \* per order: the status its customer is shown
    given       \* per order: how often what was bought was given

paymentVars == <<money, shown, given>>

Init ==
    /\ money = {}
    /\ shown = [o \in Orders |-> "CREATED"]
    /\ given = [o \in Orders |-> 0]

Collect(o) ==
    /\ money' = money \cup {o}
    /\ UNCHANGED <<shown, given>>

Give(o) ==
    /\ o \in money /\ given[o] = 0
    /\ given' = [given EXCEPT ![o] = 1]
    /\ shown' = [shown EXCEPT ![o] = "PAID"]
    /\ UNCHANGED money

ShowPaid(o) ==
    /\ given[o] = 1
    /\ shown' = [shown EXCEPT ![o] = "PAID"]
    /\ UNCHANGED <<money, given>>

ShowFailed(o) ==
    /\ shown[o] = "PAID" => o \in TopUps
    /\ shown' = [shown EXCEPT ![o] = "FAILED"]
    /\ UNCHANGED <<money, given>>

Next == \E o \in Orders : Collect(o) \/ Give(o) \/ ShowPaid(o) \/ ShowFailed(o)

Spec == Init /\ [][Next]_paymentVars
=============================================================================
