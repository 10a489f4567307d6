-------------------------- MODULE MCBillingPayments --------------------------
(* Instances of BillingPayments for TLC. *)
EXTENDS BillingPayments, TLC

CONSTANTS t, s, TopUpPayments

\* The top-up's payments pay t, the others the subscription s.
MCOrderOf == [x \in Attempts |-> IF x \in TopUpPayments THEN t ELSE s]

\* Requests are interchangeable (safety runs only).
Symmetry == Permutations(Requests)

\* Razorpay misses every answer.  The next-state relation reads due only where a
\* delivery starts, so this keeps every behaviour of the other variables.
Unheard == due \subseteq due'

\* Nobody pays, or asks for, two orders.  An order's row, lock, payments, events
\* and requests are its own, and each property speaks of one order at a time.
Touched == {OrderOf[x] : x \in {y \in Attempts : rz[y] # "created"}}
           \cup {OrderOf[req[p].pay] : p \in {q \in Requests : req[q] # None}}
           \cup {o \in Orders : status[o] # "CREATED"}
OneOrder == \A o, q \in Touched : o = q
=============================================================================
