---------------------------- MODULE OrderService ----------------------------
(***************************************************************************)
(* What the cTrader order gateway promises its callers.  An order is named *)
(* by its idempotency key.  It goes to the broker at most once, whoever    *)
(* asks for it and however often; a call that is told it was accepted or   *)
(* filled is told what the broker did, and no two calls are told different *)
(* things.  A call that is told anything else has learned nothing: FAILED, *)
(* PENDING and SKIPPED are said of orders that the broker has, too.  A     *)
(* service that takes what happened to another order for an answer to this *)
(* one counts it as mistaken: of such an order an acceptance says nothing, *)
(* not even that it was sent.                                              *)
(***************************************************************************)
EXTENDS Naturals

CONSTANTS Keys, Requests, None

Success == {"FILLED", "PLACED"}
Answers == Success \cup {"FAILED", "PENDING", "SKIPPED", "RAISED"}

VARIABLES
    sent,      \* per key: how often its order went to the broker
    mistaken,  \* the keys for which another order's answer was taken
    outcome,   \* per key: the acceptance that was recorded, or None
    told       \* per request: None, or the key it was for and its answer

serviceVars == <<sent, mistaken, outcome, told>>

Init ==
    /\ sent = [k \in Keys |-> 0]
    /\ mistaken = {}
    /\ outcome = [k \in Keys |-> None]
    /\ told = [r \in Requests |-> None]

Send(k) ==
    /\ sent[k] = 0
    /\ sent' = [sent EXCEPT ![k] = 1]
    /\ UNCHANGED <<mistaken, outcome, told>>

Mistake(k) ==
    /\ outcome[k] = None
    /\ mistaken' = mistaken \cup {k}
    /\ UNCHANGED <<sent, outcome, told>>

Record(k) ==
    /\ sent[k] = 1 \/ k \in mistaken
    /\ outcome[k] = None
    /\ \E s \in Success : outcome' = [outcome EXCEPT ![k] = s]
    /\ UNCHANGED <<sent, mistaken, told>>

Answer(r, k) ==
    /\ told[r] = None
    /\ \E a \in Answers :
        /\ a \in Success => outcome[k] = a
        /\ told' = [told EXCEPT ![r] = [key |-> k, answer |-> a]]
    /\ UNCHANGED <<sent, mistaken, outcome>>

Next ==
    \/ \E k \in Keys : Send(k) \/ Mistake(k) \/ Record(k)
    \/ \E r \in Requests, k \in Keys : Answer(r, k)

Spec == Init /\ [][Next]_serviceVars
=============================================================================
