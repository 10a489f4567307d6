------------------------------- MODULE MCOrders -------------------------------
(* The two queues of orders to a broker, the cTrader gateway and the MT5      *)
(* commands, side by side: in a behaviour one of them moves.                  *)
EXTENDS CTraderGateway, Mt5Commands, TLC

VARIABLE part   \* the queue that moves

\* Callers are interchangeable, and so are the handlers of a poll; one queue
\* moves, so that all pairs are exchanged at once.
Pairs == {Requests, Callers, Polls}

Symmetry == {f \in Permutations(UNION Pairs) :
                 \/ \A w \in UNION Pairs : f[w] = w
                 \/ \A S \in Pairs : \A w \in S : f[w] \in S \ {w}}

OrdersInit == part \in {"gateway", "mt5"} /\ Init /\ Mt5Init

OrdersNext ==
    /\ \/ part = "gateway" /\ Next /\ UNCHANGED mt5Vars
       \/ part = "mt5" /\ Mt5Next /\ UNCHANGED vars
    /\ UNCHANGED part

OrdersSpec == OrdersInit /\ [][OrdersNext]_<<vars, mt5Vars, part>>

\* The types of both queues.
OrdersTypeOK == TypeOK /\ Mt5TypeOK

\* What tells two states apart: the other queue stays where it starts.
Moving == <<part, IF part = "gateway" THEN vars ELSE mt5Vars>>
===============================================================================
